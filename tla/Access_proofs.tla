---------------------------- MODULE Access_proofs ---------------------------
(* Proofs about who may log in, for every table, every set of operators,   *)
(* commands, kinds and clients, and whatever fails.                        *)
EXTENDS Access, Login_proofs, FiniteSetTheorems

\* The types, part by part.  The bound of versions needs more (Numbered).
TypedTable ==
    /\ table \in [Ids -> [data : Data, version : Nat]]
    /\ replica \in [Ids -> [data : Data, version : Nat]]
    /\ had \in [Ids -> SUBSET Data]

TypedCli ==
    /\ phase \in [Operators -> {"idle", "get", "version", "put", "delete"}]
    /\ command \in [Operators -> Commands \cup {NoCommand}]
    /\ next \in [Operators -> [data : Data, version : Nat]]
    /\ commands \in 0..MaxCommands /\ issued \subseteq Ids /\ dirty \subseteq Operators

TypedSnap ==
    /\ current \in [Served -> [Ids -> Data \ {Corrupt}]] /\ got \in [Served -> [Ids -> Data]]
    /\ \A k \in Served, i \in Ids : Kind[i] # k => current[k][i] = Absent /\ got[k][i] = Absent
    /\ up \subseteq Served /\ loading \subseteq Served
    /\ toRead \in [Served -> SUBSET Ids] /\ \A k \in Served : toRead[k] \subseteq Of(k)

TypedAuth ==
    /\ session \in [Clients -> {"out", "in"}] /\ age \in [Clients -> 0..TTL]
    /\ wants \in [Clients -> {"nothing", "delta", "token"}] /\ since \in [Clients -> 0..TTL]

\* What an operator at work has: a command that its step is of.
Working(o) ==
    phase[o] # "idle" =>
        /\ command[o] \in Commands
        /\ phase[o] = "get" => command[o].verb \notin {"generate", "rm"}
        /\ phase[o] \in {"version", "put"} => command[o].verb # "rm" /\ next[o].data \in Entities
        /\ phase[o] = "delete" => command[o].verb = "rm"

Typed ==
    /\ TypedTable /\ TypedCli /\ TypedSnap /\ TypedAuth /\ faults \in 0..MaxFaults
    /\ \A o \in Operators : Working(o)

-----------------------------------------------------------------------------
LEMMA DataFacts ==
    /\ Absent \in Data /\ Corrupt \in Data /\ Absent # Corrupt /\ Fresh \in Entities
    /\ Refused \notin Data /\ NoRow = [data |-> Absent, version |-> 0]
    /\ Absent \notin Entities /\ Corrupt \notin Entities
    /\ Entities \subseteq Data /\ Absent \in Data \ {Corrupt}
  BY AccessAssumption DEF Data, Absent, Corrupt, Entities, Fresh, Refused, NoRow, Row

(* An item that is spoilt does not parse (approle/store.go:36).            *)
LEMMA CorruptUnparsed == \A i \in Ids : <<i, Corrupt>> \notin Parses
  <1> SUFFICES ASSUME NEW i \in Ids, <<i, Corrupt>> \in Parses PROVE FALSE
    OBVIOUS
  <1>1. parse(Kind[i], <<part(i, Corrupt)>>).ok
    <2>1. PICK x \in Ids \X Data : /\ x[2] = Absent \/ parse(Kind[x[1]], <<part(x[1], x[2])>>).ok
                                   /\ x = <<i, Corrupt>>
      BY DEF Parses
    <2>2. QED BY <2>1, DataFacts
  <1>2. part(i, Corrupt).status = "corrupt"
    BY DEF part, Corrupt, NoPart
  <1>3. ~decodes(<<part(i, Corrupt)>>)
    BY <1>2 DEF decodes
  <1>4. QED BY <1>1, <1>3 DEF parse, ParseRoles, ParseARNs, ParseUsers, NotParsed

(* Of a command that reads first: what it makes of an item is an entity, if *)
(* it is not refused.                                                      *)
LEMMA MergedEntity ==
    ASSUME NEW c \in Commands, c.verb \notin {"generate", "rm"}, NEW d \in Data,
           merged(c, d) # Refused
    PROVE  merged(c, d) \in Entities
  <1>1. /\ c.id \in Ids /\ Kind[c.id] \in {"app_role", "basic_auth", "arn_map", "prefix_config"}
        /\ c.field \in {"secret", "status"}
        /\ c.field = "secret" => c.to \in Secrets /\ Kind[c.id] \in {"app_role", "basic_auth"}
        /\ c.field = "status" => c.to \in {"active", "disabled"}
        /\ Kind[c.id] = "app_role" => c.field = "secret"
    BY AccessAssumption
  <1>2. d \notin {Absent, Corrupt} => d \in Entities
    BY DEF Data
  <1>3. Fresh \in Entities
    BY DataFacts
  <1>4. \A e \in Entities, s \in Secrets :
            /\ [e EXCEPT !.secrets = {s}] \in Entities /\ [e EXCEPT !.secrets = @ \cup {s}] \in Entities
    BY DEF Entities
  <1>5. \A e \in Entities, x \in {"active", "disabled"} : [e EXCEPT !.status = x] \in Entities
    BY DEF Entities
  <1>6. CASE Kind[c.id] = "app_role"
    <2>1. merged(c, d) = rotated(c, d)
      BY <1>6 DEF merged
    <2>2. d \in Entities /\ merged(c, d) = [d EXCEPT !.secrets = @ \cup {c.to}]
      BY <1>2, <2>1 DEF rotated
    <2>3. QED BY <1>1, <1>4, <1>6, <2>2
  <1>7. CASE Kind[c.id] = "basic_auth"
    <2>1. merged(c, d) = userUpserted(c, d)
      BY <1>7 DEF merged
    <2> DEFINE base == IF d \in {Absent, Corrupt} THEN Fresh ELSE d
    <2>2. base \in Entities
      BY <1>2, <1>3
    <2>3. CASE c.field = "secret"
      <3>1. merged(c, d) = [base EXCEPT !.secrets = {c.to}]
        BY <2>1, <2>3 DEF userUpserted
      <3> HIDE DEF base
      <3>2. QED BY <1>1, <1>4, <2>2, <2>3, <3>1
    <2>4. CASE c.field = "status"
      <3>1. merged(c, d) = [base EXCEPT !.status = c.to]
        BY <2>1, <2>4 DEF userUpserted
      <3> HIDE DEF base
      <3>2. QED BY <1>1, <1>5, <2>2, <2>4, <3>1
    <2>5. QED BY <1>1, <2>3, <2>4
  <1>8. CASE Kind[c.id] = "arn_map"
    <2>1. merged(c, d) = arnUpserted(c, d)
      BY <1>8 DEF merged
    <2>2. c.field = "status"
      BY <1>1, <1>8
    <2> DEFINE base == IF d \in {Absent, Corrupt} THEN Fresh ELSE d
    <2>3. base \in Entities /\ merged(c, d) = [base EXCEPT !.status = c.to]
      BY <1>2, <1>3, <2>1 DEF arnUpserted
    <2> HIDE DEF base
    <2>4. QED BY <1>1, <1>5, <2>2, <2>3
  <1>9. CASE Kind[c.id] = "prefix_config"
    <2>1. merged(c, d) = prefixUpserted(c, d)
      BY <1>9 DEF merged
    <2>2. c.field = "status"
      BY <1>1, <1>9
    <2> DEFINE base == IF d = Absent THEN Fresh ELSE d
    <2>3. base \in Entities /\ merged(c, d) = [base EXCEPT !.status = c.to]
      BY <1>2, <1>3, <2>1 DEF prefixUpserted
    <2> HIDE DEF base
    <2>4. QED BY <1>1, <1>5, <2>2, <2>3
  <1>10. QED BY <1>1, <1>6, <1>7, <1>8, <1>9

LEMMA ConstantFacts ==
    /\ TTL \in Nat /\ TTL > 0 /\ MaxCommands \in Nat /\ MaxFaults \in Nat
    /\ Kind \in [Ids -> Kinds] /\ Stored \in [Ids -> Entities \cup {Absent}]
    /\ \A c \in Commands : c.id \in Ids
  <1>1. TTL \in Nat /\ TTL > 0
    <2>1. TTL \in Nat \ {0}
      BY LoginAssumption
    <2>2. QED BY <2>1
  <1>2. QED BY <1>1, AccessAssumption

LEMMA TypedInit == Init => Typed
  <1> SUFFICES ASSUME Init PROVE Typed
    OBVIOUS
  <1> USE DataFacts, ConstantFacts
  <1>1. TypedTable
    <2>1. table \in [Ids -> [data : Data, version : Nat]]
      BY DEF Init, Row, Data
    <2>2. QED BY <2>1 DEF Init, TypedTable
  <1>2. TypedCli
    BY DEF Init, TypedCli
  <1>3. TypedSnap
    BY DEF Init, TypedSnap, Nothing
  <1>4. TypedAuth
    BY DEF Init, TypedAuth
  <1>5. \A o \in Operators : Working(o)
    BY DEF Init, Working
  <1>6. QED BY <1>1, <1>2, <1>3, <1>4, <1>5 DEF Init, Typed

-----------------------------------------------------------------------------
(* The table and nbox-cli.                                                 *)

LEMMA WriteTyped ==
    ASSUME TypedTable, NEW i \in Ids, NEW row \in [data : Data, version : Nat], Write(i, row)
    PROVE  TypedTable'
  <1>1. row.data \in Data
    OBVIOUS
  <1>2. QED BY <1>1 DEF TypedTable, Write

(* A row that is read has a type.                                          *)
LEMMA SeenTyped ==
    ASSUME TypedTable, NEW i \in Ids, NEW row \in Seen(i)
    PROVE  row \in [data : Data, version : Nat] /\ row.data \in Data /\ row.version \in Nat
  <1>1. row \in [data : Data, version : Nat]
    BY DEF TypedTable, Seen
  <1>2. QED BY <1>1

(* An operator at work has an item.                                        *)
LEMMA WorkingItem ==
    ASSUME TypedCli, NEW o \in Operators, Working(o), phase[o] # "idle"
    PROVE  command[o] \in Commands /\ command[o].id \in Ids
  BY ConstantFacts DEF Working

LEMMA ReturnTyped ==
    ASSUME TypedCli, \A p \in Operators : Working(p), NEW o \in Operators, CliReturn(o),
           UNCHANGED <<commands, issued>>, dirty' \subseteq Operators
    PROVE  TypedCli' /\ \A p \in Operators : Working(p)'
  <1>1. NoRow \in [data : Data, version : Nat]
    BY DataFacts
  <1>2. TypedCli'
    BY <1>1 DEF TypedCli, CliReturn
  <1>3. ASSUME NEW p \in Operators PROVE Working(p)'
    <2>1. Working(p) /\ (p = o => phase'[p] = "idle")
      BY DEF TypedCli, CliReturn
    <2>2. p # o => phase'[p] = phase[p] /\ command'[p] = command[p] /\ next'[p] = next[p]
      BY DEF TypedCli, CliReturn
    <2>3. QED BY <2>1, <2>2 DEF Working
  <1>4. QED BY <1>2, <1>3

LEMMA OthersAre == \A o, i : others(o, i) \subseteq Operators
  BY DEF others

LEMMA TypedBegin ==
    ASSUME Typed, NEW o \in Operators, NEW c \in Commands, Begin(o, c)
    PROVE  Typed'
  <1>1. TypedTable' /\ TypedSnap' /\ TypedAuth' /\ faults' \in 0..MaxFaults
    BY DEF Typed, TypedTable, TypedSnap, TypedAuth, Begin, tableVars, snapVars, authVars
  <1>2. c.id \in Ids /\ (c.verb = "generate" => generated(c) \in Entities)
    <2>1. c.id \in Ids
      BY ConstantFacts
    <2>2. c.verb = "generate" => c.to \in Secrets
      BY AccessAssumption
    <2>3. QED BY <2>1, <2>2, DataFacts DEF generated, Entities
  <1> DEFINE d == IF c.verb = "generate" THEN generated(c) ELSE Absent
  <1>3. d \in Data /\ (c.verb = "generate" => d \in Entities)
    BY <1>2, DataFacts
  <1>4. /\ phase' = [phase EXCEPT ![o] = starts(c)] /\ command' = [command EXCEPT ![o] = c]
        /\ next' = [next EXCEPT ![o].data = d]
    BY DEF Begin
  <1> HIDE DEF d
  <1>5. starts(c) \in {"version", "delete", "get"} /\ (starts(c) = "version" <=> c.verb = "generate")
        /\ (starts(c) = "delete" <=> c.verb = "rm")
    BY DEF starts
  <1>6. next' \in [Operators -> [data : Data, version : Nat]]
        /\ next'[o].data = d /\ \A p \in Operators \ {o} : next'[p] = next[p]
    BY <1>3, <1>4 DEF Typed, TypedCli
  <1>7. commands' \in 0..MaxCommands /\ issued' \subseteq Ids /\ dirty' \subseteq Operators
    <2>1. commands' \in 0..MaxCommands
      BY ConstantFacts DEF Typed, TypedCli, Begin
    <2>2. QED BY <1>2, <2>1 DEF Typed, TypedCli, Begin
  <1>8. TypedCli'
    BY <1>4, <1>5, <1>6, <1>7 DEF Typed, TypedCli
  <1>9. ASSUME NEW p \in Operators PROVE Working(p)'
    <2>1. CASE p = o
      <3>1. phase'[o] = starts(c) /\ command'[o] = c
        BY <1>4 DEF Typed, TypedCli
      <3>2. QED BY <1>3, <1>5, <1>6, <2>1, <3>1 DEF Working
    <2>2. CASE p # o
      <3>1. phase'[p] = phase[p] /\ command'[p] = command[p] /\ next'[p] = next[p]
        BY <1>4, <1>6, <2>2 DEF Typed, TypedCli
      <3>2. QED BY <3>1 DEF Typed, Working
    <2>3. QED BY <2>1, <2>2
  <1>10. QED BY <1>1, <1>8, <1>9 DEF Typed

(* The two reads of a command.                                             *)
LEMMA TypedGets ==
    ASSUME Typed, NEW o \in Operators, GetCurrent(o) \/ GetVersion(o)
    PROVE  Typed'
  <1>1. TypedTable' /\ TypedSnap' /\ TypedAuth' /\ faults' \in 0..MaxFaults
    <2>1. UNCHANGED <<tableVars, snapVars, authVars, had>> /\ (faults' = faults \/ Fault("get"))
      BY DEF GetCurrent, GetVersion
    <2>2. faults' \in 0..MaxFaults
      BY <2>1, ConstantFacts DEF Typed, Fault
    <2>3. QED BY <2>1, <2>2 DEF Typed, TypedTable, TypedSnap, TypedAuth, tableVars, snapVars, authVars
  <1>2. phase[o] # "idle" /\ command[o] \in Commands /\ command[o].id \in Ids
    BY WorkingItem DEF Typed, GetCurrent, GetVersion
  <1>3. CASE GetCurrent(o)
    <2>1. phase[o] = "get" /\ command[o].verb \notin {"generate", "rm"}
      BY <1>2, <1>3 DEF Typed, Working, GetCurrent
    <2>2. UNCHANGED <<commands, issued>> /\ dirty' \subseteq Operators
      BY <1>3 DEF GetCurrent, Typed, TypedCli
    <2>3. CASE CliReturn(o)
      BY <1>1, <2>2, <2>3, ReturnTyped DEF Typed
    <2>4. CASE ~CliReturn(o)
      <3>1. PICK row \in Seen(command[o].id) :
               /\ merged(command[o], row.data) # Refused
               /\ phase' = [phase EXCEPT ![o] = "version"]
               /\ next' = [next EXCEPT ![o].data = merged(command[o], row.data)]
               /\ UNCHANGED command
        BY <1>3, <2>4 DEF GetCurrent
      <3>2. row.data \in Data
        BY <1>2, SeenTyped DEF Typed
      <3> DEFINE d == merged(command[o], row.data)
      <3>3. d \in Entities /\ d \in Data
        BY <1>2, <2>1, <3>1, <3>2, MergedEntity, DataFacts
      <3>4. next' = [next EXCEPT ![o].data = d]
        BY <3>1
      <3> HIDE DEF d
      <3>5. next' \in [Operators -> [data : Data, version : Nat]]
            /\ next'[o].data = d /\ \A p \in Operators \ {o} : next'[p] = next[p]
        BY <3>3, <3>4 DEF Typed, TypedCli
      <3>6. TypedCli'
        BY <2>2, <3>1, <3>5 DEF Typed, TypedCli
      <3>7. ASSUME NEW p \in Operators PROVE Working(p)'
        <4>1. CASE p = o
          <5>1. phase'[o] = "version" /\ command'[o] = command[o]
            BY <3>1 DEF Typed, TypedCli
          <5>2. QED BY <1>2, <2>1, <3>3, <3>5, <4>1, <5>1 DEF Working
        <4>2. CASE p # o
          <5>1. phase'[p] = phase[p] /\ command'[p] = command[p] /\ next'[p] = next[p]
            BY <3>1, <3>5, <4>2 DEF Typed, TypedCli
          <5>2. QED BY <5>1 DEF Typed, Working
        <4>3. QED BY <4>1, <4>2
      <3>8. QED BY <1>1, <3>6, <3>7 DEF Typed
    <2>5. QED BY <2>3, <2>4
  <1>4. CASE GetVersion(o)
    <2>1. /\ phase[o] = "version" /\ phase' = [phase EXCEPT ![o] = "put"]
          /\ UNCHANGED <<command, commands, issued, dirty>>
      BY <1>4 DEF GetVersion
    <2>2. PICK v \in Nat : next' = [next EXCEPT ![o].version = v]
      <3>1. CASE next' = [next EXCEPT ![o].version = 1]
        BY <3>1
      <3>2. CASE \E row \in Seen(command[o].id) : next' = [next EXCEPT ![o].version = row.version + 1]
        <4>1. PICK row \in Seen(command[o].id) : next' = [next EXCEPT ![o].version = row.version + 1]
          BY <3>2
        <4>2. row.version \in Nat
          BY <1>2, SeenTyped DEF Typed
        <4>3. row.version + 1 \in Nat
          BY <4>2
        <4>4. QED BY <4>1, <4>3
      <3>3. QED BY <1>4, <3>1, <3>2 DEF GetVersion
    <2>3. next' \in [Operators -> [data : Data, version : Nat]]
          /\ next'[o].data = next[o].data /\ \A p \in Operators \ {o} : next'[p] = next[p]
      BY <2>2 DEF Typed, TypedCli
    <2>4. TypedCli'
      BY <2>1, <2>3 DEF Typed, TypedCli
    <2>5. ASSUME NEW p \in Operators PROVE Working(p)'
      <3>1. CASE p = o
        <4>1. phase'[o] = "put" /\ command'[o] = command[o]
          BY <2>1 DEF Typed, TypedCli
        <4>2. QED BY <2>1, <2>3, <3>1, <4>1 DEF Typed, Working
      <3>2. CASE p # o
        <4>1. phase'[p] = phase[p] /\ command'[p] = command[p] /\ next'[p] = next[p]
          BY <2>1, <2>3, <3>2 DEF Typed, TypedCli
        <4>2. QED BY <4>1 DEF Typed, Working
      <3>3. QED BY <3>1, <3>2
    <2>6. QED BY <1>1, <2>4, <2>5 DEF Typed
  <1>5. QED BY <1>3, <1>4

(* The writes of a command, which then is over.                            *)
LEMMA TypedWrites ==
    ASSUME Typed, NEW o \in Operators, PutItem(o) \/ DeleteItem(o)
    PROVE  Typed'
  <1> DEFINE i == command[o].id
             row == IF phase[o] = "put" THEN next[o] ELSE NoRow
  <1>1. /\ phase[o] # "idle" /\ CliReturn(o) /\ (UNCHANGED faults \/ Fault("put"))
        /\ \/ Write(i, row) /\ dirty' = (dirty \ {o}) \cup others(o, i)
           \/ dirty' = dirty \ {o} /\ UNCHANGED <<tableVars, had>>
        /\ UNCHANGED <<commands, issued, snapVars, authVars>>
    BY DEF PutItem, DeleteItem
  <1>2. i \in Ids /\ row \in [data : Data, version : Nat]
    BY <1>1, WorkingItem, DataFacts DEF Typed, TypedCli
  <1> HIDE DEF i, row
  <1>3. TypedTable'
    BY <1>1, <1>2, WriteTyped DEF Typed, TypedTable, tableVars
  <1>4. TypedSnap' /\ TypedAuth'
    BY <1>1 DEF Typed, TypedSnap, TypedAuth, snapVars, authVars
  <1>5. faults' \in 0..MaxFaults
    BY <1>1, ConstantFacts DEF Typed, Fault
  <1>6. dirty' \subseteq Operators
    BY <1>1, OthersAre DEF Typed, TypedCli
  <1>7. TypedCli' /\ \A p \in Operators : Working(p)'
    BY <1>1, <1>6, ReturnTyped DEF Typed
  <1>8. QED BY <1>3, <1>4, <1>5, <1>7 DEF Typed

(* A replica that catches up, and an item that somebody spoils.            *)
LEMMA TypedItems ==
    ASSUME Typed, NEW i \in Ids, Replicate(i) \/ Edit(i)
    PROVE  Typed'
  <1>1. UNCHANGED <<phase, command, next, commands, issued, snapVars, authVars>> /\ dirty' \subseteq Operators
    BY DEF Replicate, Edit, cliVars, Typed, TypedCli
  <1>2. TypedCli' /\ TypedSnap' /\ TypedAuth' /\ \A o \in Operators : Working(o)'
    BY <1>1 DEF Typed, TypedCli, TypedSnap, TypedAuth, snapVars, authVars, Working
  <1>3. faults' \in 0..MaxFaults
    BY ConstantFacts DEF Typed, Replicate, Edit
  <1>4. CASE Replicate(i)
    <2>1. TypedTable'
      BY <1>4 DEF Replicate, Typed, TypedTable
    <2>2. QED BY <1>2, <1>3, <2>1 DEF Typed
  <1>5. CASE Edit(i)
    <2>1. Row(Corrupt, table[i].version) \in [data : Data, version : Nat]
      BY DataFacts DEF Row, Typed, TypedTable
    <2>2. TypedTable'
      BY <1>5, <2>1, WriteTyped DEF Edit, Typed
    <2>3. QED BY <1>2, <1>3, <2>2 DEF Typed
  <1>6. QED BY <1>4, <1>5

-----------------------------------------------------------------------------
(* The snapshots.                                                          *)

LEMMA NothingTyped == Nothing \in [Ids -> Data \ {Corrupt}] /\ Nothing \in [Ids -> Data]
                      /\ \A i \in Ids : Nothing[i] = Absent
  BY DataFacts DEF Nothing

LEMMA LapseTyped ==
    ASSUME since \in [Clients -> 0..TTL], NEW cs, Lapse(cs)
    PROVE  since' \in [Clients -> 0..TTL]
  BY ConstantFacts DEF Lapse

(* What a refresh that is over leaves.                                     *)
LEMMA EndTyped ==
    ASSUME Typed, NEW k \in Served, EndRefresh(k)
    PROVE  /\ loading' \subseteq Served /\ toRead' \in [Served -> SUBSET Ids]
           /\ \A j \in Served : toRead'[j] \subseteq Of(j)
           /\ got' \in [Served -> [Ids -> Data]]
           /\ \A j \in Served, i \in Ids : Kind[i] # j => got'[j][i] = Absent
           /\ had' \in [Ids -> SUBSET Data]
  <1>1. loading' \subseteq Served /\ toRead' \in [Served -> SUBSET Ids]
    BY DEF Typed, TypedSnap, EndRefresh
  <1>2. \A j \in Served : toRead'[j] \subseteq Of(j)
    BY DEF Typed, TypedSnap, EndRefresh
  <1>3. got' \in [Served -> [Ids -> Data]] /\ \A j \in Served : got'[j] = IF j = k THEN Nothing ELSE got[j]
    BY NothingTyped DEF Typed, TypedSnap, EndRefresh
  <1>4. \A j \in Served, i \in Ids : Kind[i] # j => got'[j][i] = Absent
    BY <1>3, NothingTyped DEF Typed, TypedSnap
  <1>5. had' \in [Ids -> SUBSET Data]
    BY DEF Typed, TypedTable, EndRefresh
  <1>6. QED BY <1>1, <1>2, <1>3, <1>4, <1>5

(* A snapshot is replaced, by entities of its kind.                        *)
LEMMA CurrentTyped ==
    ASSUME Typed, NEW k \in Served, NEW f \in [Ids -> Data \ {Corrupt}],
           \A i \in Ids : Kind[i] # k => f[i] = Absent, current' = [current EXCEPT ![k] = f]
    PROVE  /\ current' \in [Served -> [Ids -> Data \ {Corrupt}]]
           /\ \A j \in Served, i \in Ids : Kind[i] # j => current'[j][i] = Absent
  <1>1. current' \in [Served -> [Ids -> Data \ {Corrupt}]]
        /\ \A j \in Served : current'[j] = IF j = k THEN f ELSE current[j]
    BY DEF Typed, TypedSnap
  <1>2. QED BY <1>1 DEF Typed, TypedSnap

LEMMA TypedRefresh ==
    ASSUME Typed, NEW k \in Served, Refresh(k) \/ Crash(k)
    PROVE  Typed'
  <1>1. UNCHANGED <<tableVars, cliVars>>
    BY DEF Refresh, BeginRefresh, ReadPage, QueryFails, Swap, Crash
  <1>2. TypedCli' /\ \A o \in Operators : Working(o)'
    BY <1>1 DEF Typed, TypedCli, Working, cliVars
  <1>3. faults' \in 0..MaxFaults
    BY ConstantFacts DEF Typed, Refresh, BeginRefresh, ReadPage, QueryFails, Swap, Crash, Fault
  <1>4. ASSUME had' \in [Ids -> SUBSET Data] PROVE TypedTable'
    BY <1>1, <1>4 DEF Typed, TypedTable, tableVars
  <1>5. CASE BeginRefresh(k)
    <2>1. Of(k) \in SUBSET Ids
      BY DEF Of
    <2>2. had' \in [Ids -> SUBSET Data]
      <3>1. \A i \in Ids : {row.data : row \in Seen(i)} \subseteq Data
        BY SeenTyped DEF Typed
      <3>2. QED BY <1>5, <3>1 DEF BeginRefresh, Typed, TypedTable
    <2>3. toRead' \in [Served -> SUBSET Ids] /\ \A j \in Served : toRead'[j] \subseteq Of(j)
      BY <1>5, <2>1 DEF BeginRefresh, Typed, TypedSnap
    <2>4. TypedSnap' /\ TypedAuth'
      BY <1>5, <2>3 DEF BeginRefresh, Typed, TypedSnap, TypedAuth, authVars
    <2>5. QED BY <1>2, <1>3, <1>4, <2>2, <2>4 DEF Typed
  <1>6. ASSUME NEW i \in Ids, ReadPage(k, i) PROVE Typed'
    <2>1. PICK row \in Seen(i) : got' = [got EXCEPT ![k][i] = row.data]
      BY <1>6 DEF ReadPage
    <2>2. Kind[i] = k /\ row.data \in Data
      BY <1>6, SeenTyped DEF ReadPage, Typed, TypedSnap, Of
    <2>3. got' \in [Served -> [Ids -> Data]]
          /\ \A j \in Served, h \in Ids : j # k \/ h # i => got'[j][h] = got[j][h]
      BY <2>1, <2>2 DEF Typed, TypedSnap
    <2>4. toRead' \in [Served -> SUBSET Ids] /\ \A j \in Served : toRead'[j] \subseteq Of(j)
      BY <1>6 DEF ReadPage, Typed, TypedSnap
    <2>5. TypedSnap' /\ TypedAuth'
      BY <1>6, <2>2, <2>3, <2>4 DEF ReadPage, Typed, TypedSnap, TypedAuth, authVars
    <2>6. had' \in [Ids -> SUBSET Data]
      BY <1>6 DEF ReadPage, Typed, TypedTable
    <2>7. QED BY <1>2, <1>3, <1>4, <2>5, <2>6 DEF Typed
  <1>7. CASE QueryFails(k)
    <2>1. EndRefresh(k) /\ UNCHANGED <<current, up, authVars>>
      BY <1>7 DEF QueryFails
    <2>2. TypedSnap' /\ TypedAuth'
      BY <2>1, EndTyped DEF Typed, TypedSnap, TypedAuth, authVars
    <2>3. QED BY <1>2, <1>3, <1>4, <2>1, <2>2, EndTyped DEF Typed
  <1>8. CASE Swap(k)
    <2>1. EndRefresh(k) /\ UNCHANGED <<session, age, wants>>
      BY <1>8 DEF Swap
    <2>2. CASE \E i \in Of(k) : <<i, got[k][i]>> \notin Parses
      <3>1. UNCHANGED <<current, up, since>>
        BY <1>8, <2>2 DEF Swap
      <3>2. TypedSnap' /\ TypedAuth'
        BY <2>1, <3>1, EndTyped DEF Typed, TypedSnap, TypedAuth
      <3>3. QED BY <1>2, <1>3, <1>4, <2>1, <3>2, EndTyped DEF Typed
    <2>3. CASE ~ \E i \in Of(k) : <<i, got[k][i]>> \notin Parses
      <3>1. /\ current' = [current EXCEPT ![k] = got[k]] /\ up' = up \cup {k}
            /\ Lapse({c \in Clients : accepted(c)})
        BY <1>8, <2>3 DEF Swap
      <3>2. got[k] \in [Ids -> Data] /\ \A i \in Ids : Kind[i] # k => got[k][i] = Absent
        BY DEF Typed, TypedSnap
      <3>3. \A i \in Ids : got[k][i] # Corrupt
        BY <2>3, <3>2, CorruptUnparsed, DataFacts DEF Of
      <3>4. got[k] \in [Ids -> Data \ {Corrupt}]
        BY <3>2, <3>3
      <3>5. /\ current' \in [Served -> [Ids -> Data \ {Corrupt}]]
            /\ \A j \in Served, i \in Ids : Kind[i] # j => current'[j][i] = Absent
        BY <3>1, <3>2, <3>4, CurrentTyped
      <3>6. since' \in [Clients -> 0..TTL]
        BY <3>1, LapseTyped DEF Typed, TypedAuth
      <3>7. TypedSnap' /\ TypedAuth'
        BY <2>1, <3>1, <3>5, <3>6, EndTyped DEF Typed, TypedSnap, TypedAuth
      <3>8. QED BY <1>2, <1>3, <1>4, <2>1, <3>7, EndTyped DEF Typed
    <2>4. QED BY <2>2, <2>3
  <1>9. CASE Crash(k)
    <2> DEFINE cs == {c \in Clients : Kind[Credential[c].id] = k}
    <2>1. /\ EndRefresh(k) /\ up' = up \ {k} /\ current' = [current EXCEPT ![k] = Nothing]
          /\ Lapse({c \in Clients : accepted(c)}) /\ UNCHANGED wants
          /\ session' = [c \in Clients |-> IF c \in cs THEN "out" ELSE session[c]]
          /\ age' = [c \in Clients |-> IF c \in cs THEN TTL ELSE age[c]]
      BY <1>9 DEF Crash
    <2>2. /\ current' \in [Served -> [Ids -> Data \ {Corrupt}]]
          /\ \A j \in Served, i \in Ids : Kind[i] # j => current'[j][i] = Absent
      BY <2>1, CurrentTyped, NothingTyped
    <2>3. since' \in [Clients -> 0..TTL]
      BY <2>1, LapseTyped DEF Typed, TypedAuth
    <2> HIDE DEF cs
    <2>4. TypedAuth'
      BY <2>1, <2>3, ConstantFacts DEF Typed, TypedAuth
    <2>5. TypedSnap'
      BY <2>1, <2>2, EndTyped DEF Typed, TypedSnap
    <2>6. TypedTable'
      BY <1>4, <2>1, EndTyped
    <2>7. QED BY <1>2, <1>3, <2>4, <2>5, <2>6 DEF Typed
  <1>10. QED BY <1>5, <1>6, <1>7, <1>8, <1>9 DEF Refresh

(* Logins and tokens.                                                      *)
ClientStep == (\E c \in Clients : Client(c)) \/ Tick

LEMMA TypedClients == ASSUME Typed, ClientStep PROVE Typed'
  <1>1. UNCHANGED <<had, faults, tableVars, cliVars, snapVars>>
    BY DEF ClientStep, Client, LogIn, Deliver, Need, Serve, Expire, Leave, Tick
  <1>2. TypedTable' /\ TypedCli' /\ TypedSnap' /\ faults' \in 0..MaxFaults /\ \A o \in Operators : Working(o)'
    BY <1>1 DEF Typed, TypedTable, TypedCli, TypedSnap, Working, tableVars, cliVars, snapVars
  <1>3. ASSUME NEW c \in Clients, Client(c)
        PROVE  TypedAuth'
    <2>1. wants' \in [Clients -> {"nothing", "delta", "token"}] /\ since' = since
      BY <1>3 DEF Typed, TypedAuth, Client, LogIn, Deliver, Need, Serve, Expire, Leave
    <2>2. session' \in [Clients -> {"out", "in"}]
      BY <1>3 DEF Typed, TypedAuth, Client, LogIn, Deliver, Need, Serve, Expire, Leave
    <2>3. age' = age \/ age' = [age EXCEPT ![c] = 0] \/ age' = [age EXCEPT ![c] = TTL]
      BY <1>3 DEF Client, LogIn, Deliver, Need, Serve, Expire, Leave
    <2>4. 0 \in 0..TTL /\ TTL \in 0..TTL
      BY ConstantFacts
    <2>5. age' \in [Clients -> 0..TTL]
      BY <2>3, <2>4 DEF Typed, TypedAuth
    <2>6. QED BY <2>1, <2>2, <2>5 DEF Typed, TypedAuth
  <1>4. ASSUME Tick PROVE TypedAuth'
    <2>1. age' \in [Clients -> 0..TTL]
      BY <1>4, ConstantFacts DEF Tick, Typed, TypedAuth
    <2>2. since' \in [Clients -> 0..TTL]
      BY <1>4, ConstantFacts DEF Tick, Typed, TypedAuth
    <2>3. QED BY <1>4, <2>1, <2>2 DEF Tick, Typed, TypedAuth
  <1>5. TypedAuth'
    BY <1>3, <1>4 DEF ClientStep
  <1>6. QED BY <1>2, <1>5 DEF Typed

(* Next, by who takes the step.                                            *)
LEMMA StepsAre ==
    ASSUME [Next]_vars
    PROVE  \/ \E i \in Ids : Replicate(i) \/ Edit(i)
           \/ \E o \in Operators, c \in Commands : Begin(o, c)
           \/ \E o \in Operators : GetCurrent(o) \/ GetVersion(o)
           \/ \E o \in Operators : PutItem(o) \/ DeleteItem(o)
           \/ \E k \in Served : Refresh(k) \/ Crash(k)
           \/ ClientStep
           \/ UNCHANGED vars
  BY DEF Next, Cli, ClientStep

LEMMA TypedNext == Typed /\ [Next]_vars => Typed'
  <1> SUFFICES ASSUME Typed, [Next]_vars PROVE Typed'
    OBVIOUS
  <1>1. CASE UNCHANGED vars
    BY <1>1 DEF Typed, TypedTable, TypedCli, TypedSnap, TypedAuth, Working,
                vars, tableVars, cliVars, snapVars, authVars
  <1>2. QED BY <1>1, StepsAre, TypedItems, TypedBegin, TypedGets, TypedWrites, TypedRefresh, TypedClients

-----------------------------------------------------------------------------
(* The version of an item counts the commands that are over, and the one   *)
(* that is about to write it may be one ahead.                             *)
InFlight == {o \in Operators : phase[o] # "idle"}
Over == commands - Cardinality(InFlight)

Numbered ==
    /\ IsFiniteSet(InFlight) /\ Cardinality(InFlight) <= commands
    /\ \A i \in Ids : table[i].version <= Over + 1 /\ replica[i].version <= Over + 1
    /\ \A o \in Operators : next[o].version <= IF phase[o] = "idle" THEN 0 ELSE Over + 2

(* The numbers that a proof about Numbered needs.                          *)
LEMMA OverNumber ==
    ASSUME Typed, Numbered
    PROVE  /\ Over \in Nat /\ Cardinality(InFlight) \in Nat /\ commands \in Nat
           /\ \A i \in Ids : table[i].version \in Nat /\ replica[i].version \in Nat
           /\ \A o \in Operators : next[o].version \in Nat
  <1>1. Cardinality(InFlight) \in Nat /\ Cardinality(InFlight) <= commands /\ commands \in Nat
    BY FS_CardinalityType DEF Numbered, Typed, TypedCli
  <1>2. QED BY <1>1 DEF Over, Typed, TypedTable, TypedCli

LEMMA ReturnCounts ==
    ASSUME Typed, Numbered, NEW o \in Operators, phase[o] # "idle", CliReturn(o), UNCHANGED commands
    PROVE  /\ IsFiniteSet(InFlight)' /\ (Cardinality(InFlight) <= commands)' /\ Over' = Over + 1
           /\ \A p \in Operators : (next[p].version <= IF phase[p] = "idle" THEN 0 ELSE Over + 2)'
  <1>1. \A p \in Operators : /\ p = o => phase'[p] = "idle" /\ next'[p] = NoRow
                             /\ p # o => phase'[p] = phase[p] /\ next'[p] = next[p]
    BY DEF CliReturn, Typed, TypedCli
  <1>2. InFlight' = InFlight \ {o} /\ o \in InFlight
    BY <1>1 DEF InFlight
  <1>3. IsFiniteSet(InFlight') /\ Cardinality(InFlight') = Cardinality(InFlight) - 1
    BY <1>2, FS_RemoveElement DEF Numbered
  <1>4. (Cardinality(InFlight) <= commands)' /\ Over' = Over + 1
    BY <1>3, OverNumber DEF Numbered, Over
  <1>5. NoRow.version = 0
    BY DataFacts
  <1>6. \A p \in Operators : (next[p].version <= IF phase[p] = "idle" THEN 0 ELSE Over + 2)'
    BY <1>1, <1>4, <1>5, OverNumber DEF Numbered
  <1>7. QED BY <1>3, <1>4, <1>6

LEMMA NumberedInit == Init => Numbered
  <1> SUFFICES ASSUME Init PROVE Numbered
    OBVIOUS
  <1>1. InFlight = {}
    BY DEF Init, InFlight
  <1>2. IsFiniteSet(InFlight) /\ Cardinality(InFlight) = 0 /\ commands = 0
    BY <1>1, FS_EmptySet DEF Init
  <1>3. Over = 0
    BY <1>2 DEF Over
  <1>4. \A i \in Ids : table[i].version \in {0, 1} /\ replica[i].version \in {0, 1}
    BY DEF Init, NoRow, Row
  <1>5. \A o \in Operators : phase[o] = "idle" /\ next[o].version = 0
    BY DEF Init, NoRow, Row
  <1>6. QED BY <1>2, <1>3, <1>4, <1>5 DEF Numbered

LEMMA NumberedNext == Typed /\ Numbered /\ [Next]_vars => Numbered'
  <1> SUFFICES ASSUME Typed, Numbered, [Next]_vars PROVE Numbered'
    OBVIOUS
  <1>a. ASSUME UNCHANGED <<phase, commands, next>>,
               \A i \in Ids : /\ table'[i].version \in {table[i].version, replica[i].version}
                              /\ replica'[i].version \in {table[i].version, replica[i].version}
        PROVE  Numbered'
    <2>1. InFlight' = InFlight /\ Over' = Over
      BY <1>a DEF InFlight, Over
    <2>2. QED BY <1>a, <2>1 DEF Numbered
  <1>1. ASSUME NEW i \in Ids, Replicate(i) \/ Edit(i) PROVE Numbered'
    <2>1. UNCHANGED <<phase, commands, next>>
      BY <1>1 DEF Replicate, Edit, cliVars
    <2>2. CASE Replicate(i)
      <3>1. UNCHANGED table /\ replica' = [replica EXCEPT ![i] = table[i]]
        BY <2>2 DEF Replicate
      <3>2. \A j \in Ids : table'[j] = table[j] /\ replica'[j] \in {table[j], replica[j]}
        BY <3>1 DEF Typed, TypedTable
      <3>3. QED BY <1>a, <2>1, <3>2
    <2>3. CASE Edit(i)
      <3> DEFINE row == Row(Corrupt, table[i].version)
      <3>1. row.version = table[i].version /\ Write(i, row)
        BY <2>3 DEF Row, Edit
      <3> HIDE DEF row
      <3>2. \A j \in Ids : /\ table'[j] = IF j = i THEN row ELSE table[j]
                           /\ replica'[j] = replica[j] \/ (j = i /\ replica'[j] = row)
        BY <3>1 DEF Write, Typed, TypedTable
      <3>3. \A j \in Ids : /\ table'[j].version = table[j].version
                           /\ replica'[j].version \in {table[j].version, replica[j].version}
        BY <3>1, <3>2
      <3>4. QED BY <1>a, <2>1, <3>3
    <2>4. QED BY <1>1, <2>2, <2>3
  <1>2. ASSUME NEW o \in Operators, NEW c \in Commands, Begin(o, c) PROVE Numbered'
    <2>1. /\ phase[o] = "idle" /\ commands' = commands + 1 /\ UNCHANGED tableVars
          /\ phase' = [phase EXCEPT ![o] = starts(c)] /\ starts(c) # "idle"
      BY <1>2 DEF Begin, starts
    <2>2. \A p \in Operators : next'[p].version = next[p].version
      BY <1>2 DEF Begin, Typed, TypedCli
    <2>3. \A p \in Operators : phase'[p] = IF p = o THEN starts(c) ELSE phase[p]
      BY <2>1 DEF Typed, TypedCli
    <2>4. InFlight' = InFlight \cup {o} /\ o \notin InFlight
      BY <2>1, <2>3 DEF InFlight
    <2>5. IsFiniteSet(InFlight') /\ Cardinality(InFlight') = Cardinality(InFlight) + 1
      BY <2>4, FS_AddElement DEF Numbered
    <2>6. Over' = Over /\ (Cardinality(InFlight) <= commands)'
      BY <2>1, <2>5, OverNumber DEF Over, Numbered
    <2>7. \A p \in Operators : (next[p].version <= IF phase[p] = "idle" THEN 0 ELSE Over + 2)'
      <3> SUFFICES ASSUME NEW p \in Operators
                   PROVE  (next[p].version <= IF phase[p] = "idle" THEN 0 ELSE Over + 2)'
        OBVIOUS
      <3>1. next'[p].version = next[p].version /\ next[p].version \in Nat /\ Over \in Nat
        BY <2>2, OverNumber
      <3>2. next[p].version <= IF phase[p] = "idle" THEN 0 ELSE Over + 2
        BY DEF Numbered
      <3>3. QED BY <2>1, <2>3, <2>6, <3>1, <3>2
    <2>8. QED BY <2>1, <2>5, <2>6, <2>7 DEF Numbered, tableVars
  <1>3. ASSUME NEW o \in Operators, GetCurrent(o) \/ GetVersion(o) PROVE Numbered'
    <2>1. phase[o] # "idle" /\ UNCHANGED <<commands, table, replica>> /\ command[o].id \in Ids
      BY <1>3, WorkingItem DEF GetCurrent, GetVersion, Typed, tableVars
    <2>2. CASE CliReturn(o)
      <3>1. QED BY <2>1, <2>2, ReturnCounts, OverNumber DEF Numbered
    <2>3. ASSUME NEW x \in {"version", "put"}, phase' = [phase EXCEPT ![o] = x],
                 \A p \in Operators : next'[p].version <= IF p = o THEN Over + 2 ELSE next[p].version
          PROVE  Numbered'
      <3>1. \A p \in Operators : phase'[p] = "idle" <=> phase[p] = "idle"
        BY <2>1, <2>3 DEF Typed, TypedCli
      <3>2. InFlight' = InFlight /\ Over' = Over
        BY <2>1, <3>1 DEF InFlight, Over
      <3>3. \A p \in Operators : next'[p].version \in Nat
        BY <1>3, TypedGets DEF Typed, TypedCli
      <3>4. \A p \in Operators : (next[p].version <= IF phase[p] = "idle" THEN 0 ELSE Over + 2)'
        BY <2>1, <2>3, <3>1, <3>2, <3>3, OverNumber DEF Numbered
      <3>5. QED BY <2>1, <3>2, <3>4 DEF Numbered
    <2>4. CASE GetCurrent(o) /\ ~CliReturn(o)
      <3>1. PICK d : phase' = [phase EXCEPT ![o] = "version"] /\ next' = [next EXCEPT ![o].data = d]
        BY <2>4 DEF GetCurrent
      <3>2. \A p \in Operators : next'[p].version = next[p].version
        BY <3>1 DEF Typed, TypedCli
      <3>3. next[o].version <= Over + 2
        BY <2>1 DEF Numbered
      <3>4. QED BY <2>3, <3>1, <3>2, <3>3, OverNumber
    <2>5. CASE GetVersion(o)
      <3>1. PICK v \in Nat : v <= Over + 2 /\ next' = [next EXCEPT ![o].version = v]
        <4>1. CASE next' = [next EXCEPT ![o].version = 1]
          <5>1. 1 \in Nat /\ 1 <= Over + 2
            BY OverNumber
          <5>2. QED BY <4>1, <5>1
        <4>2. CASE \E row \in Seen(command[o].id) : next' = [next EXCEPT ![o].version = row.version + 1]
          <5>1. PICK row \in Seen(command[o].id) : next' = [next EXCEPT ![o].version = row.version + 1]
            BY <4>2
          <5>2. row.version \in Nat /\ row.version <= Over + 1
            BY <2>1, SeenTyped DEF Typed, Seen, Numbered
          <5>3. row.version + 1 \in Nat /\ row.version + 1 <= Over + 2
            BY <5>2, OverNumber
          <5>4. QED BY <5>1, <5>3
        <4>3. QED BY <2>5, <4>1, <4>2 DEF GetVersion
      <3>2. \A p \in Operators : next'[p].version = IF p = o THEN v ELSE next[p].version
        BY <3>1 DEF Typed, TypedCli
      <3>3. phase' = [phase EXCEPT ![o] = "put"]
        BY <2>5 DEF GetVersion
      <3>4. QED BY <2>3, <3>1, <3>2, <3>3, OverNumber
    <2>6. QED BY <1>3, <2>2, <2>4, <2>5
  <1>4. ASSUME NEW o \in Operators, PutItem(o) \/ DeleteItem(o) PROVE Numbered'
    <2> DEFINE i == command[o].id
               row == IF phase[o] = "put" THEN next[o] ELSE NoRow
    <2>1. /\ phase[o] # "idle" /\ CliReturn(o) /\ UNCHANGED commands
          /\ Write(i, row) \/ UNCHANGED tableVars
      BY <1>4 DEF PutItem, DeleteItem
    <2>2. i \in Ids /\ row.version \in Nat /\ row.version <= Over + 2
      <3>1. i \in Ids
        BY <2>1, WorkingItem DEF Typed
      <3>2. NoRow.version = 0 /\ next[o].version <= Over + 2
        BY <2>1, DataFacts DEF Numbered
      <3>3. QED BY <3>1, <3>2, OverNumber
    <2> HIDE DEF i, row
    <2>3. Over' = Over + 1
      BY <2>1, ReturnCounts
    <2>4. \A j \in Ids : /\ table'[j] = table[j] \/ table'[j] = row
                         /\ replica'[j] = replica[j] \/ replica'[j] = row
      BY <2>1 DEF Write, Typed, TypedTable, tableVars
    <2>5. \A j \in Ids : (table[j].version <= Over + 1 /\ replica[j].version <= Over + 1)'
      BY <2>2, <2>3, <2>4, OverNumber DEF Numbered
    <2>6. QED BY <2>1, <2>5, ReturnCounts DEF Numbered
  <1>5. CASE UNCHANGED <<phase, commands, next, table, replica>>
    BY <1>a, <1>5
  <1>6. UNCHANGED <<tableVars, cliVars>> => UNCHANGED <<phase, commands, next, table, replica>>
    BY DEF tableVars, cliVars
  <1>7. ASSUME NEW k \in Served, Refresh(k) \/ Crash(k) PROVE UNCHANGED <<tableVars, cliVars>>
    BY <1>7 DEF Refresh, BeginRefresh, ReadPage, QueryFails, Swap, Crash
  <1>8. ASSUME ClientStep PROVE UNCHANGED <<tableVars, cliVars>>
    BY <1>8 DEF ClientStep, Client, LogIn, Deliver, Need, Serve, Expire, Leave, Tick
  <1>9. ASSUME UNCHANGED vars PROVE UNCHANGED <<tableVars, cliVars>>
    BY <1>9 DEF vars
  <1>10. QED BY <1>1, <1>2, <1>3, <1>4, <1>5, <1>6, <1>7, <1>8, <1>9, StepsAre

LEMMA TypesFollow == Typed /\ Numbered => TypeOK
  <1> SUFFICES ASSUME Typed, Numbered PROVE TypeOK
    OBVIOUS
  <1>1. Over <= MaxCommands
    BY OverNumber, ConstantFacts DEF Over, Typed, TypedCli
  <1>2. \A i \in Ids : table[i].version \in 0..(MaxCommands + 1) /\ replica[i].version \in 0..(MaxCommands + 1)
    BY <1>1, OverNumber, ConstantFacts DEF Numbered
  <1>3. \A o \in Operators : next[o].version \in 0..(MaxCommands + 1)
    <2> SUFFICES ASSUME NEW o \in Operators PROVE next[o].version \in 0..(MaxCommands + 1)
      OBVIOUS
    <2>1. next[o].version \in Nat /\ next[o].version <= IF phase[o] = "idle" THEN 0 ELSE Over + 2
      BY OverNumber DEF Numbered
    <2>2. CASE phase[o] = "idle"
      BY <2>1, <2>2, ConstantFacts
    <2>3. CASE phase[o] # "idle"
      <3>1. o \in InFlight
        BY <2>3 DEF InFlight
      <3>2. Cardinality(InFlight) > 0
        BY <3>1, FS_EmptySet, OverNumber DEF Numbered
      <3>3. Over + 1 <= MaxCommands
        BY <3>2, OverNumber, ConstantFacts DEF Over, Typed, TypedCli
      <3>4. QED BY <2>1, <2>3, <3>3, OverNumber, ConstantFacts
    <2>4. QED BY <2>2, <2>3
  <1>4. \A r \in [data : Data, version : Nat] : r.version \in 0..(MaxCommands + 1) => r \in Rows
    BY DEF Rows
  <1>5. table \in [Ids -> Rows] /\ replica \in [Ids -> Rows]
    BY <1>2, <1>4 DEF Typed, TypedTable
  <1>6. next \in [Operators -> Rows]
    BY <1>3, <1>4 DEF Typed, TypedCli
  <1>7. QED BY <1>5, <1>6 DEF Typed, TypedTable, TypedCli, TypedSnap, TypedAuth, TypeOK

(* The types of every variable, for as many commands and faults as there   *)
(* may be: no snapshot has an item that does not parse, or one of another  *)
(* kind, and no version runs ahead of the commands that wrote it.          *)
THEOREM AccessTypes == Spec => []TypeOK
  <1>1. Init => Typed /\ Numbered
    BY TypedInit, NumberedInit
  <1>2. Typed /\ Numbered /\ [Next]_vars => (Typed /\ Numbered)'
    BY TypedNext, NumberedNext
  <1>3. QED BY <1>1, <1>2, TypesFollow, PTL DEF Spec

-----------------------------------------------------------------------------
(* Of an item of a kind that is being refreshed, what may be read now is   *)
(* among what could be read since the refresh began, and so is what it has *)
(* read.                                                                   *)
Loaded ==
    \A k \in loading : \A i \in Of(k) :
        /\ \A row \in Seen(i) : row.data \in had[i]
        /\ i \in toRead[k] \/ got[k][i] \in had[i]

LEMMA LoadedStep ==
    ASSUME Typed, Loaded, UNCHANGED <<toRead, got, loading>>,
           \A i \in Ids : had[i] \subseteq had'[i],
           \A i \in Ids : \A row \in Seen(i)' : row \in Seen(i) \/ Kind[i] \notin loading \/ row.data \in had'[i]
    PROVE  Loaded'
  <1> SUFFICES ASSUME NEW k \in loading, NEW i \in Of(k)
               PROVE  /\ \A row \in Seen(i)' : row.data \in had'[i]
                      /\ i \in toRead[k] \/ got[k][i] \in had'[i]
    BY DEF Loaded, Of
  <1>1. i \in Ids /\ Kind[i] = k
    BY DEF Of
  <1>2. QED BY <1>1 DEF Loaded

LEMMA WriteLoads ==
    ASSUME Typed, Loaded, NEW i \in Ids, NEW row, Write(i, row), UNCHANGED <<toRead, got, loading>>
    PROVE  Loaded'
  <1>1. \A j \in Ids : had[j] \subseteq had'[j] /\ (j = i /\ Kind[i] \in loading => row.data \in had'[j])
    BY DEF Write, Typed, TypedTable
  <1>2. \A j \in Ids : /\ table'[j] = table[j] \/ (j = i /\ table'[j] = row)
                       /\ replica'[j] = replica[j] \/ (j = i /\ replica'[j] = row)
    BY DEF Write, Typed, TypedTable
  <1>3. ASSUME NEW j \in Ids, NEW r \in Seen(j)'
        PROVE  r \in Seen(j) \/ Kind[j] \notin loading \/ r.data \in had'[j]
    <2>1. r = table'[j] \/ r = replica'[j]
      BY DEF Seen
    <2>2. r \in Seen(j) \/ (j = i /\ r = row)
      BY <1>2, <2>1 DEF Seen
    <2>3. QED BY <1>1, <2>2
  <1>4. QED BY <1>1, <1>3, LoadedStep

LEMMA LoadedNext == Typed /\ Loaded /\ [Next]_vars => Loaded'
  <1> SUFFICES ASSUME Typed, Loaded, [Next]_vars PROVE Loaded'
    OBVIOUS
  <1>1. ASSUME NEW i \in Ids, Replicate(i) \/ Edit(i) PROVE Loaded'
    <2>1. UNCHANGED <<toRead, got, loading>>
      BY <1>1 DEF Replicate, Edit, snapVars
    <2>2. CASE Replicate(i)
      <3>1. \A j \in Ids : had'[j] = had[j] /\ Seen(j)' \subseteq Seen(j)
        <4>1. UNCHANGED <<table, had>> /\ replica' = [replica EXCEPT ![i] = table[i]]
          BY <2>2 DEF Replicate
        <4>2. \A j \in Ids : replica'[j] \in {table[j], replica[j]}
          BY <4>1 DEF Typed, TypedTable
        <4>3. QED BY <4>1, <4>2 DEF Seen
      <3>2. QED BY <2>1, <3>1, LoadedStep
    <2>3. CASE Edit(i)
      BY <2>1, <2>3, WriteLoads DEF Edit
    <2>4. QED BY <1>1, <2>2, <2>3
  <1>2. ASSUME NEW o \in Operators, PutItem(o) \/ DeleteItem(o) PROVE Loaded'
    <2>1. /\ phase[o] # "idle" /\ UNCHANGED <<toRead, got, loading>>
          /\ (\E row : Write(command[o].id, row)) \/ UNCHANGED <<table, replica, had>>
      BY <1>2 DEF PutItem, DeleteItem, snapVars, tableVars
    <2>2. command[o].id \in Ids
      BY <2>1, WorkingItem DEF Typed
    <2>3. CASE \E row : Write(command[o].id, row)
      BY <2>1, <2>2, <2>3, WriteLoads
    <2>4. CASE UNCHANGED <<table, replica, had>>
      BY <2>1, <2>4, LoadedStep DEF Seen
    <2>5. QED BY <2>1, <2>3, <2>4
  <1>3. ASSUME NEW k \in Served, Refresh(k) \/ Crash(k) PROVE Loaded'
    <2>1. UNCHANGED <<table, replica>> /\ \A i : Seen(i)' = Seen(i)
      BY <1>3 DEF Refresh, BeginRefresh, ReadPage, QueryFails, Swap, Crash, tableVars, Seen
    <2>2. CASE BeginRefresh(k)
      <3>1. /\ loading' = loading \cup {k} /\ k \notin loading /\ toRead' = [toRead EXCEPT ![k] = Of(k)] /\ UNCHANGED got
            /\ had' = [i \in Ids |-> IF Kind[i] = k THEN {row.data : row \in Seen(i)} ELSE had[i]]
        BY <2>2 DEF BeginRefresh
      <3>2. ASSUME NEW j \in loading', NEW i \in Of(j)
            PROVE  /\ \A row \in Seen(i) : row.data \in had'[i]
                   /\ i \in toRead'[j] \/ got'[j][i] \in had'[i]
        <4>1. i \in Ids /\ Kind[i] = j /\ (j # k => j \in loading) /\ j \in Served
          BY <3>1 DEF Of, Typed, TypedSnap
        <4>2. CASE j = k
          <5>1. toRead'[j] = Of(j) /\ had'[i] = {row.data : row \in Seen(i)}
            BY <3>1, <4>1, <4>2 DEF Typed, TypedSnap
          <5>2. QED BY <5>1
        <4>3. CASE j # k
          <5>1. toRead'[j] = toRead[j] /\ had'[i] = had[i] /\ got' = got
            BY <3>1, <4>1, <4>3 DEF Typed, TypedSnap
          <5>2. QED BY <4>1, <4>3, <5>1 DEF Loaded
        <4>4. QED BY <4>2, <4>3
      <3>3. QED BY <2>1, <3>2 DEF Loaded, Of
    <2>3. ASSUME NEW h \in Ids, ReadPage(k, h) PROVE Loaded'
      <3>1. PICK row \in Seen(h) : got' = [got EXCEPT ![k][h] = row.data]
        BY <2>3 DEF ReadPage
      <3>2. k \in loading /\ h \in Of(k) /\ UNCHANGED <<had, loading>> /\ toRead' = [toRead EXCEPT ![k] = @ \ {h}]
        BY <2>3 DEF ReadPage, Typed, TypedSnap
      <3>3. row.data \in had[h]
        BY <3>1, <3>2 DEF Loaded
      <3>4. ASSUME NEW j \in loading, NEW i \in Of(j)
            PROVE  /\ \A r \in Seen(i) : r.data \in had[i]
                   /\ i \in toRead'[j] \/ got'[j][i] \in had[i]
        <4>1. i \in Ids /\ j \in Served
          BY DEF Of, Typed, TypedSnap
        <4>2. CASE j = k /\ i = h
          <5>1. got'[j][i] = row.data
            BY <3>1, <4>1, <4>2 DEF Typed, TypedSnap
          <5>2. QED BY <3>3, <4>2, <5>1 DEF Loaded
        <4>3. CASE ~(j = k /\ i = h)
          <5>1. got'[j][i] = got[j][i] /\ (i \in toRead[j] => i \in toRead'[j])
            BY <3>1, <3>2, <4>1, <4>3 DEF Typed, TypedSnap
          <5>2. QED BY <5>1 DEF Loaded
        <4>4. QED BY <4>2, <4>3
      <3>5. QED BY <2>1, <3>2, <3>4 DEF Loaded, Of
    <2>4. CASE EndRefresh(k)
      <3>1. ASSUME NEW j \in loading', NEW i \in Of(j)
            PROVE  /\ \A row \in Seen(i) : row.data \in had'[i]
                   /\ i \in toRead'[j] \/ got'[j][i] \in had'[i]
        <4>1. j \in loading /\ j # k /\ i \in Ids /\ Kind[i] = j /\ j \in Served
          BY <2>4 DEF EndRefresh, Of, Typed, TypedSnap
        <4>2. toRead'[j] = toRead[j] /\ got'[j] = got[j] /\ had'[i] = had[i]
          BY <2>4, <4>1 DEF EndRefresh, Typed, TypedSnap
        <4>3. QED BY <4>1, <4>2 DEF Loaded
      <3>2. QED BY <2>1, <3>1 DEF Loaded, Of
    <2>5. QED BY <1>3, <2>2, <2>3, <2>4 DEF Refresh, QueryFails, Swap, Crash
  <1>4. ASSUME UNCHANGED <<snapVars, tableVars, had>> PROVE Loaded'
    BY <1>4, LoadedStep DEF Seen, snapVars, tableVars
  <1>5. ASSUME NEW o \in Operators, NEW c \in Commands, Begin(o, c) PROVE UNCHANGED <<snapVars, tableVars, had>>
    BY <1>5 DEF Begin
  <1>6. ASSUME NEW o \in Operators, GetCurrent(o) \/ GetVersion(o) PROVE UNCHANGED <<snapVars, tableVars, had>>
    BY <1>6 DEF GetCurrent, GetVersion
  <1>7. ASSUME ClientStep PROVE UNCHANGED <<snapVars, tableVars, had>>
    BY <1>7 DEF ClientStep, Client, LogIn, Deliver, Need, Serve, Expire, Leave, Tick
  <1>8. ASSUME UNCHANGED vars PROVE UNCHANGED <<snapVars, tableVars, had>>
    BY <1>8 DEF vars
  <1>9. QED BY <1>1, <1>2, <1>3, <1>4, <1>5, <1>6, <1>7, <1>8, StepsAre

(* What a refresh installs could be read while it ran, of each item.       *)
LEMMA InstallsHonest ==
    ASSUME Typed, Loaded, [Next]_vars, NEW k \in Served, current'[k] # current[k], k \in up'
    PROVE  \A i \in Of(k) : current'[k][i] \in had[i]
  <1>1. ASSUME UNCHANGED snapVars PROVE FALSE
    BY <1>1 DEF snapVars
  <1>2. PICK j \in Served : Refresh(j) \/ Crash(j)
    <2>1. ASSUME NEW i \in Ids, Replicate(i) \/ Edit(i) PROVE UNCHANGED snapVars
      BY <2>1 DEF Replicate, Edit
    <2>2. ASSUME NEW o \in Operators, NEW c \in Commands, Begin(o, c) PROVE UNCHANGED snapVars
      BY <2>2 DEF Begin
    <2>3. ASSUME NEW o \in Operators, GetCurrent(o) \/ GetVersion(o) \/ PutItem(o) \/ DeleteItem(o)
          PROVE  UNCHANGED snapVars
      BY <2>3 DEF GetCurrent, GetVersion, PutItem, DeleteItem
    <2>4. ASSUME ClientStep PROVE UNCHANGED snapVars
      BY <2>4 DEF ClientStep, Client, LogIn, Deliver, Need, Serve, Expire, Leave, Tick
    <2>5. ASSUME UNCHANGED vars PROVE UNCHANGED snapVars
      BY <2>5 DEF vars
    <2>6. QED BY <1>1, <2>1, <2>2, <2>3, <2>4, <2>5, StepsAre
  <1>3. CASE Crash(j)
    <2>1. j # k
      BY <1>3 DEF Crash
    <2>2. QED BY <1>3, <2>1 DEF Crash, Typed, TypedSnap
  <1>4. CASE Refresh(j)
    <2>1. /\ Swap(j) /\ j \in loading /\ toRead[j] = {} /\ current' = [current EXCEPT ![j] = got[j]]
      BY <1>4 DEF Refresh, BeginRefresh, ReadPage, QueryFails, Swap
    <2>2. j = k /\ current'[k] = got[k]
      BY <2>1 DEF Typed, TypedSnap
    <2>3. QED BY <2>1, <2>2 DEF Loaded
  <1>5. QED BY <1>2, <1>3, <1>4

(* No refresh loses an item or brings one back, however its pages, the     *)
(* commands and the replicas interleave, and whatever fails or dies        *)
(* (refresh.go:71, source.go:71, dynamo.go:53).                            *)
THEOREM RefreshesHonest == Spec => RefreshHonest
  <1>1. Init => Typed /\ Loaded
    BY TypedInit DEF Init, Loaded
  <1>2. Typed /\ Loaded /\ [Next]_vars => (Typed /\ Loaded)'
    BY TypedNext, LoadedNext
  <1>3. Typed /\ Loaded /\ [Next]_vars =>
            [\A k \in Served : current'[k] # current[k] /\ k \in up' =>
                \A i \in Of(k) : current'[k][i] \in had[i]]_vars
    BY InstallsHonest
  <1>4. QED BY <1>1, <1>2, <1>3, PTL DEF Spec, RefreshHonest

-----------------------------------------------------------------------------
(* A client that is in was accepted no longer ago than its token was       *)
(* minted.                                                                 *)
Recent == \A c \in Clients : session[c] = "in" => accepted(c) \/ since[c] <= age[c]

LEMMA ValidIs == \A t \in 0..TTL : Valid[t] => t < TTL
  <1> SUFFICES ASSUME NEW t \in 0..TTL, Valid[t] PROVE t < TTL
    OBVIOUS
  <1>1. tryJwt(Mint(NoIdentity, 0), t).code = "OK"
    BY DEF Valid
  <1>2. Mint(NoIdentity, 0).until = TTL
    BY ConstantFacts DEF Mint
  <1>3. ~(t >= TTL)
    BY <1>1, <1>2 DEF tryJwt, Answer
  <1>4. QED BY <1>3, ConstantFacts

LEMMA LapseRecent ==
    ASSUME Typed, Recent, Lapse({c \in Clients : accepted(c)}),
           \A c \in Clients : session'[c] = "in" => session[c] = "in" /\ age'[c] = age[c]
    PROVE  Recent'
  <1> SUFFICES ASSUME NEW c \in Clients, session'[c] = "in" PROVE since'[c] <= age[c]
    BY DEF Recent
  <1>1. since'[c] = IF accepted(c) THEN 0 ELSE since[c]
    BY DEF Lapse
  <1>2. age[c] \in Nat /\ (accepted(c) \/ since[c] <= age[c])
    BY ConstantFacts DEF Typed, TypedAuth, Recent
  <1>3. QED BY <1>1, <1>2

LEMMA RecentNext == Typed /\ Recent /\ [Next]_vars => Recent'
  <1> SUFFICES ASSUME Typed, Recent, [Next]_vars PROVE Recent'
    OBVIOUS
  <1>1. ASSUME UNCHANGED <<current, up>> PROVE \A c \in Clients : accepted(c)' = accepted(c)
    BY <1>1 DEF accepted
  <1>2. ASSUME UNCHANGED <<current, up, session, age, since>> PROVE Recent'
    BY <1>1, <1>2 DEF Recent
  <1>3. ASSUME NEW i \in Ids, Replicate(i) \/ Edit(i) PROVE Recent'
    BY <1>2, <1>3 DEF Replicate, Edit, snapVars, authVars
  <1>4. ASSUME NEW o \in Operators, NEW c \in Commands, Begin(o, c) PROVE Recent'
    BY <1>2, <1>4 DEF Begin, snapVars, authVars
  <1>5. ASSUME NEW o \in Operators, GetCurrent(o) \/ GetVersion(o) \/ PutItem(o) \/ DeleteItem(o) PROVE Recent'
    BY <1>2, <1>5 DEF GetCurrent, GetVersion, PutItem, DeleteItem, snapVars, authVars
  <1>6. ASSUME UNCHANGED vars PROVE Recent'
    BY <1>2, <1>6 DEF vars, snapVars, authVars
  <1>7. ASSUME NEW k \in Served, Refresh(k) \/ Crash(k) PROVE Recent'
    <2>1. UNCHANGED <<current, up, session, age, since>> \/ Lapse({c \in Clients : accepted(c)})
      BY <1>7 DEF Refresh, BeginRefresh, ReadPage, QueryFails, Swap, Crash, authVars
    <2>2. \A c \in Clients : session'[c] = "in" => session[c] = "in" /\ age'[c] = age[c]
      BY <1>7 DEF Refresh, BeginRefresh, ReadPage, QueryFails, Swap, Crash, authVars
    <2>3. QED BY <1>2, <2>1, <2>2, LapseRecent
  <1>8. ASSUME ClientStep PROVE Recent'
    <2>1. UNCHANGED <<current, up>> /\ \A c \in Clients : accepted(c)' = accepted(c)
      BY <1>1, <1>8 DEF ClientStep, Client, LogIn, Deliver, Need, Serve, Expire, Leave, Tick, snapVars
    <2>2. CASE Tick
      <3> SUFFICES ASSUME NEW c \in Clients, session[c] = "in", ~accepted(c) PROVE since'[c] <= age'[c]
        BY <2>1, <2>2 DEF Tick, Recent
      <3>1. /\ age'[c] = IF age[c] < TTL THEN age[c] + 1 ELSE TTL
            /\ since'[c] = IF since[c] < TTL THEN since[c] + 1 ELSE TTL
        BY <2>2 DEF Tick
      <3>2. since[c] \in 0..TTL /\ age[c] \in 0..TTL /\ since[c] <= age[c]
        BY DEF Typed, TypedAuth, Recent
      <3>3. QED BY <3>1, <3>2, ConstantFacts
    <2>3. ASSUME NEW d \in Clients, Client(d) PROVE Recent'
      <3> SUFFICES ASSUME NEW c \in Clients, session'[c] = "in" PROVE accepted(c) \/ since'[c] <= age'[c]
        BY <2>1 DEF Recent
      <3>1. \/ LogIn(d) /\ c = d
            \/ session[c] = "in" /\ age'[c] = age[c] /\ since' = since
        BY <2>3 DEF Client, LogIn, Deliver, Need, Serve, Expire, Leave, Typed, TypedAuth
      <3>2. QED BY <3>1 DEF LogIn, Recent
    <2>4. QED BY <1>8, <2>2, <2>3 DEF ClientStep
  <1>9. QED BY <1>3, <1>4, <1>5, <1>6, <1>7, <1>8, StepsAre

(* What takes a token is given only for a valid one, which only a client   *)
(* in has.                                                                 *)
LEMMA ServesRecent ==
    ASSUME Typed, Recent, [Next]_vars, NEW c \in Clients, wants[c] = "token", wants'[c] = "nothing"
    PROVE  since[c] < TTL \/ accepted(c)
  <1>1. ASSUME UNCHANGED wants PROVE FALSE
    BY <1>1
  <1>2. Serve(c)
    <2>1. ASSUME NEW i \in Ids, Replicate(i) \/ Edit(i) PROVE UNCHANGED wants
      BY <2>1 DEF Replicate, Edit, authVars
    <2>2. ASSUME NEW o \in Operators, NEW d \in Commands, Begin(o, d) PROVE UNCHANGED wants
      BY <2>2 DEF Begin, authVars
    <2>3. ASSUME NEW o \in Operators, GetCurrent(o) \/ GetVersion(o) \/ PutItem(o) \/ DeleteItem(o)
          PROVE  UNCHANGED wants
      BY <2>3 DEF GetCurrent, GetVersion, PutItem, DeleteItem, authVars
    <2>4. ASSUME NEW k \in Served, Refresh(k) \/ Crash(k) PROVE UNCHANGED wants
      BY <2>4 DEF Refresh, BeginRefresh, ReadPage, QueryFails, Swap, Crash, authVars
    <2>5. ASSUME UNCHANGED vars PROVE UNCHANGED wants
      BY <2>5 DEF vars, authVars
    <2>6. ClientStep
      BY <1>1, <2>1, <2>2, <2>3, <2>4, <2>5, StepsAre
    <2>7. PICK d \in Clients : Client(d)
      BY <1>1, <2>6 DEF ClientStep, Tick
    <2>8. \/ \E v : wants' = [wants EXCEPT ![d] = v] /\ (wants[d] = "token" /\ v = "nothing" => Serve(d))
          \/ UNCHANGED wants
      <3>1. wants \in [Clients -> {"nothing", "delta", "token"}]
        BY DEF Typed, TypedAuth
      <3>2. CASE LogIn(d)
        BY <3>2, <3>1 DEF LogIn
      <3>3. CASE Deliver(d)
        BY <3>3 DEF Deliver
      <3>4. CASE Serve(d)
        BY <3>4 DEF Serve
      <3>5. CASE Expire(d) \/ Leave(d)
        BY <3>5 DEF Expire, Leave
      <3>6. CASE \E what \in {"delta", "token"} : Need(d, what)
        BY <3>6 DEF Need
      <3>7. QED BY <2>7, <3>2, <3>3, <3>4, <3>5, <3>6 DEF Client
    <2>9. QED BY <1>1, <2>8 DEF Typed, TypedAuth
  <1>3. c \in Clients /\ session[c] = "in" /\ Valid[age[c]]
    BY <1>2 DEF Serve, Typed, TypedAuth
  <1>4. age[c] \in 0..TTL /\ since[c] \in 0..TTL /\ age[c] < TTL
    BY <1>3, ValidIs DEF Typed, TypedAuth
  <1>5. accepted(c) \/ since[c] <= age[c]
    BY <1>3 DEF Recent
  <1>6. QED BY <1>4, <1>5, ConstantFacts

(* Nobody is given what takes a token for longer than one lives after the  *)
(* snapshots stopped accepting it, whatever refreshes, dies or fails       *)
(* meanwhile (m2m.go:63, stream_server.go:74).                             *)
THEOREM AccessEnds == Spec => AccessRunsOut
  <1>1. Init => Typed /\ Recent
    BY TypedInit DEF Init, Recent
  <1>2. Typed /\ Recent /\ [Next]_vars => (Typed /\ Recent)'
    BY TypedNext, RecentNext
  <1>3. Typed /\ Recent /\ [Next]_vars =>
            [\A c \in Clients :
                wants[c] = "token" /\ wants'[c] = "nothing" => since[c] < TTL \/ accepted(c)]_vars
    BY ServesRecent
  <1>4. QED BY <1>1, <1>2, <1>3, PTL DEF Spec, AccessRunsOut

-----------------------------------------------------------------------------
(* Which data of an item let somebody in.                                  *)

LEMMA OnePart ==
    ASSUME NEW i \in Ids, NEW d \in Entities
    PROVE  LET p == part(i, d)
               doc == <<part(i, d)>>
           IN  /\ p.id = <<i>> /\ p.status = d.status /\ p.secrets = d.secrets /\ p.expired = {} /\ p.from = {}
               /\ IsDocument(doc) /\ DOMAIN doc = {1} /\ doc[1] = p /\ IsLast(doc, <<i>>, 1)
               /\ parse(Kind[i], doc).ok
  <1> DEFINE p == part(i, d)
             doc == <<p>>
  <1>1. d.status \in {"active", "disabled"}
    BY DEF Entities
  <1>2. /\ p.id = <<i>> /\ p.status = d.status /\ p.secrets = d.secrets /\ p.expired = {} /\ p.from = {}
        /\ IsPart(p) /\ p.status \in {"active", "disabled"}
    <2>1. IsPart(NoPart) /\ NoPart.expired = {} /\ NoPart.from = {}
      BY DEF IsPart, NoPart
    <2> DEFINE q1 == [NoPart EXCEPT !.id = <<i>>]
               q2 == [q1 EXCEPT !.status = d.status]
               q3 == [q2 EXCEPT !.secrets = d.secrets]
    <2>2. p = q3
      BY DEF part
    <2> HIDE DEF p
    <2>3. IsPart(q1) /\ q1.id = <<i>> /\ q1.expired = {} /\ q1.from = {}
      <3>1. \A q, v : IsPart(q) => LET w == [q EXCEPT !.id = v]
                                   IN  IsPart(w) /\ w.id = v /\ w.expired = q.expired /\ w.from = q.from
        BY DEF IsPart
      <3>2. QED BY <2>1, <3>1
    <2> HIDE DEF q1
    <2>4. IsPart(q2) /\ q2.status = d.status /\ q2.id = <<i>> /\ q2.expired = {} /\ q2.from = {}
      BY <2>3 DEF IsPart
    <2> HIDE DEF q2
    <2>5. /\ IsPart(q3) /\ q3.secrets = d.secrets /\ q3.status = d.status /\ q3.id = <<i>>
          /\ q3.expired = {} /\ q3.from = {}
      BY <2>4 DEF IsPart
    <2> HIDE DEF q3
    <2>6. QED BY <1>1, <2>2, <2>5
  <1> HIDE DEF p
  <1>3. DOMAIN doc = {1} /\ doc[1] = p /\ Len(doc) = 1
    OBVIOUS
  <1>4. doc \in Seq(Words(doc))
    <2>1. p \in Words(doc)
      <3> HIDE DEF doc
      <3>1. QED BY <1>3 DEF Words
    <2>2. \A X : p \in X => <<p>> \in Seq(X)
      OBVIOUS
    <2>3. QED BY <2>1, <2>2
  <1> HIDE DEF doc
  <1>5. IsDocument(doc)
    <2>1. ASSUME NEW j \in DOMAIN doc
          PROVE  IsPart(doc[j]) /\ doc[j].status \in {"", "active", "disabled", "corrupt"}
      <3>1. doc[j] = p
        BY <1>3
      <3>2. QED BY <1>2, <3>1
    <2>2. QED BY <1>4, <2>1 DEF IsDocument
  <1>6. IsLast(doc, <<i>>, 1)
    BY <1>2, <1>3 DEF IsLast
  <1>7. parse(Kind[i], doc).ok
    <2>1. \A j \in DOMAIN doc : doc[j].status # "corrupt" /\ doc[j].id # <<>>
      BY <1>2, <1>3
    <2>2. QED BY <1>5, <2>1, ParsesTo
  <1>8. QED BY <1>2, <1>3, <1>5, <1>6, <1>7 DEF p, doc

LEMMA AdmitsIs ==
    ASSUME NEW i \in Ids, NEW d, NEW s \in Secrets
    PROVE  admits(i, d, s) <=>
               /\ Kind[i] # "prefix_config" /\ d \in Entities
               /\ LoginAnswer(parse(Kind[i], <<part(i, d)>>).store, request(i, s)).code = "OK"
  <1> DEFINE x == <<i, d, s>>
  <1>1. x[1] = i /\ x[2] = d /\ x[3] = s /\ (x \in Ids \X Entities \X Secrets <=> d \in Entities)
    OBVIOUS
  <1> HIDE DEF x
  <1>2. x \in Admitted <=>
            /\ x \in Ids \X Entities \X Secrets
            /\ LoginAnswer(parse(Kind[x[1]], <<part(x[1], x[2])>>).store, request(x[1], x[3])).code = "OK"
    BY DEF Admitted
  <1>3. x \in Admitted <=>
            d \in Entities /\ LoginAnswer(parse(Kind[i], <<part(i, d)>>).store, request(i, s)).code = "OK"
    BY <1>1, <1>2
  <1>4. admits(i, d, s) <=> Kind[i] # "prefix_config" /\ x \in Admitted
    BY DEF admits, x
  <1>5. QED BY <1>3, <1>4

LEMMA RequestIs ==
    ASSUME NEW i \in Ids, NEW s
    PROVE  LET r == request(i, s)
           IN  /\ r.id = <<i>> /\ r.secret = s /\ r.bad = {} /\ r.reply = "ok"
               /\ r.scheme = CASE Kind[i] = "app_role" -> "approle" [] Kind[i] = "arn_map" -> "aws-sts" [] OTHER -> "basic"
  BY DEF request

LEMMA AdmitsRole ==
    ASSUME NEW i \in Ids, Kind[i] = "app_role", NEW d, NEW s \in Secrets
    PROVE  admits(i, d, s) <=> d \in Entities /\ d.status # "disabled" /\ s \in d.secrets
  <1> SUFFICES ASSUME d \in Entities PROVE admits(i, d, s) <=> d.status # "disabled" /\ s \in d.secrets
    BY AdmitsIs
  <1> DEFINE p == part(i, d)
             doc == <<p>>
             r == request(i, s)
  <1>1. /\ p.status = d.status /\ p.secrets = d.secrets /\ p.expired = {} /\ p.from = {}
        /\ IsDocument(doc) /\ DOMAIN doc = {1} /\ doc[1] = p /\ IsLast(doc, <<i>>, 1) /\ parse("app_role", doc).ok
    BY OnePart
  <1>2. r.id = <<i>> /\ r.secret = s /\ r.bad = {} /\ r.scheme = "approle"
    BY RequestIs
  <1>3. admits(i, d, s) <=> LoginAnswer(parse("app_role", doc).store, r).code = "OK"
    BY AdmitsIs
  <1> HIDE DEF p, doc, r
  <1>4. LoginAnswer(parse("app_role", doc).store, r).code = "OK" <=> grants(p, r)
    <2>1. LoginAnswer(parse("app_role", doc).store, r).code = "OK"
              <=> r.bad = {} /\ \E j \in DOMAIN doc : IsLast(doc, r.id, j) /\ grants(doc[j], r)
      BY <1>1, <1>2, RoleGrants
    <2>2. QED BY <1>1, <1>2, <2>1
  <1>5. grants(p, r) <=> d.status # "disabled" /\ s \in d.secrets
    BY <1>1, <1>2 DEF grants, kindOf
  <1>6. QED BY <1>3, <1>4, <1>5

LEMMA AdmitsUser ==
    ASSUME NEW i \in Ids, Kind[i] = "basic_auth", NEW d, NEW s \in Secrets
    PROVE  admits(i, d, s) <=> d \in Entities /\ s \in d.secrets
  <1> SUFFICES ASSUME d \in Entities PROVE admits(i, d, s) <=> s \in d.secrets
    BY AdmitsIs
  <1> DEFINE p == part(i, d)
             doc == <<p>>
             r == request(i, s)
  <1>1. /\ p.secrets = d.secrets
        /\ IsDocument(doc) /\ DOMAIN doc = {1} /\ doc[1] = p /\ IsLast(doc, <<i>>, 1) /\ parse("basic_auth", doc).ok
    BY OnePart
  <1>2. r.id = <<i>> /\ r.secret = s /\ r.bad = {} /\ r.scheme = "basic"
    BY RequestIs
  <1>3. admits(i, d, s) <=> LoginAnswer(parse("basic_auth", doc).store, r).code = "OK"
    BY AdmitsIs
  <1> HIDE DEF p, doc, r
  <1>4. LoginAnswer(parse("basic_auth", doc).store, r).code = "OK" <=> grants(p, r)
    <2>1. LoginAnswer(parse("basic_auth", doc).store, r).code = "OK"
              <=> r.bad = {} /\ \E j \in DOMAIN doc : IsLast(doc, r.id, j) /\ grants(doc[j], r)
      BY <1>1, <1>2, UserGrants
    <2>2. QED BY <1>1, <1>2, <2>1
  <1>5. grants(p, r) <=> s \in d.secrets
    BY <1>1, <1>2 DEF grants, kindOf
  <1>6. QED BY <1>3, <1>4, <1>5

(* AWS vouches for an ARN whatever is stored of it.                        *)
LEMMA AdmitsARN ==
    ASSUME NEW i \in Ids, Kind[i] = "arn_map", NEW d, NEW e \in Entities, e.status = "active",
           NEW s \in Secrets, admits(i, d, s)
    PROVE  admits(i, e, s)
  <1> DEFINE r == request(i, s)
             docd == <<part(i, d)>>
             doce == <<part(i, e)>>
             arn == NormalizeARN(r.id)
             stored == GetRole(parse("arn_map", docd).store, arn)
             new == GetRole(parse("arn_map", doce).store, arn)
  <1>1. d \in Entities /\ LoginAnswer(parse("arn_map", docd).store, r).code = "OK"
    BY AdmitsIs
  <1>2. admits(i, e, s) <=> LoginAnswer(parse("arn_map", doce).store, r).code = "OK"
    BY AdmitsIs
  <1>3. r.scheme = "aws-sts" /\ r.bad = {}
    BY RequestIs
  <1>4. /\ IsDocument(docd) /\ DOMAIN docd = {1} /\ docd[1].id = <<i>> /\ parse("arn_map", docd).ok
    BY <1>1, OnePart
  <1>5. /\ IsDocument(doce) /\ DOMAIN doce = {1} /\ doce[1].id = <<i>> /\ parse("arn_map", doce).ok
        /\ doce[1].status # "disabled"
    BY OnePart
  <1> HIDE DEF docd, doce, r
  <1>6. \A store : LoginAnswer(store, r).code = "OK" <=> r.bad \cap Garbled = {} /\ arnGranted(store, r)
    BY <1>3, GrpcAnswer, ARNIdentity DEF identityOf, Schemes
  <1>7. arnGranted(parse("arn_map", docd).store, r)
    BY <1>1, <1>6
  <1> HIDE DEF arn
  <1>8. stored # NoPart
    BY <1>7 DEF arnGranted, arn
  <1>9. arn = <<i>>
    <2>1. \E j \in DOMAIN docd : IsLast(docd, arn, j)
      BY <1>4, <1>8, EntryOf
    <2>2. QED BY <1>4, <2>1 DEF IsLast
  <1>10. new # NoPart /\ new.status = "active"
    <2>1. doce[1].id = arn
      BY <1>5, <1>9
    <2>2. /\ new # NoPart
          /\ \E j \in DOMAIN doce : new.status = "active" <=> doce[j].status # "disabled"
      BY <1>5, <2>1, EntryOf
    <2> HIDE DEF new
    <2>3. QED BY <1>5, <2>2
  <1>11. arnGranted(parse("arn_map", doce).store, r)
    BY <1>7, <1>10 DEF arnGranted, arn
  <1>12. QED BY <1>2, <1>3, <1>6, <1>11

-----------------------------------------------------------------------------
(* A command that read what its item has is about to write what it makes   *)
(* of that.                                                                *)
Drafted ==
    \A o \in Operators :
        o \notin dirty /\ phase[o] \in {"version", "put"} /\ command[o].verb # "generate"
            => next[o].data = merged(command[o], table[command[o].id].data)

(* Merging looks at nothing but the kind of the item, which never changes. *)
LEMMA DraftedStays ==
    ASSUME Typed, Drafted, NEW o \in Operators,
           o \in dirty => o \in dirty',
           phase'[o] = "idle" \/ (phase[o] \in {"version", "put"} /\ next'[o].data = next[o].data /\ command'[o] = command[o])
               \/ phase'[o] \in {"get", "delete"},
           table'[command[o].id].data = table[command[o].id].data \/ o \in dirty' \/ phase[o] = "idle"
    PROVE  (o \notin dirty /\ phase[o] \in {"version", "put"} /\ command[o].verb # "generate"
               => next[o].data = merged(command[o], table[command[o].id].data))'
  <1> SUFFICES ASSUME o \notin dirty', phase'[o] \in {"version", "put"}, command'[o].verb # "generate"
               PROVE  next'[o].data = merged(command[o], table[command[o].id].data)'
    OBVIOUS
  <1>1. /\ phase[o] \in {"version", "put"} /\ next'[o].data = next[o].data /\ command'[o] = command[o]
        /\ table'[command[o].id].data = table[command[o].id].data
    OBVIOUS
  <1>2. next[o].data = merged(command[o], table[command[o].id].data)
    BY <1>1 DEF Drafted
  <1>3. merged(command[o], table[command[o].id].data)' = merged(command[o], table[command[o].id].data)
    BY <1>1 DEF merged, rotated, userUpserted, arnUpserted, prefixUpserted
  <1>4. QED BY <1>1, <1>2, <1>3

LEMMA DraftedNext == Typed /\ Drafted /\ [Next]_vars => Drafted'
  <1> SUFFICES ASSUME Typed, Drafted, [Next]_vars PROVE Drafted'
    OBVIOUS
  <1>a. ASSUME NEW o \in Operators, UNCHANGED <<phase, command, next>>, o \in dirty => o \in dirty',
               table'[command[o].id].data = table[command[o].id].data \/ o \in dirty' \/ phase[o] = "idle"
        PROVE  (o \notin dirty /\ phase[o] \in {"version", "put"} /\ command[o].verb # "generate"
                   => next[o].data = merged(command[o], table[command[o].id].data))'
    <2>1. phase[o] \in {"idle", "get", "version", "put", "delete"}
      BY DEF Typed, TypedCli
    <2>2. QED BY <1>a, <2>1, DraftedStays
  <1>1. ASSUME UNCHANGED <<tableVars, cliVars>> PROVE Drafted'
    BY <1>a, <1>1 DEF Drafted, tableVars, cliVars
  <1>2. ASSUME NEW i \in Ids, Replicate(i) \/ Edit(i) PROVE Drafted'
    <2>1. CASE Replicate(i)
      BY <1>a, <2>1 DEF Replicate, Drafted, cliVars
    <2>2. CASE Edit(i)
      <3>1. /\ UNCHANGED <<phase, command, next>>
            /\ dirty' = dirty \cup {p \in Operators : phase[p] # "idle" /\ command[p].id = i}
            /\ table' = [table EXCEPT ![i] = Row(Corrupt, table[i].version)]
        BY <2>2 DEF Edit, Write
      <3>2. ASSUME NEW o \in Operators
            PROVE  table'[command[o].id].data = table[command[o].id].data \/ o \in dirty' \/ phase[o] = "idle"
        <4>1. CASE phase[o] # "idle" /\ command[o].id # i
          <5>1. command[o].id \in Ids
            BY <4>1, WorkingItem DEF Typed
          <5>2. QED BY <3>1, <4>1, <5>1 DEF Typed, TypedTable
        <4>2. QED BY <3>1, <4>1
      <3>3. QED BY <1>a, <3>1, <3>2 DEF Drafted
    <2>3. QED BY <1>2, <2>1, <2>2
  <1>3. ASSUME NEW o \in Operators, NEW c \in Commands, Begin(o, c) PROVE Drafted'
    <2>1. /\ UNCHANGED table /\ dirty' = dirty \ {o}
          /\ \A p \in Operators \ {o} : phase'[p] = phase[p] /\ next'[p] = next[p] /\ command'[p] = command[p]
          /\ phase'[o] = starts(c) /\ command'[o] = c
      BY <1>3 DEF Begin, Typed, TypedCli, tableVars
    <2> SUFFICES ASSUME NEW p \in Operators
                 PROVE  (p \notin dirty /\ phase[p] \in {"version", "put"} /\ command[p].verb # "generate"
                            => next[p].data = merged(command[p], table[command[p].id].data))'
      BY DEF Drafted
    <2>2. CASE p = o
      BY <2>1, <2>2 DEF starts
    <2>3. CASE p # o
      <3>1. phase'[p] \in {"idle", "get", "version", "put", "delete"}
        BY <2>1, <2>3 DEF Typed, TypedCli
      <3>2. QED BY <2>1, <2>3, <3>1, DraftedStays
    <2>4. QED BY <2>2, <2>3
  <1>4. ASSUME NEW o \in Operators, GetCurrent(o) \/ GetVersion(o) PROVE Drafted'
    <2>1. /\ UNCHANGED table /\ dirty \subseteq dirty' /\ phase[o] \in {"get", "version"}
          /\ \A p \in Operators \ {o} : phase'[p] = phase[p] /\ next'[p] = next[p] /\ command'[p] = command[p]
      BY <1>4 DEF GetCurrent, GetVersion, CliReturn, Typed, TypedCli, tableVars
    <2> SUFFICES ASSUME NEW p \in Operators
                 PROVE  (p \notin dirty /\ phase[p] \in {"version", "put"} /\ command[p].verb # "generate"
                            => next[p].data = merged(command[p], table[command[p].id].data))'
      BY DEF Drafted
    <2>2. CASE p # o
      <3>1. phase'[p] \in {"idle", "get", "version", "put", "delete"}
        BY <2>1, <2>2 DEF Typed, TypedCli
      <3>2. QED BY <2>1, <2>2, <3>1, DraftedStays
    <2>3. CASE p = o /\ CliReturn(o)
      BY <2>3 DEF CliReturn, Typed, TypedCli
    <2>4. CASE p = o /\ GetVersion(o)
      <3>1. phase'[o] = "put" /\ command'[o] = command[o] /\ phase[o] = "version"
        BY <2>4 DEF GetVersion, Typed, TypedCli
      <3>2. PICK v : next' = [next EXCEPT ![o].version = v]
        BY <2>4 DEF GetVersion
      <3>3. next'[o].data = next[o].data
        BY <3>2 DEF Typed, TypedCli
      <3>4. QED BY <2>1, <2>4, <3>1, <3>3, DraftedStays
    <2>5. CASE p = o /\ GetCurrent(o) /\ ~CliReturn(o)
      <3>1. PICK row \in Seen(command[o].id) :
               /\ next' = [next EXCEPT ![o].data = merged(command[o], row.data)]
               /\ command' = command
               /\ dirty' = IF row = table[command[o].id] THEN dirty ELSE dirty \cup {o}
        BY <2>5 DEF GetCurrent
      <3>2. CASE row = table[command[o].id]
        <4> DEFINE d == merged(command[o], row.data)
        <4>1. next' = [next EXCEPT ![o].data = d]
          BY <3>1
        <4> HIDE DEF d
        <4>2. next'[o].data = d
          BY <4>1 DEF Typed, TypedCli
        <4>3. next'[o].data = merged(command[o], table[command[o].id].data)
          BY <3>2, <4>2 DEF d
        <4>4. merged(command[o], table[command[o].id].data)' = merged(command[o], table[command[o].id].data)
          BY <2>1, <3>1 DEF merged, rotated, userUpserted, arnUpserted, prefixUpserted
        <4>5. QED BY <2>5, <4>3, <4>4
      <3>3. CASE row # table[command[o].id]
        BY <2>5, <3>1, <3>3
      <3>4. QED BY <3>2, <3>3
    <2>6. QED BY <1>4, <2>2, <2>3, <2>4, <2>5
  <1>5. ASSUME NEW o \in Operators, PutItem(o) \/ DeleteItem(o) PROVE Drafted'
    <2> DEFINE i == command[o].id
    <2>1. /\ CliReturn(o) /\ phase[o] # "idle"
          /\ \/ (\E row : Write(i, row)) /\ dirty' = (dirty \ {o}) \cup others(o, i)
             \/ dirty' = dirty \ {o} /\ UNCHANGED table
      BY <1>5 DEF PutItem, DeleteItem, tableVars
    <2>2. /\ \A p \in Operators \ {o} : phase'[p] = phase[p] /\ next'[p] = next[p] /\ command'[p] = command[p]
          /\ phase'[o] = "idle"
      BY <2>1 DEF CliReturn, Typed, TypedCli
    <2> HIDE DEF i
    <2> SUFFICES ASSUME NEW p \in Operators
                 PROVE  (p \notin dirty /\ phase[p] \in {"version", "put"} /\ command[p].verb # "generate"
                            => next[p].data = merged(command[p], table[command[p].id].data))'
      BY DEF Drafted
    <2>3. CASE p = o
      BY <2>2, <2>3
    <2>4. CASE p # o
      <3>1. phase'[p] = phase[p] /\ phase[p] \in {"idle", "get", "version", "put", "delete"}
        BY <2>2, <2>4 DEF Typed, TypedCli
      <3>2. table'[command[p].id].data = table[command[p].id].data \/ p \in dirty' \/ phase[p] = "idle"
        <4>1. CASE phase[p] # "idle" /\ command[p].id # i
          <5>1. command[p].id \in Ids
            BY <4>1, WorkingItem DEF Typed
          <5>2. table'[command[p].id] = table[command[p].id]
            BY <2>1, <4>1, <5>1 DEF Write, Typed, TypedTable
          <5>3. QED BY <5>2
        <4>2. CASE phase[p] # "idle" /\ command[p].id = i
          BY <2>1, <2>4, <4>2 DEF others
        <4>3. QED BY <4>1, <4>2
      <3>3. p \in dirty => p \in dirty'
        BY <2>1, <2>4
      <3>4. QED BY <2>2, <2>4, <3>1, <3>2, <3>3, DraftedStays
    <2>5. QED BY <2>3, <2>4
  <1>6. ASSUME NEW k \in Served, Refresh(k) \/ Crash(k) PROVE UNCHANGED <<tableVars, cliVars>>
    BY <1>6 DEF Refresh, BeginRefresh, ReadPage, QueryFails, Swap, Crash
  <1>7. ASSUME ClientStep PROVE UNCHANGED <<tableVars, cliVars>>
    BY <1>7 DEF ClientStep, Client, LogIn, Deliver, Need, Serve, Expire, Leave, Tick
  <1>8. ASSUME UNCHANGED vars PROVE UNCHANGED <<tableVars, cliVars>>
    BY <1>8 DEF vars
  <1>9. QED BY <1>1, <1>2, <1>3, <1>4, <1>5, <1>6, <1>7, <1>8, StepsAre

\* Who is meant to lose something by a command.
revoking(c, i) ==
    \/ c.verb \in {"rm", "generate"}
    \/ c.verb = "upsert" /\ c.field = "secret"
    \/ c.to = "disabled" /\ Kind[i] # "basic_auth"

(* What a command makes of an item keeps who may log in, unless the        *)
(* command means otherwise.                                                *)
LEMMA MergedKeeps ==
    ASSUME NEW c \in Commands, NEW d \in Data, ~revoking(c, c.id), merged(c, d) \in Entities
    PROVE  /\ d = Absent => Kind[c.id] \in {"arn_map", "prefix_config"}
           /\ \A s \in Secrets : admits(c.id, d, s) => admits(c.id, merged(c, d), s)
  <1>1. /\ c.id \in Ids /\ Kind[c.id] \in {"app_role", "basic_auth", "arn_map", "prefix_config"}
        /\ c.verb \in IF Kind[c.id] = "app_role" THEN {"generate", "rotate", "rm"} ELSE {"upsert", "rm"}
        /\ c.field \in {"secret", "status", "none"} /\ (c.field = "none" <=> c.verb = "rm")
        /\ c.field = "secret" => Kind[c.id] \in {"app_role", "basic_auth"}
        /\ c.field = "status" => c.to \in {"active", "disabled"}
    BY AccessAssumption
  <1>2. Refused \notin Entities /\ Absent \notin Entities /\ Corrupt \notin Entities
    BY DataFacts DEF Data
  <1> DEFINE e == merged(c, d)
  <1>3. CASE Kind[c.id] = "app_role"
    <2>1. e = rotated(c, d)
      BY <1>3 DEF merged
    <2>2. d \in Entities /\ e = [d EXCEPT !.secrets = @ \cup {c.to}]
      BY <1>2, <2>1, DataFacts DEF rotated, Data
    <2>3. e.status = d.status /\ d.secrets \subseteq e.secrets
      BY <2>2 DEF Entities
    <2> HIDE DEF e
    <2>4. \A s \in Secrets : admits(c.id, d, s) => admits(c.id, e, s)
      BY <1>1, <1>3, <2>3, AdmitsRole DEF e
    <2>5. QED BY <1>2, <2>2, <2>4 DEF e
  <1>4. CASE Kind[c.id] = "basic_auth"
    <2>1. e = userUpserted(c, d) /\ c.field # "secret"
      BY <1>1, <1>4 DEF merged, revoking
    <2>2. d # Absent /\ e = [(IF d \in {Absent, Corrupt} THEN Fresh ELSE d) EXCEPT !.status = c.to]
      BY <1>2, <2>1 DEF userUpserted
    <2> HIDE DEF e
    <2>3. ASSUME NEW s \in Secrets, admits(c.id, d, s) PROVE admits(c.id, e, s)
      <3>1. d \in Entities /\ s \in d.secrets
        BY <1>1, <1>4, <2>3, AdmitsUser
      <3>2. e = [d EXCEPT !.status = c.to]
        BY <1>2, <2>2, <3>1
      <3>3. e.secrets = d.secrets
        BY <3>1, <3>2 DEF Entities
      <3>4. QED BY <1>1, <1>4, <3>1, <3>3, AdmitsUser DEF e
    <2>4. QED BY <2>2, <2>3 DEF e
  <1>5. CASE Kind[c.id] = "arn_map"
    <2>1. e = arnUpserted(c, d) /\ c.to = "active"
      BY <1>1, <1>5 DEF merged, revoking
    <2>2. e.status = "active"
      <3> DEFINE b == IF d \in {Absent, Corrupt} THEN Fresh ELSE d
      <3>1. b \in Entities /\ e = [b EXCEPT !.status = "active"]
        BY <2>1, DataFacts DEF arnUpserted, Data
      <3> HIDE DEF b, e
      <3>2. QED BY <3>1 DEF Entities
    <2> HIDE DEF e
    <2>3. QED BY <1>1, <1>5, <2>2, AdmitsARN DEF e
  <1>6. CASE Kind[c.id] = "prefix_config"
    BY <1>6 DEF admits
  <1>7. QED BY <1>1, <1>3, <1>4, <1>5, <1>6
(* What a write of the table does to an item: somebody spoils it, or an    *)
(* operator removes it or puts what it has drafted.                        *)
LEMMA ItemChanges ==
    ASSUME Typed, [Next]_vars, NEW i \in Ids, table'[i].data # table[i].data
    PROVE  \/ table'[i].data = Corrupt
           \/ \E o \in Operators :
                 /\ command[o].id = i /\ phase'[o] = "idle"
                 /\ \/ phase[o] = "delete"
                    \/ phase[o] = "put" /\ table'[i].data = next[o].data
  <1>1. ASSUME UNCHANGED table PROVE FALSE
    BY <1>1
  <1>2. ASSUME NEW j \in Ids, Replicate(j) \/ Edit(j) PROVE table'[i].data = Corrupt
    <2>1. Edit(j)
      BY <1>1, <1>2 DEF Replicate
    <2>2. table' = [table EXCEPT ![j] = Row(Corrupt, table[j].version)]
      BY <2>1 DEF Edit, Write
    <2>3. QED BY <2>2 DEF Row, Typed, TypedTable
  <1>3. ASSUME NEW o \in Operators, PutItem(o) \/ DeleteItem(o)
        PROVE  /\ command[o].id = i /\ phase'[o] = "idle"
               /\ \/ phase[o] = "delete"
                  \/ phase[o] = "put" /\ table'[i].data = next[o].data
    <2>1. phase'[o] = "idle"
      BY <1>3 DEF PutItem, DeleteItem, CliReturn, Typed, TypedCli
    <2>2. CASE PutItem(o)
      <3>1. phase[o] = "put" /\ Write(command[o].id, next[o])
        BY <1>1, <2>2 DEF PutItem, tableVars
      <3>2. table' = [table EXCEPT ![command[o].id] = next[o]]
        BY <3>1 DEF Write
      <3>3. QED BY <2>1, <3>1, <3>2 DEF Typed, TypedTable
    <2>3. CASE DeleteItem(o)
      <3>1. phase[o] = "delete" /\ Write(command[o].id, NoRow)
        BY <1>1, <2>3 DEF DeleteItem, tableVars
      <3>2. table' = [table EXCEPT ![command[o].id] = NoRow]
        BY <3>1 DEF Write
      <3>3. QED BY <2>1, <3>1, <3>2 DEF Typed, TypedTable
    <2>4. QED BY <1>3, <2>2, <2>3
  <1>4. ASSUME NEW o \in Operators, NEW c \in Commands, Begin(o, c) PROVE FALSE
    BY <1>1, <1>4 DEF Begin, tableVars
  <1>5. ASSUME NEW o \in Operators, GetCurrent(o) \/ GetVersion(o) PROVE FALSE
    BY <1>1, <1>5 DEF GetCurrent, GetVersion, tableVars
  <1>6. ASSUME NEW k \in Served, Refresh(k) \/ Crash(k) PROVE FALSE
    BY <1>1, <1>6 DEF Refresh, BeginRefresh, ReadPage, QueryFails, Swap, Crash, tableVars
  <1>7. ASSUME ClientStep PROVE FALSE
    BY <1>1, <1>7 DEF ClientStep, Client, LogIn, Deliver, Need, Serve, Expire, Leave, Tick, tableVars
  <1>8. ASSUME UNCHANGED vars PROVE FALSE
    BY <1>1, <1>8 DEF vars, tableVars
  <1>9. QED BY <1>2, <1>3, <1>4, <1>5, <1>6, <1>7, <1>8, StepsAre

\* Operators whose write of an item is over.
Writers(i) == {o \in Operators : phase[o] \in {"put", "delete"} /\ command[o].id = i /\ phase'[o] = "idle"}

LEMMA CommandsKeepStep ==
    ASSUME Typed, Drafted, [Next]_vars, NEW i \in Ids,
           table[i].data # table'[i].data, table'[i].data # Corrupt,
           \A o \in Writers(i) : ~revoking(command[o], i) /\ o \notin dirty
    PROVE  /\ Writers(i) # {} /\ (table[i].data = Absent => Kind[i] \in {"arn_map", "prefix_config"})
           /\ \A s \in Secrets : admits(i, table[i].data, s) => admits(i, table'[i].data, s)
  <1> DEFINE d == table[i].data
             e == table'[i].data
  <1>1. PICK o \in Operators :
           /\ command[o].id = i /\ phase'[o] = "idle"
           /\ \/ phase[o] = "delete"
              \/ phase[o] = "put" /\ e = next[o].data
    BY ItemChanges
  <1>2. o \in Writers(i) /\ ~revoking(command[o], i) /\ o \notin dirty
    BY <1>1 DEF Writers
  <1>3. command[o] \in Commands /\ (phase[o] = "delete" => command[o].verb = "rm")
    BY <1>1 DEF Typed, Working, starts
  <1>4. phase[o] = "put" /\ e = next[o].data /\ command[o].verb # "generate"
    BY <1>1, <1>2, <1>3 DEF revoking
  <1>5. e = merged(command[o], d)
    BY <1>1, <1>2, <1>4 DEF Drafted
  <1>6. e \in Entities /\ d \in Data
    BY <1>1, <1>2, <1>4 DEF Typed, TypedTable, TypedCli, Working, Rows
  <1>7. QED BY <1>1, <1>2, <1>3, <1>5, <1>6, MergedKeeps

(* What could log in before a write of the table can after it, and what    *)
(* was removed stays so, unless the command says otherwise, the item was   *)
(* spoilt by hand or the command worked on an old copy (admin.go:27).      *)
THEOREM CommandsKeepAccess == Spec => CommandsKeep
  <1>1. Init => Typed /\ Drafted
    BY TypedInit DEF Init, Drafted
  <1>2. Typed /\ Drafted /\ [Next]_vars => (Typed /\ Drafted)'
    BY TypedNext, DraftedNext
  <1>3. Typed /\ Drafted /\ [Next]_vars =>
            [\A i \in Ids :
                LET d == table[i].data
                    e == table'[i].data
                    by == {o \in Operators : phase[o] \in {"put", "delete"} /\ command[o].id = i /\ phase'[o] = "idle"}
                    revokes(c) == \/ c.verb \in {"rm", "generate"}
                                  \/ c.verb = "upsert" /\ c.field = "secret"
                                  \/ c.to = "disabled" /\ Kind[i] # "basic_auth"
                    meant == {o \in by : revokes(command[o])}
                IN  d = e \/ e = Corrupt \/ meant \cup (by \cap dirty) # {}
                    \/ /\ by # {} /\ (d = Absent => Kind[i] \in {"arn_map", "prefix_config"})
                       /\ \A s \in Secrets : admits(i, d, s) => admits(i, e, s)]_vars
    <2>1. ASSUME Typed, Drafted, [Next]_vars, NEW i \in Ids
          PROVE  LET d == table[i].data
                     e == table'[i].data
                     meant == {o \in Writers(i) : revoking(command[o], i)}
                 IN  d = e \/ e = Corrupt \/ meant \cup (Writers(i) \cap dirty) # {}
                     \/ /\ Writers(i) # {} /\ (d = Absent => Kind[i] \in {"arn_map", "prefix_config"})
                        /\ \A s \in Secrets : admits(i, d, s) => admits(i, e, s)
      BY <2>1, CommandsKeepStep
    <2>2. QED BY <2>1 DEF Writers, revoking
  <1>4. QED BY <1>1, <1>2, <1>3, PTL DEF Spec, CommandsKeep

-----------------------------------------------------------------------------
(* Logins.                                                                 *)

(* A login succeeds if and only if the source that counts grants it, and   *)
(* the token tells who logged in for as long as it lives (source.go:71,    *)
(* m2m.go:35).                                                             *)
THEOREM LoginsStayExact == Spec => []LoginExact
  <1>1. LoginExact
    BY LoginsExact, TokensCarry DEF LoginExact
  <1>2. QED BY <1>1, PTL

(* "All credential failures collapse to Unauthenticated"                   *)
(* (auth_interceptor.go:226).                                              *)
THEOREM FailuresStayAlike == Spec => []FailuresAlike
  <1>1. FailuresAlike
    BY FailuresCollapse DEF FailuresAlike
  <1>2. QED BY <1>1, PTL

=============================================================================
