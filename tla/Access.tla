------------------------------- MODULE Access -------------------------------
(***************************************************************************)
(* Who may log in: the config table, the nbox-cli commands that edit it    *)
(* (cmd/cli/commands, config/admin.go), the snapshots that a service keeps *)
(* of it (config/refresh.go, source.go, dynamo.go), and what is answered   *)
(* from them over time.  What one payload, one login or one token leads to *)
(* is computed by Login.                                                   *)
(*                                                                         *)
(* A secret stands for its hash.  The data of an entity are its secrets    *)
(* and a status; further fields are merged as the status is.               *)
(***************************************************************************)
EXTENDS Login

CONSTANTS
    Operators,    \* people with nbox-cli
    Kinds, Ids,   \* partitions and items of the table
    Kind,         \* of each item
    Served,       \* kinds that the modelled process has a snapshot of
    Secrets,
    Commands,     \* what operators may run: [verb, id, field, to]
    Clients,      \* agents with a stream, or users of the API
    Credential,   \* of each client: [id, secret]
    Stored,       \* the items there are at the start, with their data
    MaxCommands,  \* bound: commands run
    MaxFaults,    \* bound: requests that fail and processes that die
    Failing,      \* what may fail: "get", "put", "query", "crash"
    Editable,     \* items that somebody may spoil by hand
    Lagging       \* items whose reads may lag

Absent == [secrets |-> {}, status |-> "absent"]
Corrupt == [secrets |-> {}, status |-> "corrupt"]
Entities == [secrets : SUBSET Secrets, status : {"active", "disabled"}]
Data == Entities \cup {Absent, Corrupt}

ASSUME AccessAssumption ==
    /\ Kind \in [Ids -> Kinds] /\ Served \subseteq Kinds
    /\ Kinds \subseteq {"app_role", "basic_auth", "arn_map", "prefix_config"}
    /\ \A c \in Commands :
          /\ c.id \in Ids
          /\ c.verb \in IF Kind[c.id] = "app_role" THEN {"generate", "rotate", "rm"} ELSE {"upsert", "rm"}
          /\ c.verb \in {"generate", "rotate"} => c.field = "secret"
          /\ Kind[c.id] = "app_role" => c.field # "status"
          /\ c.field \in {"secret", "status", "none"} /\ (c.field = "none" <=> c.verb = "rm")
          /\ c.field = "secret" => c.to \in Secrets /\ Kind[c.id] \in {"app_role", "basic_auth"}
          /\ c.field = "status" => c.to \in {"active", "disabled"}
    /\ Credential \in [Clients -> [id : Ids, secret : Secrets]]
    /\ Stored \in [Ids -> Entities \cup {Absent}]
    /\ MaxCommands \in Nat /\ MaxFaults \in Nat
    /\ Failing \subseteq {"get", "put", "query", "crash"} /\ Editable \subseteq Ids
    /\ Lagging \subseteq Ids

VARIABLES
    table,     \* of each item its data and version
    replica,   \* what a read that lags may see
    phase,     \* of each operator: idle, get, version, put or delete
    command,   \* what it runs
    next,      \* the data and version it is about to write
    commands,  \* number of commands run
    issued,    \* role IDs that have been generated
    current,   \* Snapshot.current of each kind
    up,        \* kinds whose process has started
    toRead,    \* of each kind: items its refresh has still to read
    got,       \* and those it has read
    loading,   \* kinds that are being refreshed
    session,   \* of each client: out or in
    age,       \* ticks since its token was minted
    wants,     \* of each client: what it waits for
    faults,    \* number of faults
    \* History:
    dirty,     \* operators whose item was not, or is no longer, what they read
    had,       \* what could be read of each item since its kind's refresh began
    since      \* of each client: ticks since a snapshot last accepted it

tableVars == <<table, replica>>
cliVars == <<phase, command, next, commands, issued, dirty>>
snapVars == <<current, up, toRead, got, loading>>
authVars == <<session, age, wants, since>>
vars == <<tableVars, cliVars, snapVars, authVars, had, faults>>

-----------------------------------------------------------------------------
Row(d, v) == [data |-> d, version |-> v]
NoRow == Row(Absent, 0)
NoCommand == [verb |-> "none", id |-> "none", field |-> "none", to |-> "none"]
Of(k) == {i \in Ids : Kind[i] = k}
Nothing == [i \in Ids |-> Absent]

\* An entity, and those that are parsed; a payload is if all of it is (Exact).
part(i, d) == [NoPart EXCEPT !.id = <<i>>, !.status = d.status, !.secrets = d.secrets]
Parses == {x \in Ids \X Data : x[2] = Absent \/ parse(Kind[x[1]], <<part(x[1], x[2])>>).ok}

\* What a read of an item may see.
Seen(i) == {table[i], replica[i]}

Init ==
    /\ table = [i \in Ids |-> IF Stored[i] = Absent THEN NoRow ELSE Row(Stored[i], 1)]
    /\ replica = table
    /\ phase = [o \in Operators |-> "idle"] /\ command = [o \in Operators |-> NoCommand]
    /\ next = [o \in Operators |-> NoRow]
    /\ commands = 0 /\ issued = {i \in Ids : Stored[i] # Absent}
    /\ current = [k \in Served |-> Nothing] /\ up = {}
    /\ toRead = [k \in Served |-> {}] /\ got = [k \in Served |-> Nothing] /\ loading = {}
    /\ session = [c \in Clients |-> "out"] /\ age = [c \in Clients |-> TTL]
    /\ wants = [c \in Clients |-> "nothing"]
    /\ faults = 0
    /\ dirty = {} /\ had = [i \in Ids |-> {}] /\ since = [c \in Clients |-> TTL]

Fault(what) == what \in Failing /\ faults < MaxFaults /\ faults' = faults + 1

-----------------------------------------------------------------------------
(* The table and nbox-cli.                                                 *)

\* A write of an item, by an operator or by somebody else.
Write(i, row) ==
    /\ table' = [table EXCEPT ![i] = row]
    /\ replica' = IF i \in Lagging THEN replica ELSE [replica EXCEPT ![i] = row]
    /\ had' = IF Kind[i] \in loading THEN [had EXCEPT ![i] = @ \cup {row.data}] ELSE had

\* Operators other than o that are at work on an item.
others(o, i) == {p \in Operators \ {o} : phase[p] # "idle" /\ command[p].id = i}

Replicate(i) ==
    /\ replica[i] # table[i]
    /\ replica' = [replica EXCEPT ![i] = table[i]]
    /\ UNCHANGED <<table, cliVars, snapVars, authVars, had, faults>>

\* Somebody spoils an item by hand.
Edit(i) ==
    /\ i \in Editable /\ table[i].data # Absent /\ faults < MaxFaults /\ faults' = faults + 1
    /\ Write(i, Row(Corrupt, table[i].version))
    /\ dirty' = dirty \cup {p \in Operators : phase[p] # "idle" /\ command[p].id = i}
    /\ UNCHANGED <<phase, command, next, commands, issued, snapVars, authVars>>

Refused == [secrets |-> {}, status |-> "refused"]
Fresh == [secrets |-> {}, status |-> "active"]

\* approle generate: a new role under a new ID.
generated(c) == [Fresh EXCEPT !.secrets = {c.to}]

\* generate needs no read, nor does rm, which removes whatever there is.
starts(c) == CASE c.verb = "generate" -> "version" [] c.verb = "rm" -> "delete" [] OTHER -> "get"

\* A command begins; generate makes an ID and a secret.
Begin(o, c) ==
    /\ phase[o] = "idle" /\ commands < MaxCommands
    /\ c.verb = "generate" => c.id \notin issued
    /\ commands' = commands + 1
    /\ command' = [command EXCEPT ![o] = c]
    /\ phase' = [phase EXCEPT ![o] = starts(c)]
    /\ next' = [next EXCEPT ![o].data =
          IF c.verb = "generate" THEN generated(c) ELSE Absent]
    /\ issued' = issued \cup (IF c.verb = "generate" THEN {c.id} ELSE {})
    /\ dirty' = dirty \ {o}
    /\ UNCHANGED <<tableVars, snapVars, authVars, had, faults>>

CliReturn(o) ==
    /\ phase' = [phase EXCEPT ![o] = "idle"]
    /\ command' = [command EXCEPT ![o] = NoCommand]
    /\ next' = [next EXCEPT ![o] = NoRow]

\* Mutant: rotate-secret replaces the hashes.
rotatedReplaces(c, d) == IF d \in {Absent, Corrupt} THEN Refused ELSE [d EXCEPT !.secrets = {c.to}]

\* approle rotate-secret wants a role and appends a hash to it.
rotated(c, d) == IF d \in {Absent, Corrupt} THEN Refused ELSE [d EXCEPT !.secrets = @ \cup {c.to}]

\* user upsert: a new user needs a password; a record that does not decode
\* counts as one with the defaults.
userUpserted(c, d) ==
    LET base == IF d \in {Absent, Corrupt} THEN Fresh ELSE d
    IN  IF c.field = "secret" THEN [base EXCEPT !.secrets = {c.to}]
        ELSE IF d = Absent THEN Refused ELSE [base EXCEPT !.status = c.to]

\* aws-sts upsert.
arnUpserted(c, d) == [(IF d \in {Absent, Corrupt} THEN Fresh ELSE d) EXCEPT !.status = c.to]

\* prefix upsert: what is there must decode.
prefixUpserted(c, d) ==
    IF d = Corrupt THEN Refused ELSE [(IF d = Absent THEN Fresh ELSE d) EXCEPT !.status = c.to]

\* Only what is given changes.
merged(c, d) ==
    CASE Kind[c.id] = "app_role"      -> rotated(c, d)
      [] Kind[c.id] = "basic_auth"    -> userUpserted(c, d)
      [] Kind[c.id] = "arn_map"       -> arnUpserted(c, d)
      [] Kind[c.id] = "prefix_config" -> prefixUpserted(c, d)

\* The command's own Get, which must succeed.
GetCurrent(o) ==
    LET c == command[o]
    IN  /\ phase[o] = "get"
        /\ \/ Fault("get") /\ CliReturn(o) /\ UNCHANGED dirty
           \/ \E row \in Seen(c.id) :
                 /\ IF merged(c, row.data) = Refused
                    THEN CliReturn(o)
                    ELSE /\ phase' = [phase EXCEPT ![o] = "version"]
                         /\ next' = [next EXCEPT ![o].data = merged(c, row.data)]
                         /\ UNCHANGED command
                 /\ dirty' = IF row = table[c.id] THEN dirty ELSE dirty \cup {o}
                 /\ UNCHANGED faults
        /\ UNCHANGED <<commands, issued, tableVars, snapVars, authVars, had>>

\* AdminStore.Upsert: an error of its Get is ignored, as is a missing item.
GetVersion(o) ==
    /\ phase[o] = "version"
    /\ phase' = [phase EXCEPT ![o] = "put"]
    /\ \/ Fault("get") /\ next' = [next EXCEPT ![o].version = 1]
       \/ /\ \E row \in Seen(command[o].id) : next' = [next EXCEPT ![o].version = row.version + 1]
          /\ UNCHANGED faults
    /\ UNCHANGED <<command, commands, issued, dirty, tableVars, snapVars, authVars, had>>

\* A failed request may have been carried out.
PutItem(o) ==
    LET i == command[o].id
    IN  /\ phase[o] = "put" /\ CliReturn(o)
        /\ UNCHANGED faults \/ Fault("put")
        /\ \/ Write(i, next[o]) /\ dirty' = (dirty \ {o}) \cup others(o, i)
           \/ /\ faults' # faults /\ dirty' = dirty \ {o}
              /\ UNCHANGED <<tableVars, had>>
        /\ UNCHANGED <<commands, issued, snapVars, authVars>>

DeleteItem(o) ==
    LET i == command[o].id
    IN  /\ phase[o] = "delete" /\ CliReturn(o)
        /\ UNCHANGED faults \/ Fault("put")
        /\ \/ Write(i, NoRow) /\ dirty' = (dirty \ {o}) \cup others(o, i)
           \/ /\ faults' # faults /\ dirty' = dirty \ {o}
              /\ UNCHANGED <<tableVars, had>>
        /\ UNCHANGED <<commands, issued, snapVars, authVars>>

-----------------------------------------------------------------------------
(* The snapshot of a kind.  It is loaded before the process serves         *)
(* (Start), and then again and again (Run); a page of the Query is an item.*)

\* Mutant: Run is not started.
BeginRefreshOnce(k) ==
    /\ k \notin loading /\ k \notin up
    /\ loading' = loading \cup {k}
    /\ toRead' = [toRead EXCEPT ![k] = Of(k)]
    /\ had' = [i \in Ids |-> IF Kind[i] = k THEN {row.data : row \in Seen(i)} ELSE had[i]]
    /\ UNCHANGED <<current, up, got, tableVars, cliVars, authVars, faults>>

BeginRefresh(k) ==
    /\ k \notin loading
    /\ loading' = loading \cup {k}
    /\ toRead' = [toRead EXCEPT ![k] = Of(k)]
    /\ had' = [i \in Ids |-> IF Kind[i] = k THEN {row.data : row \in Seen(i)} ELSE had[i]]
    /\ UNCHANGED <<current, up, got, tableVars, cliVars, authVars, faults>>

ReadPage(k, i) ==
    /\ k \in loading /\ i \in toRead[k]
    /\ toRead' = [toRead EXCEPT ![k] = @ \ {i}]
    /\ \E row \in Seen(i) : got' = [got EXCEPT ![k][i] = row.data]
    /\ UNCHANGED <<current, up, loading, had, tableVars, cliVars, authVars, faults>>

\* Everything of a refresh that is over.
EndRefresh(k) ==
    /\ loading' = loading \ {k}
    /\ toRead' = [toRead EXCEPT ![k] = {}] /\ got' = [got EXCEPT ![k] = Nothing]
    /\ had' = [i \in Ids |-> IF Kind[i] = k THEN {} ELSE had[i]]

\* What is asked for with a secret of an item, or on behalf of an ARN.
request(i, s) ==
    [scheme |-> CASE Kind[i] = "app_role" -> "approle" [] Kind[i] = "arn_map" -> "aws-sts" [] OTHER -> "basic",
     id |-> <<i>>, secret |-> s, ip |-> "any", host |-> CHOOSE t \in Trusted : t[1] # "*", reply |-> "ok", bad |-> {}]

Admitted == {x \in Ids \X Entities \X Secrets :
    LoginAnswer(parse(Kind[x[1]], <<part(x[1], x[2])>>).store, request(x[1], x[3])).code = "OK"}

\* A login that an entity accepts.
admits(i, d, s) == Kind[i] # "prefix_config" /\ <<i, d, s>> \in Admitted

accepted(c) ==
    LET cred == Credential[c]
    IN  Kind[cred.id] \in up /\ admits(cred.id, current[Kind[cred.id]][cred.id], cred.secret)

\* A client that a snapshot stops accepting was accepted until now.
Lapse(cs) == since' = [c \in Clients |-> IF c \in cs THEN 0 ELSE since[c]]

\* Mutant: a source that fails counts as one that has nothing.
QueryFailsEmpty(k) ==
    /\ k \in loading /\ toRead[k] # {}
    /\ Fault("query") /\ EndRefresh(k)
    /\ current' = [current EXCEPT ![k] = Nothing]
    /\ up' = up \cup {k}
    /\ Lapse({c \in Clients : accepted(c)})
    /\ UNCHANGED <<tableVars, cliVars, session, age, wants>>

\* Stale data are served, or the process does not start.
QueryFails(k) ==
    /\ k \in loading /\ toRead[k] # {}
    /\ Fault("query") /\ EndRefresh(k)
    /\ UNCHANGED <<current, up, tableVars, cliVars, authVars>>

\* Mutant: an item that cannot be parsed is fatal only at the start.
SwapLenient(k) ==
    /\ k \in loading /\ toRead[k] = {} /\ EndRefresh(k)
    /\ IF k \notin up /\ \E i \in Of(k) : <<i, got[k][i]>> \notin Parses
       THEN UNCHANGED <<current, up, since>>
       ELSE /\ current' = [current EXCEPT ![k] = got[k]] /\ up' = up \cup {k}
            /\ Lapse({c \in Clients : accepted(c)})
    /\ UNCHANGED <<faults, tableVars, cliVars, session, age, wants>>

\* One item that cannot be parsed is an error of the whole.  A payload whose
\* hash is that of the last one is not parsed again, with no other result.
Swap(k) ==
    /\ k \in loading /\ toRead[k] = {} /\ EndRefresh(k)
    /\ IF \E i \in Of(k) : <<i, got[k][i]>> \notin Parses
       THEN UNCHANGED <<current, up, since>>
       ELSE /\ current' = [current EXCEPT ![k] = got[k]] /\ up' = up \cup {k}
            /\ Lapse({c \in Clients : accepted(c)})
    /\ UNCHANGED <<faults, tableVars, cliVars, session, age, wants>>

\* The process of a kind dies, and with it the streams it serves.
Crash(k) ==
    LET cs == {c \in Clients : Kind[Credential[c].id] = k}
    IN  /\ k \in up /\ Fault("crash") /\ EndRefresh(k)
        /\ up' = up \ {k}
        /\ current' = [current EXCEPT ![k] = Nothing]
        /\ Lapse({c \in Clients : accepted(c)})
        /\ session' = [c \in Clients |-> IF c \in cs THEN "out" ELSE session[c]]
        /\ age' = [c \in Clients |-> IF c \in cs THEN TTL ELSE age[c]]
        /\ UNCHANGED <<wants, tableVars, cliVars>>

-----------------------------------------------------------------------------
(* Logins and tokens.                                                      *)

\* The token of a client is minted when its age is zero.
Valid == [ticks \in 0..TTL |-> tryJwt(Mint(NoIdentity, 0), ticks).code = "OK"]

\* AuthInterceptor.Stream, or POST /api/auth/token: the token is minted here
\* and nowhere else.  What an agent has missed comes with the snapshot, which
\* its stream begins with and nbox is asked for with the token.
LogIn(c) ==
    /\ session[c] = "out" /\ accepted(c)
    /\ session' = [session EXCEPT ![c] = "in"] /\ age' = [age EXCEPT ![c] = 0]
    /\ wants' = [wants EXCEPT ![c] = IF @ = "delta" THEN "token" ELSE @]
    /\ UNCHANGED <<since, had, faults, tableVars, cliVars, snapVars>>

\* A vault event for an agent with a key, or a request of a user, takes a
\* token.  Any other event goes to a stream as it is, with the value of a
\* plain entry in it.
Need(c, what) ==
    /\ session[c] = "in" /\ wants[c] = "nothing"
    /\ what = "delta" => Kind[Credential[c].id] # "basic_auth"
    /\ wants' = [wants EXCEPT ![c] = what]
    /\ UNCHANGED <<session, age, since, had, faults, tableVars, cliVars, snapVars>>

\* stream.Send of an event as it is: the loop of Watch never looks at the
\* token again.
Deliver(c) ==
    /\ session[c] = "in" /\ wants[c] = "delta"
    /\ wants' = [wants EXCEPT ![c] = "nothing"]
    /\ UNCHANGED <<session, age, since, had, faults, tableVars, cliVars, snapVars>>

\* Mutant: the token is minted anew from the identity of the stream.
ServeRemints(c) ==
    /\ session[c] = "in" /\ wants[c] = "token"
    /\ wants' = [wants EXCEPT ![c] = "nothing"] /\ age' = [age EXCEPT ![c] = 0]
    /\ UNCHANGED <<session, since, had, faults, tableVars, cliVars, snapVars>>

\* nbox accepts the token and answers.
Serve(c) ==
    /\ session[c] = "in" /\ wants[c] = "token" /\ Valid[age[c]]
    /\ wants' = [wants EXCEPT ![c] = "nothing"]
    /\ UNCHANGED <<session, age, since, had, faults, tableVars, cliVars, snapVars>>

\* Mutant: a stream whose token is refused is kept open.
ExpireKeeps(c) ==
    /\ session[c] = "in" /\ wants[c] = "token" /\ ~Valid[age[c]]
    /\ UNCHANGED vars

\* nbox refuses the token: the stream ends, the user is told.
Expire(c) ==
    /\ session[c] = "in" /\ wants[c] = "token" /\ ~Valid[age[c]]
    /\ session' = [session EXCEPT ![c] = "out"]
    /\ UNCHANGED <<wants, age, since, had, faults, tableVars, cliVars, snapVars>>

Leave(c) ==
    /\ session[c] = "in" /\ wants[c] = "nothing"
    /\ session' = [session EXCEPT ![c] = "out"] /\ age' = [age EXCEPT ![c] = TTL]
    /\ UNCHANGED <<wants, since, had, faults, tableVars, cliVars, snapVars>>

Tick ==
    /\ age' = [c \in Clients |-> IF age[c] < TTL THEN age[c] + 1 ELSE TTL]
    /\ since' = [c \in Clients |->
          IF accepted(c) THEN 0 ELSE IF since[c] < TTL THEN since[c] + 1 ELSE TTL]
    /\ <<age, since>>' # <<age, since>>
    /\ UNCHANGED <<session, wants, had, faults, tableVars, cliVars, snapVars>>

Cli(o) == GetCurrent(o) \/ GetVersion(o) \/ PutItem(o) \/ DeleteItem(o)
Client(c) ==
    \/ LogIn(c) \/ Deliver(c) \/ Serve(c) \/ Expire(c) \/ Leave(c)
    \/ \E what \in {"delta", "token"} : Need(c, what)
Refresh(k) == BeginRefresh(k) \/ (\E i \in Ids : ReadPage(k, i)) \/ QueryFails(k) \/ Swap(k)

Next ==
    \/ \E i \in Ids : Replicate(i) \/ Edit(i)
    \/ \E o \in Operators : Cli(o) \/ (\E c \in Commands : Begin(o, c))
    \/ \E k \in Served : Refresh(k) \/ Crash(k)
    \/ \E c \in Clients : Client(c)
    \/ Tick

Spec == Init /\ [][Next]_vars

(* Commands and refreshes go on, clients log in again, replicas catch up,   *)
(* and a request is not outrun by the life of its token again and again.   *)
FairSpec ==
    /\ Spec
    /\ \A o \in Operators : WF_vars(Cli(o))
    /\ \A k \in Served : WF_vars(Refresh(k))
    /\ \A i \in Lagging : WF_vars(Replicate(i))
    /\ \A c \in Clients : SF_vars(LogIn(c)) /\ SF_vars(Serve(c)) /\ WF_vars(Expire(c) \/ Deliver(c))

-----------------------------------------------------------------------------
Rows == [data : Data, version : 0..(MaxCommands + 1)]

(* Every variable holds a value of its kind; a snapshot never has an item   *)
(* that could not be parsed, nor one of another kind.                      *)
TypeOK ==
    /\ table \in [Ids -> Rows] /\ replica \in [Ids -> Rows]
    /\ phase \in [Operators -> {"idle", "get", "version", "put", "delete"}]
    /\ command \in [Operators -> Commands \cup {NoCommand}]
    /\ next \in [Operators -> Rows]
    /\ commands \in 0..MaxCommands /\ issued \subseteq Ids
    /\ current \in [Served -> [Ids -> Data \ {Corrupt}]] /\ got \in [Served -> [Ids -> Data]]
    /\ \A k \in Served, i \in Ids : Kind[i] # k => Absent = current[k][i]
    /\ up \subseteq Served /\ loading \subseteq Served
    /\ toRead \in [Served -> SUBSET Ids]
    /\ session \in [Clients -> {"out", "in"}] /\ age \in [Clients -> 0..TTL]
    /\ wants \in [Clients -> {"nothing", "delta", "token"}] /\ faults \in 0..MaxFaults
    /\ dirty \subseteq Operators /\ had \in [Ids -> SUBSET Data] /\ since \in [Clients -> 0..TTL]

(***************************************************************************)
(* "Zero-downtime": what could log in before a write of the table can do   *)
(* so after it, and a role or user that was removed stays so, unless the   *)
(* command says otherwise, the item was spoilt by hand, or the command     *)
(* worked on a copy that another write had made old (admin.go:27,          *)
(* config.go:398-414).                                                     *)
(***************************************************************************)
CommandsKeep ==
    [][\A i \in Ids :
          LET d == table[i].data
              e == table'[i].data
              by == {o \in Operators : phase[o] \in {"put", "delete"} /\ command[o].id = i /\ phase'[o] = "idle"}
              revokes(c) == \/ c.verb \in {"rm", "generate"}
                            \/ c.verb = "upsert" /\ c.field = "secret"
                            \/ c.to = "disabled" /\ Kind[i] # "basic_auth"
              meant == {o \in by : revokes(command[o])}
          IN  d = e \/ e = Corrupt \/ meant \cup (by \cap dirty) # {}
              \/ /\ by # {} /\ (d = Absent => Kind[i] \in {"arn_map", "prefix_config"})
                 /\ \A s \in Secrets : admits(i, d, s) => admits(i, e, s)]_vars

(***************************************************************************)
(* A refresh installs of every item something that could be read while it  *)
(* ran: no item is lost because a query failed, and none outlives it       *)
(* (refresh.go:71, source.go:71, dynamo.go:53).                            *)
(***************************************************************************)
RefreshHonest ==
    [][\A k \in Served : current'[k] # current[k] /\ k \in up' =>
          \A i \in Of(k) : current'[k][i] \in had[i]]_vars

(***************************************************************************)
(* What takes a token - a secret for an agent, the snapshot of a stream,   *)
(* any request of a user - is answered only while the token is valid, and  *)
(* then a snapshot has accepted the client less than a token's life ago:   *)
(* what is taken out of the table and the snapshots runs out (m2m.go:63,   *)
(* stream_server.go:74, 127).  Not so the deltas of plain entries, which   *)
(* an open stream sends whatever has become of its client (Deliver).       *)
(***************************************************************************)
AccessRunsOut ==
    [][\A c \in Clients :
          wants[c] = "token" /\ wants'[c] = "nothing" => since[c] < TTL \/ accepted(c)]_vars

(***************************************************************************)
(* Once nobody edits the table any more, each process that serves a kind   *)
(* serves what the table has of it, whatever failed before, unless an item *)
(* of the kind cannot be parsed ("propagate to all replicas", SUMMARY.md). *)
(***************************************************************************)
SnapshotsConverge ==
    \A k \in Served : <>[](\A i \in Of(k) : table[i].data # Corrupt)
        => <>[](k \in up /\ \A i \in Of(k) : current[k][i] = table[i].data)

(***************************************************************************)
(* A client whose credential stays in the table, in a kind that can be     *)
(* parsed, gets every value it waits for, although its token runs out in   *)
(* the middle of its stream (stream_server.go:127, 15 minutes): as a delta, *)
(* or with the snapshot of its next stream.                                *)
(***************************************************************************)
ClientsServed ==
    \A c \in Clients :
        <>[](/\ admits(Credential[c].id, table[Credential[c].id].data, Credential[c].secret)
             /\ \A i \in Of(Kind[Credential[c].id]) : table[i].data # Corrupt)
        => [](wants[c] # "nothing" => <>(wants[c] = "nothing"))

(***************************************************************************)
(* Of a process that is up: a login succeeds if and only if the source of  *)
(* the snapshot that counts grants it, see Exact (source.go:71), and the   *)
(* token it leads to tells who logged in, with the roles of then, for as   *)
(* long as it lives and no longer, see Carries (m2m.go:35).                *)
(***************************************************************************)
LoginExact == up # {} => Exact /\ Carries

(***************************************************************************)
(* Of a process that is up: "all credential failures collapse to           *)
(* Unauthenticated", see Alike (auth_interceptor.go:226).                  *)
(***************************************************************************)
FailuresAlike == up # {} => Alike
=============================================================================
