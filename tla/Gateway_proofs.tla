--------------------------- MODULE Gateway_proofs ---------------------------
(* Proofs about the Gateway, for every set of calls, readers, keys,         *)
(* batches and routing tables, and however long a behaviour is.             *)
EXTENDS Gateway, FiniteSetTheorems, WellFoundedInduction, TLAPS

-----------------------------------------------------------------------------
(* The inductive invariant, part by part.                                  *)

\* Only an Upsert has entries at hand.
OnlyUpserts ==
    \A c \in Calls : phase[c] # "upsert" => toPut[c] = {} /\ toIndex[c] = {}

Place(row) == IF inIndex(row) THEN "dynamodb" ELSE "ssm"
Deletes(c) == phase[c] \in {"param", "lost", "root", "walk"}

\* What calls are at work on they have claimed, each key once.
ClaimsHeld ==
    \A c \in Calls :
        /\ \A x, y \in claims[c] : x.key = y.key => x = y
        /\ \A e \in toPut[c] : [key |-> e.key, place |-> "ssm"] \in claims[c]
        /\ \A i \in toIndex[c] : [key |-> i.key, place |-> Place(i.row)] \in claims[c]
        /\ Deletes(c) => /\ target[c].key \in Keys
                         /\ claims[c] = [key : Subtree(target[c].key), place : {"gone"}]

\* Params of the kind a row says.
Kept(k, row) == params[k] # NoParam /\ params[k].secure = row.secure
Named(row) == row.backend \in SSM => row.secure = (row.backend = "parameterstore_secure")

\* A row that waits to be written names a parameter that is there.
RowsNamed ==
    /\ \A k \in Keys : Named(rows[k])
    /\ \A c \in Calls : \A i \in toIndex[c] :
          Named(i.row) /\ (i.row.backend \in SSM => Kept(i.key, i.row))

\* c has removed the parameter of k and has still to remove the row.
Unrooted(c, k) == phase[c] = "root" /\ target[c].external /\ target[c].key = k

RowsKept ==
    /\ \A c \in Calls : phase[c] # "lost"
    /\ \A c \in Calls : phase[c] = "param" => target[c].external
    /\ \A k \in Keys : rows[k].backend \in SSM /\ (\A c \in Calls : ~Unrooted(c, k)) => Kept(k, rows[k])
    /\ \A c \in Calls, k \in Keys : Unrooted(c, k) => params[k] = NoParam

\* A value that c has still to store is promised, and not in the other store.
Promised(c, k, v) == [call |-> c, key |-> k, value |-> v] \in pending

StoresFresh ==
    \A k \in Keys :
        /\ params[k].value <= writes
        /\ inIndex(rows[k]) => rows[k].value <= writes
        /\ rows[k].value = params[k].value => params[k] = NoParam
WorkNew ==
    \A c \in Calls :
        /\ \A e \in toPut[c] :
              e.value <= writes /\ Promised(c, e.key, e.value) /\ rows[e.key].value # e.value
        /\ \A i \in toIndex[c] : inIndex(i.row) =>
              /\ i.row.value <= writes /\ Promised(c, i.key, i.row.value)
              /\ params[i.key].value # i.row.value

\* No two things to do are the same.
WorkDistinct ==
    \A c \in Calls :
        /\ \A e, f \in toPut[c] : e.key = f.key => e = f
        /\ \A i, j \in toIndex[c] : i.key = j.key => i = j
        /\ \A e \in toPut[c], i \in toIndex[c] : e.key # i.key

\* What a Delete wants is promised.
GonePromised ==
    \A c \in Calls : Deletes(c) => \A k \in Subtree(target[c].key) : Promised(c, k, NoValue)

\* A parameter that no row names yet is promised by one of its writers.
HiddenPromised ==
    \A c \in Calls : \A i \in toIndex[c] :
        i.row.backend \in SSM /\ inIndex(rows[i.key]) =>
            \E y \in pending : y.key = i.key /\ y.value = params[i.key].value

\* What an Upsert will report done is so, or waits for its row.
RowsTold ==
    \A c \in Calls : phase[c] = "upsert" =>
        \A i \in toIndex[c] : results[c][i.key] = "ok" <=> ~inIndex(i.row)
KeysTold ==
    \A c \in Calls : phase[c] = "upsert" => \A k \in Keys : results[c][k] = "ok" =>
        /\ Claimed(c, k)
        /\ [key |-> k, place |-> "ssm"] \in claims[c] => ~inIndex(rows[k]) \/ \E i \in toIndex[c] : i.key = k
OwedTold ==
    \A c \in Calls : phase[c] = "upsert" => \A x \in owed : x.call = c /\ results[c][x.key] = "ok" =>
        inIndex(rows[x.key]) /\ \E i \in toIndex[c] : i.key = x.key
UpsertsHonest == RowsTold /\ KeysTold /\ OwedTold

\* The walk of a Delete knows the rows it has still to remove.
DeletesHonest ==
    /\ \A c \in Calls : phase[c] = "walk" => \A k \in Subtree(target[c].key) :
          /\ rows[k] # NoRow => k \in doomed[c]
          /\ (\E x \in owed : x.call = c /\ x.key = k) => rows[k] # NoRow
    /\ \A x \in owed : phase[x.call] # "idle" /\ (Deletes(x.call) => x.value = NoValue)

\* While a Resolve runs it has seen what its key is and what it may become.
ReadingSeen ==
    \A r \in Readers : reading[r] # NoReading =>
        Prospects(reading[r].key) \cup {params[reading[r].key].value} \subseteq seen[r]

\* The parameter a Resolve is about to read is of the kind its row says,
\* unless the key was seen deleted.
ReadingKept ==
    \A r \in Readers : reading[r] # NoReading =>
        NoValue \in seen[r] \/ Kept(reading[r].key, reading[r].row)
ReadingNamed ==
    \A r \in Readers : reading[r] # NoReading => ~inIndex(reading[r].row) /\ Named(reading[r].row)

-----------------------------------------------------------------------------
(* Types.                                                                  *)

(* A key gets a config of the table, or none (index.go:35).                *)
LEMMA ConfigOfTable ==
    ASSUME NEW t, NEW k
    PROVE  ByPrefix(t, k) = NoConfig \/ \E p \in DOMAIN t : ByPrefix(t, k) = t[p]
  <1> DEFINE found == candidates(t, k)
             best == {c \in found : \A d \in found \ {c} : precedes(c.prefix, d.prefix)}
  <1>1. ByPrefix(t, k) = IF best = {} THEN NoConfig ELSE CHOOSE c \in best : TRUE
    BY DEF ByPrefix
  <1>2. \A c \in found : \E p \in DOMAIN t : c = t[p]
    BY DEF candidates
  <1>3. best \subseteq found
    OBVIOUS
  <1> HIDE DEF best, found
  <1>4. CASE best = {}
    BY <1>1, <1>4
  <1>5. CASE best # {}
    BY <1>1, <1>2, <1>3, <1>5
  <1>6. QED BY <1>4, <1>5

LEMMA BackendType ==
    ASSUME TypeOK, NEW k \in Keys, NEW s \in BOOLEAN
    PROVE  Backend(k, s) \in SSM \cup {"dynamodb", ""} /\ Backend(k, FALSE) # ""
  <1> DEFINE c == ByPrefix(routes, k)
  <1>0. routes \in Tables /\ \A t \in Tables : \A p \in DOMAIN t : Validate(t[p])
    BY GatewayAssumption DEF TypeOK
  <1>1. c = NoConfig \/ \E p \in DOMAIN routes : c = routes[p]
    BY ConfigOfTable
  <1>2. c # NoConfig => Validate(c)
    BY <1>0, <1>1
  <1>3. c # NoConfig => c.default \in Backends /\ c.secure \in Backends \cup {""}
    BY <1>2 DEF Validate, IsValid
  <1> HIDE DEF c
  <1>4. CASE c = NoConfig
    BY <1>4 DEF Backend, c
  <1>5. CASE c # NoConfig
    BY <1>3, <1>5 DEF Backend, Backends, SSM, c
  <1>6. QED BY <1>4, <1>5

\* The entries of a batch with their backends.
Routed(batch) ==
    {[key |-> e.key, backend |-> Backend(e.key, e.secure), value |-> writes + 1,
      secure |-> e.secure \/ Backend(e.key, e.secure) = "parameterstore_secure"] : e \in batch}

LEMMA RoutedType ==
    ASSUME TypeOK, NEW b \in Batches
    PROVE  /\ \A x \in Routed(b) : /\ x.key \in Keys /\ x.value = writes + 1 /\ x.secure \in BOOLEAN
                                   /\ x.backend \in SSM \cup {"dynamodb", ""}
           /\ \A x, y \in Routed(b) : x.key = y.key => x = y
  <1>1. \A e \in b : e.key \in Keys /\ e.secure \in BOOLEAN
    BY GatewayAssumption
  <1>2. \A d, e \in b : d.key = e.key => d = e
    BY GatewayAssumption
  <1>3. \A e \in b : Backend(e.key, e.secure) \in SSM \cup {"dynamodb", ""}
    BY <1>1, BackendType
  <1> DEFINE r(e) == [key |-> e.key, backend |-> Backend(e.key, e.secure), value |-> writes + 1,
                      secure |-> e.secure \/ Backend(e.key, e.secure) = "parameterstore_secure"]
  <1>4. \A e \in b : /\ r(e).key = e.key /\ r(e).value = writes + 1
                     /\ r(e).backend = Backend(e.key, e.secure) /\ r(e).secure \in BOOLEAN
    OBVIOUS
  <1>5. Routed(b) = {r(e) : e \in b}
    BY DEF Routed
  <1> HIDE DEF r
  <1>6. ASSUME NEW x \in Routed(b)
        PROVE  x.key \in Keys /\ x.value = writes + 1 /\ x.secure \in BOOLEAN /\ x.backend \in SSM \cup {"dynamodb", ""}
    <2>1. PICK e \in b : x = r(e)
      BY <1>5
    <2>2. QED BY <2>1, <1>1, <1>3, <1>4
  <1>7. ASSUME NEW x \in Routed(b), NEW y \in Routed(b), x.key = y.key PROVE x = y
    <2>1. PICK d \in b : x = r(d)
      BY <1>5
    <2>2. PICK e \in b : y = r(e)
      BY <1>5
    <2>3. QED BY <2>1, <2>2, <1>2, <1>4, <1>7
  <1>8. QED BY <1>6, <1>7

\* What Upsert does to the call, without its LET.
LEMMA UpsertSteps ==
    ASSUME TypeOK, NEW c \in Calls, NEW b \in Batches, Upsert(c, b)
    PROVE  LET ssm == {x \in Routed(b) : x.backend \in SSM}
               local == {x \in Routed(b) : x.backend = "dynamodb"}
           IN  /\ phase[c] = "idle" /\ writes < MaxWrites /\ writes' = writes + 1
               /\ phase' = [phase EXCEPT ![c] = "upsert"]
               /\ toPut' = [toPut EXCEPT ![c] =
                     {[key |-> x.key, value |-> writes + 1, secure |-> x.secure] : x \in ssm}]
               /\ toIndex' = [toIndex EXCEPT ![c] =
                     {[key |-> x.key, row |-> [backend |-> "dynamodb", value |-> writes + 1,
                                               secure |-> x.secure]] : x \in local}]
               /\ \E new \in [Keys -> {"none", "failed"}] : results' = [results EXCEPT ![c] = new]
               /\ claims' = [claims EXCEPT ![c] =
                     {[key |-> x.key, place |-> IF x.backend \in SSM THEN "ssm" ELSE x.backend]
                      : x \in Routed(b)}]
               /\ Promise(c, {x.key : x \in ssm \cup local}, writes + 1)
               /\ UNCHANGED <<storeVars, target, doomed, reading, swaps>>
  <1>1. \A x \in Routed(b) : x.backend \in SSM \cup {"dynamodb", ""}
    BY RoutedType
  <1> DEFINE refused == {x \in Routed(b) : x.backend = ""}
             local == {x \in Routed(b) : x.backend = "dynamodb"}
             ssm == {x \in Routed(b) : x.backend \in SSM}
  <1>2. Routed(b) \ (refused \cup local) = ssm /\ Routed(b) \ refused = ssm \cup local
    BY <1>1 DEF SSM
  <1>3. QED BY <1>2 DEF Upsert, Routed

LEMMA StoredType ==
    /\ MaxWrites \in Nat \ {0} /\ {Address, Ciphertext, NoValue} \subseteq Values /\ 1..MaxWrites \subseteq Values
    /\ \A row \in Rows \cup {NoRow} :
          /\ row.value \in Values /\ row.secure \in BOOLEAN
          /\ inIndex(row) => row.value \in 0..MaxWrites /\ (row # NoRow => row.value # NoValue)
          /\ row.backend \in {"", "dynamodb"} \cup SSM /\ (~inIndex(row) => row.value = Address)
          /\ row = NoRow \/ (row \in Rows /\ row.backend # "")
    /\ \A par \in Params \cup {NoParam} :
          par.value \in Values /\ par.value \in 0..MaxWrites /\ par.secure \in BOOLEAN /\ (par # NoParam => par.value \in 1..MaxWrites)
  <1>1. MaxWrites \in Nat \ {0}
    BY GatewayAssumption
  <1>2. {Address, Ciphertext, NoValue} \subseteq Values /\ 1..MaxWrites \subseteq Values
    BY <1>1 DEF Values, Address, Ciphertext, NoValue
  <1>3. ASSUME NEW row \in Rows
        PROVE  /\ row.value \in Values /\ row.secure \in BOOLEAN
               /\ inIndex(row) => row.value \in 1..MaxWrites
               /\ row.backend \in {"dynamodb"} \cup SSM /\ (~inIndex(row) => row.value = Address)
    <2>1. CASE row \in [backend : {"dynamodb"}, value : 1..MaxWrites, secure : BOOLEAN]
      BY <1>2, <2>1 DEF inIndex, SSM
    <2>2. CASE row \in [backend : SSM, value : {Address}, secure : BOOLEAN]
      BY <1>2, <2>2 DEF inIndex
    <2>3. QED BY <2>1, <2>2 DEF Rows
  <1>4. /\ NoRow.value = 0 /\ NoRow.secure = FALSE /\ NoRow.backend = "" /\ inIndex(NoRow)
        /\ NoParam.value = 0 /\ NoParam.secure = FALSE
    BY DEF NoRow, NoParam, NoValue, inIndex, SSM
  <1>5. \A par \in Params : par.value \in 1..MaxWrites /\ par.secure \in BOOLEAN
    BY DEF Params
  <1>6. "" \notin {"dynamodb"} \cup SSM
    BY DEF SSM
  <1>7. 0 \in Values /\ 0 \in 0..MaxWrites /\ 1..MaxWrites \subseteq 0..MaxWrites /\ 0 \notin 1..MaxWrites
    BY <1>1 DEF Values
  <1>8. ASSUME NEW row \in Rows \cup {NoRow}
        PROVE  /\ row.value \in Values /\ row.secure \in BOOLEAN
               /\ inIndex(row) => row.value \in 0..MaxWrites /\ (row # NoRow => row.value # NoValue)
               /\ row.backend \in {"", "dynamodb"} \cup SSM /\ (~inIndex(row) => row.value = Address)
               /\ row = NoRow \/ (row \in Rows /\ row.backend # "")
    <2>1. CASE row = NoRow
      BY <1>4, <1>7, <2>1
    <2>2. CASE row \in Rows
      BY <1>3, <1>6, <1>7, <2>2 DEF NoValue
    <2>3. QED BY <2>1, <2>2
  <1>9. \A par \in Params \cup {NoParam} :
          par.value \in Values /\ par.value \in 0..MaxWrites /\ par.secure \in BOOLEAN /\ (par # NoParam => par.value \in 1..MaxWrites)
    BY <1>2, <1>4, <1>5, <1>7
  <1>10. QED BY <1>1, <1>2, <1>8, <1>9

LEMMA RealRow == \A row \in Rows : row # NoRow /\ row.backend \in {"dynamodb"} \cup SSM
  <1>1. ASSUME NEW row \in Rows PROVE row.backend \in {"dynamodb"} \cup SSM
    <2>1. CASE row \in [backend : {"dynamodb"}, value : 1..MaxWrites, secure : BOOLEAN]
      BY <2>1
    <2>2. CASE row \in [backend : SSM, value : {Address}, secure : BOOLEAN]
      BY <2>2
    <2>3. QED BY <2>1, <2>2 DEF Rows
  <1>2. NoRow.backend \notin {"dynamodb"} \cup SSM
    BY DEF NoRow, SSM
  <1>3. QED BY <1>1, <1>2

LEMMA ValueType ==
    ASSUME rows \in [Keys -> Rows \cup {NoRow}], params \in [Keys -> Params \cup {NoParam}], NEW k \in Keys
    PROVE  Value(k) \in Values
  <1>1. rows[k].value \in Values /\ params[k].value \in Values
    BY StoredType
  <1>2. QED BY <1>1, StoredType DEF Value, Reads

LEMMA ValueTypeNext ==
    ASSUME rows' \in [Keys -> Rows \cup {NoRow}], params' \in [Keys -> Params \cup {NoParam}], NEW k \in Keys
    PROVE  Value(k)' \in Values
  <1>1. rows'[k].value \in Values /\ params'[k].value \in Values
    BY StoredType
  <1>2. QED BY <1>1, StoredType DEF Value, Reads

Promises == [call : Calls, key : Keys, value : Values]
ToPuts == [key : Keys, value : 1..MaxWrites, secure : BOOLEAN]

LEMMA PutValue ==
    ASSUME NEW T \in [Calls -> SUBSET ToPuts], NEW c \in Calls, NEW e \in T[c]
    PROVE  e.value \in Values
  <1>1. e \in ToPuts
    OBVIOUS
  <1>2. e.value \in 1..MaxWrites
    BY <1>1 DEF ToPuts
  <1>3. QED BY <1>2, StoredType

LEMMA ObserveType ==
    ASSUME TypeOK, Observe, UNCHANGED reading, rows' \in [Keys -> Rows \cup {NoRow}],
           params' \in [Keys -> Params \cup {NoParam}], toPut' \in [Calls -> SUBSET ToPuts]
    PROVE  seen' \in [Readers -> SUBSET Values]
  <1>1. ASSUME NEW r \in Readers, reading[r] # NoReading PROVE Prospects(reading[r].key)' \subseteq Values
    <2>1. reading[r].key \in Keys /\ reading'[r].key = reading[r].key
      BY <1>1 DEF TypeOK
    <2>2. Value(reading[r].key)' \in Values
      BY <2>1, ValueTypeNext
    <2>3. \A c \in Calls : \A e \in toPut'[c] : e.value \in Values
      BY PutValue
    <2>4. SUFFICES ASSUME NEW v \in Prospects(reading[r].key)' PROVE v \in Values
      OBVIOUS
    <2>5. \/ v = Value(reading[r].key)' \/ v = NoValue
          \/ \E c \in Calls : \E e \in toPut'[c] : v = e.value
      BY <2>4 DEF Prospects
    <2>6. QED BY <2>2, <2>3, <2>5, StoredType
  <1>2. QED BY <1>1 DEF Observe, TypeOK

LEMMA FulfilType ==
    ASSUME TypeOK, NEW c \in Calls, Fulfil(c)
    PROVE  pending' = pending /\ owed' \subseteq pending' /\ owed' \subseteq owed /\ reported' = {}
  BY DEF Fulfil, TypeOK

LEMMA ReportType ==
    ASSUME TypeOK, NEW c \in Calls, NEW ks, Report(c, ks)
    PROVE  /\ phase' \in [Calls -> Phases] /\ claims' \in [Calls -> SUBSET [key : Keys, place : {"", "dynamodb", "ssm", "gone"}]]
           /\ target' \in [Calls -> [key : Keys, external : BOOLEAN] \cup {NoTarget}]
           /\ pending' \subseteq pending /\ owed' \subseteq pending' /\ owed' \subseteq owed
           /\ ks \subseteq Keys => reported' \subseteq [call : Calls, key : Keys]
  <1>1. pending' \subseteq pending /\ owed' \subseteq owed
    BY DEF Report
  <1>2. owed' \subseteq pending'
    BY DEF Report, TypeOK
  <1>3. ks \subseteq Keys => reported' \subseteq [call : Calls, key : Keys]
    BY DEF Report
  <1>4. QED BY <1>1, <1>2, <1>3 DEF Report, TypeOK, Phases

Verdicts == {"none", "ok", "failed"}

\* The elements of what the variables hold.
LEMMA TypeFacts ==
    ASSUME TypeOK
    PROVE  /\ \A c \in Calls : \A e \in toPut[c] : e.key \in Keys /\ e.value \in 1..MaxWrites /\ e.secure \in BOOLEAN
           /\ \A c \in Calls : \A i \in toIndex[c] : i.key \in Keys /\ i.row \in Rows
           /\ \A k \in Keys : rows[k] \in Rows \cup {NoRow} /\ params[k] \in Params \cup {NoParam}
           /\ results \in [Calls -> [Keys -> Verdicts]] /\ writes \in 0..MaxWrites /\ swaps \in 0..MaxSwaps
           /\ \A x \in pending : x.call \in Calls /\ x.key \in Keys /\ x.value \in Values
           /\ \A r \in Readers : reading[r] # NoReading => reading[r].key \in Keys /\ reading[r].row \in Rows
  <1>1. ASSUME NEW c \in Calls, NEW e \in toPut[c] PROVE e.key \in Keys /\ e.value \in 1..MaxWrites /\ e.secure \in BOOLEAN
    <2>1. toPut \in [Calls -> SUBSET [key : Keys, value : 1..MaxWrites, secure : BOOLEAN]]
      BY DEF TypeOK
    <2>2. e \in [key : Keys, value : 1..MaxWrites, secure : BOOLEAN]
      BY <2>1
    <2>3. QED BY <2>2
  <1>2. ASSUME NEW c \in Calls, NEW i \in toIndex[c] PROVE i.key \in Keys /\ i.row \in Rows
    <2>1. toIndex \in [Calls -> SUBSET [key : Keys, row : Rows]]
      BY DEF TypeOK, KeyedRows
    <2>2. i \in [key : Keys, row : Rows]
      BY <2>1
    <2>3. QED BY <2>2
  <1>3. /\ \A k \in Keys : rows[k] \in Rows \cup {NoRow} /\ params[k] \in Params \cup {NoParam}
        /\ results \in [Calls -> [Keys -> Verdicts]] /\ writes \in 0..MaxWrites /\ swaps \in 0..MaxSwaps
    BY DEF TypeOK, Verdicts
  <1>4. \A x \in pending : x.call \in Calls /\ x.key \in Keys /\ x.value \in Values
    BY DEF TypeOK
  <1>5. \A r \in Readers : reading[r] # NoReading => reading[r].key \in Keys /\ reading[r].row \in Rows
    BY DEF TypeOK
  <1>6. QED BY <1>1, <1>2, <1>3, <1>4, <1>5

LEMMA NextWrite ==
    ASSUME NEW n \in 0..MaxWrites, n < MaxWrites
    PROVE  n + 1 \in 1..MaxWrites /\ n + 1 \in 0..MaxWrites /\ n + 1 \in Values
  <1>1. MaxWrites \in Nat
    BY GatewayAssumption
  <1>2. n + 1 \in 1..MaxWrites /\ n + 1 \in 0..MaxWrites
    BY <1>1
  <1>3. QED BY <1>2, StoredType

LEMMA ResultType ==
    ASSUME NEW R \in [Calls -> [Keys -> Verdicts]], NEW c \in Calls, NEW k \in Keys, NEW s \in Verdicts
    PROVE  [R EXCEPT ![c][k] = s] \in [Calls -> [Keys -> Verdicts]]
  OBVIOUS

LEMMA TypesNext == TypeOK /\ [Next]_vars => TypeOK'
  <1> SUFFICES ASSUME TypeOK, [Next]_vars PROVE TypeOK'
    OBVIOUS
  <1>a. pending \subseteq Promises /\ MaxWrites \in Nat \ {0} /\ {"none", "ok", "failed"} = Verdicts
    BY StoredType DEF Promises, Verdicts, TypeOK
  <1>b. toPut \in [Calls -> SUBSET ToPuts]
    BY DEF ToPuts, TypeOK
  <1>1. ASSUME NEW c \in Calls, NEW b \in Batches, Upsert(c, b), Observe PROVE TypeOK'
    <2> DEFINE ssm == {x \in Routed(b) : x.backend \in SSM}
               local == {x \in Routed(b) : x.backend = "dynamodb"}
               puts == {[key |-> x.key, value |-> writes + 1, secure |-> x.secure] : x \in ssm}
               index == {[key |-> x.key, row |-> [backend |-> "dynamodb", value |-> writes + 1, secure |-> x.secure]] : x \in local}
               claimed == {[key |-> x.key, place |-> IF x.backend \in SSM THEN "ssm" ELSE x.backend] : x \in Routed(b)}
               ks == {x.key : x \in ssm \cup local}
    <2>1. /\ phase[c] = "idle" /\ writes < MaxWrites /\ writes' = writes + 1
          /\ phase' = [phase EXCEPT ![c] = "upsert"]
          /\ toPut' = [toPut EXCEPT ![c] = puts] /\ toIndex' = [toIndex EXCEPT ![c] = index]
          /\ \E new \in [Keys -> {"none", "failed"}] : results' = [results EXCEPT ![c] = new]
          /\ claims' = [claims EXCEPT ![c] = claimed]
          /\ Promise(c, ks, writes + 1)
          /\ UNCHANGED <<storeVars, target, doomed, reading, swaps>>
      BY <1>1, UpsertSteps
    <2>2. writes + 1 \in 1..MaxWrites /\ writes + 1 \in Values
      BY <2>1, TypeFacts, NextWrite
    <2>a. \A x \in Routed(b) : x.key \in Keys /\ x.secure \in BOOLEAN /\ x.backend \in SSM \cup {"dynamodb", ""}
      BY RoutedType
    <2>3. puts \subseteq [key : Keys, value : 1..MaxWrites, secure : BOOLEAN]
      <3>1. \A x \in Routed(b) : [key |-> x.key, value |-> writes + 1, secure |-> x.secure]
                                   \in [key : Keys, value : 1..MaxWrites, secure : BOOLEAN]
        BY <2>2, <2>a
      <3>2. QED BY <3>1
    <2>4. index \subseteq KeyedRows
      <3>1. \A x \in Routed(b) : x.key \in Keys /\ [backend |-> "dynamodb", value |-> writes + 1, secure |-> x.secure] \in Rows
        BY <2>2, <2>a DEF Rows
      <3>2. QED BY <3>1 DEF KeyedRows
    <2>5. claimed \subseteq [key : Keys, place : {"", "dynamodb", "ssm", "gone"}]
      <3>1. \A x \in Routed(b) : (IF x.backend \in SSM THEN "ssm" ELSE x.backend) \in {"", "dynamodb", "ssm", "gone"}
        BY <2>a
      <3>2. \A x \in Routed(b) : [key |-> x.key, place |-> IF x.backend \in SSM THEN "ssm" ELSE x.backend]
                                   \in [key : Keys, place : {"", "dynamodb", "ssm", "gone"}]
        BY <2>a, <3>1
      <3>3. QED BY <3>2
    <2>6. ks \subseteq Keys
      BY <2>a
    <2> HIDE DEF puts, index, claimed, ks
    <2>7. pending' \subseteq Promises /\ owed' \subseteq pending' /\ reported' = {}
      BY <2>1, <2>2, <2>6, <1>a DEF Promise, Promises, TypeOK
    <2>b. toPut' \in [Calls -> SUBSET ToPuts]
      BY <2>1, <2>3, <1>b DEF ToPuts
    <2>8. seen' \in [Readers -> SUBSET Values]
      BY <1>1, <2>1, <2>b, ObserveType DEF storeVars, TypeOK
    <2>9. writes' \in 0..MaxWrites
      BY <2>1, TypeFacts, NextWrite
    <2>10. phase' \in [Calls -> Phases] /\ results' \in [Calls -> [Keys -> {"none", "ok", "failed"}]]
      <3>1. phase' \in [Calls -> Phases]
        BY <2>1 DEF TypeOK, Phases
      <3>2. PICK new \in [Keys -> {"none", "failed"}] : results' = [results EXCEPT ![c] = new]
        BY <2>1
      <3>3. new \in [Keys -> Verdicts]
        BY DEF Verdicts
      <3>4. QED BY <3>1, <3>2, <3>3, <1>a, TypeFacts
    <2>11. /\ toPut' \in [Calls -> SUBSET [key : Keys, value : 1..MaxWrites, secure : BOOLEAN]]
           /\ toIndex' \in [Calls -> SUBSET KeyedRows]
           /\ claims' \in [Calls -> SUBSET [key : Keys, place : {"", "dynamodb", "ssm", "gone"}]]
      BY <2>1, <2>3, <2>4, <2>5 DEF TypeOK
    <2>12. QED BY <2>1, <2>7, <2>8, <2>9, <2>10, <2>11 DEF storeVars, Promises, TypeOK
  <1>2. ASSUME NEW c \in Calls, NEW k \in Keys, Delete(c, k), Observe PROVE TypeOK'
    <2> DEFINE external == Backend(k, FALSE) # "dynamodb"
    <2>1. /\ phase' = [phase EXCEPT ![c] = IF external THEN "param" ELSE "root"]
          /\ target' = [target EXCEPT ![c] = [key |-> k, external |-> external]]
          /\ claims' = [claims EXCEPT ![c] = [key : Subtree(k), place : {"gone"}]]
          /\ Promise(c, Subtree(k), NoValue)
          /\ UNCHANGED <<storeVars, toPut, toIndex, results, doomed, reading, writes, swaps>>
      BY <1>2 DEF Delete
    <2>2. external \in BOOLEAN /\ Subtree(k) \subseteq Keys /\ NoValue \in Values
      BY StoredType DEF Subtree
    <2> HIDE DEF external
    <2>3. pending' \subseteq Promises /\ owed' \subseteq pending' /\ reported' = {}
      BY <2>1, <2>2, <1>a DEF Promise, Promises, TypeOK
    <2>4. seen' \in [Readers -> SUBSET Values]
      BY <1>2, <2>1, <1>b, ObserveType DEF storeVars, TypeOK
    <2>5. phase' \in [Calls -> Phases]
      <3>1. (IF external THEN "param" ELSE "root") \in Phases
        BY DEF Phases
      <3>2. QED BY <2>1, <3>1 DEF TypeOK
    <2>6. target' \in [Calls -> [key : Keys, external : BOOLEAN] \cup {NoTarget}]
      BY <2>1, <2>2 DEF TypeOK
    <2>7. claims' \in [Calls -> SUBSET [key : Keys, place : {"", "dynamodb", "ssm", "gone"}]]
      BY <2>1, <2>2 DEF TypeOK
    <2>8. QED BY <2>1, <2>3, <2>4, <2>5, <2>6, <2>7 DEF storeVars, Promises, TypeOK
  <1>3. ASSUME NEW c \in Calls, NEW e \in toPut[c], PutParameter(c, e), Observe PROVE TypeOK'
    <2>1. e.key \in Keys /\ e.value \in 1..MaxWrites /\ e.secure \in BOOLEAN
      BY TypeFacts
    <2>2. /\ toPut' = toPut \/ toPut' = [toPut EXCEPT ![c] = @ \ {e}]
          /\ params' = params \/ params' = [params EXCEPT ![e.key] = prepare(e)]
          /\ \/ toIndex' = toIndex
             \/ toIndex' = [toIndex EXCEPT ![c] = @ \cup {[key |-> e.key, row |-> addressRow(e)]}]
          /\ results' = results \/ \E s \in Verdicts : results' = [results EXCEPT ![c][e.key] = s]
          /\ UNCHANGED <<routes, rows, phase, target, doomed, claims, reading, writes, swaps>>
          /\ Fulfil(c)
      BY <1>3 DEF PutParameter, Verdicts
    <2>3. prepare(e) \in Params /\ addressRow(e) \in Rows
      BY <2>1 DEF prepare, Params, addressRow, Rows, SSM
    <2>4. params' \in [Keys -> Params \cup {NoParam}]
      <3>1. params \in [Keys -> Params \cup {NoParam}]
        BY DEF TypeOK
      <3>2. CASE params' = [params EXCEPT ![e.key] = prepare(e)]
        BY <2>1, <2>3, <3>1, <3>2
      <3>3. QED BY <2>2, <3>1, <3>2
    <2>5. toIndex' \in [Calls -> SUBSET KeyedRows]
      <3>1. [key |-> e.key, row |-> addressRow(e)] \in KeyedRows
        BY <2>1, <2>3 DEF KeyedRows
      <3>2. toIndex \in [Calls -> SUBSET KeyedRows]
        BY DEF TypeOK
      <3>3. QED BY <2>2, <3>1, <3>2
    <2>6. results' \in [Calls -> [Keys -> {"none", "ok", "failed"}]]
      <3>1. results \in [Calls -> [Keys -> {"none", "ok", "failed"}]]
        BY DEF TypeOK
      <3>2. CASE results' = results
        BY <3>1, <3>2
      <3>3. CASE \E s \in Verdicts : results' = [results EXCEPT ![c][e.key] = s]
        <4>1. PICK s \in Verdicts : results' = [results EXCEPT ![c][e.key] = s]
          BY <3>3
        <4>2. results \in [Calls -> [Keys -> Verdicts]]
          BY TypeFacts
        <4>3. results' \in [Calls -> [Keys -> Verdicts]]
          BY <2>1, <4>1, <4>2, ResultType
        <4>4. QED BY <4>3 DEF Verdicts
      <3>4. QED BY <2>2, <3>2, <3>3
    <2>7. toPut' \in [Calls -> SUBSET [key : Keys, value : 1..MaxWrites, secure : BOOLEAN]]
      <3>1. toPut \in [Calls -> SUBSET [key : Keys, value : 1..MaxWrites, secure : BOOLEAN]]
        BY DEF TypeOK
      <3>2. CASE toPut' = toPut
        BY <3>1, <3>2
      <3>3. CASE toPut' = [toPut EXCEPT ![c] = @ \ {e}]
        BY <3>1, <3>3
      <3>4. QED BY <2>2, <3>2, <3>3
    <2>8. pending' \subseteq Promises /\ owed' \subseteq pending' /\ reported' = {}
      BY <2>2, <1>a, FulfilType
    <2>9. seen' \in [Readers -> SUBSET Values]
      BY <1>3, <2>2, <2>4, <2>7, ObserveType DEF ToPuts, TypeOK
    <2>10. QED BY <2>2, <2>4, <2>5, <2>6, <2>7, <2>8, <2>9 DEF Promises, TypeOK
  <1>4. ASSUME NEW c \in Calls, NEW i \in toIndex[c], PutRow(c, i), Observe PROVE TypeOK'
    <2>1. i.key \in Keys /\ i.row \in Rows
      BY TypeFacts
    <2>2. /\ toIndex' = toIndex \/ toIndex' = [toIndex EXCEPT ![c] = @ \ {i}]
          /\ rows' = rows \/ rows' = [rows EXCEPT ![i.key] = i.row]
          /\ \/ results' = results
             \/ \E s \in Verdicts : results' = [results EXCEPT ![c][i.key] = merge(results[c][i.key], s)]
          /\ UNCHANGED <<routes, params, phase, toPut, target, doomed, claims, reading, writes, swaps>>
          /\ Fulfil(c)
      BY <1>4, <2>1 DEF PutRow, Verdicts
    <2>3. rows' \in [Keys -> Rows \cup {NoRow}]
      BY <2>1, <2>2 DEF TypeOK
    <2>4. toIndex' \in [Calls -> SUBSET KeyedRows]
      <3>1. toIndex \in [Calls -> SUBSET KeyedRows]
        BY DEF TypeOK
      <3>2. CASE toIndex' = [toIndex EXCEPT ![c] = @ \ {i}]
        BY <3>1, <3>2
      <3>3. QED BY <2>2, <3>1, <3>2
    <2>5. results' \in [Calls -> [Keys -> {"none", "ok", "failed"}]]
      <3>1. \A s \in Verdicts : merge(results[c][i.key], s) \in Verdicts
        BY <2>1, TypeFacts DEF merge
      <3>2. results \in [Calls -> [Keys -> Verdicts]]
        BY TypeFacts
      <3>3. CASE results' = results
        BY <3>2, <3>3 DEF Verdicts
      <3>4. CASE \E s \in Verdicts : results' = [results EXCEPT ![c][i.key] = merge(results[c][i.key], s)]
        <4>1. PICK s \in Verdicts : results' = [results EXCEPT ![c][i.key] = merge(results[c][i.key], s)]
          BY <3>4
        <4>2. results' \in [Calls -> [Keys -> Verdicts]]
          BY <2>1, <3>1, <3>2, <4>1, ResultType
        <4>3. QED BY <4>2 DEF Verdicts
      <3>5. QED BY <2>2, <3>3, <3>4
    <2>6. pending' \subseteq Promises /\ owed' \subseteq pending' /\ reported' = {}
      BY <2>2, <1>a, FulfilType
    <2>7. seen' \in [Readers -> SUBSET Values]
      BY <1>4, <2>2, <2>3, <1>b, ObserveType DEF TypeOK
    <2>8. QED BY <2>2, <2>3, <2>4, <2>5, <2>6, <2>7 DEF Promises, TypeOK
  \* Calls that end.
  <1>5. ASSUME NEW c \in Calls, NEW ks \in SUBSET Keys, Report(c, ks), Observe, UNCHANGED <<storeVars, reading, writes, swaps>>,
               toPut' \in {toPut, [toPut EXCEPT ![c] = {}]}, toIndex' \in {toIndex, [toIndex EXCEPT ![c] = {}]},
               results' \in {results, [results EXCEPT ![c] = NoResults]}, doomed' \in {doomed, [doomed EXCEPT ![c] = {}]}
        PROVE  TypeOK'
    <2>1. pending' \subseteq Promises /\ owed' \subseteq pending' /\ reported' \subseteq [call : Calls, key : Keys]
      BY <1>5, <1>a, ReportType
    <2>a. toPut' \in [Calls -> SUBSET ToPuts]
      BY <1>5, <1>b
    <2>2. seen' \in [Readers -> SUBSET Values]
      BY <1>5, <2>a, ObserveType DEF storeVars, TypeOK
    <2>3. results' \in [Calls -> [Keys -> {"none", "ok", "failed"}]]
      <3>1. NoResults \in [Keys -> Verdicts]
        BY DEF NoResults, Verdicts
      <3>2. QED BY <1>5, <1>a, <3>1 DEF TypeOK
    <2>4. /\ toPut' \in [Calls -> SUBSET [key : Keys, value : 1..MaxWrites, secure : BOOLEAN]]
          /\ toIndex' \in [Calls -> SUBSET KeyedRows] /\ doomed' \in [Calls -> SUBSET Keys]
      BY <1>5 DEF TypeOK
    <2>5. /\ phase' \in [Calls -> Phases]
          /\ claims' \in [Calls -> SUBSET [key : Keys, place : {"", "dynamodb", "ssm", "gone"}]]
          /\ target' \in [Calls -> [key : Keys, external : BOOLEAN] \cup {NoTarget}]
      BY <1>5, ReportType
    <2>6. QED BY <1>5, <2>1, <2>2, <2>3, <2>4, <2>5 DEF storeVars, Promises, TypeOK
  <1>6. ASSUME NEW c \in Calls, UpsertReturn(c), Observe PROVE TypeOK'
    BY <1>5, <1>6 DEF UpsertReturn
  <1>7. ASSUME NEW c \in Calls, DeleteParameterFails(c), Observe PROVE TypeOK'
    BY <1>5, <1>7 DEF DeleteParameterFails
  <1>8. ASSUME NEW c \in Calls, DeleteReturn(c), Observe PROVE TypeOK'
    BY <1>5, <1>8 DEF DeleteReturn, Subtree
  <1>9. ASSUME NEW c \in Calls, DeleteRowsFail(c), Observe PROVE TypeOK'
    BY <1>5, <1>9 DEF DeleteRowsFail, Subtree
  <1>10. ASSUME NEW c \in Calls, Crash(c), Observe PROVE TypeOK'
    BY <1>5, <1>10 DEF Crash
  <1>11. ASSUME NEW c \in Calls, DeleteParameter(c), Observe PROVE TypeOK'
    <2>1. /\ params' = [params EXCEPT ![target[c].key] = NoParam]
          /\ phase' \in {[phase EXCEPT ![c] = "root"], [phase EXCEPT ![c] = "lost"]}
          /\ UNCHANGED <<routes, rows, toPut, toIndex, results, target, doomed, claims, reading, writes, swaps>>
          /\ Fulfil(c)
      BY <1>11 DEF DeleteParameter
    <2>2. params' \in [Keys -> Params \cup {NoParam}] /\ phase' \in [Calls -> Phases]
      BY <2>1 DEF Phases, TypeOK
    <2>3. pending' \subseteq Promises /\ owed' \subseteq pending' /\ reported' = {}
      BY <2>1, <1>a, FulfilType
    <2>4. seen' \in [Readers -> SUBSET Values]
      BY <1>11, <2>1, <2>2, <1>b, ObserveType DEF TypeOK
    <2>5. QED BY <2>1, <2>2, <2>3, <2>4 DEF Promises, TypeOK
  <1>12. ASSUME NEW c \in Calls, DeleteRoot(c), Observe PROVE TypeOK'
    <2> DEFINE left == {j \in Subtree(target[c].key) : rows'[j] # NoRow}
    <2>1. /\ rows' = [rows EXCEPT ![target[c].key] = NoRow]
          /\ phase' = [phase EXCEPT ![c] = "walk"] /\ doomed' = [doomed EXCEPT ![c] = left]
          /\ UNCHANGED <<routes, params, toPut, toIndex, results, target, claims, reading, writes, swaps>>
          /\ Fulfil(c)
      BY <1>12 DEF DeleteRoot
    <2>2. left \subseteq Keys
      BY DEF Subtree
    <2> HIDE DEF left
    <2>3. rows' \in [Keys -> Rows \cup {NoRow}] /\ phase' \in [Calls -> Phases] /\ doomed' \in [Calls -> SUBSET Keys]
      BY <2>1, <2>2 DEF Phases, TypeOK
    <2>4. pending' \subseteq Promises /\ owed' \subseteq pending' /\ reported' = {}
      BY <2>1, <1>a, FulfilType
    <2>5. seen' \in [Readers -> SUBSET Values]
      BY <1>12, <2>1, <2>3, <1>b, ObserveType DEF TypeOK
    <2>6. QED BY <2>1, <2>3, <2>4, <2>5 DEF Promises, TypeOK
  <1>13. ASSUME NEW c \in Calls, NEW k \in Keys, DeleteRow(c, k), Observe PROVE TypeOK'
    <2>1. /\ rows' = [rows EXCEPT ![k] = NoRow] /\ doomed' = [doomed EXCEPT ![c] = @ \ {k}]
          /\ UNCHANGED <<routes, params, phase, toPut, toIndex, results, target, claims, reading, writes, swaps>>
          /\ Fulfil(c)
      BY <1>13 DEF DeleteRow
    <2>2. rows' \in [Keys -> Rows \cup {NoRow}] /\ doomed' \in [Calls -> SUBSET Keys]
      BY <2>1 DEF TypeOK
    <2>3. pending' \subseteq Promises /\ owed' \subseteq pending' /\ reported' = {}
      BY <2>1, <1>a, FulfilType
    <2>4. seen' \in [Readers -> SUBSET Values]
      BY <1>13, <2>1, <2>2, <1>b, ObserveType DEF TypeOK
    <2>5. QED BY <2>1, <2>2, <2>3, <2>4 DEF Promises, TypeOK
  <1>14. ASSUME NEW r \in Readers, NEW k \in Keys, Resolve(r, k) PROVE TypeOK'
    <2>1. rows[k] \in Rows
      <3>1. ~inIndex(rows[k]) /\ inIndex(NoRow)
        BY <1>14 DEF Resolve, inIndex, NoRow, SSM
      <3>2. QED BY <3>1, TypeFacts
    <2>2. reading' \in [Readers -> [key : Keys, row : Rows] \cup {NoReading}]
      BY <1>14, <2>1 DEF Resolve, TypeOK
    <2>3. Prospects(k) \subseteq Values
      <3>1. Value(k) \in Values
        BY ValueType DEF TypeOK
      <3>2. \A c \in Calls : \A e \in toPut[c] : e.value \in Values
        BY <1>b, PutValue
      <3>3. SUFFICES ASSUME NEW v \in Prospects(k) PROVE v \in Values
        OBVIOUS
      <3>4. v = Value(k) \/ v = NoValue \/ \E c \in Calls : \E e \in toPut[c] : v = e.value
        BY <3>3 DEF Prospects
      <3>5. QED BY <3>1, <3>2, <3>4, StoredType
    <2>4. QED BY <1>14, <2>2, <2>3 DEF Resolve, storeVars, callVars, pastVars, TypeOK
  <1>15. ASSUME NEW r \in Readers, ResolveReturn(r) PROVE TypeOK'
    BY <1>15 DEF ResolveReturn, storeVars, callVars, pastVars, TypeOK
  <1>16. ASSUME NEW t \in Tables, SwapRoutes(t), Observe PROVE TypeOK'
    <2>1. seen' \in [Readers -> SUBSET Values]
      BY <1>16, <1>b, ObserveType DEF SwapRoutes, callVars, pastVars, TypeOK
    <2>2. swaps' \in 0..MaxSwaps
      <3>1. MaxSwaps \in Nat
        BY GatewayAssumption
      <3>2. swaps \in 0..MaxSwaps /\ swaps < MaxSwaps /\ swaps' = swaps + 1
        BY <1>16, TypeFacts DEF SwapRoutes
      <3>3. QED BY <3>1, <3>2
    <2>3. QED BY <1>16, <2>1, <2>2 DEF SwapRoutes, callVars, pastVars, TypeOK
  <1>17. CASE UNCHANGED vars
    BY <1>17 DEF vars, storeVars, callVars, pastVars, TypeOK
  <1>18. QED
    BY <1>1, <1>2, <1>3, <1>4, <1>6, <1>7, <1>8, <1>9, <1>10, <1>11, <1>12, <1>13, <1>14, <1>15, <1>16, <1>17
    DEF Next, Call, Step

LEMMA TypesInit == Init => TypeOK
  <1> SUFFICES ASSUME Init PROVE TypeOK
    OBVIOUS
  <1>1. 0 \in 0..MaxWrites /\ 0 \in 0..MaxSwaps
    BY GatewayAssumption
  <1>2. QED BY <1>1 DEF Init, TypeOK, Phases, NoResults

(* Every variable of the Gateway keeps its type; a row holds a value only   *)
(* if the index is the backend it names, and an address otherwise,          *)
(* whatever overlaps and whatever fails.                                    *)
THEOREM GatewayTypes == Spec => []TypeOK
  BY TypesInit, TypesNext, PTL DEF Spec

-----------------------------------------------------------------------------
(* Claims: who is at work on a key.                                        *)

\* Call c is over and has reported ks.
Ends(c, ks) ==
    /\ Report(c, ks) /\ UNCHANGED <<storeVars, reading, writes, swaps>>
    /\ \A d \in Calls :
          /\ toPut'[d] = (IF d = c THEN {} ELSE toPut[d])
          /\ toIndex'[d] = (IF d = c THEN {} ELSE toIndex[d])
          /\ d # c => results'[d] = results[d] /\ doomed'[d] = doomed[d]

LEMMA EndsOf ==
    ASSUME TypeOK, OnlyUpserts, NEW c \in Calls
    PROVE  /\ UpsertReturn(c) => Ends(c, {k \in Keys : results[c][k] = "ok"})
           /\ DeleteReturn(c) => Ends(c, Subtree(target[c].key))
           /\ DeleteParameterFails(c) => Ends(c, {})
           /\ DeleteRowsFail(c) => Ends(c, IF target[c].external THEN Subtree(target[c].key) ELSE {})
           /\ Crash(c) => Ends(c, {})
  <1>1. UpsertReturn(c) => Ends(c, {k \in Keys : results[c][k] = "ok"})
    BY DEF UpsertReturn, backendsDone, Ends, TypeOK
  <1>2. phase[c] # "upsert" => toPut[c] = {} /\ toIndex[c] = {}
    BY DEF OnlyUpserts
  <1>3. DeleteReturn(c) => Ends(c, Subtree(target[c].key))
    BY <1>2 DEF DeleteReturn, Ends, TypeOK
  <1>4. DeleteParameterFails(c) => Ends(c, {})
    BY <1>2 DEF DeleteParameterFails, Ends, TypeOK
  <1>5. DeleteRowsFail(c) => Ends(c, IF target[c].external THEN Subtree(target[c].key) ELSE {})
    BY <1>2 DEF DeleteRowsFail, Ends, TypeOK
  <1>6. Crash(c) => Ends(c, {})
    BY DEF Crash, Ends, TypeOK
  <1>7. QED BY <1>1, <1>3, <1>4, <1>5, <1>6

\* The ways in which a call ends.
Ending(c) ==
    UpsertReturn(c) \/ DeleteReturn(c) \/ DeleteParameterFails(c) \/ DeleteRowsFail(c) \/ Crash(c)

\* What the invariants below are about.
workVars == <<rows, params, callVars, writes, pastVars>>

LEMMA StepKinds ==
    ASSUME [Next]_vars
    PROVE  \/ \E c \in Calls, b \in Batches : Upsert(c, b) /\ (Racing \/ Orderly') /\ Observe
           \/ \E c \in Calls, k \in Keys : Delete(c, k) /\ (Racing \/ Orderly') /\ Observe
           \/ \E c \in Calls : \E e \in toPut[c] : PutParameter(c, e) /\ Observe
           \/ \E c \in Calls : \E i \in toIndex[c] : PutRow(c, i) /\ Observe
           \/ \E c \in Calls : Ending(c) /\ Observe
           \/ \E c \in Calls : DeleteParameter(c) /\ Observe
           \/ \E c \in Calls : DeleteRoot(c) /\ Observe
           \/ \E c \in Calls, k \in Keys : DeleteRow(c, k) /\ Observe
           \/ UNCHANGED workVars
  <1>1. ASSUME NEW r \in Readers, NEW k \in Keys, ResolveReturn(r) \/ Resolve(r, k) PROVE UNCHANGED workVars
    BY <1>1 DEF ResolveReturn, Resolve, workVars, storeVars, callVars, pastVars
  <1>2. ASSUME NEW r \in Readers, ResolveReturn(r) PROVE UNCHANGED workVars
    BY <1>2 DEF ResolveReturn, workVars, storeVars, callVars, pastVars
  <1>3. ASSUME NEW t \in Tables, SwapRoutes(t) PROVE UNCHANGED workVars
    BY <1>3 DEF SwapRoutes, workVars, storeVars, callVars, pastVars
  <1>4. CASE UNCHANGED vars
    BY <1>4 DEF vars, workVars, storeVars, callVars, pastVars
  <1>5. QED BY <1>1, <1>2, <1>3, <1>4 DEF Next, Call, Step, Ending

ClaimsInv == OnlyUpserts /\ ClaimsHeld /\ Orderly

LEMMA ClaimsNext ==
    ASSUME ~Racing, TypeOK, ClaimsInv, [Next]_vars
    PROVE  ClaimsInv'
  <1> USE DEF ClaimsInv
  <1>1. ASSUME NEW c \in Calls, NEW b \in Batches, Upsert(c, b), Orderly' PROVE ClaimsInv'
    <2> DEFINE place(x) == IF x.backend \in SSM THEN "ssm" ELSE x.backend
               ssm == {x \in Routed(b) : x.backend \in SSM}
               local == {x \in Routed(b) : x.backend = "dynamodb"}
    <2>1. /\ phase' = [phase EXCEPT ![c] = "upsert"]
          /\ toPut' = [toPut EXCEPT ![c] =
                {[key |-> x.key, value |-> writes + 1, secure |-> x.secure] : x \in ssm}]
          /\ toIndex' = [toIndex EXCEPT ![c] =
                {[key |-> x.key, row |-> [backend |-> "dynamodb", value |-> writes + 1,
                                          secure |-> x.secure]] : x \in local}]
          /\ claims' = [claims EXCEPT ![c] = {[key |-> x.key, place |-> place(x)] : x \in Routed(b)}]
          /\ UNCHANGED target
      BY <1>1, UpsertSteps
    <2>2. \A x, y \in Routed(b) : x.key = y.key => x = y
      BY RoutedType
    <2>3. /\ \A x \in ssm : place(x) = "ssm" /\ x \in Routed(b)
          /\ \A x \in local : place(x) = "dynamodb" /\ x \in Routed(b)
          /\ \A row : row.backend = "dynamodb" => Place(row) = "dynamodb"
      BY DEF SSM, Place, inIndex
    <2> HIDE DEF place, ssm, local
    <2>a. /\ claims'[c] = {[key |-> x.key, place |-> place(x)] : x \in Routed(b)}
          /\ toPut'[c] = {[key |-> x.key, value |-> writes + 1, secure |-> x.secure] : x \in ssm}
          /\ toIndex'[c] = {[key |-> x.key, row |-> [backend |-> "dynamodb", value |-> writes + 1,
                                                    secure |-> x.secure]] : x \in local}
      BY <2>1 DEF TypeOK
    <2>4. ASSUME NEW u \in claims'[c], NEW v \in claims'[c], u.key = v.key PROVE u = v
      <3>1. PICK x \in Routed(b) : u = [key |-> x.key, place |-> place(x)]
        BY <2>a
      <3>2. PICK y \in Routed(b) : v = [key |-> y.key, place |-> place(y)]
        BY <2>a
      <3>3. QED BY <3>1, <3>2, <2>2, <2>4
    <2>5. ASSUME NEW e \in toPut'[c] PROVE [key |-> e.key, place |-> "ssm"] \in claims'[c]
      <3>1. PICK x \in ssm : e = [key |-> x.key, value |-> writes + 1, secure |-> x.secure]
        BY <2>a
      <3>2. e.key = x.key /\ [key |-> x.key, place |-> place(x)] \in claims'[c] /\ place(x) = "ssm"
        BY <2>3, <2>a, <3>1
      <3>3. QED BY <3>2
    <2>6. ASSUME NEW i \in toIndex'[c] PROVE [key |-> i.key, place |-> Place(i.row)] \in claims'[c]
      <3>1. PICK x \in local : i = [key |-> x.key, row |-> [backend |-> "dynamodb", value |-> writes + 1,
                                                          secure |-> x.secure]]
        BY <2>a
      <3>2. i.key = x.key /\ [key |-> x.key, place |-> place(x)] \in claims'[c] /\ place(x) = "dynamodb"
        BY <2>3, <2>a, <3>1
      <3>3. i.row.backend = "dynamodb"
        BY <3>1
      <3>4. Place(i.row) = "dynamodb"
        BY <2>3, <3>3
      <3>5. QED BY <3>2, <3>4
    <2>7. phase'[c] = "upsert" /\ \A d \in Calls \ {c} :
            /\ phase'[d] = phase[d] /\ toPut'[d] = toPut[d] /\ toIndex'[d] = toIndex[d]
            /\ claims'[d] = claims[d] /\ target'[d] = target[d]
      BY <2>1 DEF TypeOK
    <2>8. OnlyUpserts'
      BY <2>7 DEF OnlyUpserts
    <2>9. ClaimsHeld'
      BY <2>4, <2>5, <2>6, <2>7 DEF ClaimsHeld, Deletes
    <2>10. QED BY <1>1, <2>8, <2>9
  <1>2. ASSUME NEW c \in Calls, NEW k \in Keys, Delete(c, k), Orderly' PROVE ClaimsInv'
    <2>1. /\ phase'[c] # "upsert" /\ target'[c].key = k /\ claims'[c] = [key : Subtree(k), place : {"gone"}]
          /\ toPut'[c] = {} /\ toIndex'[c] = {}
      BY <1>2 DEF Delete, OnlyUpserts, TypeOK
    <2>2. \A d \in Calls \ {c} :
            /\ phase'[d] = phase[d] /\ toPut'[d] = toPut[d] /\ toIndex'[d] = toIndex[d]
            /\ claims'[d] = claims[d] /\ target'[d] = target[d]
      BY <1>2 DEF Delete, TypeOK
    <2>a. \A x, y \in claims'[c] : x.key = y.key => x = y
      BY <2>1
    <2>b. target'[c].key \in Keys /\ claims'[c] = [key : Subtree(target'[c].key), place : {"gone"}]
      BY <2>1
    <2>3. ClaimsHeld'
      <3>1. ASSUME NEW d \in Calls, d = c
            PROVE  /\ \A x, y \in claims'[d] : x.key = y.key => x = y
                   /\ \A e \in toPut'[d] : [key |-> e.key, place |-> "ssm"] \in claims'[d]
                   /\ \A i \in toIndex'[d] : [key |-> i.key, place |-> Place(i.row)] \in claims'[d]
                   /\ Deletes(d)' => target'[d].key \in Keys /\ claims'[d] = [key : Subtree(target'[d].key), place : {"gone"}]
        BY <2>1, <2>a, <2>b, <3>1
      <3>2. ASSUME NEW d \in Calls, d # c
            PROVE  /\ \A x, y \in claims'[d] : x.key = y.key => x = y
                   /\ \A e \in toPut'[d] : [key |-> e.key, place |-> "ssm"] \in claims'[d]
                   /\ \A i \in toIndex'[d] : [key |-> i.key, place |-> Place(i.row)] \in claims'[d]
                   /\ Deletes(d)' => target'[d].key \in Keys /\ claims'[d] = [key : Subtree(target'[d].key), place : {"gone"}]
        BY <2>2, <3>2 DEF ClaimsHeld, Deletes
      <3>3. QED BY <3>1, <3>2 DEF ClaimsHeld, Place, inIndex
    <2>4. OnlyUpserts'
      BY <2>1, <2>2 DEF OnlyUpserts
    <2>5. QED BY <1>2, <2>3, <2>4
  <1>3. ASSUME NEW c \in Calls, NEW e \in toPut[c], PutParameter(c, e) PROVE ClaimsInv'
    <2>1. /\ toPut' \in {toPut, [toPut EXCEPT ![c] = @ \ {e}]}
          /\ toIndex' \in {toIndex, [toIndex EXCEPT ![c] = @ \cup {[key |-> e.key, row |-> addressRow(e)]}]}
          /\ UNCHANGED <<phase, target, claims>>
      BY <1>3 DEF PutParameter
    <2>2. Place(addressRow(e)) = "ssm" /\ [key |-> e.key, place |-> "ssm"] \in claims[c] /\ phase[c] = "upsert"
      BY DEF Place, inIndex, addressRow, SSM, ClaimsHeld, OnlyUpserts
    <2>3. \A d \in Calls : \A i \in toIndex'[d] : i \in toIndex[d] \/ (d = c /\ i = [key |-> e.key, row |-> addressRow(e)])
      <3>1. CASE toIndex' = toIndex
        BY <3>1
      <3>2. CASE toIndex' = [toIndex EXCEPT ![c] = @ \cup {[key |-> e.key, row |-> addressRow(e)]}]
        <4>1. toIndex \in [Calls -> SUBSET KeyedRows]
          BY DEF TypeOK
        <4>2. QED BY <3>2, <4>1
      <3>3. QED BY <2>1, <3>1, <3>2
    <2>4. \A d \in Calls : toPut'[d] \subseteq toPut[d] /\ (d # c => toIndex'[d] = toIndex[d])
      BY <2>1 DEF TypeOK
    <2>5. OnlyUpserts'
      BY <2>1, <2>2, <2>4 DEF OnlyUpserts
    <2>6. \A d \in Calls : \A i \in toIndex'[d] : [key |-> i.key, place |-> Place(i.row)] \in claims[d]
      BY <2>2, <2>3 DEF ClaimsHeld
    <2>7. ClaimsHeld'
      BY <2>1, <2>4, <2>6 DEF ClaimsHeld, Deletes, Place, inIndex
    <2>8. QED BY <2>1, <2>5, <2>7 DEF Orderly
  <1>4. ASSUME NEW c \in Calls, NEW i \in toIndex[c], PutRow(c, i) PROVE ClaimsInv'
    <2>1. UNCHANGED <<phase, target, claims, toPut>> /\ \A d \in Calls : toIndex'[d] \subseteq toIndex[d]
      <3>1. toIndex \in [Calls -> SUBSET KeyedRows]
        BY DEF TypeOK
      <3>2. UNCHANGED <<phase, target, claims, toPut>>
        BY <1>4 DEF PutRow
      <3>3. toIndex' = toIndex \/ toIndex' = [toIndex EXCEPT ![c] = @ \ {i}]
        BY <1>4 DEF PutRow
      <3>4. \A d \in Calls : toIndex'[d] \subseteq toIndex[d]
        BY <3>1, <3>3
      <3>5. QED BY <3>2, <3>4
    <2>2. OnlyUpserts' /\ Orderly'
      BY <2>1 DEF OnlyUpserts, Orderly
    <2>3. ClaimsHeld'
      BY <2>1 DEF ClaimsHeld, Deletes, Place, inIndex
    <2>4. QED BY <2>2, <2>3
  <1>5. ASSUME NEW c \in Calls, Ending(c) PROVE ClaimsInv'
    <2>1. PICK ks : Ends(c, ks)
      BY <1>5, EndsOf DEF Ending
    <2>2. phase'[c] = "idle" /\ claims'[c] = {} /\ toPut'[c] = {} /\ toIndex'[c] = {}
      BY <2>1 DEF Ends, Report, TypeOK
    <2>3. \A d \in Calls \ {c} :
            /\ phase'[d] = phase[d] /\ toPut'[d] = toPut[d] /\ toIndex'[d] = toIndex[d]
            /\ claims'[d] = claims[d] /\ target'[d] = target[d]
      BY <2>1 DEF Ends, Report, TypeOK
    <2>4. OnlyUpserts' /\ Orderly'
      BY <2>2, <2>3 DEF OnlyUpserts, Orderly
    <2>5. ClaimsHeld'
      BY <2>2, <2>3 DEF ClaimsHeld, Deletes
    <2>6. QED BY <2>4, <2>5
  <1>6. ASSUME NEW c \in Calls, DeleteParameter(c) \/ DeleteRoot(c) \/ \E k \in Keys : DeleteRow(c, k) PROVE ClaimsInv'
    <2>1. /\ UNCHANGED <<toPut, toIndex, target, claims>>
          /\ Deletes(c) /\ phase'[c] \in {"root", "lost", "walk"} /\ \A d \in Calls \ {c} : phase'[d] = phase[d]
      BY <1>6 DEF DeleteParameter, DeleteRoot, DeleteRow, Deletes, TypeOK
    <2>2. OnlyUpserts' /\ Orderly'
      BY <2>1 DEF OnlyUpserts, Orderly, Deletes
    <2>3. ClaimsHeld'
      BY <2>1 DEF ClaimsHeld, Deletes, Place, inIndex
    <2>4. QED BY <2>2, <2>3
  <1>7. CASE UNCHANGED workVars
    BY <1>7 DEF workVars, callVars, OnlyUpserts, ClaimsHeld, Orderly, Deletes, Place, inIndex
  <1>8. QED BY <1>1, <1>2, <1>3, <1>4, <1>5, <1>6, <1>7, StepKinds

LEMMA ClaimsInit == Init => ClaimsInv
  BY DEF Init, ClaimsInv, OnlyUpserts, ClaimsHeld, Orderly, Deletes

-----------------------------------------------------------------------------
(* The steps of a call, key by key and call by call.                       *)

LEMMA PutParameterSteps ==
    ASSUME TypeOK, NEW c \in Calls, NEW e \in toPut[c], PutParameter(c, e)
    PROVE  /\ e.key \in Keys /\ e.value \in 1..MaxWrites /\ e.secure \in BOOLEAN
           /\ \A k \in Keys : k # e.key => params'[k] = params[k]
           /\ \/ params'[e.key] = params[e.key]
              \/ params'[e.key] = prepare(e) /\ (params[e.key] = NoParam \/ params[e.key].secure = e.secure)
           /\ \A d \in Calls : d # c => toPut'[d] = toPut[d] /\ toIndex'[d] = toIndex[d] /\ results'[d] = results[d]
           /\ \/ /\ toIndex'[c] = toIndex[c] \cup {[key |-> e.key, row |-> addressRow(e)]}
                 /\ results'[c] = [results[c] EXCEPT ![e.key] = "ok"] /\ params'[e.key] = prepare(e)
                 /\ toPut'[c] = toPut[c] \ {e}
              \/ /\ toIndex'[c] = toIndex[c] /\ results'[c] = [results[c] EXCEPT ![e.key] = "failed"]
                 /\ toPut'[c] = toPut[c] \ {e}
              \/ /\ toIndex' = toIndex /\ results' = results /\ toPut' = toPut
                 /\ params'[e.key] = prepare(e)
           /\ UNCHANGED <<routes, rows, phase, target, doomed, claims, reading, writes, swaps>>
           /\ Fulfil(c)
  <1>1. e.key \in Keys /\ e.value \in 1..MaxWrites /\ e.secure \in BOOLEAN
    BY TypeFacts
  <1>2. /\ params \in [Keys -> Params \cup {NoParam}] /\ toIndex \in [Calls -> SUBSET KeyedRows]
        /\ toPut \in [Calls -> SUBSET [key : Keys, value : 1..MaxWrites, secure : BOOLEAN]]
        /\ results \in [Calls -> [Keys -> Verdicts]]
    BY DEF TypeOK, Verdicts
  <1> DEFINE typed == params[e.key] = NoParam \/ params[e.key].secure = e.secure
             put == [params EXCEPT ![e.key] = prepare(e)]
  <1>3. /\ \/ /\ typed /\ params' = put
              /\ toIndex' = [toIndex EXCEPT ![c] = @ \cup {[key |-> e.key, row |-> addressRow(e)]}]
              /\ results' = [results EXCEPT ![c][e.key] = "ok"]
              /\ toPut' = [toPut EXCEPT ![c] = @ \ {e}]
           \/ /\ params' = params \/ (typed /\ params' = put)
              /\ results' = [results EXCEPT ![c][e.key] = "failed"]
              /\ toPut' = [toPut EXCEPT ![c] = @ \ {e}]
              /\ UNCHANGED toIndex
           \/ typed /\ params' = put /\ UNCHANGED <<toPut, toIndex, results>>
        /\ UNCHANGED <<routes, rows, phase, target, doomed, claims, reading, writes, swaps>>
        /\ Fulfil(c)
    BY DEF PutParameter
  <1>4. put[e.key] = prepare(e) /\ \A k \in Keys : k # e.key => put[k] = params[k]
    BY <1>1, <1>2
  <1> HIDE DEF put, typed
  <1>5. CASE /\ typed /\ params' = put
             /\ toIndex' = [toIndex EXCEPT ![c] = @ \cup {[key |-> e.key, row |-> addressRow(e)]}]
             /\ results' = [results EXCEPT ![c][e.key] = "ok"]
             /\ toPut' = [toPut EXCEPT ![c] = @ \ {e}]
    <2>1. /\ toIndex'[c] = toIndex[c] \cup {[key |-> e.key, row |-> addressRow(e)]}
          /\ results'[c] = [results[c] EXCEPT ![e.key] = "ok"]
          /\ \A d \in Calls : d # c => toIndex'[d] = toIndex[d] /\ results'[d] = results[d]
      BY <1>2, <1>5
    <2>2. toPut'[c] = toPut[c] \ {e} /\ \A d \in Calls : d # c => toPut'[d] = toPut[d]
      BY <1>2, <1>5
    <2>3. QED BY <1>1, <1>3, <1>4, <1>5, <2>1, <2>2 DEF typed
  <1>6. CASE /\ params' = params \/ (typed /\ params' = put)
             /\ results' = [results EXCEPT ![c][e.key] = "failed"]
             /\ toPut' = [toPut EXCEPT ![c] = @ \ {e}]
             /\ UNCHANGED toIndex
    <2>1. /\ results'[c] = [results[c] EXCEPT ![e.key] = "failed"]
          /\ \A d \in Calls : toIndex'[d] = toIndex[d] /\ (d # c => results'[d] = results[d])
      BY <1>2, <1>6
    <2>2. toPut'[c] = toPut[c] \ {e} /\ \A d \in Calls : d # c => toPut'[d] = toPut[d]
      BY <1>2, <1>6
    <2>3. QED BY <1>1, <1>3, <1>4, <1>6, <2>1, <2>2 DEF typed
  <1>7. CASE typed /\ params' = put /\ UNCHANGED <<toPut, toIndex, results>>
    BY <1>1, <1>3, <1>4, <1>7 DEF typed
  <1>8. QED BY <1>3, <1>5, <1>6, <1>7

LEMMA PutRowSteps ==
    ASSUME TypeOK, NEW c \in Calls, NEW i \in toIndex[c], PutRow(c, i)
    PROVE  /\ i.key \in Keys /\ i.row \in Rows /\ backendsDone(c)
           /\ \A k \in Keys : k # i.key => rows'[k] = rows[k]
           /\ \A d \in Calls : d # c => toIndex'[d] = toIndex[d] /\ results'[d] = results[d]
           /\ \/ /\ rows'[i.key] = i.row /\ toIndex'[c] = toIndex[c] \ {i}
                 /\ results'[c] = [results[c] EXCEPT ![i.key] = merge(@, "ok")]
              \/ /\ (IF i.row.backend = "dynamodb" THEN "index" ELSE "between") \in Failing
                 /\ rows'[i.key] \in {rows[i.key], i.row} /\ toIndex'[c] = toIndex[c] \ {i}
                 /\ results'[c] = [results[c] EXCEPT ![i.key] = merge(@, "failed")]
              \/ rows'[i.key] = i.row /\ toIndex' = toIndex /\ results' = results
           /\ UNCHANGED <<routes, params, phase, toPut, target, doomed, claims, reading, writes, swaps>>
           /\ Fulfil(c)
  <1>1. i.key \in Keys /\ i.row \in Rows
    BY TypeFacts
  <1>2. /\ rows \in [Keys -> Rows \cup {NoRow}] /\ toIndex \in [Calls -> SUBSET KeyedRows]
        /\ results \in [Calls -> [Keys -> Verdicts]]
    BY DEF TypeOK, Verdicts
  <1> DEFINE put == [rows EXCEPT ![i.key] = i.row]
  <1>3. /\ \/ /\ rows' = put /\ results' = [results EXCEPT ![c][i.key] = merge(@, "ok")]
              /\ toIndex' = [toIndex EXCEPT ![c] = @ \ {i}]
           \/ /\ (IF i.row.backend = "dynamodb" THEN "index" ELSE "between") \in Failing
              /\ rows' = rows \/ rows' = put
              /\ results' = [results EXCEPT ![c][i.key] = merge(@, "failed")]
              /\ toIndex' = [toIndex EXCEPT ![c] = @ \ {i}]
           \/ rows' = put /\ UNCHANGED <<toIndex, results>>
        /\ backendsDone(c)
        /\ UNCHANGED <<routes, params, phase, toPut, target, doomed, claims, reading, writes, swaps>>
        /\ Fulfil(c)
    BY DEF PutRow
  <1>4. put[i.key] = i.row /\ \A k \in Keys : k # i.key => put[k] = rows[k]
    BY <1>1, <1>2
  <1> HIDE DEF put
  <1>5. toIndex' = [toIndex EXCEPT ![c] = @ \ {i}] =>
          toIndex'[c] = toIndex[c] \ {i} /\ \A d \in Calls : d # c => toIndex'[d] = toIndex[d]
    BY <1>2
  <1>6. CASE /\ rows' = put /\ results' = [results EXCEPT ![c][i.key] = merge(@, "ok")]
             /\ toIndex' = [toIndex EXCEPT ![c] = @ \ {i}]
    <2>1. results'[c] = [results[c] EXCEPT ![i.key] = merge(@, "ok")] /\ \A d \in Calls : d # c => results'[d] = results[d]
      BY <1>2, <1>6
    <2>2. QED BY <1>1, <1>3, <1>4, <1>5, <1>6, <2>1
  <1>7. CASE /\ (IF i.row.backend = "dynamodb" THEN "index" ELSE "between") \in Failing
             /\ rows' = rows \/ rows' = put
             /\ results' = [results EXCEPT ![c][i.key] = merge(@, "failed")]
             /\ toIndex' = [toIndex EXCEPT ![c] = @ \ {i}]
    <2>1. results'[c] = [results[c] EXCEPT ![i.key] = merge(@, "failed")] /\ \A d \in Calls : d # c => results'[d] = results[d]
      BY <1>2, <1>7
    <2>2. QED BY <1>1, <1>3, <1>4, <1>5, <1>7, <2>1
  <1>8. CASE rows' = put /\ UNCHANGED <<toIndex, results>>
    BY <1>1, <1>3, <1>4, <1>8
  <1>9. QED BY <1>3, <1>6, <1>7, <1>8

LEMMA DeleteSteps ==
    ASSUME TypeOK, ClaimsHeld, NEW c \in Calls
    PROVE  /\ DeleteParameter(c) =>
                /\ phase[c] = "param" /\ target[c].key \in Keys /\ params'[target[c].key] = NoParam
                /\ \A k \in Keys : k # target[c].key => params'[k] = params[k]
                /\ phase'[c] = "root" \/ ("between" \in Failing /\ phase'[c] = "lost")
                /\ \A d \in Calls : d # c => phase'[d] = phase[d]
                /\ UNCHANGED <<routes, rows, toPut, toIndex, results, target, doomed, claims, reading, writes, swaps>>
                /\ Fulfil(c)
           /\ DeleteRoot(c) =>
                /\ phase[c] = "root" /\ target[c].key \in Keys /\ rows'[target[c].key] = NoRow
                /\ \A k \in Keys : k # target[c].key => rows'[k] = rows[k]
                /\ phase'[c] = "walk" /\ doomed'[c] = {j \in Subtree(target[c].key) : rows'[j] # NoRow}
                /\ \A d \in Calls : d # c => phase'[d] = phase[d] /\ doomed'[d] = doomed[d]
                /\ UNCHANGED <<routes, params, toPut, toIndex, results, target, claims, reading, writes, swaps>>
                /\ Fulfil(c)
           /\ \A k \in Keys : DeleteRow(c, k) =>
                /\ phase[c] = "walk" /\ k \in Subtree(target[c].key) /\ rows'[k] = NoRow
                /\ \A j \in Keys : j # k => rows'[j] = rows[j]
                /\ doomed'[c] = doomed[c] \ {k} /\ \A d \in Calls : d # c => doomed'[d] = doomed[d]
                /\ UNCHANGED <<routes, params, phase, toPut, toIndex, results, target, claims, reading, writes, swaps>>
                /\ Fulfil(c)
  <1>1. /\ rows \in [Keys -> Rows \cup {NoRow}] /\ params \in [Keys -> Params \cup {NoParam}]
        /\ phase \in [Calls -> Phases] /\ doomed \in [Calls -> SUBSET Keys]
    BY DEF TypeOK
  <1>2. Deletes(c) => target[c].key \in Keys
    BY DEF ClaimsHeld
  <1>3. ASSUME DeleteParameter(c)
        PROVE  /\ phase[c] = "param" /\ target[c].key \in Keys /\ params'[target[c].key] = NoParam
               /\ \A k \in Keys : k # target[c].key => params'[k] = params[k]
               /\ phase'[c] = "root" \/ ("between" \in Failing /\ phase'[c] = "lost")
               /\ \A d \in Calls : d # c => phase'[d] = phase[d]
               /\ UNCHANGED <<routes, rows, toPut, toIndex, results, target, doomed, claims, reading, writes, swaps>>
               /\ Fulfil(c)
    BY <1>1, <1>2, <1>3 DEF DeleteParameter, Deletes
  <1>4. ASSUME DeleteRoot(c)
        PROVE  /\ phase[c] = "root" /\ target[c].key \in Keys /\ rows'[target[c].key] = NoRow
               /\ \A k \in Keys : k # target[c].key => rows'[k] = rows[k]
               /\ phase'[c] = "walk" /\ doomed'[c] = {j \in Subtree(target[c].key) : rows'[j] # NoRow}
               /\ \A d \in Calls : d # c => phase'[d] = phase[d] /\ doomed'[d] = doomed[d]
               /\ UNCHANGED <<routes, params, toPut, toIndex, results, target, claims, reading, writes, swaps>>
               /\ Fulfil(c)
    BY <1>1, <1>2, <1>4 DEF DeleteRoot, Deletes
  <1>5. ASSUME NEW k \in Keys, DeleteRow(c, k)
        PROVE  /\ phase[c] = "walk" /\ k \in Subtree(target[c].key) /\ rows'[k] = NoRow
               /\ \A j \in Keys : j # k => rows'[j] = rows[j]
               /\ doomed'[c] = doomed[c] \ {k} /\ \A d \in Calls : d # c => doomed'[d] = doomed[d]
               /\ UNCHANGED <<routes, params, phase, toPut, toIndex, results, target, claims, reading, writes, swaps>>
               /\ Fulfil(c)
    BY <1>1, <1>5 DEF DeleteRow
  <1>6. QED BY <1>3, <1>4, <1>5

LEMMA AddressRow ==
    ASSUME NEW e, e.value \in 1..MaxWrites, e.secure \in BOOLEAN
    PROVE  /\ addressRow(e).backend \in SSM /\ addressRow(e).secure = e.secure /\ Named(addressRow(e))
           /\ addressRow(e) \in Rows /\ ~inIndex(addressRow(e)) /\ addressRow(e).value = Address
           /\ prepare(e) # NoParam /\ prepare(e).value = e.value /\ prepare(e).secure = e.secure
           /\ prepare(e) \in Params
  <1>1. 0 \notin 1..MaxWrites
    OBVIOUS
  <1>2. prepare(e).value = e.value /\ prepare(e).secure = e.secure /\ NoParam.value = 0
    BY DEF prepare, NoParam, NoValue
  <1>3. addressRow(e) \in [backend : SSM, value : {Address}, secure : BOOLEAN]
    BY DEF addressRow, SSM
  <1>4. QED BY <1>1, <1>2, <1>3 DEF addressRow, prepare, Params, Rows, Named, SSM, inIndex

-----------------------------------------------------------------------------
(* What a row names.                                                       *)

LEMMA NamedNext ==
    ASSUME TypeOK, ClaimsInv, RowsNamed, [Next]_vars
    PROVE  RowsNamed'
  <1> DEFINE good(i) == Named(i.row) /\ (i.row.backend \in SSM => Kept(i.key, i.row))
  <1>a. \A k \in Keys : Named(rows[k])
    BY DEF RowsNamed
  <1>b. \A c \in Calls : \A i \in toIndex[c] : Named(i.row) /\ (i.row.backend \in SSM => Kept(i.key, i.row))
    BY DEF RowsNamed
  <1>c. Named(NoRow)
    BY DEF Named, NoRow, SSM
  <1>d. ClaimsHeld /\ OnlyUpserts /\ Orderly
    BY DEF ClaimsInv
  <1>e. ASSUME UNCHANGED params, \A k \in Keys : Named(rows'[k]),
               \A c \in Calls : \A i \in toIndex'[c] : i \in toIndex[c] \/ (Named(i.row) /\ i.row.backend \notin SSM)
        PROVE  RowsNamed'
    BY <1>b, <1>e DEF RowsNamed, Named, Kept
  <1>1. ASSUME NEW c \in Calls, NEW b \in Batches, Upsert(c, b) PROVE RowsNamed'
    <2>1. /\ toIndex' = [toIndex EXCEPT ![c] =
                {[key |-> x.key, row |-> [backend |-> "dynamodb", value |-> writes + 1,
                                          secure |-> x.secure]] : x \in {x \in Routed(b) : x.backend = "dynamodb"}}]
          /\ UNCHANGED storeVars
      BY <1>1, UpsertSteps
    <2>a. toIndex'[c] = {[key |-> x.key, row |-> [backend |-> "dynamodb", value |-> writes + 1,
                                     secure |-> x.secure]] : x \in {x \in Routed(b) : x.backend = "dynamodb"}}
      BY <2>1 DEF TypeOK
    <2>2. \A i \in toIndex'[c] : i.row.backend = "dynamodb"
      BY <2>a
    <2>3. \A row : row.backend = "dynamodb" => Named(row) /\ row.backend \notin SSM
      BY DEF Named, SSM
    <2>4. \A d \in Calls : d # c => toIndex'[d] = toIndex[d]
      BY <2>1 DEF TypeOK
    <2>5. QED BY <1>a, <1>e, <2>1, <2>2, <2>3, <2>4 DEF storeVars
  <1>2. ASSUME NEW c \in Calls, NEW k \in Keys, Delete(c, k) PROVE RowsNamed'
    BY <1>2, <1>a, <1>e DEF Delete, storeVars
  <1>3. ASSUME NEW c \in Calls, NEW e \in toPut[c], PutParameter(c, e) PROVE RowsNamed'
    <2>1. /\ \A k \in Keys : k # e.key => params'[k] = params[k]
          /\ \/ params'[e.key] = params[e.key]
             \/ params'[e.key] = prepare(e) /\ (params[e.key] = NoParam \/ params[e.key].secure = e.secure)
          /\ \A d \in Calls : d # c => toIndex'[d] = toIndex[d]
          /\ \/ /\ toIndex'[c] = toIndex[c] \cup {[key |-> e.key, row |-> addressRow(e)]}
                /\ params'[e.key] = prepare(e)
             \/ toIndex'[c] = toIndex[c]
          /\ UNCHANGED rows
      BY <1>3, PutParameterSteps
    <2>2. e.value \in 1..MaxWrites /\ e.secure \in BOOLEAN
      BY TypeFacts
    <2>3. /\ Named(addressRow(e)) /\ addressRow(e).secure = e.secure
          /\ prepare(e) # NoParam /\ prepare(e).secure = e.secure
      BY <2>2, AddressRow
    <2>4. ASSUME NEW d \in Calls, NEW i \in toIndex'[d]
          PROVE  Named(i.row) /\ (i.row.backend \in SSM => Kept(i.key, i.row)')
      <3>1. CASE i \in toIndex[d]
        <4>1. i.key \in Keys /\ Named(i.row) /\ (i.row.backend \in SSM => Kept(i.key, i.row))
          BY <3>1, <1>b, TypeFacts
        <4>2. QED BY <4>1, <2>1, <2>3 DEF Kept
      <3>2. CASE i = [key |-> e.key, row |-> addressRow(e)] /\ params'[e.key] = prepare(e)
        BY <2>3, <3>2 DEF Kept
      <3>3. i \in toIndex[d] \/ (i = [key |-> e.key, row |-> addressRow(e)] /\ params'[e.key] = prepare(e))
        BY <2>1
      <3>4. QED BY <3>1, <3>2, <3>3
    <2>5. QED BY <1>a, <2>1, <2>4 DEF RowsNamed, Named, Kept
  <1>4. ASSUME NEW c \in Calls, NEW i \in toIndex[c], PutRow(c, i) PROVE RowsNamed'
    <2>1. /\ \A k \in Keys : k # i.key => rows'[k] = rows[k]
          /\ rows'[i.key] \in {rows[i.key], i.row} /\ UNCHANGED params
          /\ \A d \in Calls : toIndex'[d] \subseteq toIndex[d]
      BY <1>4, PutRowSteps
    <2>2. \A k \in Keys : Named(rows'[k])
      BY <2>1, <1>a, <1>b
    <2>3. QED BY <1>e, <2>1, <2>2
  <1>5. ASSUME NEW c \in Calls, Ending(c) PROVE RowsNamed'
    <2>1. PICK ks : Ends(c, ks)
      BY <1>5, <1>d, EndsOf DEF Ending
    <2>2. QED BY <1>a, <1>e, <2>1 DEF Ends, storeVars
  <1>6. ASSUME NEW c \in Calls, DeleteParameter(c) PROVE RowsNamed'
    <2>1. /\ phase[c] = "param" /\ target[c].key \in Keys
          /\ \A k \in Keys : k # target[c].key => params'[k] = params[k]
          /\ UNCHANGED <<rows, toIndex>>
      BY <1>6, <1>d, DeleteSteps
    <2>2. ASSUME NEW d \in Calls, NEW i \in toIndex[d], i.key = target[c].key PROVE FALSE
      <3>1. claims[c] = [key : Subtree(target[c].key), place : {"gone"}] /\ d # c
        BY <2>1, <1>d DEF ClaimsHeld, Deletes, OnlyUpserts
      <3>2. [key |-> i.key, place |-> "gone"] \in claims[c]
        BY <3>1, <2>1, <2>2 DEF Subtree, Under
      <3>3. [key |-> i.key, place |-> Place(i.row)] \in claims[d]
        BY <1>d DEF ClaimsHeld
      <3>4. QED BY <1>d, <3>1, <3>2, <3>3 DEF Orderly
    <2>3. \A d \in Calls : \A i \in toIndex[d] : params'[i.key] = params[i.key]
      BY <2>1, <2>2, TypeFacts
    <2>4. QED BY <1>a, <1>b, <2>1, <2>3 DEF RowsNamed, Named, Kept
  <1>7. ASSUME NEW c \in Calls, DeleteRoot(c) PROVE RowsNamed'
    <2>1. /\ UNCHANGED <<params, toIndex>> /\ \A k \in Keys : rows'[k] \in {rows[k], NoRow}
      BY <1>7, <1>d, DeleteSteps
    <2>2. \A k \in Keys : Named(rows'[k])
      BY <2>1, <1>a, <1>c
    <2>3. QED BY <1>e, <2>1, <2>2
  <1>8. ASSUME NEW c \in Calls, NEW k \in Keys, DeleteRow(c, k) PROVE RowsNamed'
    <2>1. /\ UNCHANGED <<params, toIndex>> /\ \A j \in Keys : rows'[j] \in {rows[j], NoRow}
      BY <1>8, <1>d, DeleteSteps
    <2>2. \A j \in Keys : Named(rows'[j])
      BY <2>1, <1>a, <1>c
    <2>3. QED BY <1>e, <2>1, <2>2
  <1>9. CASE UNCHANGED workVars
    BY <1>9, <1>a, <1>e DEF workVars, callVars
  <1>10. QED BY <1>1, <1>2, <1>3, <1>4, <1>5, <1>6, <1>7, <1>8, <1>9, StepKinds

LEMMA NamedInit == Init => RowsNamed
  <1>1. Named(NoRow)
    BY DEF Named, NoRow, SSM
  <1>2. Init => (\A k \in Keys : rows[k] = NoRow) /\ \A c \in Calls : toIndex[c] = {}
    BY DEF Init
  <1>3. QED BY <1>1, <1>2 DEF RowsNamed

\* A row that names a parameter which is there, of its kind, reads as that.
LEMMA ReadsNamed ==
    ASSUME TypeOK', NEW k \in Keys, Named(rows'[k]), rows'[k] # NoRow,
           rows'[k].backend \in SSM => params'[k] # NoParam /\ params'[k].secure = rows'[k].secure
    PROVE  Value(k)' = (IF inIndex(rows'[k]) THEN rows'[k].value ELSE params'[k].value) /\ Value(k)' \in 1..MaxWrites
  <1>1. rows'[k] \in Rows \cup {NoRow} /\ params'[k] \in Params \cup {NoParam}
    BY DEF TypeOK
  <1>2. CASE inIndex(rows'[k])
    <2>1. rows'[k] \in [backend : {"dynamodb"}, value : 1..MaxWrites, secure : BOOLEAN]
      BY <1>1, <1>2 DEF Rows, inIndex
    <2>2. QED BY <1>2, <2>1 DEF Value, inIndex
  <1>3. CASE ~inIndex(rows'[k])
    <2>1. rows'[k].backend \in SSM /\ params'[k] # NoParam /\ params'[k].secure = rows'[k].secure
      BY <1>3 DEF inIndex
    <2>2. params'[k].value \in 1..MaxWrites
      BY <1>1, <2>1, StoredType
    <2>3. ~(params'[k].secure /\ rows'[k].backend = "parameterstore")
      BY <2>1 DEF Named
    <2>4. QED BY <1>3, <2>2, <2>3 DEF Value, Reads, inIndex
  <1>4. QED BY <1>2, <1>3

NamedInv == TypeOK /\ ClaimsInv /\ RowsNamed

Restores ==
    \A c \in Calls : \A i \in toIndex[c] :
        (backendsDone(c) /\ i \notin toIndex'[c] /\ rows'[i.key] = i.row) =>
            /\ Value(i.key)' \in 1..MaxWrites
            /\ inIndex(i.row) => Value(i.key)' = i.row.value

LEMMA RestoresStep ==
    ASSUME TypeOK, TypeOK', ClaimsInv, RowsNamed, [Next]_vars
    PROVE  Restores
  <1> SUFFICES ASSUME NEW c \in Calls, NEW i \in toIndex[c], backendsDone(c), i \notin toIndex'[c],
                      rows'[i.key] = i.row
               PROVE  Value(i.key)' \in 1..MaxWrites /\ (inIndex(i.row) => Value(i.key)' = i.row.value)
    BY DEF Restores
  <1>1. ClaimsHeld /\ OnlyUpserts /\ phase[c] = "upsert"
    BY DEF ClaimsInv, backendsDone
  <1>2. i.key \in Keys /\ i.row \in Rows
    BY TypeFacts
  <1>3. Named(i.row) /\ (i.row.backend \in SSM => Kept(i.key, i.row))
    BY DEF RowsNamed
  <1>4. ASSUME NEW d \in Calls, NEW b \in Batches, Upsert(d, b) PROVE FALSE
    <2>1. phase[d] = "idle"
      BY <1>4, UpsertSteps
    <2>2. d # c
      BY <1>1, <2>1
    <2>3. \E new : toIndex' = [toIndex EXCEPT ![d] = new]
      BY <1>4, UpsertSteps
    <2>4. toIndex'[c] = toIndex[c]
      BY <2>2, <2>3 DEF TypeOK
    <2>5. QED BY <2>4
  <1>5. ASSUME NEW d \in Calls, NEW k \in Keys, Delete(d, k) PROVE FALSE
    BY <1>5 DEF Delete
  <1>6. ASSUME NEW d \in Calls, NEW e \in toPut[d], PutParameter(d, e) PROVE FALSE
    BY <1>6, PutParameterSteps
  <1>7. ASSUME NEW d \in Calls, NEW k \in Keys, DeleteParameter(d) \/ DeleteRoot(d) \/ DeleteRow(d, k) PROVE FALSE
    BY <1>7 DEF DeleteParameter, DeleteRoot, DeleteRow
  <1>a. ASSUME NEW d \in Calls, DeleteParameter(d) \/ DeleteRoot(d) PROVE FALSE
    BY <1>a DEF DeleteParameter, DeleteRoot
  <1>8. ASSUME NEW d \in Calls, NEW j \in toIndex[d], PutRow(d, j) PROVE UNCHANGED params
    BY <1>8 DEF PutRow
  <1>9. ASSUME NEW d \in Calls, Ending(d) PROVE UNCHANGED params
    BY <1>1, <1>9, EndsOf DEF Ending, Ends, storeVars
  <1>10. UNCHANGED params
    BY <1>4, <1>5, <1>6, <1>7, <1>a, <1>8, <1>9, StepKinds DEF workVars, callVars
  <1>11. i.row # NoRow
    BY <1>2, RealRow
  <1>12. QED
    BY <1>2, <1>3, <1>10, <1>11, ReadsNamed DEF Kept

(* An Upsert that writes the row of a key makes the key resolve, to its    *)
(* own value or that of another Upsert, whatever interrupted calls have    *)
(* left in the two stores and whatever fails now: only calls of one key    *)
(* must not overlap other than Upserts to the same store.                  *)
THEOREM RepeatRepairs == ASSUME ~Racing PROVE Spec => UpsertRestores
  <1>1. Init => TypeOK /\ ClaimsInv /\ RowsNamed
    BY TypesInit, ClaimsInit, NamedInit
  <1>2. TypeOK /\ ClaimsInv /\ RowsNamed /\ [Next]_vars => TypeOK' /\ ClaimsInv' /\ RowsNamed' /\ [Restores]_vars
    BY TypesNext, ClaimsNext, NamedNext, RestoresStep
  <1>3. QED BY <1>1, <1>2, PTL DEF Spec, UpsertRestores, Restores

-----------------------------------------------------------------------------
(* Rows and parameters, if nothing fails between the stores.               *)

\* While a Delete runs nobody else is at work in its subtree.
LEMMA Alone ==
    ASSUME TypeOK, ClaimsInv, NEW c \in Calls, Deletes(c), NEW k \in Subtree(target[c].key)
    PROVE  /\ \A d \in Calls : \A e \in toPut[d] : e.key # k
           /\ \A d \in Calls : \A i \in toIndex[d] : i.key # k
           /\ \A d \in Calls : Deletes(d) /\ k \in Subtree(target[d].key) => d = c
  <1>1. ClaimsHeld /\ OnlyUpserts /\ Orderly
    BY DEF ClaimsInv
  <1>2. claims[c] = [key : Subtree(target[c].key), place : {"gone"}] /\ phase[c] # "upsert"
    BY <1>1 DEF ClaimsHeld, Deletes
  <1>3. [key |-> k, place |-> "gone"] \in claims[c]
    BY <1>2
  <1>4. \A d \in Calls : \A y \in claims[d] : y.key = k => d = c
    BY <1>1, <1>3 DEF Orderly
  <1>5. toPut[c] = {} /\ toIndex[c] = {}
    BY <1>1, <1>2 DEF OnlyUpserts
  <1>6. ASSUME NEW d \in Calls, NEW e \in toPut[d] PROVE e.key # k
    <2>1. [key |-> e.key, place |-> "ssm"] \in claims[d]
      BY <1>1 DEF ClaimsHeld
    <2>2. QED BY <1>4, <1>5, <2>1
  <1>7. ASSUME NEW d \in Calls, NEW i \in toIndex[d] PROVE i.key # k
    <2>1. [key |-> i.key, place |-> Place(i.row)] \in claims[d]
      BY <1>1 DEF ClaimsHeld
    <2>2. QED BY <1>4, <1>5, <2>1
  <1>8. ASSUME NEW d \in Calls, Deletes(d), k \in Subtree(target[d].key) PROVE d = c
    <2>1. claims[d] = [key : Subtree(target[d].key), place : {"gone"}]
      BY <1>1, <1>8 DEF ClaimsHeld
    <2>2. [key |-> k, place |-> "gone"] \in claims[d]
      BY <1>8, <2>1
    <2>3. QED BY <1>4, <2>2
  <1>9. QED BY <1>6, <1>7, <1>8

\* The target is in its own subtree.
LEMMA TargetInSubtree ==
    ASSUME TypeOK, ClaimsInv, NEW c \in Calls, Deletes(c)
    PROVE  target[c].key \in Keys /\ target[c].key \in Subtree(target[c].key) /\ Subtree(target[c].key) \subseteq Keys
  <1>1. target[c].key \in Keys
    BY DEF ClaimsInv, ClaimsHeld
  <1>2. target[c].key \in Seq(STRING)
    BY <1>1, GatewayAssumption
  <1>3. Len(target[c].key) <= Len(target[c].key)
    BY <1>2
  <1>4. QED BY <1>1, <1>3 DEF Subtree, Under

LEMMA KeptNext ==
    ASSUME "between" \notin Failing, TypeOK, ClaimsInv, RowsNamed, RowsNamed', RowsKept, [Next]_vars
    PROVE  RowsKept'
  <1>a. ClaimsHeld /\ OnlyUpserts
    BY DEF ClaimsInv
  <1>b. /\ \A c \in Calls : phase[c] # "lost" /\ (phase[c] = "param" => target[c].external)
        /\ \A k \in Keys : rows[k].backend \in SSM /\ (\A c \in Calls : ~Unrooted(c, k)) =>
              params[k] # NoParam /\ params[k].secure = rows[k].secure
        /\ \A c \in Calls, k \in Keys : Unrooted(c, k) => params[k] = NoParam
    BY DEF RowsKept, Kept
  <1>c. ASSUME \A c \in Calls : phase'[c] # "lost" /\ (phase'[c] = "param" => target'[c].external),
               \A k \in Keys : rows'[k].backend \in SSM /\ (\A c \in Calls : ~Unrooted(c, k)') =>
                  params'[k] # NoParam /\ params'[k].secure = rows'[k].secure,
               \A c \in Calls, k \in Keys : Unrooted(c, k)' => params'[k] = NoParam
        PROVE  RowsKept'
    BY <1>c DEF RowsKept, Kept, Unrooted
  <1>d. NoRow.backend \notin SSM
    BY DEF NoRow, SSM
  <1>1. ASSUME NEW c \in Calls, NEW b \in Batches, Upsert(c, b) PROVE RowsKept'
    <2>a. phase[c] = "idle" /\ phase' = [phase EXCEPT ![c] = "upsert"] /\ UNCHANGED <<storeVars, target>>
      BY <1>1, UpsertSteps
    <2>1. /\ phase[c] = "idle" /\ phase'[c] = "upsert" /\ \A d \in Calls : d # c => phase'[d] = phase[d]
          /\ UNCHANGED <<rows, params, target>>
      BY <2>a DEF TypeOK, storeVars
    <2>2. \A d \in Calls, k \in Keys : Unrooted(d, k)' <=> Unrooted(d, k)
      BY <2>1 DEF Unrooted
    <2>3. QED BY <1>b, <1>c, <2>1, <2>2
  <1>2. ASSUME NEW c \in Calls, NEW k \in Keys, Delete(c, k) PROVE RowsKept'
    <2>1. /\ phase[c] = "idle" /\ UNCHANGED <<rows, params>>
          /\ phase'[c] \in {"param", "root"} /\ (phase'[c] = "param" <=> target'[c].external)
          /\ \A d \in Calls : d # c => phase'[d] = phase[d] /\ target'[d] = target[d]
      BY <1>2 DEF Delete, TypeOK, storeVars
    <2>2. \A d \in Calls, j \in Keys : Unrooted(d, j)' <=> Unrooted(d, j)
      BY <2>1 DEF Unrooted
    <2>3. QED BY <1>b, <1>c, <2>1, <2>2
  <1>3. ASSUME NEW c \in Calls, NEW e \in toPut[c], PutParameter(c, e) PROVE RowsKept'
    <2>1. /\ e.key \in Keys /\ \A k \in Keys : k # e.key => params'[k] = params[k]
          /\ \/ params'[e.key] = params[e.key]
             \/ params'[e.key] = prepare(e) /\ (params[e.key] = NoParam \/ params[e.key].secure = e.secure)
          /\ UNCHANGED <<rows, phase, target>>
      BY <1>3, PutParameterSteps
    <2>2. prepare(e) # NoParam /\ prepare(e).secure = e.secure
      BY TypeFacts, AddressRow
    <2>3. \A d \in Calls, k \in Keys : Unrooted(d, k)' <=> Unrooted(d, k)
      BY <2>1 DEF Unrooted
    <2>4. \A d \in Calls : ~Unrooted(d, e.key)
      <3>1. ASSUME NEW d \in Calls, Unrooted(d, e.key) PROVE FALSE
        <4>1. Deletes(d) /\ target[d].key = e.key
          BY <3>1 DEF Unrooted, Deletes
        <4>2. e.key \in Subtree(target[d].key)
          BY <4>1, TargetInSubtree
        <4>3. QED BY <4>1, <4>2, Alone
      <3>2. QED BY <3>1
    <2>5. ASSUME NEW k \in Keys, rows'[k].backend \in SSM, \A d \in Calls : ~Unrooted(d, k)'
          PROVE  params'[k] # NoParam /\ params'[k].secure = rows'[k].secure
      <3>1. params[k] # NoParam /\ params[k].secure = rows[k].secure
        BY <2>1, <2>3, <2>5, <1>b
      <3>2. QED BY <2>1, <2>2, <3>1
    <2>6. \A d \in Calls, k \in Keys : Unrooted(d, k)' => params'[k] = NoParam
      BY <1>b, <2>1, <2>3, <2>4
    <2>7. QED BY <1>b, <1>c, <2>1, <2>5, <2>6
  <1>4. ASSUME NEW c \in Calls, NEW i \in toIndex[c], PutRow(c, i) PROVE RowsKept'
    <2>1. /\ i.key \in Keys /\ \A k \in Keys : k # i.key => rows'[k] = rows[k]
          /\ rows'[i.key] \in {rows[i.key], i.row} /\ UNCHANGED <<params, phase, target>>
      BY <1>4, PutRowSteps
    <2>2. \A d \in Calls, k \in Keys : Unrooted(d, k)' <=> Unrooted(d, k)
      BY <2>1 DEF Unrooted
    <2>3. i.row.backend \in SSM => params[i.key] # NoParam /\ params[i.key].secure = i.row.secure
      BY DEF RowsNamed, Kept
    <2>4. QED BY <1>b, <1>c, <2>1, <2>2, <2>3
  <1>5. ASSUME NEW c \in Calls, Ending(c) PROVE RowsKept'
    <2>1. PICK ks : Ends(c, ks)
      BY <1>5, <1>a, EndsOf DEF Ending
    <2>2. /\ phase'[c] = "idle" /\ \A d \in Calls : d # c => phase'[d] = phase[d] /\ target'[d] = target[d]
          /\ UNCHANGED <<rows, params>>
      BY <2>1 DEF Ends, Report, storeVars, TypeOK
    <2>3. ~(phase[c] = "root" /\ target[c].external)
      BY <1>5 DEF Ending, UpsertReturn, backendsDone, DeleteReturn, DeleteParameterFails, DeleteRowsFail, Crash, between
    <2>4. \A d \in Calls, k \in Keys : Unrooted(d, k)' <=> Unrooted(d, k)
      BY <2>2, <2>3 DEF Unrooted
    <2>5. QED BY <1>b, <1>c, <2>2, <2>4
  <1>6. ASSUME NEW c \in Calls, DeleteParameter(c) PROVE RowsKept'
    <2> DEFINE t == target[c].key
    <2>1. /\ phase[c] = "param" /\ t \in Keys /\ params'[t] = NoParam
          /\ \A k \in Keys : k # t => params'[k] = params[k]
          /\ phase'[c] = "root" /\ \A d \in Calls : d # c => phase'[d] = phase[d]
          /\ UNCHANGED <<rows, target>>
      BY <1>6, <1>a, DeleteSteps
    <2>2. \A d \in Calls, k \in Keys : Unrooted(d, k)' <=> (Unrooted(d, k) \/ (d = c /\ k = t))
      BY <2>1, <1>b DEF Unrooted
    <2> HIDE DEF t
    <2>3. QED BY <1>b, <1>c, <2>1, <2>2
  <1>7. ASSUME NEW c \in Calls, DeleteRoot(c) PROVE RowsKept'
    <2>1. /\ phase[c] = "root" /\ target[c].key \in Keys /\ rows'[target[c].key] = NoRow
          /\ \A k \in Keys : k # target[c].key => rows'[k] = rows[k]
          /\ phase'[c] = "walk" /\ \A d \in Calls : d # c => phase'[d] = phase[d]
          /\ UNCHANGED <<params, target>>
      BY <1>7, <1>a, DeleteSteps
    <2>2. \A d \in Calls, k \in Keys : /\ d # c \/ k # target[c].key => (Unrooted(d, k)' <=> Unrooted(d, k))
                                       /\ Unrooted(d, k)' => Unrooted(d, k)
      BY <2>1 DEF Unrooted
    <2>3. QED BY <1>b, <1>c, <1>d, <2>1, <2>2
  <1>8. ASSUME NEW c \in Calls, NEW k \in Keys, DeleteRow(c, k) PROVE RowsKept'
    <2>1. /\ rows'[k] = NoRow /\ \A j \in Keys : j # k => rows'[j] = rows[j]
          /\ UNCHANGED <<params, phase, target>>
      BY <1>8, <1>a, DeleteSteps
    <2>2. \A d \in Calls, j \in Keys : Unrooted(d, j)' <=> Unrooted(d, j)
      BY <2>1 DEF Unrooted
    <2>3. QED BY <1>b, <1>c, <1>d, <2>1, <2>2
  <1>9. CASE UNCHANGED workVars
    <2>1. \A d \in Calls, j \in Keys : Unrooted(d, j)' <=> Unrooted(d, j)
      BY <1>9 DEF Unrooted, workVars, callVars
    <2>2. QED BY <1>9, <1>b, <1>c, <2>1 DEF workVars, callVars
  <1>10. QED BY <1>1, <1>2, <1>3, <1>4, <1>5, <1>6, <1>7, <1>8, <1>9, StepKinds

LEMMA KeptInit == Init => RowsKept
  <1>1. NoRow.backend \notin SSM
    BY DEF NoRow, SSM
  <1>2. Init => (\A k \in Keys : rows[k] = NoRow) /\ \A c \in Calls : phase[c] = "idle"
    BY DEF Init
  <1>3. QED BY <1>1, <1>2 DEF RowsKept, Unrooted

LEMMA KeptRows ==
    ASSUME TypeOK, ClaimsInv, RowsNamed, RowsKept
    PROVE  NoDanglingRows
  <1> SUFFICES ASSUME NEW k \in Keys, rows[k].backend \in SSM, \A c \in Calls : ~Claimed(c, k)
               PROVE  /\ params[k] # NoParam
                      /\ params[k].secure = (rows[k].backend = "parameterstore_secure")
                      /\ params[k].secure = rows[k].secure
    BY DEF NoDanglingRows
  <1>1. ASSUME NEW c \in Calls, Unrooted(c, k) PROVE FALSE
    <2>1. Deletes(c) /\ target[c].key = k
      BY <1>1 DEF Unrooted, Deletes
    <2>2. claims[c] = [key : Subtree(k), place : {"gone"}] /\ k \in Subtree(k)
      BY <2>1, TargetInSubtree DEF ClaimsInv, ClaimsHeld
    <2>3. [key |-> k, place |-> "gone"] \in claims[c]
      BY <2>2
    <2>4. QED BY <2>3 DEF Claimed
  <1>2. Kept(k, rows[k]) /\ Named(rows[k])
    BY <1>1 DEF RowsKept, RowsNamed
  <1>3. QED BY <1>2 DEF Kept, Named

QuietInv == TypeOK /\ ClaimsInv /\ RowsNamed /\ RowsKept

LEMMA QuietNext ==
    ASSUME ~Racing, "between" \notin Failing, QuietInv, [Next]_vars
    PROVE  QuietInv'
  <1>1. TypeOK /\ ClaimsInv /\ RowsNamed /\ RowsKept
    BY DEF QuietInv
  <1>2. TypeOK' /\ ClaimsInv' /\ RowsNamed'
    BY <1>1, TypesNext, ClaimsNext, NamedNext
  <1>3. QED BY <1>1, <1>2, KeptNext DEF QuietInv

LEMMA QuietInit == Init => QuietInv
  BY TypesInit, ClaimsInit, NamedInit, KeptInit DEF QuietInv

(* A row that names a parameter has one, of the kind it says, unless a     *)
(* call is at work on its key: whatever fails in one of the stores, crashes *)
(* or is re-routed, if only no Delete is cut off between the two.          *)
THEOREM RowsResolve == ASSUME ~Racing, "between" \notin Failing PROVE Spec => []NoDanglingRows
  <1>1. QuietInv => NoDanglingRows
    BY KeptRows DEF QuietInv
  <1>2. QuietInv /\ [Next]_vars => QuietInv'
    BY QuietNext
  <1>3. QED BY <1>1, <1>2, QuietInit, PTL DEF Spec

-----------------------------------------------------------------------------
(* What the keys read as, and what is promised of them, if nothing fails    *)
(* between the stores.                                                     *)

\* The value is in the one store or in the other.
LEMMA QuietValue ==
    ASSUME QuietInv, NEW k \in Keys
    PROVE  Value(k) = IF inIndex(rows[k]) THEN rows[k].value ELSE params[k].value
  <1>1. CASE inIndex(rows[k])
    BY <1>1 DEF Value
  <1>2. CASE ~inIndex(rows[k])
    <2>1. rows[k].backend \in SSM /\ Named(rows[k])
      BY <1>2 DEF inIndex, QuietInv, RowsNamed
    <2>2. params[k] = NoParam \/ params[k].secure = rows[k].secure
      BY <2>1 DEF QuietInv, RowsKept, Kept
    <2>3. ASSUME params[k].secure, rows[k].backend = "parameterstore" PROVE FALSE
      <3>1. rows[k].secure = FALSE
        BY <2>1, <2>3 DEF Named
      <3>2. NoParam.secure = FALSE
        BY DEF NoParam
      <3>3. QED BY <2>2, <2>3, <3>1, <3>2
    <2>4. QED BY <1>2, <2>3 DEF Value, Reads
  <1>3. QED BY <1>1, <1>2

\* The same of the state after a step.
LEMMA QuietValueNext ==
    ASSUME QuietInv', NEW k \in Keys
    PROVE  Value(k)' = IF inIndex(rows'[k]) THEN rows'[k].value ELSE params'[k].value
  <1>1. CASE inIndex(rows'[k])
    BY <1>1 DEF Value, inIndex
  <1>2. CASE ~inIndex(rows'[k])
    <2>1. rows'[k].backend \in SSM /\ Named(rows'[k])
      BY <1>2 DEF inIndex, QuietInv, RowsNamed, Named
    <2>2. params'[k] = NoParam \/ params'[k].secure = rows'[k].secure
      BY <2>1 DEF QuietInv, RowsKept, Kept, Unrooted
    <2>3. ASSUME params'[k].secure, rows'[k].backend = "parameterstore" PROVE FALSE
      <3>1. rows'[k].secure = FALSE
        BY <2>1, <2>3 DEF Named
      <3>2. NoParam.secure = FALSE
        BY DEF NoParam
      <3>3. QED BY <2>2, <2>3, <3>1, <3>2
    <2>4. QED BY <1>2, <2>3 DEF Value, Reads, inIndex
  <1>3. QED BY <1>1, <1>2

\* A promise stands until its call ends.
LEMMA StillPromised ==
    ASSUME TypeOK, ClaimsInv, [Next]_vars, NEW x \in pending
    PROVE  (x \in pending' \/ Ending(x.call)) /\ writes' >= writes
  <1>a. writes \in Nat
    BY TypeFacts, GatewayAssumption
  <1>1. ASSUME NEW c \in Calls, NEW b \in Batches, Upsert(c, b) PROVE x \in pending' /\ writes' >= writes
    <2>1. pending \subseteq pending'
      BY <1>1 DEF Upsert, Promise
    <2>2. writes' = writes + 1
      BY <1>1, UpsertSteps
    <2>3. QED BY <1>a, <2>1, <2>2
  <1>2. ASSUME NEW c \in Calls, NEW k \in Keys, Delete(c, k) PROVE x \in pending' /\ writes' = writes
    BY <1>2 DEF Delete, Promise
  <1>3. ASSUME NEW c \in Calls, Fulfil(c) PROVE x \in pending'
    BY <1>3 DEF Fulfil
  <1>4. ASSUME NEW c \in Calls, Ending(c) PROVE (x \in pending' \/ Ending(x.call)) /\ writes' = writes
    <2>1. PICK ks : Ends(c, ks)
      BY <1>4, EndsOf DEF Ending, ClaimsInv
    <2>2. QED BY <1>4, <2>1 DEF Ends, Report
  <1>5. ASSUME NEW c \in Calls, NEW e \in toPut[c], PutParameter(c, e) PROVE Fulfil(c) /\ writes' = writes
    BY <1>5 DEF PutParameter
  <1>6. ASSUME NEW c \in Calls, NEW i \in toIndex[c], PutRow(c, i) PROVE Fulfil(c) /\ writes' = writes
    BY <1>6 DEF PutRow
  <1>7. ASSUME NEW c \in Calls, DeleteParameter(c) PROVE Fulfil(c) /\ writes' = writes
    BY <1>7 DEF DeleteParameter
  <1>8. ASSUME NEW c \in Calls, DeleteRoot(c) PROVE Fulfil(c) /\ writes' = writes
    BY <1>8 DEF DeleteRoot
  <1>9. ASSUME NEW c \in Calls, NEW k \in Keys, DeleteRow(c, k) PROVE Fulfil(c) /\ writes' = writes
    BY <1>9 DEF DeleteRow
  <1>b. writes >= writes
    BY <1>a
  <1>10. CASE UNCHANGED workVars
    BY <1>b, <1>10 DEF workVars, pastVars
  <1>11. QED
    BY <1>b, <1>1, <1>2, <1>3, <1>4, <1>5, <1>6, <1>7, <1>8, <1>9, <1>10, StepKinds

\* A call that ends has nothing to do.
LEMMA EndedIdle ==
    ASSUME TypeOK, ClaimsInv, NEW c \in Calls, Ending(c)
    PROVE  toPut'[c] = {} /\ toIndex'[c] = {} /\ phase'[c] = "idle"
  <1>1. PICK ks : Ends(c, ks)
    BY EndsOf DEF Ending, ClaimsInv
  <1>2. QED BY <1>1 DEF Ends, Report, TypeOK

\* So does what a call that goes on has promised.
LEMMA StaysPromised ==
    ASSUME TypeOK, TypeOK', ClaimsInv, [Next]_vars, NEW c \in Calls, ~Ending(c),
           NEW k, NEW v \in Nat, Promised(c, k, v), v <= writes
    PROVE  Promised(c, k, v)' /\ v <= writes'
  <1>1. Promised(c, k, v)' /\ writes' >= writes
    BY StillPromised DEF Promised
  <1>2. writes \in Nat /\ writes' \in Nat
    <2>1. MaxWrites \in Nat
      BY GatewayAssumption
    <2>2. writes \in 0..MaxWrites /\ writes' \in 0..MaxWrites
      BY DEF TypeOK
    <2>3. QED BY <2>1, <2>2
  <1>3. QED BY <1>1, <1>2

\* Work on one key in both stores is not under way at once.
LEMMA OnePlace ==
    ASSUME ClaimsInv, NEW c \in Calls, NEW d \in Calls
    PROVE  /\ \A e \in toPut[c], i \in toIndex[d] : e.key = i.key => ~inIndex(i.row)
           /\ \A i \in toIndex[c], j \in toIndex[d] : i.key = j.key => (inIndex(i.row) <=> inIndex(j.row))
  <1>1. ClaimsHeld /\ Orderly
    BY DEF ClaimsInv
  <1>2. \A x \in claims[c], y \in claims[d] : x.key = y.key => x.place = y.place
    BY <1>1 DEF ClaimsHeld, Orderly
  <1>3. \A e \in toPut[c] : [key |-> e.key, place |-> "ssm"] \in claims[c]
    BY <1>1 DEF ClaimsHeld
  <1>4. \A i \in toIndex[c] : [key |-> i.key, place |-> Place(i.row)] \in claims[c]
    BY <1>1 DEF ClaimsHeld
  <1>5. \A i \in toIndex[d] : [key |-> i.key, place |-> Place(i.row)] \in claims[d]
    BY <1>1 DEF ClaimsHeld
  <1>6. \A e \in toPut[c], i \in toIndex[d] : e.key = i.key => Place(i.row) = "ssm"
    BY <1>2, <1>3, <1>5
  <1>7. \A i \in toIndex[c], j \in toIndex[d] : i.key = j.key => Place(i.row) = Place(j.row)
    BY <1>2, <1>4, <1>5
  <1>8. QED BY <1>6, <1>7 DEF Place

FreshInv == StoresFresh /\ WorkNew /\ WorkDistinct

\* Numbers of what is stored and what is to be stored.
LEMMA Numbers ==
    ASSUME TypeOK
    PROVE  /\ writes \in Nat /\ writes <= MaxWrites /\ MaxWrites \in Nat /\ Address = MaxWrites + 1 /\ Address \in Nat
           /\ \A k \in Keys : /\ rows[k].value \in Nat /\ (~inIndex(rows[k]) => rows[k].value = Address)
                              /\ params[k].value \in 0..MaxWrites
                              /\ (params[k] # NoParam => params[k].value # 0)
           /\ \A c \in Calls : \A e \in toPut[c] : e.value \in 1..MaxWrites
           /\ \A c \in Calls : \A i \in toIndex[c] : inIndex(i.row) => i.row.value \in 1..MaxWrites
           /\ \A c \in Calls : \A i \in toIndex[c] : ~inIndex(i.row) => i.row.value = Address
           /\ NoRow.value = 0 /\ NoParam.value = 0 /\ inIndex(NoRow)
  <1>1. writes \in 0..MaxWrites /\ MaxWrites \in Nat /\ Address = MaxWrites + 1
    BY TypeFacts, GatewayAssumption DEF Address
  <1>2. \A row \in Rows \cup {NoRow} : /\ inIndex(row) => row.value \in 0..MaxWrites
                                       /\ ~inIndex(row) => row.value = Address
                                       /\ inIndex(row) /\ row # NoRow => row.value # 0
    BY StoredType DEF NoValue
  <1>3. \A par \in Params \cup {NoParam} : par.value \in 0..MaxWrites /\ (par # NoParam => par.value \in 1..MaxWrites)
    BY StoredType
  <1>4. NoRow.value = 0 /\ NoParam.value = 0 /\ inIndex(NoRow)
    BY DEF NoRow, NoParam, NoValue, inIndex, SSM
  <1>5. \A k \in Keys : rows[k] \in Rows \cup {NoRow} /\ params[k] \in Params \cup {NoParam}
    BY TypeFacts
  <1>6. \A k \in Keys : rows[k].value \in Nat /\ (~inIndex(rows[k]) => rows[k].value = Address)
    BY <1>1, <1>2, <1>5
  <1>7. \A k \in Keys : params[k].value \in 0..MaxWrites /\ (params[k] # NoParam => params[k].value # 0)
    BY <1>1, <1>3, <1>5
  <1>8. \A c \in Calls : \A i \in toIndex[c] : i.row \in Rows /\ i.row # NoRow
    BY TypeFacts, RealRow
  <1>9. \A c \in Calls : \A i \in toIndex[c] : /\ inIndex(i.row) => i.row.value \in 1..MaxWrites
                                               /\ ~inIndex(i.row) => i.row.value = Address
    BY <1>1, <1>2, <1>8
  <1>10. \A c \in Calls : \A e \in toPut[c] : e.value \in 1..MaxWrites
    BY TypeFacts
  <1>11. writes \in Nat /\ writes <= MaxWrites /\ Address \in Nat
    BY <1>1
  <1>12. QED BY <1>1, <1>4, <1>6, <1>7, <1>9, <1>10, <1>11

\* What an Upsert sets out to do, entry by entry.
LEMMA UpsertWork ==
    ASSUME TypeOK, NEW c \in Calls, NEW b \in Batches, Upsert(c, b)
    PROVE  /\ \A e \in toPut'[c] : \E x \in Routed(b) :
                 /\ x.backend \in SSM /\ x.key \in Keys
                 /\ e = [key |-> x.key, value |-> writes + 1, secure |-> x.secure]
           /\ \A i \in toIndex'[c] : \E x \in Routed(b) :
                 /\ x.backend = "dynamodb" /\ x.key \in Keys
                 /\ i = [key |-> x.key, row |-> [backend |-> "dynamodb", value |-> writes + 1, secure |-> x.secure]]
           /\ \A x \in Routed(b) : x.backend \in SSM \cup {"dynamodb"} =>
                 [call |-> c, key |-> x.key, value |-> writes + 1] \in pending'
           /\ \A d \in Calls : d # c => /\ toPut'[d] = toPut[d] /\ toIndex'[d] = toIndex[d]
                                        /\ results'[d] = results[d] /\ phase'[d] = phase[d] /\ claims'[d] = claims[d]
           /\ \A k \in Keys : results'[c][k] # "ok"
           /\ phase[c] = "idle" /\ phase'[c] = "upsert" /\ writes < MaxWrites /\ writes' = writes + 1
           /\ UNCHANGED <<rows, params, target, doomed, reading, swaps>>
  <1> DEFINE ssm == {x \in Routed(b) : x.backend \in SSM}
             local == {x \in Routed(b) : x.backend = "dynamodb"}
             place(x) == IF x.backend \in SSM THEN "ssm" ELSE x.backend
  <1>1. /\ phase[c] = "idle" /\ writes < MaxWrites /\ writes' = writes + 1
        /\ phase' = [phase EXCEPT ![c] = "upsert"]
        /\ toPut' = [toPut EXCEPT ![c] =
              {[key |-> x.key, value |-> writes + 1, secure |-> x.secure] : x \in ssm}]
        /\ toIndex' = [toIndex EXCEPT ![c] =
              {[key |-> x.key, row |-> [backend |-> "dynamodb", value |-> writes + 1,
                                        secure |-> x.secure]] : x \in local}]
        /\ \E new \in [Keys -> {"none", "failed"}] : results' = [results EXCEPT ![c] = new]
        /\ claims' = [claims EXCEPT ![c] = {[key |-> x.key, place |-> place(x)] : x \in Routed(b)}]
        /\ Promise(c, {x.key : x \in ssm \cup local}, writes + 1)
        /\ UNCHANGED <<storeVars, target, doomed, reading, swaps>>
    BY UpsertSteps
  <1>2. \A x \in Routed(b) : x.key \in Keys
    BY RoutedType
  <1>3. /\ \A x \in ssm : x \in Routed(b) /\ x.backend \in SSM
        /\ \A x \in local : x \in Routed(b) /\ x.backend = "dynamodb"
        /\ \A x \in Routed(b) : x.backend \in SSM \cup {"dynamodb"} => x \in ssm \cup local
    OBVIOUS
  <1> HIDE DEF ssm, local, place
  <1>4. /\ toPut'[c] = {[key |-> x.key, value |-> writes + 1, secure |-> x.secure] : x \in ssm}
        /\ toIndex'[c] = {[key |-> x.key, row |-> [backend |-> "dynamodb", value |-> writes + 1,
                                                  secure |-> x.secure]] : x \in local}
        /\ phase'[c] = "upsert"
        /\ \A d \in Calls : d # c => /\ toPut'[d] = toPut[d] /\ toIndex'[d] = toIndex[d]
                                     /\ phase'[d] = phase[d] /\ claims'[d] = claims[d]
    BY <1>1 DEF TypeOK
  <1>5. PICK new \in [Keys -> {"none", "failed"}] : results' = [results EXCEPT ![c] = new]
    BY <1>1
  <1>6. results'[c] = new /\ \A d \in Calls : d # c => results'[d] = results[d]
    BY <1>5 DEF TypeOK
  <1>7. \A k \in Keys : results'[c][k] # "ok"
    BY <1>6
  <1>8. \A e \in toPut'[c] : \E x \in ssm : e = [key |-> x.key, value |-> writes + 1, secure |-> x.secure]
    BY <1>4
  <1>9. \A i \in toIndex'[c] : \E x \in local :
           i = [key |-> x.key, row |-> [backend |-> "dynamodb", value |-> writes + 1, secure |-> x.secure]]
    BY <1>4
  <1>10. ASSUME NEW x \in Routed(b), x.backend \in SSM \cup {"dynamodb"}
         PROVE  [call |-> c, key |-> x.key, value |-> writes + 1] \in pending'
    <2>1. x.key \in {y.key : y \in ssm \cup local}
      BY <1>3, <1>10
    <2>2. [call |-> c, key |-> x.key, value |-> writes + 1]
             \in [call : {c}, key : {y.key : y \in ssm \cup local}, value : {writes + 1}]
      BY <2>1
    <2>3. QED BY <1>1, <2>2 DEF Promise
  <1>11. QED BY <1>1, <1>2, <1>3, <1>4, <1>6, <1>7, <1>8, <1>9, <1>10 DEF storeVars

LEMMA FreshNext ==
    ASSUME QuietInv, QuietInv', FreshInv, [Next]_vars
    PROVE  FreshInv'
  <1>a. TypeOK /\ ClaimsInv /\ TypeOK' /\ ClaimsHeld
    BY DEF QuietInv, ClaimsInv
  <1>b. /\ writes \in Nat /\ writes <= MaxWrites /\ MaxWrites \in Nat /\ Address = MaxWrites + 1 /\ Address \in Nat
        /\ \A k \in Keys : /\ rows[k].value \in Nat /\ (~inIndex(rows[k]) => rows[k].value = Address)
                           /\ params[k].value \in 0..MaxWrites
                           /\ (params[k] # NoParam => params[k].value # 0)
        /\ \A c \in Calls : \A e \in toPut[c] : e.value \in 1..MaxWrites
        /\ \A c \in Calls : \A i \in toIndex[c] : inIndex(i.row) => i.row.value \in 1..MaxWrites
        /\ \A c \in Calls : \A i \in toIndex[c] : ~inIndex(i.row) => i.row.value = Address
        /\ NoRow.value = 0 /\ NoParam.value = 0 /\ inIndex(NoRow)
    BY <1>a, Numbers
  <1>c. /\ \A c \in Calls : \A e \in toPut[c] : e.key \in Keys
        /\ \A c \in Calls : \A i \in toIndex[c] : i.key \in Keys
    BY <1>a, TypeFacts
  <1>f. /\ \A k \in Keys :
              /\ params[k].value <= writes /\ (inIndex(rows[k]) => rows[k].value <= writes)
              /\ rows[k].value = params[k].value => params[k] = NoParam
        /\ \A c \in Calls :
              /\ \A e \in toPut[c] : e.value <= writes /\ rows[e.key].value # e.value
              /\ \A i \in toIndex[c] : inIndex(i.row) =>
                    i.row.value <= writes /\ params[i.key].value # i.row.value
    BY DEF FreshInv, StoresFresh, WorkNew
  <1>g. WorkDistinct
    BY DEF FreshInv
  \* What was new stays so.
  <1>n. ASSUME \A c \in Calls : toPut'[c] \subseteq toPut[c] /\ \A i \in toIndex'[c] : inIndex(i.row) => i \in toIndex[c],
               \A c \in Calls : \A e \in toPut'[c] : rows'[e.key].value # e.value,
               \A c \in Calls : \A i \in toIndex'[c] : inIndex(i.row) => params'[i.key].value # i.row.value
        PROVE  WorkNew'
    <2>1. ASSUME NEW c \in Calls, NEW e \in toPut'[c] PROVE e.value <= writes' /\ Promised(c, e.key, e.value)'
      <3>1. ~Ending(c)
        BY <1>a, <2>1, EndedIdle
      <3>2. e \in toPut[c] /\ e.value \in Nat
        BY <1>b, <1>n
      <3>3. e.value <= writes /\ Promised(c, e.key, e.value)
        BY <3>2 DEF FreshInv, WorkNew
      <3>4. QED BY <1>a, <3>1, <3>2, <3>3, StaysPromised
    <2>2. ASSUME NEW c \in Calls, NEW i \in toIndex'[c], inIndex(i.row)
          PROVE  i.row.value <= writes' /\ Promised(c, i.key, i.row.value)'
      <3>1. ~Ending(c)
        BY <1>a, <2>2, EndedIdle
      <3>2. i \in toIndex[c] /\ i.row.value \in Nat
        BY <1>b, <1>n, <2>2
      <3>3. i.row.value <= writes /\ Promised(c, i.key, i.row.value)
        BY <2>2, <3>2 DEF FreshInv, WorkNew
      <3>4. QED BY <1>a, <3>1, <3>2, <3>3, StaysPromised
    <2>3. QED BY <1>n, <2>1, <2>2 DEF WorkNew, Promised, inIndex
  <1>d. ASSUME \A c \in Calls : toPut'[c] \subseteq toPut[c] /\ toIndex'[c] \subseteq toIndex[c]
        PROVE  WorkDistinct'
    BY <1>d, <1>g DEF WorkDistinct, inIndex
  <1>1. ASSUME NEW c \in Calls, NEW e \in toPut[c], PutParameter(c, e) PROVE FreshInv'
    <2>1. /\ e.key \in Keys /\ \A k \in Keys : k # e.key => params'[k] = params[k]
          /\ params'[e.key] = params[e.key] \/ params'[e.key] = prepare(e)
          /\ \A d \in Calls : d # c => toPut'[d] = toPut[d] /\ toIndex'[d] = toIndex[d]
          /\ toPut'[c] \subseteq toPut[c]
          /\ \/ /\ toIndex'[c] = toIndex[c] \cup {[key |-> e.key, row |-> addressRow(e)]}
                /\ e \notin toPut'[c]
             \/ toIndex'[c] = toIndex[c]
          /\ UNCHANGED <<rows, writes>>
      BY <1>1, <1>a, PutParameterSteps
    <2>2. prepare(e).value = e.value /\ prepare(e) # NoParam /\ ~inIndex(addressRow(e)) /\ e.value \in 1..MaxWrites
      BY <1>a, TypeFacts, AddressRow
    <2>3. StoresFresh'
      <3>1. ASSUME NEW k \in Keys
            PROVE  /\ params'[k].value <= writes /\ (inIndex(rows[k]) => rows[k].value <= writes)
                   /\ rows[k].value = params'[k].value => params'[k] = NoParam
        BY <1>f, <2>1, <2>2
      <3>2. QED BY <2>1, <3>1 DEF StoresFresh, inIndex
    <2>4. \A d \in Calls : /\ toPut'[d] \subseteq toPut[d]
                           /\ \A i \in toIndex'[d] : i \in toIndex[d] \/ (d = c /\ i = [key |-> e.key, row |-> addressRow(e)])
      BY <2>1
    <2>6. ASSUME NEW d \in Calls, NEW i \in toIndex'[d], inIndex(i.row) PROVE i \in toIndex[d] /\ params'[i.key].value # i.row.value
      <3>1. i \in toIndex[d]
        BY <2>2, <2>4, <2>6
      <3>2. i.key # e.key
        BY <1>a, <2>6, <3>1, OnePlace
      <3>3. QED BY <1>c, <1>f, <2>1, <2>6, <3>1, <3>2
    <2>7. WorkNew'
      <3>1. \A d \in Calls : \A f \in toPut'[d] : rows'[f.key].value # f.value
        BY <1>f, <2>1, <2>4
      <3>2. QED BY <1>n, <2>4, <2>6, <3>1
    <2>8. WorkDistinct'
      <3>1. ASSUME NEW d \in Calls, NEW i \in toIndex'[d], NEW j \in toIndex'[d], i.key = j.key PROVE i = j
        <4>1. \A a \in toIndex[c] : a.key # e.key
          BY <1>g DEF WorkDistinct
        <4>2. QED BY <1>g, <2>4, <3>1, <4>1 DEF WorkDistinct
      <3>2. ASSUME NEW d \in Calls, NEW f \in toPut'[d], NEW i \in toIndex'[d] PROVE f.key # i.key
        <4>1. CASE i \in toIndex[d]
          BY <1>g, <2>4, <4>1 DEF WorkDistinct
        <4>2. CASE d = c /\ i = [key |-> e.key, row |-> addressRow(e)] /\ e \notin toPut'[c]
          <5>1. f \in toPut[c] /\ f # e
            BY <2>1, <4>2
          <5>2. QED BY <1>g, <4>2, <5>1 DEF WorkDistinct
        <4>3. QED BY <2>1, <4>1, <4>2
      <3>3. \A d \in Calls : \A f, h \in toPut'[d] : f.key = h.key => f = h
        BY <1>g, <2>4 DEF WorkDistinct
      <3>4. QED BY <3>1, <3>2, <3>3 DEF WorkDistinct
    <2>9. QED BY <2>3, <2>7, <2>8 DEF FreshInv
  <1>2. ASSUME NEW c \in Calls, NEW i \in toIndex[c], PutRow(c, i) PROVE FreshInv'
    <2>1. /\ i.key \in Keys /\ \A k \in Keys : k # i.key => rows'[k] = rows[k]
          /\ rows'[i.key] = rows[i.key] \/ rows'[i.key] = i.row
          /\ \A d \in Calls : toIndex'[d] \subseteq toIndex[d]
          /\ UNCHANGED <<params, toPut, writes>>
      BY <1>2, <1>a, PutRowSteps
    <2>2. StoresFresh'
      <3>1. ASSUME NEW k \in Keys
            PROVE  /\ params[k].value <= writes /\ (inIndex(rows'[k]) => rows'[k].value <= writes)
                   /\ rows'[k].value = params[k].value => params[k] = NoParam
        <4>1. CASE rows'[k] = rows[k]
          BY <1>f, <4>1
        <4>2. CASE k = i.key /\ rows'[k] = i.row
          <5>1. CASE inIndex(i.row)
            BY <1>f, <4>2, <5>1
          <5>2. CASE ~inIndex(i.row)
            BY <1>b, <1>f, <4>2, <5>2
          <5>3. QED BY <5>1, <5>2
        <4>3. QED BY <2>1, <4>1, <4>2
      <3>2. QED BY <2>1, <3>1 DEF StoresFresh, inIndex
    <2>3. \A d \in Calls : toPut'[d] \subseteq toPut[d] /\ toIndex'[d] \subseteq toIndex[d]
      BY <2>1
    <2>4. ASSUME NEW d \in Calls, NEW e \in toPut[d] PROVE rows'[e.key].value # e.value
      <3>1. CASE rows'[e.key] = rows[e.key]
        BY <1>f, <3>1
      <3>2. CASE e.key = i.key /\ rows'[e.key] = i.row
        <4>1. i.row.value = Address
          BY <1>a, <1>b, <3>2, OnePlace
        <4>2. e.value \in 1..MaxWrites
          BY <1>b
        <4>3. QED BY <1>b, <3>2, <4>1, <4>2
      <3>3. QED BY <1>c, <2>1, <3>1, <3>2
    <2>6. WorkNew'
      <3>1. \A d \in Calls : \A j \in toIndex'[d] : inIndex(j.row) => params'[j.key].value # j.row.value
        BY <1>f, <2>1
      <3>2. QED BY <1>n, <2>1, <2>3, <2>4, <3>1
    <2>7. QED BY <1>d, <2>2, <2>3, <2>6 DEF FreshInv
  \* Stores only lose, work only ends.
  <1>3. ASSUME \A k \in Keys : rows'[k] \in {rows[k], NoRow} /\ params'[k] \in {params[k], NoParam}, UNCHANGED writes,
               \A c \in Calls : toPut'[c] \subseteq toPut[c] /\ toIndex'[c] \subseteq toIndex[c]
        PROVE  FreshInv'
    <2>1. StoresFresh'
      <3>1. ASSUME NEW k \in Keys
            PROVE  /\ params'[k].value <= writes /\ (inIndex(rows'[k]) => rows'[k].value <= writes)
                   /\ rows'[k].value = params'[k].value => params'[k] = NoParam
        BY <1>3, <1>b, <1>f
      <3>2. QED BY <1>3, <3>1 DEF StoresFresh, inIndex
    <2>2. \A c \in Calls : \A e \in toPut'[c] : rows'[e.key].value # e.value
      <3>1. ASSUME NEW c \in Calls, NEW e \in toPut'[c] PROVE rows'[e.key].value # e.value
        <4>1. e \in toPut[c] /\ e.key \in Keys /\ e.value \in 1..MaxWrites
          BY <1>3, <1>b, <1>c
        <4>2. QED BY <1>3, <1>b, <1>f, <4>1
      <3>2. QED BY <3>1
    <2>3. \A c \in Calls : \A i \in toIndex'[c] : inIndex(i.row) => params'[i.key].value # i.row.value
      <3>1. ASSUME NEW c \in Calls, NEW i \in toIndex'[c], inIndex(i.row) PROVE params'[i.key].value # i.row.value
        <4>1. i \in toIndex[c] /\ i.key \in Keys /\ i.row.value \in 1..MaxWrites
          BY <1>3, <1>b, <1>c, <3>1
        <4>2. QED BY <1>3, <1>b, <1>f, <3>1, <4>1
      <3>2. QED BY <3>1
    <2>4. QED BY <1>3, <1>d, <1>n, <2>1, <2>2, <2>3 DEF FreshInv
  <1>4. ASSUME NEW c \in Calls, NEW k \in Keys, Delete(c, k) PROVE FreshInv'
    BY <1>3, <1>4 DEF Delete, storeVars
  <1>5. ASSUME NEW c \in Calls, Ending(c) PROVE FreshInv'
    <2>1. PICK ks : Ends(c, ks)
      BY <1>5, <1>a, EndsOf DEF Ending, ClaimsInv
    <2>2. QED BY <1>3, <2>1 DEF Ends, storeVars
  <1>6. ASSUME NEW c \in Calls, DeleteParameter(c) PROVE FreshInv'
    <2>1. /\ \A k \in Keys : params'[k] \in {params[k], NoParam}
          /\ UNCHANGED <<rows, toPut, toIndex, writes>>
      BY <1>6, <1>a, DeleteSteps
    <2>2. QED BY <1>3, <2>1
  <1>7. ASSUME NEW c \in Calls, DeleteRoot(c) PROVE FreshInv'
    <2>1. /\ \A k \in Keys : rows'[k] \in {rows[k], NoRow}
          /\ UNCHANGED <<params, toPut, toIndex, writes>>
      BY <1>7, <1>a, DeleteSteps
    <2>2. QED BY <1>3, <2>1
  <1>8. ASSUME NEW c \in Calls, NEW k \in Keys, DeleteRow(c, k) PROVE FreshInv'
    <2>1. /\ \A j \in Keys : rows'[j] \in {rows[j], NoRow}
          /\ UNCHANGED <<params, toPut, toIndex, writes>>
      BY <1>8, <1>a, DeleteSteps
    <2>2. QED BY <1>3, <2>1
  <1>9. CASE UNCHANGED workVars
    BY <1>3, <1>9 DEF workVars, callVars
  <1>10. ASSUME NEW c \in Calls, NEW b \in Batches, Upsert(c, b) PROVE FreshInv'
    <2>1. /\ \A e \in toPut'[c] : \E x \in Routed(b) :
                /\ x.backend \in SSM /\ x.key \in Keys
                /\ e = [key |-> x.key, value |-> writes + 1, secure |-> x.secure]
          /\ \A i \in toIndex'[c] : \E x \in Routed(b) :
                /\ x.backend = "dynamodb" /\ x.key \in Keys
                /\ i = [key |-> x.key, row |-> [backend |-> "dynamodb", value |-> writes + 1, secure |-> x.secure]]
          /\ \A x \in Routed(b) : x.backend \in SSM \cup {"dynamodb"} =>
                [call |-> c, key |-> x.key, value |-> writes + 1] \in pending'
          /\ \A d \in Calls : d # c => toPut'[d] = toPut[d] /\ toIndex'[d] = toIndex[d]
          /\ writes < MaxWrites /\ writes' = writes + 1 /\ UNCHANGED <<rows, params>>
      BY <1>a, <1>10, UpsertWork
    <2>2. \A x, y \in Routed(b) : x.key = y.key => x = y
      BY <1>a, RoutedType
    <2>3. ASSUME NEW k \in Keys PROVE params[k].value # writes + 1 /\ rows[k].value # writes + 1
      <3>1. params[k].value <= writes /\ params[k].value \in Nat /\ rows[k].value \in Nat
        BY <1>b, <1>f
      <3>2. CASE inIndex(rows[k])
        BY <1>b, <1>f, <3>1, <3>2
      <3>3. CASE ~inIndex(rows[k])
        BY <1>b, <2>1, <3>1, <3>3
      <3>4. QED BY <3>2, <3>3
    <2>4. StoresFresh'
      <3>1. ASSUME NEW k \in Keys
            PROVE  params[k].value <= writes + 1 /\ (inIndex(rows[k]) => rows[k].value <= writes + 1)
        BY <1>b, <1>f
      <3>2. QED BY <1>f, <2>1, <3>1 DEF StoresFresh, inIndex
    <2>5. writes + 1 <= writes'
      BY <1>b, <2>1
    <2>6. ASSUME NEW e \in toPut'[c]
          PROVE  e.value <= writes' /\ Promised(c, e.key, e.value)' /\ rows'[e.key].value # e.value
      <3>1. PICK x \in Routed(b) : /\ x.backend \in SSM /\ x.key \in Keys
                                   /\ e = [key |-> x.key, value |-> writes + 1, secure |-> x.secure]
        BY <2>1
      <3>2. e.key = x.key /\ e.value = writes + 1 /\ [call |-> c, key |-> e.key, value |-> e.value] \in pending'
        BY <2>1, <3>1
      <3>3. QED BY <2>1, <2>3, <2>5, <3>1, <3>2 DEF Promised
    <2>7. ASSUME NEW i \in toIndex'[c]
          PROVE  i.row.value <= writes' /\ Promised(c, i.key, i.row.value)' /\ params'[i.key].value # i.row.value
      <3>1. PICK x \in Routed(b) : /\ x.backend = "dynamodb" /\ x.key \in Keys
                                   /\ i = [key |-> x.key, row |-> [backend |-> "dynamodb", value |-> writes + 1,
                                                                 secure |-> x.secure]]
        BY <2>1
      <3>2. i.key = x.key /\ i.row.value = writes + 1 /\ [call |-> c, key |-> i.key, value |-> i.row.value] \in pending'
        BY <2>1, <3>1
      <3>3. QED BY <2>1, <2>3, <2>5, <3>1, <3>2 DEF Promised
    <2>8. ASSUME NEW d \in Calls, d # c, NEW e \in toPut'[d]
          PROVE  e.value <= writes' /\ Promised(d, e.key, e.value)' /\ rows'[e.key].value # e.value
      <3>1. ~Ending(d)
        BY <1>a, <2>8, EndedIdle
      <3>2. e \in toPut[d] /\ e.value \in Nat
        BY <1>b, <2>1, <2>8
      <3>3. e.value <= writes /\ Promised(d, e.key, e.value) /\ rows[e.key].value # e.value
        BY <3>2 DEF FreshInv, WorkNew
      <3>4. QED BY <1>a, <2>1, <3>1, <3>2, <3>3, StaysPromised
    <2>9. ASSUME NEW d \in Calls, d # c, NEW i \in toIndex'[d], inIndex(i.row)
          PROVE  i.row.value <= writes' /\ Promised(d, i.key, i.row.value)' /\ params'[i.key].value # i.row.value
      <3>1. ~Ending(d)
        BY <1>a, <2>9, EndedIdle
      <3>2. i \in toIndex[d] /\ i.row.value \in Nat
        BY <1>b, <2>1, <2>9
      <3>3. i.row.value <= writes /\ Promised(d, i.key, i.row.value) /\ params[i.key].value # i.row.value
        BY <2>9, <3>2 DEF FreshInv, WorkNew
      <3>4. QED BY <1>a, <2>1, <3>1, <3>2, <3>3, StaysPromised
    <2>10. WorkNew'
      <3>1. \A d \in Calls : \A e \in toPut'[d] :
               e.value <= writes' /\ Promised(d, e.key, e.value)' /\ rows'[e.key].value # e.value
        BY <2>6, <2>8
      <3>2. \A d \in Calls : \A i \in toIndex'[d] : inIndex(i.row) =>
               i.row.value <= writes' /\ Promised(d, i.key, i.row.value)' /\ params'[i.key].value # i.row.value
        BY <2>7, <2>9
      <3>3. QED BY <3>1, <3>2 DEF WorkNew, Promised, inIndex
    <2>11. WorkDistinct'
      <3>1. ASSUME NEW e \in toPut'[c], NEW f \in toPut'[c], e.key = f.key PROVE e = f
        <4>1. PICK x \in Routed(b) : e = [key |-> x.key, value |-> writes + 1, secure |-> x.secure]
          BY <2>1
        <4>2. PICK y \in Routed(b) : f = [key |-> y.key, value |-> writes + 1, secure |-> y.secure]
          BY <2>1
        <4>3. QED BY <2>2, <3>1, <4>1, <4>2
      <3>2. ASSUME NEW i \in toIndex'[c], NEW j \in toIndex'[c], i.key = j.key PROVE i = j
        <4>1. PICK x \in Routed(b) :
                 i = [key |-> x.key, row |-> [backend |-> "dynamodb", value |-> writes + 1, secure |-> x.secure]]
          BY <2>1
        <4>2. PICK y \in Routed(b) :
                 j = [key |-> y.key, row |-> [backend |-> "dynamodb", value |-> writes + 1, secure |-> y.secure]]
          BY <2>1
        <4>3. QED BY <2>2, <3>2, <4>1, <4>2
      <3>3. ASSUME NEW e \in toPut'[c], NEW i \in toIndex'[c], e.key = i.key PROVE FALSE
        <4>1. PICK x \in Routed(b) : x.backend \in SSM /\ e = [key |-> x.key, value |-> writes + 1, secure |-> x.secure]
          BY <2>1
        <4>2. PICK y \in Routed(b) : /\ y.backend = "dynamodb"
                                     /\ i = [key |-> y.key, row |-> [backend |-> "dynamodb", value |-> writes + 1,
                                                                   secure |-> y.secure]]
          BY <2>1
        <4>3. x = y
          BY <2>2, <3>3, <4>1, <4>2
        <4>4. QED BY <4>1, <4>2, <4>3 DEF SSM
      <3>6. ASSUME NEW d \in Calls, d # c
            PROVE  /\ \A e, f \in toPut'[d] : e.key = f.key => e = f
                   /\ \A i, j \in toIndex'[d] : i.key = j.key => i = j
                   /\ \A e \in toPut'[d], i \in toIndex'[d] : e.key # i.key
        BY <1>g, <2>1, <3>6 DEF WorkDistinct
      <3>7. QED BY <3>1, <3>2, <3>3, <3>6 DEF WorkDistinct
    <2>12. QED BY <2>4, <2>10, <2>11 DEF FreshInv
  <1>11. QED
    BY <1>1, <1>2, <1>4, <1>5, <1>6, <1>7, <1>8, <1>9, <1>10, StepKinds

LEMMA ValueSame ==
    ASSUME NEW k, rows'[k] = rows[k], params'[k] = params[k]
    PROVE  Value(k)' = Value(k)
  BY DEF Value, Reads, inIndex

LEMMA GoneNext ==
    ASSUME QuietInv, QuietInv', GonePromised, [Next]_vars
    PROVE  GonePromised'
  <1>a. TypeOK /\ ClaimsInv /\ TypeOK' /\ ClaimsInv' /\ ClaimsHeld /\ OnlyUpserts
    BY DEF QuietInv, ClaimsInv
  \* A step after which every Delete there is goes on.
  <1>m. ASSUME \A d \in Calls : Deletes(d)' => Deletes(d) /\ target'[d] = target[d]
        PROVE  GonePromised'
    <2>1. ASSUME NEW d \in Calls, Deletes(d)' PROVE \A k \in Subtree(target'[d].key) : Promised(d, k, NoValue)'
      <3>1. ~Ending(d)
        BY <1>a, <2>1, EndedIdle DEF Deletes
      <3>2. \A k \in Subtree(target[d].key) : Promised(d, k, NoValue)
        BY <1>m, <2>1 DEF GonePromised
      <3>3. QED BY <1>a, <1>m, <2>1, <3>1, <3>2, StillPromised DEF Promised
    <2>2. QED BY <2>1 DEF GonePromised, Subtree, Deletes, Promised
  <1>1. ASSUME NEW c \in Calls, NEW b \in Batches, Upsert(c, b) PROVE GonePromised'
    <2>1. phase'[c] = "upsert" /\ UNCHANGED target /\ \A d \in Calls : d # c => phase'[d] = phase[d]
      BY <1>1, <1>a, UpsertWork
    <2>2. QED BY <1>m, <2>1 DEF Deletes
  <1>2. ASSUME NEW c \in Calls, NEW t \in Keys, Delete(c, t) PROVE GonePromised'
    <2>1. /\ target'[c].key = t
          /\ pending' = pending \cup [call : {c}, key : Subtree(t), value : {NoValue}]
          /\ \A d \in Calls : d # c => phase'[d] = phase[d] /\ target'[d] = target[d]
      BY <1>2, <1>a DEF Delete, Promise, TypeOK
    <2>2. ASSUME NEW d \in Calls, Deletes(d)' PROVE \A k \in Subtree(target'[d].key) : Promised(d, k, NoValue)'
      <3>1. CASE d = c
        BY <2>1, <3>1 DEF Promised
      <3>2. CASE d # c
        BY <2>1, <2>2, <3>2 DEF GonePromised, Deletes, Promised
      <3>3. QED BY <3>1, <3>2
    <2>3. QED BY <2>2 DEF GonePromised, Subtree, Deletes, Promised
  <1>3. ASSUME NEW c \in Calls, NEW e \in toPut[c], PutParameter(c, e) PROVE GonePromised'
    BY <1>3, <1>m DEF PutParameter, Deletes
  <1>4. ASSUME NEW c \in Calls, NEW i \in toIndex[c], PutRow(c, i) PROVE GonePromised'
    BY <1>4, <1>m DEF PutRow, Deletes
  <1>5. ASSUME NEW c \in Calls, Ending(c) PROVE GonePromised'
    <2>1. PICK ks : Ends(c, ks)
      BY <1>5, <1>a, EndsOf DEF Ending
    <2>2. phase'[c] = "idle" /\ \A d \in Calls : d # c => phase'[d] = phase[d] /\ target'[d] = target[d]
      BY <2>1, <1>a DEF Ends, Report, TypeOK
    <2>3. QED BY <1>m, <2>2 DEF Deletes
  <1>6. ASSUME NEW c \in Calls, DeleteParameter(c) PROVE GonePromised'
    <2>1. Deletes(c) /\ UNCHANGED target /\ \A d \in Calls : d # c => phase'[d] = phase[d]
      BY <1>6, <1>a, DeleteSteps DEF Deletes
    <2>2. QED BY <1>m, <2>1 DEF Deletes
  <1>7. ASSUME NEW c \in Calls, DeleteRoot(c) PROVE GonePromised'
    <2>1. Deletes(c) /\ UNCHANGED target /\ \A d \in Calls : d # c => phase'[d] = phase[d]
      BY <1>7, <1>a, DeleteSteps DEF Deletes
    <2>2. QED BY <1>m, <2>1 DEF Deletes
  <1>8. ASSUME NEW c \in Calls, NEW k \in Keys, DeleteRow(c, k) PROVE GonePromised'
    BY <1>8, <1>m DEF DeleteRow, Deletes
  <1>9. CASE UNCHANGED workVars
    BY <1>9, <1>m DEF workVars, callVars, Deletes
  <1>10. QED BY <1>1, <1>2, <1>3, <1>4, <1>5, <1>6, <1>7, <1>8, <1>9, StepKinds

\* What a call reports when it ends.
LEMMA EndingReports ==
    ASSUME "between" \notin Failing, TypeOK, ClaimsInv, NEW c \in Calls, Ending(c)
    PROVE  \E ks \in SUBSET Keys :
              /\ Ends(c, ks)
              /\ \/ ks = {}
                 \/ phase[c] = "upsert" /\ toIndex[c] = {} /\ ks = {k \in Keys : results[c][k] = "ok"}
                 \/ phase[c] = "walk" /\ doomed[c] = {} /\ ks = Subtree(target[c].key)
  <1>1. OnlyUpserts
    BY DEF ClaimsInv
  <1>2. CASE UpsertReturn(c)
    BY <1>1, <1>2, EndsOf DEF UpsertReturn, backendsDone
  <1>3. CASE DeleteReturn(c)
    <2>1. Subtree(target[c].key) \subseteq Keys
      BY DEF Subtree
    <2>2. QED BY <1>1, <1>3, <2>1, EndsOf DEF DeleteReturn
  <1>4. CASE DeleteParameterFails(c)
    BY <1>1, <1>4, EndsOf
  <1>5. CASE DeleteRowsFail(c)
    <2>1. ~target[c].external
      BY <1>5 DEF DeleteRowsFail
    <2>2. QED BY <1>1, <1>5, <2>1, EndsOf
  <1>6. CASE Crash(c)
    BY <1>1, <1>6, EndsOf
  <1>7. QED BY <1>2, <1>3, <1>4, <1>5, <1>6 DEF Ending

\* What has been promised stays promised.
LEMMA FulfilKeeps ==
    ASSUME NEW c, Fulfil(c)
    PROVE  pending' = pending
  BY DEF Fulfil

\* What fulfils a promise of a key frees the key.
LEMMA FulfilFrees ==
    ASSUME NEW c, Fulfil(c), NEW y \in pending, Value(y.key)' = y.value, y.call = c \/ Value(y.key) # y.value,
           NEW x, x.key = y.key
    PROVE  x \notin owed'
  BY DEF Fulfil

LEMMA HiddenNext ==
    ASSUME "between" \notin Failing, QuietInv, QuietInv', FreshInv, FreshInv', HiddenPromised, UpsertsHonest, [Next]_vars
    PROVE  HiddenPromised'
  <1>a. TypeOK /\ ClaimsInv /\ TypeOK' /\ ClaimsInv' /\ ClaimsHeld /\ OnlyUpserts /\ Orderly
    BY DEF QuietInv, ClaimsInv
  <1>b. /\ \A c \in Calls : \A i \in toIndex[c] : i.key \in Keys
        /\ \A c \in Calls : \A i \in toIndex'[c] : i.key \in Keys
    <2>1. \A c \in Calls : \A i \in toIndex[c] : i.key \in Keys
      BY <1>a, TypeFacts
    <2>2. toIndex' \in [Calls -> SUBSET [key : Keys, row : Rows]]
      BY <1>a DEF TypeOK, KeyedRows
    <2>3. ASSUME NEW c \in Calls, NEW i \in toIndex'[c] PROVE i.key \in Keys
      <3>1. i \in [key : Keys, row : Rows]
        BY <2>2
      <3>2. QED BY <3>1
    <2>4. QED BY <2>1, <2>3
  <1>k. ASSUME \A d \in Calls : \A i \in toIndex'[d] : i.row.backend \in SSM /\ inIndex(rows'[i.key]) =>
                  \E y \in pending' : y.key = i.key /\ y.value = params'[i.key].value
        PROVE  HiddenPromised'
    BY <1>k DEF HiddenPromised, inIndex
  \* A step after which nothing is different for what waits.
  <1>m. ASSUME \A d \in Calls : \A i \in toIndex'[d] : i.row.backend \in SSM =>
                  /\ i \in toIndex[d] /\ rows'[i.key] = rows[i.key] /\ params'[i.key] = params[i.key],
               pending \subseteq pending'
        PROVE  HiddenPromised'
    <2>1. ASSUME NEW d \in Calls, NEW i \in toIndex'[d], i.row.backend \in SSM, inIndex(rows'[i.key])
          PROVE  \E y \in pending' : y.key = i.key /\ y.value = params'[i.key].value
      <3>1. \E y \in pending : y.key = i.key /\ y.value = params[i.key].value
        BY <1>m, <2>1 DEF HiddenPromised
      <3>2. QED BY <1>m, <2>1, <3>1
    <2>2. QED BY <1>k, <2>1
  <1>1. ASSUME NEW c \in Calls, NEW e \in toPut[c], PutParameter(c, e) PROVE HiddenPromised'
    <2>1. /\ \A k \in Keys : k # e.key => params'[k] = params[k]
          /\ params'[e.key] = params[e.key] \/ params'[e.key] = prepare(e)
          /\ \A d \in Calls : d # c => toIndex'[d] = toIndex[d]
          /\ \/ /\ toIndex'[c] = toIndex[c] \cup {[key |-> e.key, row |-> addressRow(e)]}
                /\ params'[e.key] = prepare(e)
             \/ toIndex'[c] = toIndex[c]
          /\ UNCHANGED rows /\ pending' = pending
      BY <1>1, <1>a, PutParameterSteps, FulfilKeeps
    <2>2. [call |-> c, key |-> e.key, value |-> e.value] \in pending /\ prepare(e).value = e.value
      <3>1. Promised(c, e.key, e.value)
        BY DEF FreshInv, WorkNew
      <3>2. QED BY <1>a, <3>1, TypeFacts, AddressRow DEF Promised
    <2>3. ASSUME NEW d \in Calls, NEW i \in toIndex'[d], i.row.backend \in SSM, inIndex(rows'[i.key])
          PROVE  \E y \in pending' : y.key = i.key /\ y.value = params'[i.key].value
      <3>1. \/ i \in toIndex[d] /\ params'[i.key] = params[i.key]
            \/ i.key = e.key /\ params'[e.key] = prepare(e)
        BY <1>b, <2>1
      <3>2. \E y \in pending : y.key = i.key /\ y.value = params'[i.key].value
        <4>1. CASE i \in toIndex[d] /\ params'[i.key] = params[i.key]
          BY <2>1, <2>3, <4>1 DEF HiddenPromised
        <4>2. CASE i.key = e.key /\ params'[e.key] = prepare(e)
          BY <2>2, <4>2
        <4>3. QED BY <3>1, <4>1, <4>2
      <3>3. QED BY <2>1, <3>2
    <2>4. QED BY <1>k, <2>3
  <1>2. ASSUME NEW c \in Calls, NEW i \in toIndex[c], PutRow(c, i) PROVE HiddenPromised'
    <2>1. /\ \A k \in Keys : k # i.key => rows'[k] = rows[k]
          /\ rows'[i.key] = rows[i.key] \/ rows'[i.key] = i.row
          /\ \A d \in Calls : toIndex'[d] \subseteq toIndex[d]
          /\ UNCHANGED params /\ pending' = pending
      BY <1>2, <1>a, PutRowSteps, FulfilKeeps
    <2>2. ASSUME NEW d \in Calls, NEW j \in toIndex'[d], j.row.backend \in SSM, inIndex(rows'[j.key])
          PROVE  \E y \in pending' : y.key = j.key /\ y.value = params'[j.key].value
      <3>1. j \in toIndex[d] /\ ~inIndex(j.row)
        BY <2>1, <2>2 DEF inIndex
      <3>2. rows'[j.key] = rows[j.key]
        BY <1>a, <1>b, <2>1, <2>2, <3>1, OnePlace
      <3>3. \E y \in pending : y.key = j.key /\ y.value = params[j.key].value
        BY <2>2, <3>1, <3>2 DEF HiddenPromised
      <3>4. QED BY <2>1, <3>3
    <2>3. QED BY <1>k, <2>2
  <1>3. ASSUME NEW c \in Calls, NEW b \in Batches, Upsert(c, b) PROVE HiddenPromised'
    <2>1. /\ \A i \in toIndex'[c] : \E x \in Routed(b) :
                i = [key |-> x.key, row |-> [backend |-> "dynamodb", value |-> writes + 1, secure |-> x.secure]]
          /\ \A d \in Calls : d # c => toIndex'[d] = toIndex[d]
          /\ UNCHANGED <<rows, params>>
      BY <1>a, <1>3, UpsertWork
    <2>2. \A i \in toIndex'[c] : i.row.backend \notin SSM
      BY <2>1 DEF SSM
    <2>3. pending \subseteq pending'
      BY <1>3 DEF Upsert, Promise
    <2>4. QED BY <1>m, <2>1, <2>2, <2>3
  <1>4. ASSUME NEW c \in Calls, NEW k \in Keys, Delete(c, k) PROVE HiddenPromised'
    <2>1. pending \subseteq pending' /\ UNCHANGED <<rows, params, toIndex>>
      BY <1>4 DEF Delete, Promise, storeVars
    <2>2. QED BY <1>m, <2>1
  <1>5. ASSUME NEW c \in Calls, Ending(c) PROVE HiddenPromised'
    <2>1. PICK ks \in SUBSET Keys :
              /\ Ends(c, ks)
              /\ \/ ks = {}
                 \/ phase[c] = "upsert" /\ toIndex[c] = {} /\ ks = {k \in Keys : results[c][k] = "ok"}
                 \/ phase[c] = "walk" /\ doomed[c] = {} /\ ks = Subtree(target[c].key)
      BY <1>5, <1>a, EndingReports
    <2>2. /\ UNCHANGED <<rows, params>> /\ toIndex'[c] = {} /\ \A d \in Calls : d # c => toIndex'[d] = toIndex[d]
          /\ pending' = {x \in pending : x.call = c => x.key \notin ks /\ hidden(x)}
      BY <2>1 DEF Ends, Report, storeVars
    <2>3. ASSUME NEW d \in Calls, NEW i \in toIndex'[d], i.row.backend \in SSM, inIndex(rows'[i.key])
          PROVE  \E y \in pending' : y.key = i.key /\ y.value = params'[i.key].value
      <3>1. d # c /\ i \in toIndex[d]
        BY <2>2, <2>3
      <3>2. PICK y \in pending : y.key = i.key /\ y.value = params[i.key].value
        BY <2>2, <2>3, <3>1 DEF HiddenPromised
      <3>3. ASSUME i.key \in ks PROVE FALSE
        <4>1. CASE phase[c] = "upsert" /\ toIndex[c] = {} /\ ks = {k \in Keys : results[c][k] = "ok"}
          <5>1. results[c][i.key] = "ok"
            BY <3>3, <4>1
          <5>2. PICK x \in claims[c] : x.key = i.key
            BY <1>b, <3>1, <4>1, <5>1 DEF UpsertsHonest, KeysTold, Claimed
          <5>3. [key |-> i.key, place |-> "ssm"] \in claims[d]
            BY <1>a, <2>3, <3>1 DEF ClaimsHeld, Place, inIndex
          <5>4. x.place = "ssm"
            BY <1>a, <3>1, <5>2, <5>3 DEF Orderly
          <5>5. x \in [key : Keys, place : {"", "dynamodb", "ssm", "gone"}]
            BY <1>a, <5>2 DEF TypeOK
          <5>6. [key |-> i.key, place |-> "ssm"] \in claims[c]
            BY <5>2, <5>4, <5>5
          <5>7. QED BY <1>b, <2>2, <2>3, <3>1, <4>1, <5>1, <5>6 DEF UpsertsHonest, KeysTold
        <4>2. CASE phase[c] = "walk" /\ ks = Subtree(target[c].key)
          BY <1>a, <3>1, <3>3, <4>2, Alone DEF Deletes
        <4>3. QED BY <2>1, <3>3, <4>1, <4>2
      <3>4. hidden(y)
        <4>1. params[i.key] # NoParam
          BY <2>3, <3>1 DEF QuietInv, RowsNamed, Kept
        <4>2. QED BY <2>2, <2>3, <3>2, <4>1 DEF hidden
      <3>5. QED BY <2>2, <3>2, <3>3, <3>4
    <2>4. QED BY <1>k, <2>3
  <1>6. ASSUME NEW c \in Calls, Deletes(c), NEW k \in Subtree(target[c].key), Fulfil(c), UNCHANGED toIndex,
               \A j \in Keys : j # k => rows'[j] = rows[j] /\ params'[j] = params[j]
        PROVE  HiddenPromised'
    <2>1. \A d \in Calls : \A i \in toIndex[d] : i.key # k
      BY <1>6, <1>a, Alone
    <2>2. QED BY <1>6, <1>b, <1>m, <2>1, FulfilKeeps
  <1>7. ASSUME NEW c \in Calls, DeleteParameter(c) PROVE HiddenPromised'
    <2>1. /\ Deletes(c) /\ \A j \in Keys : j # target[c].key => params'[j] = params[j]
          /\ UNCHANGED <<rows, toIndex>> /\ Fulfil(c)
      BY <1>7, <1>a, DeleteSteps DEF Deletes
    <2>2. QED BY <1>6, <1>a, <2>1, TargetInSubtree
  <1>8. ASSUME NEW c \in Calls, DeleteRoot(c) PROVE HiddenPromised'
    <2>1. /\ Deletes(c) /\ \A j \in Keys : j # target[c].key => rows'[j] = rows[j]
          /\ UNCHANGED <<params, toIndex>> /\ Fulfil(c)
      BY <1>8, <1>a, DeleteSteps DEF Deletes
    <2>2. QED BY <1>6, <1>a, <2>1, TargetInSubtree
  <1>9. ASSUME NEW c \in Calls, NEW k \in Keys, DeleteRow(c, k) PROVE HiddenPromised'
    <2>1. /\ Deletes(c) /\ \A j \in Keys : j # k => rows'[j] = rows[j]
          /\ k \in Subtree(target[c].key) /\ UNCHANGED <<params, toIndex>> /\ Fulfil(c)
      BY <1>9, <1>a, DeleteSteps DEF Deletes
    <2>2. QED BY <1>6, <2>1
  <1>10. CASE UNCHANGED workVars
    BY <1>10, <1>m DEF workVars, callVars, pastVars
  <1>11. QED BY <1>1, <1>2, <1>3, <1>4, <1>5, <1>7, <1>8, <1>9, <1>10, StepKinds

\* A parameter whose row is in the index is fulfilled when its row is written.
LEMMA RowFulfils ==
    ASSUME "between" \notin Failing, QuietInv, QuietInv', FreshInv, HiddenPromised, NEW c \in Calls, NEW i \in toIndex[c],
           PutRow(c, i), ~inIndex(i.row), inIndex(rows[i.key]), NEW x, x.key = i.key
    PROVE  x \notin owed'
  <1>a. TypeOK /\ i.row.backend \in SSM /\ i.key \in Keys
    BY TypeFacts DEF inIndex, QuietInv
  <1>1. rows'[i.key] = i.row /\ UNCHANGED params /\ Fulfil(c)
    <2>1. i.row.backend # "dynamodb"
      BY <1>a DEF SSM
    <2>2. QED BY <1>a, <2>1, PutRowSteps
  <1>2. Value(i.key)' = params[i.key].value /\ Value(i.key) = rows[i.key].value
    BY <1>a, <1>1, QuietValue, QuietValueNext
  <1>3. params[i.key] # NoParam
    BY <1>a DEF QuietInv, RowsNamed, Kept
  <1>4. rows[i.key].value # params[i.key].value
    BY <1>a, <1>3 DEF FreshInv, StoresFresh
  <1>5. PICK y \in pending : y.key = i.key /\ y.value = params[i.key].value
    BY <1>a DEF HiddenPromised
  <1>6. QED BY <1>1, <1>2, <1>4, <1>5, FulfilFrees

LEMMA UpsertsNext ==
    ASSUME "between" \notin Failing, QuietInv, QuietInv', FreshInv, HiddenPromised, UpsertsHonest, [Next]_vars
    PROVE  UpsertsHonest'
  <1>a. TypeOK /\ ClaimsInv /\ TypeOK' /\ ClaimsInv' /\ ClaimsHeld /\ OnlyUpserts /\ Orderly
    BY DEF QuietInv, ClaimsInv
  <1>b. /\ \A c \in Calls : \A i \in toIndex[c] : i.key \in Keys
        /\ \A x \in owed : x.key \in Keys /\ x.call \in Calls
    BY <1>a, TypeFacts DEF TypeOK
  <1>t. RowsTold /\ KeysTold /\ OwedTold
    BY DEF UpsertsHonest
  <1>c. /\ \A c \in Calls : \A i \in toIndex[c] : phase[c] = "upsert"
        /\ \A c \in Calls : \A e \in toPut[c] : phase[c] = "upsert"
    BY <1>a DEF OnlyUpserts
  <1>k. ASSUME \A d \in Calls : phase'[d] = "upsert" => \A i \in toIndex'[d] : results'[d][i.key] = "ok" <=> ~inIndex(i.row),
               \A d \in Calls : phase'[d] = "upsert" => \A k \in Keys : results'[d][k] = "ok" =>
                  /\ Claimed(d, k)'
                  /\ [key |-> k, place |-> "ssm"] \in claims'[d] => ~inIndex(rows'[k]) \/ \E i \in toIndex'[d] : i.key = k,
               \A d \in Calls : phase'[d] = "upsert" => \A x \in owed' : x.call = d /\ results'[d][x.key] = "ok" =>
                  inIndex(rows'[x.key]) /\ \E i \in toIndex'[d] : i.key = x.key
        PROVE  UpsertsHonest'
    BY <1>k DEF UpsertsHonest, RowsTold, KeysTold, OwedTold, Claimed, inIndex
  \* What stays true of an Upsert that the step is not about.
  <1>m. ASSUME NEW d \in Calls, phase[d] = "upsert", toIndex'[d] = toIndex[d], results'[d] = results[d], claims'[d] = claims[d],
               \A k \in Keys : [key |-> k, place |-> "ssm"] \in claims[d] => rows'[k] = rows[k] \/ ~inIndex(rows'[k]),
               \A x \in owed' : x.call = d => x \in owed /\ (inIndex(rows[x.key]) => inIndex(rows'[x.key]))
        PROVE  /\ \A i \in toIndex'[d] : results'[d][i.key] = "ok" <=> ~inIndex(i.row)
               /\ \A k \in Keys : results'[d][k] = "ok" =>
                     /\ Claimed(d, k)'
                     /\ [key |-> k, place |-> "ssm"] \in claims'[d] => ~inIndex(rows'[k]) \/ \E i \in toIndex'[d] : i.key = k
               /\ \A x \in owed' : x.call = d /\ results'[d][x.key] = "ok" =>
                     inIndex(rows'[x.key]) /\ \E i \in toIndex'[d] : i.key = x.key
    <2>1. \A i \in toIndex'[d] : results'[d][i.key] = "ok" <=> ~inIndex(i.row)
      BY <1>m, <1>t DEF RowsTold
    <2>2. \A k \in Keys : results'[d][k] = "ok" =>
             /\ Claimed(d, k)'
             /\ [key |-> k, place |-> "ssm"] \in claims'[d] => ~inIndex(rows'[k]) \/ \E i \in toIndex'[d] : i.key = k
      BY <1>m, <1>t DEF KeysTold, Claimed
    <2>3. \A x \in owed' : x.call = d /\ results'[d][x.key] = "ok" =>
             inIndex(rows'[x.key]) /\ \E i \in toIndex'[d] : i.key = x.key
      BY <1>m, <1>t DEF OwedTold
    <2>4. QED BY <2>1, <2>2, <2>3
  <1>n. ASSUME \A d \in Calls : phase'[d] = "upsert" =>
                  /\ phase[d] = "upsert" /\ toIndex'[d] = toIndex[d] /\ results'[d] = results[d] /\ claims'[d] = claims[d]
                  /\ \A k \in Keys : [key |-> k, place |-> "ssm"] \in claims[d] => rows'[k] = rows[k] \/ ~inIndex(rows'[k])
                  /\ \A x \in owed' : x.call = d => x \in owed /\ (inIndex(rows[x.key]) => inIndex(rows'[x.key]))
        PROVE  UpsertsHonest'
    BY <1>k, <1>m, <1>n
  <1>1. ASSUME NEW c \in Calls, NEW e \in toPut[c], PutParameter(c, e) PROVE UpsertsHonest'
    <2>1. /\ e.key \in Keys
          /\ \A d \in Calls : d # c => toIndex'[d] = toIndex[d] /\ results'[d] = results[d]
          /\ \/ /\ toIndex'[c] = toIndex[c] \cup {[key |-> e.key, row |-> addressRow(e)]}
                /\ results'[c] = [results[c] EXCEPT ![e.key] = "ok"] /\ params'[e.key] = prepare(e)
             \/ /\ toIndex'[c] = toIndex[c] /\ results'[c] = [results[c] EXCEPT ![e.key] = "failed"]
             \/ toIndex' = toIndex /\ results' = results
          /\ UNCHANGED <<rows, phase, claims>> /\ Fulfil(c)
      BY <1>1, <1>a, PutParameterSteps
    <2>r. CASE toIndex' = toIndex /\ results' = results
      <3>1. owed' \subseteq owed
        BY <1>a, <2>1, FulfilType
      <3>2. QED BY <1>n, <2>1, <2>r, <3>1
    <2> SUFFICES ASSUME ~(toIndex' = toIndex /\ results' = results) PROVE UpsertsHonest'
      BY <2>r
    <2>2. /\ \A k \in Keys : k # e.key => results'[c][k] = results[c][k]
          /\ \/ /\ toIndex'[c] = toIndex[c] \cup {[key |-> e.key, row |-> addressRow(e)]}
                /\ results'[c][e.key] = "ok" /\ params'[e.key] = prepare(e)
             \/ toIndex'[c] = toIndex[c] /\ results'[c][e.key] = "failed"
      <3>1. results[c] \in [Keys -> Verdicts]
        BY <1>a, TypeFacts
      <3>2. QED BY <2>1, <3>1
    <2>3. owed' \subseteq owed /\ phase[c] = "upsert" /\ \A i \in toIndex[c] : i.key # e.key
      BY <1>a, <1>c, <2>1, FulfilType DEF FreshInv, WorkDistinct
    <2>4. ~inIndex(addressRow(e)) /\ prepare(e).value = e.value
      BY <1>a, TypeFacts, AddressRow
    <2>5. \A i \in toIndex'[c] : results'[c][i.key] = "ok" <=> ~inIndex(i.row)
      BY <1>b, <1>t, <2>2, <2>3, <2>4 DEF RowsTold
    <2>6. ASSUME NEW k \in Keys, results'[c][k] = "ok"
          PROVE  /\ Claimed(c, k)'
                 /\ [key |-> k, place |-> "ssm"] \in claims'[c] => ~inIndex(rows'[k]) \/ \E i \in toIndex'[c] : i.key = k
      <3>1. CASE k = e.key
        <4>1. [key |-> e.key, place |-> "ssm"] \in claims[c]
          BY <1>a DEF ClaimsHeld
        <4>2. [key |-> e.key, row |-> addressRow(e)] \in toIndex'[c]
          BY <2>2, <2>6, <3>1
        <4>3. QED BY <2>1, <3>1, <4>1, <4>2 DEF Claimed
      <3>2. CASE k # e.key
        <4>1. results[c][k] = "ok" /\ toIndex[c] \subseteq toIndex'[c]
          BY <2>2, <2>6, <3>2
        <4>2. /\ Claimed(c, k)
              /\ [key |-> k, place |-> "ssm"] \in claims[c] => ~inIndex(rows[k]) \/ \E i \in toIndex[c] : i.key = k
          BY <1>t, <2>3, <4>1 DEF KeysTold
        <4>3. QED BY <2>1, <4>1, <4>2 DEF Claimed
      <3>3. QED BY <3>1, <3>2
    <2>7. ASSUME NEW x \in owed', x.call = c, results'[c][x.key] = "ok"
          PROVE  inIndex(rows'[x.key]) /\ \E i \in toIndex'[c] : i.key = x.key
      <3>1. CASE x.key = e.key
        <4>1. [key |-> e.key, row |-> addressRow(e)] \in toIndex'[c] /\ params'[e.key] = prepare(e)
          BY <2>2, <2>7, <3>1
        <4>2. ASSUME ~inIndex(rows[e.key]) PROVE FALSE
          <5>1. Value(e.key)' = e.value
            BY <2>1, <2>4, <4>1, <4>2, QuietValueNext
          <5>2. [call |-> c, key |-> e.key, value |-> e.value] \in pending
            BY DEF FreshInv, WorkNew, Promised
          <5>3. QED BY <2>1, <2>7, <3>1, <5>1, <5>2, FulfilFrees
        <4>3. QED BY <2>1, <3>1, <4>1, <4>2
      <3>2. CASE x.key # e.key
        <4>1. x \in owed /\ x.key \in Keys /\ results[c][x.key] = "ok" /\ toIndex[c] \subseteq toIndex'[c]
          BY <1>b, <2>2, <2>3, <2>7, <3>2
        <4>2. inIndex(rows[x.key]) /\ \E i \in toIndex[c] : i.key = x.key
          BY <1>t, <2>3, <2>7, <4>1 DEF OwedTold
        <4>3. QED BY <2>1, <4>1, <4>2
      <3>3. QED BY <3>1, <3>2
    <2>8. \A d \in Calls : d # c /\ phase'[d] = "upsert" =>
             /\ phase[d] = "upsert" /\ toIndex'[d] = toIndex[d] /\ results'[d] = results[d] /\ claims'[d] = claims[d]
             /\ \A k \in Keys : [key |-> k, place |-> "ssm"] \in claims[d] => rows'[k] = rows[k] \/ ~inIndex(rows'[k])
             /\ \A x \in owed' : x.call = d => x \in owed /\ (inIndex(rows[x.key]) => inIndex(rows'[x.key]))
      BY <2>1, <2>3
    <2>9. QED BY <1>k, <1>m, <2>5, <2>6, <2>7, <2>8
  <1>2. ASSUME NEW c \in Calls, NEW i \in toIndex[c], PutRow(c, i) PROVE UpsertsHonest'
    <2>1. /\ i.key \in Keys /\ i.row \in Rows
          /\ \A k \in Keys : k # i.key => rows'[k] = rows[k]
          /\ \A d \in Calls : d # c => toIndex'[d] = toIndex[d] /\ results'[d] = results[d]
          /\ \/ /\ rows'[i.key] = i.row /\ results'[c] = [results[c] EXCEPT ![i.key] = merge(@, "ok")]
                /\ toIndex'[c] = toIndex[c] \ {i}
             \/ /\ (IF i.row.backend = "dynamodb" THEN "index" ELSE "between") \in Failing
                /\ rows'[i.key] \in {rows[i.key], i.row}
                /\ results'[c] = [results[c] EXCEPT ![i.key] = merge(@, "failed")]
                /\ toIndex'[c] = toIndex[c] \ {i}
             \/ rows'[i.key] = i.row /\ toIndex' = toIndex /\ results' = results
          /\ UNCHANGED <<params, phase, claims>> /\ Fulfil(c)
      BY <1>2, <1>a, PutRowSteps
    <2>r. owed' \subseteq owed /\ phase[c] = "upsert"
      BY <1>a, <1>c, <2>1, FulfilType
    <2>w. rows'[i.key] = i.row \/ (inIndex(i.row) /\ rows'[i.key] = rows[i.key])
      <3>1. i.row.backend = "dynamodb" => inIndex(i.row)
        BY DEF inIndex, SSM
      <3>2. QED BY <2>1, <3>1
    <2>o. [key |-> i.key, place |-> Place(i.row)] \in claims[c]
      BY <1>a DEF ClaimsHeld
    \* Who claims the parameter of the key finds the address in the row.
    <2>5. ASSUME NEW d \in Calls, [key |-> i.key, place |-> "ssm"] \in claims[d] PROVE ~inIndex(i.row) /\ ~inIndex(rows'[i.key])
      <3>1. Place(i.row) = "ssm"
        <4>1. \A x, y \in claims[c] : x.key = y.key => x = y
          BY <1>a DEF ClaimsHeld
        <4>2. QED BY <1>a, <2>5, <2>o, <4>1 DEF Orderly
      <3>2. ~inIndex(i.row)
        BY <3>1 DEF Place
      <3>3. rows'[i.key] = i.row
        BY <2>w, <3>2
      <3>4. QED BY <3>2, <3>3
    \* No change of the key is owed when its address appears.
    <2>f. ASSUME NEW x, x.key = i.key, ~inIndex(i.row), inIndex(rows[i.key]) PROVE x \notin owed'
      BY <1>2, <2>f, RowFulfils
    \* What is so of a call whose work and results are as they were.
    <2>8. ASSUME NEW d \in Calls, toIndex'[d] = toIndex[d], results'[d] = results[d], phase'[d] = "upsert"
          PROVE  /\ phase[d] = "upsert" /\ toIndex'[d] = toIndex[d] /\ results'[d] = results[d] /\ claims'[d] = claims[d]
                 /\ \A k \in Keys : [key |-> k, place |-> "ssm"] \in claims[d] => rows'[k] = rows[k] \/ ~inIndex(rows'[k])
                 /\ \A x \in owed' : x.call = d => x \in owed /\ (inIndex(rows[x.key]) => inIndex(rows'[x.key]))
      <3>1. \A k \in Keys : [key |-> k, place |-> "ssm"] \in claims[d] => rows'[k] = rows[k] \/ ~inIndex(rows'[k])
        BY <2>1, <2>5
      <3>2. ASSUME NEW x \in owed' PROVE x \in owed /\ (inIndex(rows[x.key]) => inIndex(rows'[x.key]))
        <4>1. x \in owed /\ x.key \in Keys
          BY <1>b, <2>r
        <4>2. CASE x.key # i.key
          BY <2>1, <4>1, <4>2
        <4>3. CASE x.key = i.key
          BY <2>f, <2>w, <3>2, <4>1, <4>3
        <4>4. QED BY <4>2, <4>3
      <3>3. QED BY <2>1, <2>8, <3>1, <3>2
    <2>s. CASE toIndex' = toIndex /\ results' = results
      BY <1>n, <2>8, <2>s
    <2> SUFFICES ASSUME ~(toIndex' = toIndex /\ results' = results) PROVE UpsertsHonest'
      BY <2>s
    <2>2. /\ \A k \in Keys : k # i.key => results'[c][k] = results[c][k]
          /\ \/ rows'[i.key] = i.row /\ results'[c][i.key] = merge(results[c][i.key], "ok")
             \/ /\ inIndex(i.row) /\ rows'[i.key] \in {rows[i.key], i.row}
                /\ results'[c][i.key] = merge(results[c][i.key], "failed")
          /\ toIndex'[c] = toIndex[c] \ {i}
      <3>1. results[c] \in [Keys -> Verdicts]
        BY <1>a, TypeFacts
      <3>2. i.row.backend = "dynamodb" => inIndex(i.row)
        BY DEF inIndex, SSM
      <3>3. QED BY <2>1, <3>1, <3>2
    <2>3. owed' \subseteq owed /\ phase[c] = "upsert" /\ \A j \in toIndex'[c] : j \in toIndex[c] /\ j.key # i.key
      BY <2>2, <2>r DEF FreshInv, WorkDistinct
    <2>4. \A j \in toIndex'[c] : results'[c][j.key] = "ok" <=> ~inIndex(j.row)
      BY <1>b, <1>t, <2>2, <2>3 DEF RowsTold
    <2>6. ASSUME NEW k \in Keys, results'[c][k] = "ok"
          PROVE  /\ Claimed(c, k)'
                 /\ [key |-> k, place |-> "ssm"] \in claims'[c] => ~inIndex(rows'[k]) \/ \E j \in toIndex'[c] : j.key = k
      <3>1. CASE k = i.key
        BY <2>1, <2>5, <2>o, <3>1 DEF Claimed
      <3>2. CASE k # i.key
        <4>1. results[c][k] = "ok" /\ rows'[k] = rows[k] /\ \A j \in toIndex[c] : j.key = k => j \in toIndex'[c]
          BY <2>1, <2>2, <2>6, <3>2
        <4>2. /\ Claimed(c, k)
              /\ [key |-> k, place |-> "ssm"] \in claims[c] => ~inIndex(rows[k]) \/ \E j \in toIndex[c] : j.key = k
          BY <1>t, <2>3, <4>1 DEF KeysTold
        <4>3. QED BY <2>1, <4>1, <4>2 DEF Claimed
      <3>3. QED BY <3>1, <3>2
    <2>7. ASSUME NEW x \in owed', x.call = c, results'[c][x.key] = "ok"
          PROVE  inIndex(rows'[x.key]) /\ \E j \in toIndex'[c] : j.key = x.key
      <3>1. CASE x.key = i.key
        <4>1. CASE inIndex(i.row)
          <5>1. results[c][i.key] # "ok"
            BY <1>t, <2>3, <4>1 DEF RowsTold
          <5>2. rows'[i.key] = i.row
            BY <2>2, <2>7, <3>1, <5>1 DEF merge
          <5>3. Value(i.key)' = i.row.value
            BY <2>1, <4>1, <5>2, QuietValueNext
          <5>4. [call |-> c, key |-> i.key, value |-> i.row.value] \in pending
            BY <4>1 DEF FreshInv, WorkNew, Promised
          <5>5. QED BY <2>1, <2>7, <3>1, <5>3, <5>4, FulfilFrees
        <4>2. CASE ~inIndex(i.row)
          <5>1. results[c][i.key] = "ok" /\ x \in owed
            BY <1>t, <2>3, <4>2 DEF RowsTold
          <5>2. inIndex(rows[i.key])
            BY <1>t, <2>3, <2>7, <3>1, <5>1 DEF OwedTold
          <5>3. QED BY <2>7, <2>f, <3>1, <4>2, <5>2
        <4>3. QED BY <4>1, <4>2
      <3>2. CASE x.key # i.key
        <4>1. /\ x \in owed /\ x.key \in Keys /\ results[c][x.key] = "ok" /\ rows'[x.key] = rows[x.key]
              /\ \A j \in toIndex[c] : j.key = x.key => j \in toIndex'[c]
          BY <1>b, <2>1, <2>2, <2>3, <2>7, <3>2
        <4>2. inIndex(rows[x.key]) /\ \E j \in toIndex[c] : j.key = x.key
          BY <1>t, <2>3, <2>7, <4>1 DEF OwedTold
        <4>3. QED BY <4>1, <4>2
      <3>3. QED BY <3>1, <3>2
    <2>9. QED BY <1>k, <1>m, <2>1, <2>4, <2>6, <2>7, <2>8
  <1>3. ASSUME NEW c \in Calls, NEW b \in Batches, Upsert(c, b) PROVE UpsertsHonest'
    <2>1. /\ \A i \in toIndex'[c] : \E x \in Routed(b) :
                /\ x.key \in Keys
                /\ i = [key |-> x.key, row |-> [backend |-> "dynamodb", value |-> writes + 1, secure |-> x.secure]]
          /\ \A d \in Calls : d # c => /\ toIndex'[d] = toIndex[d] /\ results'[d] = results[d]
                                       /\ phase'[d] = phase[d] /\ claims'[d] = claims[d]
          /\ \A k \in Keys : results'[c][k] # "ok"
          /\ UNCHANGED rows
      BY <1>a, <1>3, UpsertWork
    <2>2. ASSUME NEW i \in toIndex'[c] PROVE inIndex(i.row) /\ i.key \in Keys
      BY <2>1 DEF inIndex, SSM
    <2>3. \A x \in owed' : x \in owed \/ (x.call = c /\ x.key \in Keys)
      <3>1. owed' = owed \cup [call : {c}, key : {x.key : x \in {x \in Routed(b) : x.backend \in SSM} \cup {x \in Routed(b) : x.backend = "dynamodb"}},
                               value : {writes + 1}]
        BY <1>a, <1>3, UpsertSteps DEF Promise
      <3>2. \A x \in Routed(b) : x.key \in Keys
        BY <1>a, RoutedType
      <3>3. QED BY <3>1, <3>2
    <2>4. ASSUME NEW d \in Calls, d # c, phase'[d] = "upsert"
          PROVE  /\ phase[d] = "upsert" /\ toIndex'[d] = toIndex[d] /\ results'[d] = results[d] /\ claims'[d] = claims[d]
                 /\ \A k \in Keys : [key |-> k, place |-> "ssm"] \in claims[d] => rows'[k] = rows[k] \/ ~inIndex(rows'[k])
                 /\ \A x \in owed' : x.call = d => x \in owed /\ (inIndex(rows[x.key]) => inIndex(rows'[x.key]))
      BY <2>1, <2>3, <2>4
    <2>5. /\ \A i \in toIndex'[c] : results'[c][i.key] = "ok" <=> ~inIndex(i.row)
          /\ \A x \in owed' : x.call = c => results'[c][x.key] # "ok"
      BY <1>b, <2>1, <2>2, <2>3
    <2>6. QED BY <1>k, <1>m, <2>1, <2>4, <2>5
  <1>4. ASSUME NEW c \in Calls, NEW k \in Keys, Delete(c, k) PROVE UpsertsHonest'
    <2>1. /\ phase'[c] # "upsert" /\ \A d \in Calls : d # c => phase'[d] = phase[d] /\ claims'[d] = claims[d]
          /\ UNCHANGED <<rows, toIndex, results>>
          /\ owed' = owed \cup [call : {c}, key : Subtree(k), value : {NoValue}]
      BY <1>4, <1>a DEF Delete, Promise, storeVars, TypeOK
    <2>2. \A x \in owed' : x \in owed \/ x.call = c
      BY <2>1
    <2>3. QED BY <1>n, <2>1, <2>2
  <1>5. ASSUME NEW c \in Calls, Ending(c) PROVE UpsertsHonest'
    <2>1. PICK ks : Ends(c, ks)
      BY <1>5, <1>a, EndsOf DEF Ending
    <2>2. /\ phase'[c] = "idle"
          /\ \A d \in Calls : d # c => /\ phase'[d] = phase[d] /\ toIndex'[d] = toIndex[d]
                                       /\ results'[d] = results[d] /\ claims'[d] = claims[d]
          /\ UNCHANGED rows /\ owed' \subseteq owed
      BY <2>1, <1>a DEF Ends, Report, storeVars, TypeOK
    <2>3. QED BY <1>n, <2>2
  <1>6. ASSUME NEW c \in Calls, Deletes(c), NEW k \in Subtree(target[c].key), Fulfil(c), UNCHANGED <<toIndex, results, claims>>,
               phase'[c] # "upsert", \A d \in Calls : d # c => phase'[d] = phase[d],
               \A j \in Keys : j # k => rows'[j] = rows[j], rows'[k] = rows[k] \/ rows'[k] = NoRow
        PROVE  UpsertsHonest'
    <2>1. \A d \in Calls : d # c => [key |-> k, place |-> "ssm"] \notin claims[d]
      <3>1. [key |-> k, place |-> "gone"] \in claims[c]
        BY <1>6, <1>a DEF ClaimsHeld
      <3>2. QED BY <1>a, <3>1 DEF Orderly
    <2>2. owed' \subseteq owed
      BY <1>6, <1>a, FulfilType
    <2>3. inIndex(NoRow)
      BY DEF NoRow, inIndex, SSM
    <2>4. QED BY <1>6, <1>b, <1>n, <2>1, <2>2, <2>3
  <1>7. ASSUME NEW c \in Calls, DeleteParameter(c) PROVE UpsertsHonest'
    <2>1. /\ Deletes(c) /\ phase'[c] # "upsert" /\ \A d \in Calls : d # c => phase'[d] = phase[d]
          /\ UNCHANGED <<rows, toIndex, results, claims>> /\ Fulfil(c)
      BY <1>7, <1>a, DeleteSteps DEF Deletes
    <2>2. QED BY <1>6, <1>a, <2>1, TargetInSubtree
  <1>8. ASSUME NEW c \in Calls, DeleteRoot(c) PROVE UpsertsHonest'
    <2>1. /\ Deletes(c) /\ phase'[c] # "upsert" /\ \A d \in Calls : d # c => phase'[d] = phase[d]
          /\ \A j \in Keys : j # target[c].key => rows'[j] = rows[j]
          /\ rows'[target[c].key] = NoRow
          /\ UNCHANGED <<toIndex, results, claims>> /\ Fulfil(c)
      BY <1>8, <1>a, DeleteSteps DEF Deletes
    <2>2. QED BY <1>6, <1>a, <2>1, TargetInSubtree
  <1>9. ASSUME NEW c \in Calls, NEW k \in Keys, DeleteRow(c, k) PROVE UpsertsHonest'
    <2>1. /\ Deletes(c) /\ phase'[c] # "upsert" /\ \A d \in Calls : d # c => phase'[d] = phase[d]
          /\ \A j \in Keys : j # k => rows'[j] = rows[j]
          /\ rows'[k] = NoRow /\ k \in Subtree(target[c].key)
          /\ UNCHANGED <<toIndex, results, claims>> /\ Fulfil(c)
      BY <1>9, <1>a, DeleteSteps DEF Deletes
    <2>2. QED BY <1>6, <2>1
  <1>10. CASE UNCHANGED workVars
    BY <1>10, <1>n DEF workVars, callVars, pastVars
  <1>11. QED BY <1>1, <1>2, <1>3, <1>4, <1>5, <1>7, <1>8, <1>9, <1>10, StepKinds

LEMMA DeletesNext ==
    ASSUME "between" \notin Failing, QuietInv, QuietInv', DeletesHonest, [Next]_vars
    PROVE  DeletesHonest'
  <1>a. TypeOK /\ ClaimsInv /\ TypeOK' /\ ClaimsInv' /\ ClaimsHeld /\ OnlyUpserts /\ Orderly
    BY DEF QuietInv, ClaimsInv
  <1>b. \A x \in owed : x \in pending /\ x.key \in Keys /\ x.call \in Calls
    BY <1>a, TypeFacts DEF TypeOK
  <1>s. \A d \in Calls : Subtree(target[d].key) \subseteq Keys
    BY DEF Subtree
  <1>h. /\ \A c \in Calls : phase[c] = "walk" => \A k \in Subtree(target[c].key) :
              /\ rows[k] # NoRow => k \in doomed[c]
              /\ \A x \in owed : x.call = c /\ x.key = k => rows[k] # NoRow
        /\ \A x \in owed : phase[x.call] # "idle" /\ (Deletes(x.call) => x.value = NoValue)
    BY DEF DeletesHonest
  <1>k. ASSUME \A d \in Calls : phase'[d] = "walk" => \A k \in Subtree(target'[d].key) :
                  /\ rows'[k] # NoRow => k \in doomed'[d]
                  /\ \A x \in owed' : x.call = d /\ x.key = k => rows'[k] # NoRow,
               \A x \in owed' : phase'[x.call] # "idle" /\ (Deletes(x.call)' => x.value = NoValue)
        PROVE  DeletesHonest'
    BY <1>k DEF DeletesHonest, Subtree, Deletes
  \* A step that leaves the walks alone.
  <1>m. ASSUME \A d \in Calls : phase'[d] = "walk" =>
                  /\ phase[d] = "walk" /\ target'[d] = target[d] /\ doomed'[d] = doomed[d]
                  /\ \A k \in Subtree(target[d].key) : rows'[k] = rows[k]
                  /\ \A x \in owed' : x.call = d => x \in owed,
               \A x \in owed' : \/ phase'[x.call] # "idle" /\ (Deletes(x.call)' => x.value = NoValue)
                                \/ x \in owed /\ phase'[x.call] = phase[x.call]
        PROVE  DeletesHonest'
    <2>1. ASSUME NEW d \in Calls, phase'[d] = "walk", NEW k \in Subtree(target'[d].key)
          PROVE  /\ rows'[k] # NoRow => k \in doomed'[d]
                 /\ \A x \in owed' : x.call = d /\ x.key = k => rows'[k] # NoRow
      BY <1>h, <1>m, <2>1
    <2>2. \A x \in owed' : phase'[x.call] # "idle" /\ (Deletes(x.call)' => x.value = NoValue)
      BY <1>h, <1>m DEF Deletes
    <2>3. QED BY <1>k, <2>1, <2>2
  <1>1. ASSUME NEW c \in Calls, NEW b \in Batches, Upsert(c, b) PROVE DeletesHonest'
    <2>1. /\ phase[c] = "idle" /\ phase'[c] = "upsert" /\ \A d \in Calls : d # c => phase'[d] = phase[d]
          /\ UNCHANGED <<rows, target, doomed>>
      BY <1>a, <1>1, UpsertWork
    <2>2. PICK ks, n : owed' = owed \cup [call : {c}, key : ks, value : {n}]
      BY <1>1 DEF Upsert, Promise
    <2>3. \A x \in owed' : x \in owed \/ x.call = c
      BY <2>2
    <2>4. \A x \in owed : x.call # c
      BY <1>h, <2>1
    <2>5. QED BY <1>b, <1>m, <2>1, <2>3, <2>4 DEF Deletes
  <1>2. ASSUME NEW c \in Calls, NEW t \in Keys, Delete(c, t) PROVE DeletesHonest'
    <2>1. /\ phase[c] = "idle" /\ phase'[c] \in {"param", "root"}
          /\ \A d \in Calls : d # c => phase'[d] = phase[d] /\ target'[d] = target[d]
          /\ UNCHANGED <<rows, doomed>>
          /\ owed' = owed \cup [call : {c}, key : Subtree(t), value : {NoValue}]
      BY <1>2, <1>a DEF Delete, Promise, storeVars, TypeOK
    <2>2. \A x \in owed' : x \in owed \/ (x.call = c /\ x.value = NoValue)
      BY <2>1
    <2>3. \A x \in owed : x.call # c
      BY <1>h, <2>1
    <2>4. QED BY <1>b, <1>m, <2>1, <2>2, <2>3
  <1>3. ASSUME NEW c \in Calls, NEW e \in toPut[c], PutParameter(c, e) PROVE DeletesHonest'
    <2>1. UNCHANGED <<rows, phase, target, doomed>> /\ Fulfil(c)
      BY <1>3, <1>a, PutParameterSteps
    <2>2. owed' \subseteq owed
      BY <1>a, <2>1, FulfilType
    <2>3. QED BY <1>m, <2>1, <2>2
  <1>4. ASSUME NEW c \in Calls, NEW i \in toIndex[c], PutRow(c, i) PROVE DeletesHonest'
    <2>1. /\ \A k \in Keys : k # i.key => rows'[k] = rows[k]
          /\ UNCHANGED <<params, phase, target, doomed>> /\ Fulfil(c)
      BY <1>4, <1>a, PutRowSteps
    <2>2. owed' \subseteq owed
      BY <1>a, <2>1, FulfilType
    <2>3. \A d \in Calls : phase[d] = "walk" => \A k \in Subtree(target[d].key) : k # i.key
      BY <1>a, Alone DEF Deletes
    <2>4. QED BY <1>m, <1>s, <2>1, <2>2, <2>3
  <1>5. ASSUME NEW c \in Calls, Ending(c) PROVE DeletesHonest'
    <2>1. PICK ks : Ends(c, ks)
      BY <1>5, <1>a, EndsOf DEF Ending
    <2>2. /\ phase'[c] = "idle"
          /\ \A d \in Calls : d # c => /\ phase'[d] = phase[d] /\ target'[d] = target[d] /\ doomed'[d] = doomed[d]
          /\ UNCHANGED rows /\ owed' = {x \in owed : x.call # c}
      BY <2>1, <1>a DEF Ends, Report, storeVars, TypeOK
    <2>3. QED BY <1>b, <1>m, <2>2
  <1>6. ASSUME NEW c \in Calls, DeleteParameter(c) PROVE DeletesHonest'
    <2>1. /\ Deletes(c) /\ phase'[c] = "root" /\ \A d \in Calls : d # c => phase'[d] = phase[d]
          /\ UNCHANGED <<rows, target, doomed>> /\ Fulfil(c)
      BY <1>6, <1>a, DeleteSteps DEF Deletes
    <2>2. owed' \subseteq owed
      BY <1>a, <2>1, FulfilType
    <2>3. \A x \in owed : x.call = c => x.value = NoValue
      BY <1>h, <2>1
    <2>4. QED BY <1>b, <1>m, <2>1, <2>2, <2>3
  \* The walk removes the row of k.
  <1>w. ASSUME NEW c \in Calls, Deletes(c), Fulfil(c), NEW k \in Subtree(target[c].key), rows'[k] = NoRow,
               NEW x \in owed', x.call = c, x.key = k
        PROVE  FALSE
    <2>1. x \in owed /\ x \in pending
      BY <1>a, <1>b, <1>w, FulfilType
    <2>2. Value(k)' = NoValue
      <3>1. inIndex(NoRow) /\ NoRow.value = NoValue
        BY DEF NoRow, inIndex, SSM
      <3>2. QED BY <1>s, <1>w, <3>1, QuietValueNext
    <2>3. x.value = NoValue
      BY <1>h, <1>w, <2>1
    <2>4. QED BY <1>w, <2>1, <2>2, <2>3, FulfilFrees
  <1>7. ASSUME NEW c \in Calls, DeleteRoot(c) PROVE DeletesHonest'
    <2>1. /\ Deletes(c) /\ target[c].key \in Keys /\ rows'[target[c].key] = NoRow
          /\ \A k \in Keys : k # target[c].key => rows'[k] = rows[k]
          /\ phase'[c] = "walk" /\ doomed'[c] = {j \in Subtree(target[c].key) : rows'[j] # NoRow}
          /\ \A d \in Calls : d # c => phase'[d] = phase[d] /\ doomed'[d] = doomed[d]
          /\ UNCHANGED <<params, target>> /\ Fulfil(c)
      BY <1>7, <1>a, DeleteSteps DEF Deletes
    <2>2. owed' \subseteq owed
      BY <1>a, <2>1, FulfilType
    <2>3. ASSUME NEW d \in Calls, phase'[d] = "walk", NEW k \in Subtree(target'[d].key)
          PROVE  /\ rows'[k] # NoRow => k \in doomed'[d]
                 /\ \A x \in owed' : x.call = d /\ x.key = k => rows'[k] # NoRow
      <3>1. CASE d = c
        <4>1. rows'[k] # NoRow => k \in doomed'[d]
          BY <2>1, <2>3, <3>1
        <4>2. ASSUME NEW x \in owed', x.call = d, x.key = k PROVE rows'[k] # NoRow
          BY <1>w, <2>1, <2>3, <3>1, <4>2
        <4>3. QED BY <4>1, <4>2
      <3>2. CASE d # c
        <4>1. phase[d] = "walk" /\ k \in Subtree(target[d].key) /\ k \in Keys
          BY <1>s, <2>1, <2>3, <3>2
        <4>2. Deletes(d) /\ target[c].key \in Subtree(target[c].key)
          BY <1>a, <2>1, <4>1, TargetInSubtree DEF Deletes
        <4>3. k # target[c].key
          BY <1>a, <2>1, <3>2, <4>1, <4>2, Alone
        <4>4. rows'[k] = rows[k] /\ doomed'[d] = doomed[d]
          BY <2>1, <3>2, <4>1, <4>3
        <4>5. QED BY <1>h, <2>2, <4>1, <4>4
      <3>3. QED BY <3>1, <3>2
    <2>4. \A x \in owed' : phase'[x.call] # "idle" /\ (Deletes(x.call)' => x.value = NoValue)
      BY <1>b, <1>h, <2>1, <2>2 DEF Deletes
    <2>5. QED BY <1>k, <2>3, <2>4
  <1>8. ASSUME NEW c \in Calls, NEW j \in Keys, DeleteRow(c, j) PROVE DeletesHonest'
    <2>1. /\ Deletes(c) /\ phase[c] = "walk" /\ j \in Subtree(target[c].key) /\ rows'[j] = NoRow
          /\ \A k \in Keys : k # j => rows'[k] = rows[k]
          /\ doomed'[c] = doomed[c] \ {j} /\ \A d \in Calls : d # c => doomed'[d] = doomed[d]
          /\ UNCHANGED <<params, phase, target>> /\ Fulfil(c)
      BY <1>8, <1>a, DeleteSteps DEF Deletes
    <2>2. owed' \subseteq owed
      BY <1>a, <2>1, FulfilType
    <2>3. ASSUME NEW d \in Calls, phase'[d] = "walk", NEW k \in Subtree(target'[d].key)
          PROVE  /\ rows'[k] # NoRow => k \in doomed'[d]
                 /\ \A x \in owed' : x.call = d /\ x.key = k => rows'[k] # NoRow
      <3>0. phase[d] = "walk" /\ k \in Subtree(target[d].key) /\ k \in Keys
        BY <1>s, <2>1, <2>3
      <3>1. CASE k = j
        <4>1. d = c
          BY <1>a, <2>1, <3>0, <3>1, Alone DEF Deletes
        <4>2. ASSUME NEW x \in owed', x.call = d, x.key = k PROVE rows'[k] # NoRow
          BY <1>w, <2>1, <3>1, <4>1, <4>2
        <4>3. QED BY <2>1, <3>1, <4>2
      <3>2. CASE k # j
        <4>1. rows'[k] = rows[k] /\ (k \in doomed[d] => k \in doomed'[d])
          BY <2>1, <3>0, <3>2
        <4>2. QED BY <1>h, <2>2, <3>0, <4>1
      <3>3. QED BY <3>1, <3>2
    <2>4. \A x \in owed' : phase'[x.call] # "idle" /\ (Deletes(x.call)' => x.value = NoValue)
      BY <1>h, <2>1, <2>2 DEF Deletes
    <2>5. QED BY <1>k, <2>3, <2>4
  <1>9. CASE UNCHANGED workVars
    BY <1>9, <1>m DEF workVars, callVars, pastVars
  <1>10. QED BY <1>1, <1>2, <1>3, <1>4, <1>5, <1>6, <1>7, <1>8, <1>9, StepKinds

CallsInv == QuietInv /\ FreshInv /\ GonePromised /\ HiddenPromised /\ UpsertsHonest /\ DeletesHonest

LEMMA CallsNext ==
    ASSUME ~Racing, "between" \notin Failing, CallsInv, [Next]_vars
    PROVE  CallsInv'
  <1>1. QuietInv /\ FreshInv /\ GonePromised /\ HiddenPromised /\ UpsertsHonest /\ DeletesHonest
    BY DEF CallsInv
  <1>2. QuietInv'
    BY <1>1, QuietNext
  <1>3. FreshInv'
    BY <1>1, <1>2, FreshNext
  <1>4. QED BY <1>1, <1>2, <1>3, GoneNext, HiddenNext, UpsertsNext, DeletesNext DEF CallsInv

LEMMA CallsInit == Init => CallsInv
  <1> SUFFICES ASSUME Init PROVE CallsInv
    OBVIOUS
  <1>1. QuietInv
    BY QuietInit
  <1>2. /\ \A k \in Keys : rows[k] = NoRow /\ params[k] = NoParam
        /\ \A c \in Calls : phase[c] = "idle" /\ toPut[c] = {} /\ toIndex[c] = {}
        /\ writes = 0 /\ owed = {}
    BY DEF Init
  <1>3. NoRow.value = 0 /\ NoParam.value = 0 /\ 0 <= 0
    BY DEF NoRow, NoParam, NoValue
  <1>4. FreshInv
    BY <1>2, <1>3 DEF FreshInv, StoresFresh, WorkNew, WorkDistinct
  <1>5. GonePromised /\ HiddenPromised
    BY <1>2 DEF GonePromised, HiddenPromised, Deletes
  <1>6. UpsertsHonest /\ DeletesHonest
    BY <1>2 DEF UpsertsHonest, RowsTold, KeysTold, OwedTold, DeletesHonest
  <1>7. QED BY <1>1, <1>4, <1>5, <1>6 DEF CallsInv

-----------------------------------------------------------------------------
(* Resolve.                                                                *)

\* What a step may do to a parameter.
Replaced(k) ==
    \/ params'[k] = params[k]
    \/ params'[k] = NoParam /\ NoValue \in Prospects(k)
    \/ /\ params'[k] \in Params /\ params'[k].value \in Prospects(k)
       /\ params[k] = NoParam \/ params[k].secure = params'[k].secure

LEMMA ParamsReplaced ==
    ASSUME CallsInv, [Next]_vars
    PROVE  \/ Observe /\ UNCHANGED reading /\ \A k \in Keys : Replaced(k)
           \/ UNCHANGED <<rows, params, toPut, claims>> /\ \E r \in Readers, k \in Keys : Resolve(r, k)
           \/ UNCHANGED <<rows, params, toPut, claims>> /\ \E r \in Readers : ResolveReturn(r)
           \/ UNCHANGED <<rows, params, toPut, claims, reading, seen>>
  <1>a. TypeOK /\ ClaimsInv /\ ClaimsHeld /\ OnlyUpserts
    BY DEF CallsInv, QuietInv, ClaimsInv
  <1>b. ASSUME UNCHANGED params PROVE \A k \in Keys : Replaced(k)
    BY <1>b DEF Replaced
  <1>1. ASSUME NEW c \in Calls, NEW b \in Batches, Upsert(c, b) PROVE UNCHANGED <<params, reading>>
    BY <1>1 DEF Upsert, storeVars
  <1>2. ASSUME NEW c \in Calls, NEW k \in Keys, Delete(c, k) PROVE UNCHANGED <<params, reading>>
    BY <1>2 DEF Delete, storeVars
  <1>3. ASSUME NEW c \in Calls, NEW e \in toPut[c], PutParameter(c, e)
        PROVE  UNCHANGED reading /\ \A k \in Keys : Replaced(k)
    <2>1. /\ UNCHANGED reading /\ e.key \in Keys /\ \A k \in Keys : k # e.key => params'[k] = params[k]
          /\ \/ params'[e.key] = params[e.key]
             \/ params'[e.key] = prepare(e) /\ (params[e.key] = NoParam \/ params[e.key].secure = e.secure)
      BY <1>3, <1>a, PutParameterSteps
    <2>3. e.value \in Prospects(e.key)
      BY DEF Prospects
    <2>4. prepare(e) \in Params /\ prepare(e).value = e.value /\ prepare(e).secure = e.secure
      BY <1>a, TypeFacts, AddressRow
    <2>5. QED BY <2>1, <2>3, <2>4 DEF Replaced
  <1>4. ASSUME NEW c \in Calls, NEW i \in toIndex[c], PutRow(c, i) PROVE UNCHANGED <<params, reading>>
    BY <1>4 DEF PutRow
  <1>5. ASSUME NEW c \in Calls, Ending(c) PROVE UNCHANGED <<params, reading>>
    BY <1>5, <1>a, EndsOf DEF Ending, Ends, storeVars
  <1>6. ASSUME NEW c \in Calls, DeleteParameter(c) PROVE UNCHANGED reading /\ \A k \in Keys : Replaced(k)
    <2>1. /\ Deletes(c) /\ UNCHANGED reading /\ target[c].key \in Subtree(target[c].key)
          /\ params'[target[c].key] = NoParam /\ \A k \in Keys : k # target[c].key => params'[k] = params[k]
      BY <1>6, <1>a, DeleteSteps, TargetInSubtree DEF Deletes
    <2>2. Deleting(c, target[c].key)
      BY <1>a, <2>1 DEF ClaimsHeld, Deleting
    <2>3. NoValue \in Prospects(target[c].key)
      BY <2>2 DEF Prospects
    <2>4. QED BY <2>1, <2>3 DEF Replaced
  <1>7. ASSUME NEW c \in Calls, DeleteRoot(c) PROVE UNCHANGED <<params, reading>>
    BY <1>7 DEF DeleteRoot
  <1>8. ASSUME NEW c \in Calls, NEW k \in Keys, DeleteRow(c, k) PROVE UNCHANGED <<params, reading>>
    BY <1>8 DEF DeleteRow
  <1>9. ASSUME NEW t \in Tables, SwapRoutes(t) PROVE UNCHANGED <<params, reading>>
    BY <1>9 DEF SwapRoutes
  <1>10. ASSUME NEW r \in Readers, NEW k \in Keys, Resolve(r, k) PROVE UNCHANGED <<rows, params, toPut, claims>>
    BY <1>10 DEF Resolve, storeVars, callVars
  <1>11. ASSUME NEW r \in Readers, ResolveReturn(r) PROVE UNCHANGED <<rows, params, toPut, claims>>
    BY <1>11 DEF ResolveReturn, storeVars, callVars
  <1>12. CASE UNCHANGED vars
    BY <1>12 DEF vars, storeVars, callVars
  <1>13. CASE Next
    <2>1. ASSUME NEW c \in Calls, Step(c) PROVE UNCHANGED reading /\ \A k \in Keys : Replaced(k)
      BY <1>b, <1>3, <1>4, <1>5, <1>6, <1>7, <1>8, <2>1 DEF Step, Ending
    <2>2. ASSUME NEW c \in Calls, Call(c) PROVE UNCHANGED reading /\ \A k \in Keys : Replaced(k)
      BY <1>b, <1>1, <1>2, <2>2 DEF Call
    <2>3. QED BY <1>b, <1>9, <1>10, <1>11, <1>13, <2>1, <2>2 DEF Next
  <1>14. QED BY <1>12, <1>13

ReadingInv == ReadingSeen /\ ReadingKept /\ ReadingNamed

LEMMA ReadingNext ==
    ASSUME CallsInv, CallsInv', ReadingInv, [Next]_vars
    PROVE  ReadingInv'
  <1>a. TypeOK /\ TypeOK'
    BY DEF CallsInv, QuietInv
  <1>b. \A r \in Readers : reading[r] # NoReading =>
           /\ reading[r].key \in Keys
           /\ Prospects(reading[r].key) \subseteq seen[r] /\ params[reading[r].key].value \in seen[r]
           /\ NoValue \in seen[r] \/ (/\ params[reading[r].key] # NoParam
                                      /\ params[reading[r].key].secure = reading[r].row.secure)
           /\ ~inIndex(reading[r].row) /\ Named(reading[r].row)
    BY <1>a, TypeFacts DEF ReadingInv, ReadingSeen, ReadingKept, ReadingNamed, Kept
  <1>k. ASSUME \A r \in Readers : reading'[r] # NoReading =>
                  /\ Prospects(reading[r].key)' \subseteq seen'[r] /\ params'[reading'[r].key].value \in seen'[r]
                  /\ NoValue \in seen'[r] \/ (/\ params'[reading'[r].key] # NoParam
                                              /\ params'[reading'[r].key].secure = reading'[r].row.secure)
                  /\ ~inIndex(reading'[r].row) /\ Named(reading'[r].row)
        PROVE  ReadingInv'
    BY <1>k DEF ReadingInv, ReadingSeen, ReadingKept, ReadingNamed, Kept, Named, inIndex
  <1>p. ASSUME UNCHANGED <<rows, params, toPut, claims>>, NEW k PROVE Prospects(k)' = Prospects(k)
    BY <1>p, ValueSame DEF Prospects, Deleting
  <1>1. CASE Observe /\ UNCHANGED reading /\ \A k \in Keys : Replaced(k)
    <2>1. ASSUME NEW r \in Readers, reading'[r] # NoReading
          PROVE  /\ Prospects(reading[r].key)' \subseteq seen'[r] /\ params'[reading'[r].key].value \in seen'[r]
                 /\ NoValue \in seen'[r] \/ (/\ params'[reading'[r].key] # NoParam
                                             /\ params'[reading'[r].key].secure = reading'[r].row.secure)
                 /\ ~inIndex(reading'[r].row) /\ Named(reading'[r].row)
      <3>1. reading[r] # NoReading /\ reading'[r] = reading[r]
        BY <1>1, <2>1
      <3>2. seen'[r] = seen[r] \cup Prospects(reading[r].key)'
        BY <1>1, <3>1 DEF Observe
      <3>3. PICK k \in Keys : k = reading[r].key
        BY <1>b, <3>1
      <3>4. /\ Prospects(k) \subseteq seen[r] /\ params[k].value \in seen[r]
            /\ NoValue \in seen[r] \/ (params[k] # NoParam /\ params[k].secure = reading[r].row.secure)
        BY <1>b, <3>1, <3>3
      <3>5. NoParam.value = NoValue /\ \A par \in Params : par # NoParam
        <4>1. \A par \in Params : par.value \in 1..MaxWrites
          BY DEF Params
        <4>2. NoParam.value = NoValue /\ NoValue \notin 1..MaxWrites
          BY DEF NoParam, NoValue
        <4>3. QED BY <4>1, <4>2
      <3>6. params'[k].value \in seen[r]
        BY <1>1, <3>4, <3>5 DEF Replaced
      <3>7. NoValue \in seen[r] \/ (params'[k] # NoParam /\ params'[k].secure = reading[r].row.secure)
        BY <1>1, <3>4, <3>5 DEF Replaced
      <3>8. QED BY <1>b, <3>1, <3>2, <3>3, <3>6, <3>7
    <2>2. QED BY <1>k, <2>1
  <1>2. CASE UNCHANGED <<rows, params, toPut, claims>> /\ \E r \in Readers, k \in Keys : Resolve(r, k)
    <2>1. PICK q \in Readers, k \in Keys : Resolve(q, k)
      BY <1>2
    <2>2. /\ ~inIndex(rows[k]) /\ reading' = [reading EXCEPT ![q] = [key |-> k, row |-> rows[k]]]
          /\ seen' = [seen EXCEPT ![q] = Prospects(k)]
      BY <2>1 DEF Resolve
    <2>3. /\ reading'[q].key = k /\ reading'[q].row = rows[k] /\ seen'[q] = Prospects(k)
          /\ \A r \in Readers : r # q => reading'[r] = reading[r] /\ seen'[r] = seen[r]
      BY <1>a, <2>2 DEF TypeOK
    <2>4. params[k].value \in Prospects(k)
      <3>1. Value(k) = params[k].value
        BY <2>2, QuietValue DEF CallsInv
      <3>2. QED BY <3>1 DEF Prospects
    <2>5. Named(rows[k])
      BY DEF CallsInv, QuietInv, RowsNamed
    <2>6. NoValue \in Prospects(k) \/ (params[k] # NoParam /\ params[k].secure = rows[k].secure)
      <3>1. rows[k].backend \in SSM /\ NoParam.value = NoValue
        BY <2>2 DEF inIndex, NoParam
      <3>2. params[k] = NoParam \/ (params[k] # NoParam /\ params[k].secure = rows[k].secure)
        BY <3>1 DEF CallsInv, QuietInv, RowsKept, Kept
      <3>3. QED BY <2>4, <3>1, <3>2
    <2>7. ASSUME NEW r \in Readers, reading'[r] # NoReading
          PROVE  /\ Prospects(reading[r].key)' \subseteq seen'[r] /\ params'[reading'[r].key].value \in seen'[r]
                 /\ NoValue \in seen'[r] \/ (/\ params'[reading'[r].key] # NoParam
                                             /\ params'[reading'[r].key].secure = reading'[r].row.secure)
                 /\ ~inIndex(reading'[r].row) /\ Named(reading'[r].row)
      <3>1. PICK j : j = reading'[r].key
        OBVIOUS
      <3>2. Prospects(reading[r].key)' = Prospects(j)
        BY <1>2, <1>p, <3>1
      <3>3. CASE r = q
        BY <1>2, <2>2, <2>3, <2>4, <2>5, <2>6, <3>1, <3>2, <3>3
      <3>4. CASE r # q
        BY <1>2, <1>b, <2>3, <2>7, <3>1, <3>2, <3>4
      <3>5. QED BY <3>3, <3>4
    <2>8. QED BY <1>k, <2>7
  <1>3. CASE UNCHANGED <<rows, params, toPut, claims>> /\ \E r \in Readers : ResolveReturn(r)
    <2>1. PICK q \in Readers : ResolveReturn(q)
      BY <1>3
    <2>2. /\ reading'[q] = NoReading
          /\ \A r \in Readers : r # q => reading'[r] = reading[r] /\ seen'[r] = seen[r]
      BY <1>a, <2>1 DEF ResolveReturn, TypeOK
    <2>3. ASSUME NEW r \in Readers, reading'[r] # NoReading
          PROVE  /\ Prospects(reading[r].key)' \subseteq seen'[r] /\ params'[reading'[r].key].value \in seen'[r]
                 /\ NoValue \in seen'[r] \/ (/\ params'[reading'[r].key] # NoParam
                                             /\ params'[reading'[r].key].secure = reading'[r].row.secure)
                 /\ ~inIndex(reading'[r].row) /\ Named(reading'[r].row)
      <3>1. PICK j : j = reading'[r].key
        OBVIOUS
      <3>2. Prospects(reading[r].key)' = Prospects(j)
        BY <1>3, <1>p, <3>1
      <3>3. QED BY <1>3, <1>b, <2>2, <2>3, <3>1, <3>2
    <2>4. QED BY <1>k, <2>3
  <1>4. CASE UNCHANGED <<rows, params, toPut, claims, reading, seen>>
    <2>1. ASSUME NEW r \in Readers, reading'[r] # NoReading
          PROVE  /\ Prospects(reading[r].key)' \subseteq seen'[r] /\ params'[reading'[r].key].value \in seen'[r]
                 /\ NoValue \in seen'[r] \/ (/\ params'[reading'[r].key] # NoParam
                                             /\ params'[reading'[r].key].secure = reading'[r].row.secure)
                 /\ ~inIndex(reading'[r].row) /\ Named(reading'[r].row)
      <3>1. PICK j : j = reading'[r].key
        OBVIOUS
      <3>2. Prospects(reading[r].key)' = Prospects(j)
        BY <1>4, <1>p, <3>1
      <3>3. QED BY <1>4, <1>b, <2>1, <3>1, <3>2
    <2>2. QED BY <1>k, <2>1
  <1>5. QED BY <1>1, <1>2, <1>3, <1>4, ParamsReplaced

LEMMA ReadingInit == Init => ReadingInv
  BY DEF Init, ReadingInv, ReadingSeen, ReadingKept, ReadingNamed

LEMMA ReadingAnswers ==
    ASSUME TypeOK, ReadingInv
    PROVE  ResolveRegular
  <1> SUFFICES ASSUME NEW r \in Readers, reading[r] # NoReading
               PROVE  Answer(r) \in seen[r] \/ (Answer(r) = Ciphertext /\ NoValue \in seen[r])
    BY DEF ResolveRegular
  <1> DEFINE k == reading[r].key
             row == reading[r].row
  <1>1. /\ params[k].value \in seen[r] /\ (NoValue \in seen[r] \/ params[k].secure = row.secure)
        /\ row.backend \in SSM /\ Named(row)
    BY DEF ReadingInv, ReadingSeen, ReadingKept, ReadingNamed, Kept, inIndex
  <1>2. CASE params[k].secure /\ row.backend = "parameterstore"
    <2>1. row.secure = FALSE
      BY <1>1, <1>2 DEF Named
    <2>2. NoValue \in seen[r]
      BY <1>1, <1>2, <2>1
    <2>3. QED BY <1>2, <2>2 DEF Answer, Reads
  <1>3. CASE ~(params[k].secure /\ row.backend = "parameterstore")
    BY <1>1, <1>3 DEF Answer, Reads
  <1>4. QED BY <1>2, <1>3

(* What Resolve answers, though it reads the row and the parameter one      *)
(* after the other, is a value its key had or was being given meanwhile,    *)
(* or undecrypted what replaced an entry that was deleted: with any number  *)
(* of calls and readers, crashes and routing changes, if no Delete is cut   *)
(* off between the stores.                                                 *)
THEOREM ResolveAnswers == ASSUME ~Racing, "between" \notin Failing PROVE Spec => []ResolveRegular
  <1>1. Init => CallsInv /\ ReadingInv
    BY CallsInit, ReadingInit
  <1>2. CallsInv /\ ReadingInv /\ [Next]_vars => CallsInv' /\ ReadingInv'
    BY CallsNext, ReadingNext
  <1>3. CallsInv /\ ReadingInv => ResolveRegular
    BY ReadingAnswers DEF CallsInv, QuietInv
  <1>4. QED BY <1>1, <1>2, <1>3, PTL DEF Spec

-----------------------------------------------------------------------------
(* The two stores are one map, step by step.                               *)

\* What becomes visible was promised.
LEMMA VisiblePromised ==
    ASSUME "between" \notin Failing, CallsInv, CallsInv', NEW c \in Calls, NEW k \in Keys,
           \/ \E e \in toPut[c] : PutParameter(c, e)
           \/ \E i \in toIndex[c] : PutRow(c, i)
           \/ DeleteParameter(c) \/ DeleteRoot(c) \/ \E j \in Keys : DeleteRow(c, j)
    PROVE  Value(k)' = Value(k) \/ \E y \in pending : y.key = k /\ y.value = Value(k)'
  <1>a. TypeOK /\ ClaimsInv /\ ClaimsHeld /\ QuietInv /\ QuietInv'
    BY DEF CallsInv, QuietInv, ClaimsInv
  <1>v. /\ Value(k) = (IF inIndex(rows[k]) THEN rows[k].value ELSE params[k].value)
        /\ Value(k)' = (IF inIndex(rows'[k]) THEN rows'[k].value ELSE params'[k].value)
    BY <1>a, QuietValue, QuietValueNext
  <1>1. ASSUME NEW e \in toPut[c], PutParameter(c, e)
        PROVE  Value(k)' = Value(k) \/ \E y \in pending : y.key = k /\ y.value = Value(k)'
    <2>1. /\ \A j \in Keys : j # e.key => params'[j] = params[j]
          /\ params'[e.key] = params[e.key] \/ params'[e.key] = prepare(e)
          /\ UNCHANGED rows
      BY <1>1, <1>a, PutParameterSteps
    <2>2. [call |-> c, key |-> e.key, value |-> e.value] \in pending /\ prepare(e).value = e.value
      <3>1. Promised(c, e.key, e.value)
        BY DEF CallsInv, FreshInv, WorkNew
      <3>2. QED BY <1>a, <3>1, TypeFacts, AddressRow DEF Promised
    <2>3. CASE params'[k] = params[k]
      BY <1>v, <2>1, <2>3
    <2>4. CASE k = e.key /\ params'[k] = prepare(e)
      <3>1. CASE inIndex(rows[k])
        BY <1>v, <2>1, <3>1
      <3>2. CASE ~inIndex(rows[k])
        BY <1>v, <2>1, <2>2, <2>4, <3>2
      <3>3. QED BY <3>1, <3>2
    <2>5. QED BY <2>1, <2>3, <2>4
  <1>2. ASSUME NEW i \in toIndex[c], PutRow(c, i)
        PROVE  Value(k)' = Value(k) \/ \E y \in pending : y.key = k /\ y.value = Value(k)'
    <2>1. /\ \A j \in Keys : j # i.key => rows'[j] = rows[j]
          /\ rows'[i.key] = rows[i.key] \/ rows'[i.key] = i.row
          /\ UNCHANGED params
      BY <1>2, <1>a, PutRowSteps
    <2>2. CASE rows'[k] = rows[k]
      BY <1>v, <2>1, <2>2
    <2>3. CASE k = i.key /\ rows'[k] = i.row
      <3>1. CASE inIndex(i.row)
        <4>1. [call |-> c, key |-> i.key, value |-> i.row.value] \in pending
          BY <3>1 DEF CallsInv, FreshInv, WorkNew, Promised
        <4>2. QED BY <1>v, <2>3, <3>1, <4>1
      <3>2. CASE ~inIndex(i.row) /\ inIndex(rows[k])
        <4>1. i.row.backend \in SSM
          BY <3>2 DEF inIndex
        <4>2. \E y \in pending : y.key = k /\ y.value = params[k].value
          BY <2>3, <3>2, <4>1 DEF CallsInv, HiddenPromised
        <4>3. QED BY <1>v, <2>1, <2>3, <3>2, <4>2
      <3>3. CASE ~inIndex(i.row) /\ ~inIndex(rows[k])
        BY <1>v, <2>1, <2>3, <3>3
      <3>4. QED BY <3>1, <3>2, <3>3
    <2>4. QED BY <2>1, <2>2, <2>3
  \* What a Delete takes away.
  <1>g. ASSUME Deletes(c), k \in Subtree(target[c].key), Value(k)' = NoValue
        PROVE  Value(k)' = Value(k) \/ \E y \in pending : y.key = k /\ y.value = Value(k)'
    BY <1>g DEF CallsInv, GonePromised, Promised
  <1>z. NoRow.value = NoValue /\ inIndex(NoRow) /\ NoParam.value = NoValue
    BY DEF NoRow, NoParam, inIndex, SSM
  <1>3. ASSUME DeleteParameter(c)
        PROVE  Value(k)' = Value(k) \/ \E y \in pending : y.key = k /\ y.value = Value(k)'
    <2>1. /\ Deletes(c) /\ target[c].key \in Subtree(target[c].key) /\ params'[target[c].key] = NoParam
          /\ \A j \in Keys : j # target[c].key => params'[j] = params[j]
          /\ UNCHANGED rows
      BY <1>3, <1>a, DeleteSteps, TargetInSubtree DEF Deletes
    <2>2. CASE k = target[c].key /\ ~inIndex(rows[k])
      BY <1>g, <1>v, <1>z, <2>1, <2>2
    <2>3. CASE k # target[c].key \/ inIndex(rows[k])
      BY <1>v, <2>1, <2>3
    <2>4. QED BY <2>2, <2>3
  <1>4. ASSUME DeleteRoot(c)
        PROVE  Value(k)' = Value(k) \/ \E y \in pending : y.key = k /\ y.value = Value(k)'
    <2>1. /\ Deletes(c) /\ target[c].key \in Subtree(target[c].key) /\ rows'[target[c].key] = NoRow
          /\ \A j \in Keys : j # target[c].key => rows'[j] = rows[j]
          /\ UNCHANGED params
      BY <1>4, <1>a, DeleteSteps, TargetInSubtree DEF Deletes
    <2>2. QED BY <1>g, <1>v, <1>z, <2>1
  <1>5. ASSUME NEW j \in Keys, DeleteRow(c, j)
        PROVE  Value(k)' = Value(k) \/ \E y \in pending : y.key = k /\ y.value = Value(k)'
    <2>1. /\ Deletes(c) /\ j \in Subtree(target[c].key) /\ rows'[j] = NoRow
          /\ \A m \in Keys : m # j => rows'[m] = rows[m]
          /\ UNCHANGED params
      BY <1>5, <1>a, DeleteSteps DEF Deletes
    <2>2. QED BY <1>g, <1>v, <1>z, <2>1
  <1>6. QED BY <1>1, <1>2, <1>3, <1>4, <1>5

\* A step of a call that makes values visible takes those changes at once.
LEMMA TakeStep ==
    ASSUME NEW c \in Calls, Fulfil(c),
           \A k \in Keys : Value(k)' = Value(k) \/ \E y \in pending : y.key = k /\ y.value = Value(k)'
    PROVE  Map!Take
  <1> DEFINE S == {x \in pending : /\ Value(x.key)' = x.value
                                   /\ x.call = c \/ Value(x.key) # x.value}
  <1>1. pending' = pending /\ owed' = {x \in owed : \A y \in S : y.key # x.key} /\ reported' = {}
    BY DEF Fulfil
  <1>2. S \in SUBSET pending /\ \A x, y \in S : x.key = y.key => x.value = y.value
    OBVIOUS
  <1>3. \A x \in S : Value(x.key)' = x.value
    OBVIOUS
  <1>4. ASSUME NEW k \in Keys, \A x \in S : x.key # k PROVE Value(k)' = Value(k)
    BY <1>4
  <1> HIDE DEF S
  <1>5. ASSUME NEW k \in Keys
        PROVE  Value(k)' = IF \E x \in S : x.key = k THEN (CHOOSE x \in S : x.key = k).value ELSE [j \in Keys |-> Value(j)][k]
    <2>1. CASE \E x \in S : x.key = k
      <3>1. (CHOOSE x \in S : x.key = k) \in S /\ (CHOOSE x \in S : x.key = k).key = k
        BY <2>1
      <3>2. QED BY <1>3, <2>1, <3>1
    <2>2. CASE ~\E x \in S : x.key = k
      BY <1>4, <2>2
    <2>3. QED BY <2>1, <2>2
  <1>6. [k \in Keys |-> Value(k)]' =
           [k \in Keys |-> IF \E x \in S : x.key = k THEN (CHOOSE x \in S : x.key = k).value
                           ELSE [j \in Keys |-> Value(j)][k]]
    BY <1>5
  <1>7. QED BY <1>1, <1>2, <1>6 DEF Map!Take

LEMMA MapInit == Init => Map!Init
  <1> SUFFICES ASSUME Init PROVE Map!Init
    OBVIOUS
  <1>1. \A k \in Keys : rows[k] = NoRow /\ pending = {} /\ owed = {}
    BY DEF Init
  <1>2. NoRow.value = NoValue /\ inIndex(NoRow)
    BY DEF NoRow, inIndex, SSM
  <1>3. \A k \in Keys : Value(k) = NoValue
    BY <1>1, <1>2 DEF Value
  <1>4. pending = {} /\ owed = {} /\ reported = {}
    BY DEF Init
  <1>5. QED BY <1>3, <1>4 DEF Map!Init

LEMMA MapNext ==
    ASSUME "between" \notin Failing, CallsInv, CallsInv', [Next]_vars
    PROVE  [Map!Next]_(Map!vars)
  <1>a. TypeOK /\ ClaimsInv /\ ClaimsHeld /\ QuietInv
    BY DEF CallsInv, QuietInv, ClaimsInv
  <1>b. ASSUME UNCHANGED <<rows, params>> PROVE [k \in Keys |-> Value(k)]' = [k \in Keys |-> Value(k)]
    <2>1. \A k \in Keys : Value(k)' = Value(k)
      BY <1>b, ValueSame
    <2>2. QED BY <2>1
  <1>1. ASSUME NEW c \in Calls, NEW b \in Batches, Upsert(c, b) PROVE Map!Begin(c)
    <2> DEFINE ks == {x.key : x \in {x \in Routed(b) : x.backend \in SSM} \cup {x \in Routed(b) : x.backend = "dynamodb"}}
    <2>1. /\ pending' = pending \cup [call : {c}, key : ks, value : {writes + 1}]
          /\ owed' = owed \cup [call : {c}, key : ks, value : {writes + 1}] /\ reported' = {}
          /\ UNCHANGED <<rows, params>> /\ writes < MaxWrites
      BY <1>1, <1>a, UpsertSteps DEF Promise, storeVars
    <2>2. ks \in SUBSET Keys
      BY <1>a, RoutedType
    <2>3. writes + 1 \in Values
      BY <1>a, <2>1, TypeFacts, GatewayAssumption DEF Values
    <2> HIDE DEF ks
    <2>4. QED BY <1>b, <2>1, <2>2, <2>3 DEF Map!Begin
  <1>2. ASSUME NEW c \in Calls, NEW t \in Keys, Delete(c, t) PROVE Map!Begin(c)
    <2>1. /\ pending' = pending \cup [call : {c}, key : Subtree(t), value : {NoValue}]
          /\ owed' = owed \cup [call : {c}, key : Subtree(t), value : {NoValue}] /\ reported' = {}
          /\ UNCHANGED <<rows, params>>
      BY <1>2 DEF Delete, Promise, storeVars
    <2>2. Subtree(t) \in SUBSET Keys /\ NoValue \in Values
      BY StoredType DEF Subtree
    <2>3. QED BY <1>b, <2>1, <2>2 DEF Map!Begin
  <1>3. ASSUME NEW c \in Calls,
               \/ \E e \in toPut[c] : PutParameter(c, e)
               \/ \E i \in toIndex[c] : PutRow(c, i)
               \/ DeleteParameter(c) \/ DeleteRoot(c) \/ \E j \in Keys : DeleteRow(c, j)
        PROVE  Map!Take
    <2>1. Fulfil(c)
      BY <1>3 DEF PutParameter, PutRow, DeleteParameter, DeleteRoot, DeleteRow
    <2>2. \A k \in Keys : Value(k)' = Value(k) \/ \E y \in pending : y.key = k /\ y.value = Value(k)'
      BY <1>3, VisiblePromised
    <2>3. QED BY <2>1, <2>2, TakeStep
  <1>4. ASSUME NEW c \in Calls, Ending(c) PROVE Map!Return(c)
    <2>1. PICK ks \in SUBSET Keys :
              /\ Ends(c, ks)
              /\ \/ ks = {}
                 \/ phase[c] = "upsert" /\ toIndex[c] = {} /\ ks = {k \in Keys : results[c][k] = "ok"}
                 \/ phase[c] = "walk" /\ doomed[c] = {} /\ ks = Subtree(target[c].key)
      BY <1>4, <1>a, EndingReports
    <2>2. /\ UNCHANGED <<rows, params>> /\ owed' = {x \in owed : x.call # c}
          /\ pending' = {x \in pending : x.call = c => x.key \notin ks /\ hidden(x)}
          /\ reported' = [call : {c}, key : ks]
      BY <2>1 DEF Ends, Report, storeVars
    <2>3. ASSUME NEW x \in owed, x.call = c, x.key \in ks PROVE FALSE
      <3>1. CASE phase[c] = "upsert" /\ toIndex[c] = {} /\ ks = {k \in Keys : results[c][k] = "ok"}
        BY <2>3, <3>1 DEF CallsInv, UpsertsHonest, OwedTold
      <3>2. CASE phase[c] = "walk" /\ doomed[c] = {} /\ ks = Subtree(target[c].key)
        BY <2>3, <3>2 DEF CallsInv, DeletesHonest
      <3>3. QED BY <2>1, <2>3, <3>1, <3>2
    <2> DEFINE late == {x \in pending : x.call = c /\ x.key \notin ks /\ hidden(x)}
    <2>4. /\ late \in SUBSET {x \in pending : x.call = c} /\ \A x \in late : x.key \notin ks
          /\ pending' = {x \in pending : x.call # c} \cup late
      BY <2>2
    <2> HIDE DEF late
    <2>5. QED BY <1>b, <2>2, <2>3, <2>4 DEF Map!Return
  <1>5. CASE UNCHANGED workVars
    <2>1. UNCHANGED <<rows, params, pending, owed, reported>>
      BY <1>5 DEF workVars, pastVars
    <2>2. QED BY <1>b, <2>1 DEF Map!vars
  <1>6. QED BY <1>1, <1>2, <1>3, <1>4, <1>5, StepKinds DEF Map!Next

(* The parameter store, the index and the routing between them implement   *)
(* the map of EntryMap: what a key reads as changes only when a change of a *)
(* call takes effect, be its requests repeated or not, and what a call       *)
(* reports done is done and never comes back once overwritten.  For any number of calls of any keys, routing tables that change   *)
(* under them, failures of either store and crashes, if calls that share a  *)
(* key do not overlap but for Upserts to one store, and no Delete is cut    *)
(* off between the stores.                                                 *)
THEOREM GatewayImplementsMap == ASSUME ~Racing, "between" \notin Failing PROVE Spec => ImplementsMap
  <1>1. CallsInv /\ [Next]_vars => CallsInv' /\ [Map!Next]_(Map!vars)
    BY CallsNext, MapNext
  <1>2. QED BY <1>1, CallsInit, MapInit, PTL DEF Spec, ImplementsMap, Map!Spec

-----------------------------------------------------------------------------
(* The routing table.  First, induction over numbers, stated with sets.    *)

(* A set of numbers that is not empty has a least one.                     *)
LEMMA LeastNumber ==
    ASSUME NEW S \in SUBSET Nat, S # {}
    PROVE  \E x \in S : \A y \in S : x <= y
  <1> DEFINE R == OpToRel(<, Nat)
  <1>1. IsWellFoundedOn(R, Nat)
    BY NatLessThanWellFounded
  <1>2. \A x, y \in Nat : <<x, y>> \in R <=> x < y
    BY DEF OpToRel
  <1> HIDE DEF R
  <1>3. PICK x \in S : \A y \in S : ~(<<y, x>> \in R)
    BY <1>1, WFMin
  <1>4. \A y \in S : ~(y < x)
    BY <1>2, <1>3
  <1>5. \A y \in S : x <= y
    BY <1>4
  <1>6. QED BY <1>5

(* And a greatest one, if it has a bound.                                  *)
LEMMA GreatestNumber ==
    ASSUME NEW n \in Nat, NEW S \in SUBSET (1..n), S # {}
    PROVE  \E x \in S : \A y \in S : x >= y
  <1> DEFINE M == {n - x : x \in S}
  <1>1. M \in SUBSET Nat /\ M # {}
    <2>1. \A x \in 1..n : n - x \in Nat
      OBVIOUS
    <2>2. QED BY <2>1
  <1>2. PICK m \in M : \A y \in M : m <= y
    BY <1>1, LeastNumber
  <1>3. PICK x \in S : m = n - x
    OBVIOUS
  <1>4. ASSUME NEW y \in S PROVE x >= y
    <2>1. n - y \in M
      OBVIOUS
    <2>2. n - x <= n - y
      BY <1>2, <1>3, <2>1
    <2>3. x \in 1..n /\ y \in 1..n
      OBVIOUS
    <2>4. QED BY <2>2, <2>3
  <1>5. QED BY <1>4

(* What holds at 0, and at i + 1 if at i, holds at every number up to n.   *)
LEMMA Climb ==
    ASSUME NEW n \in Nat, NEW S, 0 \in S,
           \A i \in 0..n : i \in S /\ i < n => i + 1 \in S
    PROVE  \A i \in 0..n : i \in S
  <1> DEFINE D == {i \in 0..n : i \notin S}
  <1>1. SUFFICES ASSUME D # {} PROVE FALSE
    OBVIOUS
  <1>2. D \in SUBSET Nat
    OBVIOUS
  <1>3. PICK m \in D : \A y \in D : m <= y
    BY <1>1, <1>2, LeastNumber
  <1>4. m \in 0..n /\ m # 0
    OBVIOUS
  <1>5. PICK i \in 0..n : m = i + 1
    <2>1. m - 1 \in 0..n /\ m = (m - 1) + 1
      BY <1>4
    <2>2. QED BY <2>1
  <1>6. i \notin D
    BY <1>3, <1>5
  <1>7. QED BY <1>4, <1>5, <1>6

\* f runs through the steps of g, from s.
Runs(f, s, g, n) == f[0] = s /\ \A i \in 1..n : f[i] = g[i][f[i - 1]]
Closed(g, n, X) == \A i \in 1..n, d \in X : g[i][d] \in X

(* A function defined by recursion on 0..n exists.                         *)
LEMMA Recursion ==
    ASSUME NEW n \in Nat, NEW X, NEW s \in X, NEW g, Closed(g, n, X)
    PROVE  \E f \in [0..n -> X] : Runs(f, s, g, n)
  <1> USE DEF Runs, Closed
  <1> DEFINE S == {k \in 0..n : \E f \in [0..k -> X] : Runs(f, s, g, k)}
  <1>1. 0 \in S
    <2>1. [i \in 0..0 |-> s] \in [0..0 -> X] /\ Runs([i \in 0..0 |-> s], s, g, 0)
      OBVIOUS
    <2>2. \E f \in [0..0 -> X] : Runs(f, s, g, 0)
      BY <2>1
    <2>3. QED BY <2>2
  <1>2. ASSUME NEW k \in 0..n, k \in S, k < n PROVE k + 1 \in S
    <2>1. PICK f \in [0..k -> X] : Runs(f, s, g, k)
      BY <1>2
    <2>2. PICK h \in 1..n : h = k + 1
      BY <1>2
    <2>3. f[k] \in X /\ g[h][f[k]] \in X
      BY <2>1
    <2> DEFINE e == [i \in 0..h |-> IF i = h THEN g[h][f[k]] ELSE f[i]]
    <2>4. e \in [0..h -> X]
      BY <2>2, <2>3
    <2>5. e[0] = s
      BY <2>1, <2>2
    <2>6. ASSUME NEW i \in 1..h PROVE e[i] = g[i][e[i - 1]]
      <3>1. CASE i = h
        BY <2>2, <3>1
      <3>2. CASE i # h
        <4>1. i \in 1..k /\ i - 1 \in 0..k /\ i - 1 # h /\ i - 1 \in 0..h
          BY <2>2, <3>2
        <4>2. e[i] = f[i] /\ e[i - 1] = f[i - 1]
          BY <2>2, <3>2, <4>1
        <4>3. QED BY <2>1, <4>1, <4>2
      <3>3. QED BY <3>1, <3>2
    <2> HIDE DEF e
    <2>7. \E f1 \in [0..h -> X] : Runs(f1, s, g, h)
      BY <2>4, <2>5, <2>6
    <2>8. QED BY <2>2, <2>7
  <1> HIDE DEF S
  <1>3. n \in S
    <2>1. \A i \in 0..n : i \in S
      BY <1>1, <1>2, Climb
    <2>2. QED BY <2>1
  <1>4. QED BY <1>3 DEF S

\* What is between two slashes, and the words that path.Clean takes out.
Blank == ""
Here == "."
Up == ".."

(* strings.Trim drops the slashes of both ends and nothing else.           *)
LEMMA TrimParts ==
    ASSUME NEW S, NEW text \in Seq(S)
    PROVE  \/ Trim(text) = <<>> /\ \A i \in 1..Len(text) : text[i] = Blank
           \/ \E m, n \in 1..Len(text) :
                 /\ m <= n /\ text[m] # Blank /\ text[n] # Blank
                 /\ \A i \in 1..Len(text) : i < m \/ n < i => text[i] = Blank
                 /\ Trim(text) = SubSeq(text, m, n)
  <1> DEFINE I == {i \in 1..Len(text) : text[i] # Blank}
             m == IF I # {} THEN CHOOSE x \in I : \A y \in I : x <= y ELSE 0
             n == IF I # {} THEN CHOOSE x \in I : \A y \in I : x >= y ELSE 0
  <1>1. Trim(text) = IF m = 0 THEN <<>> ELSE SubSeq(text, m, n)
    BY DEF Trim, SelectInSeq, SelectLastInSeq, Min, Max, Blank
  <1>2. Len(text) \in Nat
    OBVIOUS
  <1>3. I \in SUBSET (1..Len(text)) /\ I \in SUBSET Nat
    OBVIOUS
  <1>4. CASE I = {}
    <2>1. m = 0
      BY <1>4
    <2>2. \A i \in 1..Len(text) : text[i] = Blank
      BY <1>4
    <2>3. QED BY <1>1, <2>1, <2>2
  <1>5. CASE I # {}
    <2>1. m \in I /\ \A y \in I : m <= y
      <3> HIDE DEF I
      <3>1. \E x \in I : \A y \in I : x <= y
        BY <1>3, <1>5, LeastNumber
      <3>2. QED BY <1>5, <3>1
    <2>2. n \in I /\ \A y \in I : n >= y
      <3> HIDE DEF I
      <3>1. \E x \in I : \A y \in I : x >= y
        BY <1>2, <1>3, <1>5, GreatestNumber
      <3>2. QED BY <1>5, <3>1
    <2> HIDE DEF m, n
    <2>3. m \in 1..Len(text) /\ n \in 1..Len(text) /\ m <= n /\ m # 0
      BY <1>3, <2>1, <2>2
    <2>4. \A i \in 1..Len(text) : i < m \/ n < i => text[i] = Blank
      BY <1>2, <2>1, <2>2, <2>3
    <2>5. QED BY <1>1, <2>1, <2>2, <2>3, <2>4
  <1>6. QED BY <1>4, <1>5

\* Paths as IDs have them.
Trimmed(p) == p # <<>> /\ p[1] # Blank /\ p[Len(p)] # Blank

(* What is left is a path without slashes at its ends, if anything is.     *)
LEMMA TrimTrims ==
    ASSUME NEW S, NEW text \in Seq(S)
    PROVE  Trim(text) = <<>> \/ (Trimmed(Trim(text)) /\ Trim(text) \in Seq(S))
  <1>1. CASE Trim(text) = <<>>
    BY <1>1
  <1>2. ASSUME NEW m \in 1..Len(text), NEW n \in 1..Len(text),
               m <= n, text[m] # Blank, text[n] # Blank, Trim(text) = SubSeq(text, m, n)
        PROVE  Trimmed(Trim(text)) /\ Trim(text) \in Seq(S)
    <2>1. SubSeq(text, m, n) \in Seq(S) /\ Len(SubSeq(text, m, n)) = n - m + 1
      BY <1>2
    <2>2. \A i \in 1..(n - m + 1) : SubSeq(text, m, n)[i] = text[m + i - 1]
      BY <1>2
    <2>3. 1 \in 1..(n - m + 1) /\ n - m + 1 \in 1..(n - m + 1) /\ m + (n - m + 1) - 1 = n /\ m + 1 - 1 = m
      BY <1>2
    <2>4. SubSeq(text, m, n)[1] = text[m] /\ SubSeq(text, m, n)[n - m + 1] = text[n]
      BY <2>2, <2>3
    <2>5. SubSeq(text, m, n) # <<>>
      BY <2>1, <2>3
    <2>6. QED BY <1>2, <2>1, <2>4, <2>5 DEF Trimmed
  <1>3. QED BY <1>1, <1>2, TrimParts

(* Sequences with the same elements are the same.                          *)
LEMMA SameSequence ==
    ASSUME NEW S, NEW s \in Seq(S), NEW t \in Seq(S), Len(s) = Len(t),
           \A i \in 1..Len(t) : s[i] = t[i]
    PROVE  s = t
  <1>1. s \in [1..Len(t) -> S] /\ t \in [1..Len(t) -> S]
    OBVIOUS
  <1>2. QED BY <1>1

(* Slashes around a path make no difference to it.                         *)
LEMMA TrimFinds ==
    ASSUME NEW S, NEW text \in Seq(S), NEW p \in Seq(S), Trimmed(p), NEW k \in Nat,
           k + Len(p) <= Len(text), \A i \in 1..Len(p) : text[k + i] = p[i],
           \A i \in 1..Len(text) : i <= k \/ k + Len(p) < i => text[i] = Blank
    PROVE  Trim(text) = p
  <1>1. Len(p) \in Nat \ {0} /\ p \in Seq(S) /\ Len(text) \in Nat
    BY DEF Trimmed
  <1>2. k + 1 \in 1..Len(text) /\ k + Len(p) \in 1..Len(text)
    BY <1>1
  <1>3. text[k + 1] # Blank /\ text[k + Len(p)] # Blank
    BY <1>1 DEF Trimmed
  <1>4. PICK m, n \in 1..Len(text) :
            /\ m <= n /\ text[m] # Blank /\ text[n] # Blank
            /\ \A i \in 1..Len(text) : i < m \/ n < i => text[i] = Blank
            /\ Trim(text) = SubSeq(text, m, n)
    BY <1>2, <1>3, TrimParts
  <1>5. m = k + 1
    BY <1>1, <1>2, <1>3, <1>4
  <1>6. n = k + Len(p)
    BY <1>1, <1>2, <1>3, <1>4
  <1>7. SubSeq(text, m, n) \in Seq(S) /\ Len(SubSeq(text, m, n)) = Len(p)
    <2>1. SubSeq(text, m, n) \in Seq(S) /\ Len(SubSeq(text, m, n)) = n - m + 1
      BY <1>4
    <2>2. n - m + 1 = Len(p)
      BY <1>1, <1>5, <1>6
    <2>3. QED BY <2>1, <2>2
  <1>8. ASSUME NEW i \in 1..Len(p) PROVE SubSeq(text, m, n)[i] = p[i]
    <2>1. i \in 1..(n - m + 1) /\ m + i - 1 = k + i
      BY <1>1, <1>5, <1>6
    <2>2. SubSeq(text, m, n)[i] = text[m + i - 1]
      BY <1>4, <2>1
    <2>3. QED BY <2>1, <2>2
  <1>9. SubSeq(text, m, n) = p
    BY <1>7, <1>8, SameSequence
  <1>10. QED BY <1>4, <1>9

\* The words of a clean path.
Plain(S) == S \ {Blank, Here, Up}

(* The words of path.Clean, one at a time.                                 *)
LEMMA EnterSkips ==
    ASSUME NEW d, NEW w, w \in {Blank, Here} PROVE enter(d, w) = d
  BY DEF enter, Blank, Here

LEMMA EnterUp ==
    ASSUME NEW d, NEW w, w = Up PROVE enter(d, w) = IF d = <<>> THEN <<>> ELSE Front(d)
  BY DEF enter, Blank, Here, Up

LEMMA EnterWord ==
    ASSUME NEW d, NEW w, w \notin {Blank, Here, Up} PROVE enter(d, w) = Append(d, w)
  BY DEF enter, Blank, Here, Up

LEMMA EnterPlain ==
    ASSUME NEW S, NEW d \in Seq(Plain(S)), NEW w \in S
    PROVE  enter(d, w) \in Seq(Plain(S))
  <1>1. CASE w \in {Blank, Here}
    BY <1>1, EnterSkips
  <1>2. CASE w = Up
    <2>1. enter(d, w) = IF d = <<>> THEN <<>> ELSE Front(d)
      BY <1>2, EnterUp
    <2>2. CASE d = <<>>
      BY <2>1, <2>2
    <2>3. CASE d # <<>>
      <3>1. Front(d) = SubSeq(d, 1, Len(d) - 1)
        BY DEF Front
      <3>2. SubSeq(d, 1, Len(d) - 1) \in Seq(Plain(S))
        BY <2>3
      <3>3. QED BY <2>1, <2>3, <3>1, <3>2
    <2>4. QED BY <2>2, <2>3
  <1>3. CASE w \notin {Blank, Here, Up}
    <2>1. w \in Plain(S)
      BY <1>3 DEF Plain
    <2>2. Append(d, w) \in Seq(Plain(S))
      BY <2>1
    <2>3. QED BY <1>3, <2>2, EnterWord
  <1>4. QED BY <1>1, <1>2, <1>3

(* path.Clean works through the words of a text, and leaves a clean path.  *)
LEMMA CleanRuns ==
    ASSUME NEW S, NEW text \in Seq(S)
    PROVE  \E f : /\ f[0] = <<>> /\ \A i \in 1..Len(text) : f[i] = enter(f[i - 1], text[i])
                  /\ Clean(text) = f[Len(text)] /\ Clean(text) \in Seq(Plain(S))
  <1> DEFINE n == Len(text)
             X == Seq(Plain(S))
             g == [i \in 1..n |-> [d \in X |-> enter(d, text[i])]]
             run == CHOOSE f : f = [i \in 0..n |-> IF i = 0 THEN <<>> ELSE enter(f[i - 1], text[i])]
  <1>1. n \in Nat /\ \A i \in 1..n : text[i] \in S
    OBVIOUS
  <1>2. <<>> \in X
    OBVIOUS
  <1>3. \A i \in 1..n, d \in X : g[i][d] = enter(d, text[i]) /\ g[i][d] \in X
    BY <1>1, EnterPlain
  <1>4. Clean(text) = run[n]
    BY DEF Clean
  <1> HIDE DEF n, X
  <1>5. PICK f \in [0..n -> X] : f[0] = <<>> /\ \A i \in 1..n : f[i] = g[i][f[i - 1]]
    <2> HIDE DEF g
    <2>1. PICK e \in X : e = <<>>
      BY <1>2
    <2>2. n \in Nat /\ Closed(g, n, X)
      BY <1>1, <1>3 DEF Closed
    <2>3. \E f \in [0..n -> X] : Runs(f, e, g, n)
      BY <2>2, Recursion
    <2>4. QED BY <2>1, <2>3 DEF Runs
  <1>6. ASSUME NEW i \in 1..n PROVE f[i] = enter(f[i - 1], text[i])
    <2>1. i - 1 \in 0..n
      BY <1>1
    <2>2. f[i - 1] \in X
      BY <2>1
    <2>3. QED BY <1>3, <1>5, <2>2
  <1>7. f = [i \in 0..n |-> IF i = 0 THEN <<>> ELSE enter(f[i - 1], text[i])]
    <2>1. \A i \in 0..n : i # 0 => i \in 1..n
      BY <1>1
    <2>2. \A i \in 0..n : f[i] = IF i = 0 THEN <<>> ELSE enter(f[i - 1], text[i])
      BY <1>5, <1>6, <2>1
    <2>3. QED BY <2>2
  <1>8. run = [i \in 0..n |-> IF i = 0 THEN <<>> ELSE enter(run[i - 1], text[i])]
    BY <1>7
  <1> HIDE DEF run
  <1>9. run[0] = <<>> /\ \A i \in 1..n : run[i] = enter(run[i - 1], text[i])
    <2>1. 0 \in 0..n /\ \A i \in 1..n : i \in 0..n /\ i # 0
      BY <1>1
    <2>2. QED BY <1>8, <2>1
  <1>10. run[n] \in X
    <2> DEFINE D == {i \in 0..n : run[i] \in X}
    <2>1. 0 \in D
      BY <1>1, <1>2, <1>9
    <2>2. ASSUME NEW i \in 0..n, i \in D, i < n PROVE i + 1 \in D
      <3>1. PICK h \in 1..n : h = i + 1
        BY <1>1, <2>2
      <3>2. h - 1 = i /\ h \in 0..n
        BY <1>1, <3>1
      <3>3. run[h] = enter(run[i], text[h]) /\ run[i] \in X
        BY <1>9, <2>2, <3>2
      <3>4. enter(run[i], text[h]) \in X
        BY <1>1, <3>3, EnterPlain DEF X
      <3>5. QED BY <3>1, <3>2, <3>3, <3>4
    <2> HIDE DEF D
    <2>3. \A i \in 0..n : i \in D
      BY <1>1, <2>1, <2>2, Climb
    <2>4. n \in 0..n
      BY <1>1
    <2>5. QED BY <2>3, <2>4 DEF D
  <1>11. QED BY <1>4, <1>9, <1>10 DEF n, X

(* A clean path stays as it is, and so it does with a slash behind.        *)
LEMMA CleanKeeps ==
    ASSUME NEW S, NEW c \in Seq(Plain(S)), NEW text \in Seq(S \cup {Blank}),
           Len(c) <= Len(text), \A i \in 1..Len(c) : text[i] = c[i],
           \A i \in 1..Len(text) : Len(c) < i => text[i] = Blank
    PROVE  Clean(text) = c
  <1>1. PICK f : /\ f[0] = <<>> /\ \A i \in 1..Len(text) : f[i] = enter(f[i - 1], text[i])
                 /\ Clean(text) = f[Len(text)]
    BY CleanRuns
  <1>2. Len(c) \in Nat /\ Len(text) \in Nat
    OBVIOUS
  <1> DEFINE here(i) == IF i <= Len(c) THEN SubSeq(c, 1, i) ELSE c
             D == {i \in 0..Len(text) : f[i] = here(i)}
  <1>3. SubSeq(c, 1, Len(c)) = c
    <2>1. SubSeq(c, 1, Len(c)) \in Seq(Plain(S)) /\ Len(SubSeq(c, 1, Len(c))) = Len(c)
      OBVIOUS
    <2>2. \A i \in 1..Len(c) : SubSeq(c, 1, Len(c))[i] = c[i]
      OBVIOUS
    <2>3. QED BY <2>1, <2>2, SameSequence
  <1>4. 0 \in D
    <2>1. SubSeq(c, 1, 0) = <<>>
      OBVIOUS
    <2>2. 0 <= Len(c) /\ 0 \in 0..Len(text)
      BY <1>2
    <2>3. QED BY <1>1, <2>1, <2>2
  <1>5. ASSUME NEW i \in 0..Len(text), i \in D, i < Len(text) PROVE i + 1 \in D
    <2>1. PICK h \in 1..Len(text) : h = i + 1
      BY <1>2, <1>5
    <2>2. h - 1 = i /\ h \in 0..Len(text)
      BY <1>2, <2>1
    <2>3. f[h] = enter(f[i], text[h]) /\ f[i] = here(i)
      BY <1>1, <1>5, <2>2
    <2>4. CASE h <= Len(c)
      <3>1. h \in 1..Len(c) /\ i <= Len(c)
        BY <1>2, <2>1, <2>4
      <3>2. text[h] = c[h] /\ c[h] \in Plain(S)
        BY <3>1
      <3>3. enter(f[i], text[h]) = Append(SubSeq(c, 1, i), c[h])
        BY <2>3, <3>1, <3>2, EnterWord DEF Plain
      <3>4. Append(SubSeq(c, 1, i), c[h]) = SubSeq(c, 1, h)
        <4>1. SubSeq(c, 1, i) \in Seq(Plain(S)) /\ Len(SubSeq(c, 1, i)) = i
          BY <1>2, <3>1
        <4>2. \A j \in 1..i : SubSeq(c, 1, i)[j] = c[j]
          BY <1>2, <3>1
        <4>3. SubSeq(c, 1, h) \in Seq(Plain(S)) /\ Len(SubSeq(c, 1, h)) = h
          BY <1>2, <3>1
        <4>4. \A j \in 1..h : SubSeq(c, 1, h)[j] = c[j]
          BY <1>2, <3>1
        <4> DEFINE a == Append(SubSeq(c, 1, i), c[h])
        <4>5. a \in Seq(Plain(S)) /\ Len(a) = h
          BY <2>1, <3>2, <4>1
        <4>6. \A j \in 1..h : a[j] = c[j]
          <5>1. a[h] = c[h]
            BY <2>1, <4>1
          <5>2. \A j \in 1..i : a[j] = SubSeq(c, 1, i)[j]
            BY <4>1
          <5>3. \A j \in 1..h : j = h \/ j \in 1..i
            BY <2>1
          <5>4. QED BY <4>2, <5>1, <5>2, <5>3
        <4> HIDE DEF a
        <4>7. a = SubSeq(c, 1, h)
          BY <4>3, <4>4, <4>5, <4>6, SameSequence
        <4>8. QED BY <4>7 DEF a
      <3>5. QED BY <2>1, <2>2, <2>3, <2>4, <3>3, <3>4
    <2>5. CASE Len(c) < h
      <3>1. text[h] = Blank
        BY <2>5
      <3>2. f[i] = c
        <4>1. i = Len(c) \/ ~(i <= Len(c))
          BY <1>2, <2>1, <2>5
        <4>2. QED BY <1>3, <2>3, <4>1
      <3>3. f[h] = c
        BY <2>3, <3>1, <3>2, EnterSkips
      <3>4. ~(h <= Len(c))
        BY <1>2, <2>1, <2>5
      <3>5. QED BY <2>1, <2>2, <3>3, <3>4
    <2>6. QED BY <1>2, <2>1, <2>4, <2>5
  <1> HIDE DEF D
  <1>6. \A i \in 0..Len(text) : i \in D
    BY <1>2, <1>4, <1>5, Climb
  <1>7. f[Len(text)] = here(Len(text))
    <2>1. Len(text) \in 0..Len(text)
      BY <1>2
    <2>2. QED BY <1>6, <2>1 DEF D
  <1>8. here(Len(text)) = c
    <2>1. Len(text) = Len(c) \/ ~(Len(text) <= Len(c))
      BY <1>2
    <2>2. QED BY <1>3, <2>1
  <1>9. QED BY <1>1, <1>7, <1>8

(* A text that is only slashes is trimmed away.                            *)
LEMMA TrimSlashes ==
    ASSUME NEW S, NEW text \in Seq(S), \A i \in 1..Len(text) : text[i] = Blank
    PROVE  Trim(text) = <<>>
  BY TrimParts

LEMMA PlainTrimmed ==
    ASSUME NEW S, NEW c \in Seq(Plain(S))
    PROVE  /\ c \in Seq(S) /\ c \in Seq(S \cup {Blank})
           /\ c = <<>> \/ Trimmed(c)
  <1>1. \A i \in 1..Len(c) : c[i] \in Plain(S) /\ c[i] \in S /\ c[i] # Blank
    BY DEF Plain
  <1>2. c \in [1..Len(c) -> Plain(S)] /\ Len(c) \in Nat
    OBVIOUS
  <1>3. c \in [1..Len(c) -> S] /\ c \in [1..Len(c) -> S \cup {Blank}]
    BY <1>1, <1>2
  <1>4. c \in Seq(S) /\ c \in Seq(S \cup {Blank})
    <2>1. \A X, n \in Nat : [1..n -> X] \subseteq Seq(X)
      OBVIOUS
    <2>2. QED BY <1>2, <1>3, <2>1
  <1>5. ASSUME c # <<>> PROVE Trimmed(c)
    <2>1. 1 \in 1..Len(c) /\ Len(c) \in 1..Len(c)
      BY <1>2, <1>5
    <2>2. QED BY <1>1, <1>5, <2>1 DEF Trimmed
  <1>6. QED BY <1>4, <1>5

\* A text that has the words of c, between slashes.
Around(text, k, c) ==
    /\ k + Len(c) <= Len(text) /\ \A i \in 1..Len(c) : text[k + i] = c[i]
    /\ \A i \in 1..Len(text) : i <= k \/ k + Len(c) < i => text[i] = Blank

LEMMA TrimAround ==
    ASSUME NEW S, NEW c \in Seq(Plain(S)), NEW text \in Seq(S \cup {Blank}), NEW k \in Nat,
           Around(text, k, c)
    PROVE  Trim(text) = c
  <1>1. CASE c = <<>>
    <2>1. Len(text) \in Nat /\ Len(c) = 0
      BY <1>1
    <2>2. \A i \in 1..Len(text) : i <= k \/ k + Len(c) < i
      BY <2>1
    <2>3. \A i \in 1..Len(text) : text[i] = Blank
      BY <2>2 DEF Around
    <2>4. QED BY <1>1, <2>3, TrimSlashes
  <1>2. CASE c # <<>>
    <2>1. c \in Seq(S \cup {Blank}) /\ Trimmed(c)
      BY <1>2, PlainTrimmed
    <2>2. QED BY <2>1, TrimFinds DEF Around
  <1>3. QED BY <1>1, <1>2

\* key has the words of c, which is clean, and may have a slash behind.
KeyOf(S, key, c) ==
    /\ c \in Seq(Plain(S)) /\ key \in Seq(S \cup {Blank})
    /\ Around(key, 0, c) /\ Clean(key) = c

(* What the middleware makes of a key is clean, but for a slash behind: it *)
(* names the parameter that what came names.                               *)
LEMMA KeyClean ==
    ASSUME NEW S, NEW v \in Seq(S), NEW c, c = Clean(v), NEW key, key = CanonicalizeKey(v)
    PROVE  KeyOf(S, key, c)
  <1>1. c \in Seq(Plain(S))
    BY CleanRuns
  <1>2. c \in Seq(S \cup {Blank}) /\ Len(c) \in Nat
    BY <1>1, PlainTrimmed
  <1>3. key = cleanKey(v)
    <2>1. ASSUME v = <<Blank>> PROVE cleanKey(v) = v
      <3>1. v \in Seq({Blank}) /\ <<>> \in Seq(Plain({Blank})) /\ Len(<<>>) = 0 /\ Len(v) = 1
        BY <2>1
      <3>2. v \in Seq({Blank} \cup {Blank}) /\ Len(<<>>) <= Len(v) /\ \A i \in 1..Len(<<>>) : v[i] = <<>>[i]
        BY <3>1
      <3>3. \A i \in 1..Len(v) : v[i] = Blank
        BY <2>1
      <3>4. Clean(v) = <<>>
        BY <3>1, <3>2, <3>3, CleanKeeps
      <3>5. QED BY <2>1, <3>4 DEF cleanKey, Blank
    <2>2. QED BY <2>1 DEF CanonicalizeKey, Blank
  <1>4. key \in {<<Blank>>, Append(c, Blank), c} /\ (c # <<>> => key # <<Blank>>)
    <2>1. CASE c = <<>>
      BY <1>3, <2>1 DEF cleanKey, Blank
    <2>2. CASE c # <<>>
      <3>1. key = IF Last(v) = Blank THEN Append(c, Blank) ELSE c
        BY <1>3, <2>2 DEF cleanKey, Blank
      <3>2. Append(c, Blank) # <<Blank>> /\ c # <<Blank>>
        <4>1. c[1] # Blank /\ Append(c, Blank)[1] = c[1] /\ <<Blank>>[1] = Blank
          BY <1>2, <1>1, <2>2, PlainTrimmed DEF Trimmed
        <4>2. QED BY <4>1
      <3>3. QED BY <3>1, <3>2
    <2>3. QED BY <2>1, <2>2
  <1>5. /\ key \in Seq(S \cup {Blank}) /\ Len(c) <= Len(key) /\ Len(key) \in Nat
        /\ \A i \in 1..Len(c) : key[i] = c[i]
        /\ \A i \in 1..Len(key) : Len(c) < i => key[i] = Blank
    <2>1. CASE key = <<Blank>>
      <3>1. Len(c) = 0
        BY <1>4, <2>1
      <3>2. key \in Seq(S \cup {Blank}) /\ Len(key) = 1 /\ key[1] = Blank
        BY <2>1
      <3>3. QED BY <3>1, <3>2
    <2>2. CASE key = Append(c, Blank)
      BY <1>2, <2>2
    <2>3. CASE key = c
      BY <1>2, <2>3
    <2>4. QED BY <1>4, <2>1, <2>2, <2>3
  <1>6. Clean(key) = c
    BY <1>1, <1>5, CleanKeeps
  <1>7. Around(key, 0, c)
    BY <1>2, <1>5 DEF Around
  <1>8. QED BY <1>1, <1>5, <1>6, <1>7 DEF KeyOf

LEMMA KeyNames ==
    ASSUME NEW S, NEW v \in Seq(S)
    PROVE  /\ NormalizeKey(CanonicalizeKey(v)) = NormalizeKey(v)
           /\ Clean(v) \in Seq(Plain(S))
           /\ Trim(CanonicalizeKey(v)) = Clean(v) /\ Trim(NormalizeKey(v)) = Clean(v)
  <1>1. PICK c : c = Clean(v)
    OBVIOUS
  <1>2. PICK key : key = CanonicalizeKey(v)
    OBVIOUS
  <1>3. /\ c \in Seq(Plain(S))
        /\ key \in Seq(S \cup {Blank}) /\ Around(key, 0, c) /\ Clean(key) = c
    <2>1. KeyOf(S, key, c)
      BY <1>1, <1>2, KeyClean
    <2>2. QED BY <2>1 DEF KeyOf
  <1>4. NormalizeKey(key) = NormalizeKey(v)
    BY <1>1, <1>3 DEF NormalizeKey
  <1>5. Trim(key) = c
    BY <1>3, TrimAround
  <1>6. Trim(NormalizeKey(v)) = c
    <2>1. CASE c = <<>>
      <3>1. NormalizeKey(v) = <<Blank, Blank>>
        BY <1>1, <2>1 DEF NormalizeKey, Blank
      <3>2. /\ <<Blank, Blank>> \in Seq({Blank})
            /\ \A i \in 1..Len(<<Blank, Blank>>) : <<Blank, Blank>>[i] = Blank
        OBVIOUS
      <3>3. QED BY <2>1, <3>1, <3>2, TrimSlashes
    <2>2. CASE c # <<>>
      <3>1. PICK w : w = <<Blank>> \o c
        OBVIOUS
      <3>2. NormalizeKey(v) = w
        BY <1>1, <2>2, <3>1 DEF NormalizeKey, Blank
      <3>3. c \in Seq(S \cup {Blank}) /\ Len(c) \in Nat
        BY <1>3, PlainTrimmed
      <3>4. <<Blank>> \in Seq(S \cup {Blank}) /\ Len(<<Blank>>) = 1 /\ <<Blank>>[1] = Blank
        OBVIOUS
      <3>5. w \in Seq(S \cup {Blank}) /\ Len(w) = 1 + Len(c)
        BY <3>1, <3>3, <3>4
      <3>6. w[1] = Blank /\ \A i \in 1..Len(c) : w[1 + i] = c[i]
        BY <3>1, <3>3, <3>4
      <3>7. Around(w, 1, c)
        BY <3>3, <3>5, <3>6 DEF Around
      <3>8. QED BY <1>3, <3>2, <3>5, <3>7, TrimAround
    <2>3. QED BY <2>1, <2>2
  <1>7. QED BY <1>1, <1>2, <1>3, <1>4, <1>5, <1>6

\* A table as nbox-cli leaves it: IDs are trimmed, every config has its own,
\* names backends that exist and allows what it uses.
Usable(c) == c.default \in c.allowed /\ c.secure \in c.allowed \cup {Blank} /\ c.allowed \subseteq Backends
Configs ==
    {c \in [prefix : Seq(STRING), default : Backends, secure : Backends \cup {Blank}, allowed : SUBSET Backends] :
        Usable(c)}
Made ==
    {t \in UNION {[D -> Configs] : D \in SUBSET Seq(STRING)} :
        IsFiniteSet(DOMAIN t) /\ \A id \in DOMAIN t : Trimmed(id) /\ t[id].prefix = id}

LEMMA MadeFacts ==
    ASSUME NEW t \in Made
    PROVE  /\ DOMAIN t \subseteq Seq(STRING) /\ IsFiniteSet(DOMAIN t)
           /\ t = [id \in DOMAIN t |-> t[id]]
           /\ \A id \in DOMAIN t : t[id] \in Configs /\ Trimmed(id) /\ t[id].prefix = id
  <1>1. PICK D \in SUBSET Seq(STRING) : t \in [D -> Configs]
    BY DEF Made
  <1>2. IsFiniteSet(DOMAIN t) /\ \A id \in DOMAIN t : Trimmed(id) /\ t[id].prefix = id
    BY DEF Made
  <1>3. DOMAIN t = D /\ t = [id \in D |-> t[id]] /\ \A id \in D : t[id] \in Configs
    BY <1>1
  <1>4. QED BY <1>2, <1>3

LEMMA MadeIf ==
    ASSUME NEW D \in SUBSET Seq(STRING), IsFiniteSet(D), NEW t, t = [id \in D |-> t[id]],
           \A id \in D : t[id] \in Configs /\ Trimmed(id) /\ t[id].prefix = id
    PROVE  t \in Made
  <1>1. t \in [D -> Configs] /\ DOMAIN t = D
    <2>1. DOMAIN t = D
      OBVIOUS
    <2>2. QED BY <2>1
  <1>2. QED BY <1>1 DEF Made

LEMMA BlankInvalid == Blank \notin Backends
  BY DEF Blank, Backends

(* What an upsert puts has the ID, backends that exist, and allows them.   *)
LEMMA UpsertedUsable ==
    ASSUME NEW id \in Seq(STRING), NEW o, NEW cur, cur = NoConfig \/ cur \in Configs,
           NEW c, c = buildPrefixConfig(id, cur, o), Validate(c)
    PROVE  NormalizeAllowed(c) \in Configs /\ NormalizeAllowed(c).prefix = id
  <1>1. PICK p, d, s, a : cur = [prefix |-> p, default |-> d, secure |-> s, allowed |-> a]
    <2>1. CASE cur = NoConfig
      <3>1. cur = [prefix |-> <<>>, default |-> Blank, secure |-> Blank, allowed |-> {}]
        BY <2>1 DEF NoConfig, Blank
      <3>2. QED BY <3>1
    <2>2. CASE cur \in Configs
      <3>1. cur = [prefix |-> cur.prefix, default |-> cur.default, secure |-> cur.secure, allowed |-> cur.allowed]
        BY <2>2 DEF Configs
      <3>2. QED BY <3>1
    <2>3. QED BY <2>1, <2>2
  <1>2. PICK p2, d2, s2, a2 :
            (IF cur = NoConfig THEN [NoConfig EXCEPT !.default = "dynamodb"] ELSE cur)
              = [prefix |-> p2, default |-> d2, secure |-> s2, allowed |-> a2]
    <2>1. CASE cur = NoConfig
      <3>1. cur = [prefix |-> p, default |-> d, secure |-> s, allowed |-> a]
        BY <1>1
      <3>2. [cur EXCEPT !.default = "dynamodb"] = [prefix |-> p, default |-> "dynamodb", secure |-> s, allowed |-> a]
        BY <3>1
      <3>3. QED BY <2>1, <3>2
    <2>2. CASE cur # NoConfig
      BY <1>1, <2>2
    <2>3. QED BY <2>1, <2>2
  <1>3. PICK d3, s3, a3 : c = [prefix |-> id, default |-> d3, secure |-> s3, allowed |-> a3]
    <2>1. PICK b : b = IF cur = NoConfig THEN [NoConfig EXCEPT !.default = "dynamodb"] ELSE cur
      OBVIOUS
    <2>2. c = changedOverrides(o, [b EXCEPT !.prefix = id])
      BY <2>1 DEF buildPrefixConfig
    <2>3. [b EXCEPT !.prefix = id] = [prefix |-> id, default |-> d2, secure |-> s2, allowed |-> a2]
      BY <1>2, <2>1
    <2>4. c = [prefix |-> id,
               default |-> IF o.default = "same" THEN d2 ELSE o.default,
               secure |-> IF o.secure = "same" THEN s2 ELSE o.secure,
               allowed |-> IF o.allowed = {"same"} THEN a2 ELSE o.allowed]
      BY <2>2, <2>3 DEF changedOverrides
    <2>5. QED BY <2>4
  <1>4. d3 \in Backends /\ s3 \in Backends \cup {Blank} /\ a3 \subseteq Backends
    <2>1. /\ IsValid(c.default) /\ (c.secure # Blank => IsValid(c.secure))
          /\ \A b \in c.allowed : IsValid(b)
      BY DEF Validate, Blank
    <2>2. c.default = d3 /\ c.secure = s3 /\ c.allowed = a3
      BY <1>3
    <2>3. QED BY <2>1, <2>2 DEF IsValid
  <1>5. PICK a4 : a4 = (a3 \cup {d3, s3}) \ {Blank}
    OBVIOUS
  <1>6. NormalizeAllowed(c) = [prefix |-> id, default |-> d3, secure |-> s3, allowed |-> a4]
    <2>1. NormalizeAllowed(c) = [c EXCEPT !.allowed = (@ \cup {c.default, c.secure}) \ {Blank}]
      BY DEF NormalizeAllowed, Blank
    <2>2. c.default = d3 /\ c.secure = s3 /\ c.allowed = a3
      BY <1>3
    <2>3. NormalizeAllowed(c) = [c EXCEPT !.allowed = a4]
      BY <1>5, <2>1, <2>2
    <2>4. QED BY <1>3, <2>3
  <1>7. d3 \in a4 /\ s3 \in a4 \cup {Blank} /\ a4 \subseteq Backends
    BY <1>4, <1>5, BlankInvalid
  <1>8. PICK r : r = NormalizeAllowed(c)
    OBVIOUS
  <1>9. r \in [prefix : Seq(STRING), default : Backends, secure : Backends \cup {Blank}, allowed : SUBSET Backends]
    <2>1. a4 \in SUBSET Backends
      BY <1>7
    <2>2. QED BY <1>4, <1>6, <1>8, <2>1
  <1>10. r.prefix = id /\ r.default = d3 /\ r.secure = s3 /\ r.allowed = a4
    BY <1>6, <1>8
  <1>11. Usable(r)
    BY <1>7, <1>10 DEF Usable
  <1>12. QED BY <1>8, <1>9, <1>10, <1>11 DEF Configs

LEMMA UpsertMade ==
    ASSUME NEW t \in Made, NEW o, o.prefix \in Seq(STRING)
    PROVE  prefixUpsert(t, o) \in Made
  <1>1. PICK id : id = Trim(o.prefix)
    OBVIOUS
  <1>2. PICK cur : cur = IF id \in DOMAIN t THEN t[id] ELSE NoConfig
    OBVIOUS
  <1>3. PICK c : c = buildPrefixConfig(id, cur, o)
    OBVIOUS
  <1>4. prefixUpsert(t, o) = IF id = <<>> \/ ~Validate(c) THEN t
                             ELSE [i \in DOMAIN t \cup {id} |-> IF i = id THEN NormalizeAllowed(c) ELSE t[i]]
    BY <1>1, <1>2, <1>3 DEF prefixUpsert
  <1>5. CASE id = <<>> \/ ~Validate(c)
    BY <1>4, <1>5
  <1>6. CASE ~(id = <<>> \/ ~Validate(c))
    <2>1. id \in Seq(STRING) /\ Trimmed(id)
      BY <1>1, <1>6, TrimTrims
    <2>2. PICK D : D = DOMAIN t
      OBVIOUS
    <2>3. D \subseteq Seq(STRING) /\ IsFiniteSet(D)
      BY <2>2, MadeFacts
    <2>4. \A i \in D : t[i] \in Configs /\ Trimmed(i) /\ t[i].prefix = i
      BY <2>2, MadeFacts
    <2>5. cur = NoConfig \/ cur \in Configs
      BY <1>2, <2>2, <2>4
    <2>6. PICK n : n = NormalizeAllowed(c)
      OBVIOUS
    <2>7. n \in Configs /\ n.prefix = id
      BY <1>3, <1>6, <2>1, <2>5, <2>6, UpsertedUsable
    <2>8. PICK u : u = [i \in D \cup {id} |-> IF i = id THEN n ELSE t[i]]
      OBVIOUS
    <2>9. prefixUpsert(t, o) = u
      BY <1>4, <1>6, <2>2, <2>6, <2>8
    <2>10. IsFiniteSet(D \cup {id}) /\ D \cup {id} \in SUBSET Seq(STRING)
      BY <2>1, <2>3, FS_AddElement
    <2>11. \A i \in D \cup {id} : u[i] \in Configs /\ Trimmed(i) /\ u[i].prefix = i
      BY <2>1, <2>4, <2>7, <2>8
    <2>12. u = [i \in D \cup {id} |-> u[i]]
      BY <2>8
    <2>13. QED BY <2>9, <2>10, <2>11, <2>12, MadeIf
  <1>7. QED BY <1>5, <1>6

LEMMA RmMade ==
    ASSUME NEW t \in Made, NEW o
    PROVE  prefixRm(t, o) \in Made
  <1>1. PICK D : D = DOMAIN t \ {Trim(o.prefix)}
    OBVIOUS
  <1>2. prefixRm(t, o) = IF confirmDelete(o) THEN [i \in D |-> t[i]] ELSE t
    BY <1>1 DEF prefixRm, Restrict
  <1>3. PICK u : u = [i \in D |-> t[i]]
    OBVIOUS
  <1>4. u \in Made
    <2>1. DOMAIN t \subseteq Seq(STRING) /\ IsFiniteSet(DOMAIN t)
      BY MadeFacts
    <2>2. \A i \in DOMAIN t : t[i] \in Configs /\ Trimmed(i) /\ t[i].prefix = i
      BY MadeFacts
    <2>3. IsFiniteSet(D) /\ D \in SUBSET Seq(STRING)
      BY <1>1, <2>1, FS_Subset
    <2>4. \A i \in D : u[i] \in Configs /\ Trimmed(i) /\ u[i].prefix = i
      BY <1>1, <1>3, <2>2
    <2>5. u = [i \in D |-> u[i]]
      BY <1>3
    <2>6. QED BY <2>3, <2>4, <2>5, MadeIf
  <1>5. QED BY <1>2, <1>3, <1>4

LEMMA ExecuteMade ==
    ASSUME NEW t \in Made, NEW o \in Orders
    PROVE  execute(t, o) \in Made
  <1>1. o.prefix \in Seq(STRING)
    BY RoutesAssumption
  <1>2. QED BY <1>1, UpsertMade, RmMade DEF execute

(* Whatever commands ran, the table is as nbox-cli leaves it.              *)
LEMMA WrittenMade ==
    ASSUME NEW h \in Seq(Orders)
    PROVE  written(h) \in Made
  <1> DEFINE n == Len(h)
             g == [i \in 1..n |-> [t \in Made |-> execute(t, h[i])]]
             run == CHOOSE f : f = [i \in 0..n |-> IF i = 0 THEN <<>> ELSE execute(f[i - 1], h[i])]
  <1>1. n \in Nat /\ \A i \in 1..n : h[i] \in Orders
    OBVIOUS
  <1>2. <<>> \in Made
    <2>1. DOMAIN <<>> = {} /\ <<>> = [id \in {} |-> <<>>[id]]
      OBVIOUS
    <2>2. IsFiniteSet({})
      BY FS_EmptySet
    <2>3. QED BY <2>1, <2>2, MadeIf
  <1>3. \A i \in 1..n, t \in Made : g[i][t] = execute(t, h[i]) /\ g[i][t] \in Made
    BY <1>1, ExecuteMade
  <1>4. written(h) = run[n]
    BY DEF written
  <1> HIDE DEF n
  <1>5. PICK f \in [0..n -> Made] : f[0] = <<>> /\ \A i \in 1..n : f[i] = g[i][f[i - 1]]
    <2> HIDE DEF g
    <2>1. PICK e \in Made : e = <<>>
      BY <1>2
    <2>2. n \in Nat /\ Closed(g, n, Made)
      BY <1>1, <1>3 DEF Closed
    <2>3. \E f \in [0..n -> Made] : Runs(f, e, g, n)
      BY <2>2, Recursion
    <2>4. QED BY <2>1, <2>3 DEF Runs
  <1>6. ASSUME NEW i \in 1..n PROVE f[i] = execute(f[i - 1], h[i])
    <2>1. i - 1 \in 0..n
      BY <1>1
    <2>2. f[i - 1] \in Made
      BY <2>1
    <2>3. QED BY <1>3, <1>5, <2>2
  <1>7. f = [i \in 0..n |-> IF i = 0 THEN <<>> ELSE execute(f[i - 1], h[i])]
    <2>1. \A i \in 0..n : i # 0 => i \in 1..n
      BY <1>1
    <2>2. \A i \in 0..n : f[i] = IF i = 0 THEN <<>> ELSE execute(f[i - 1], h[i])
      BY <1>5, <1>6, <2>1
    <2>3. QED BY <2>2
  <1>8. run = [i \in 0..n |-> IF i = 0 THEN <<>> ELSE execute(run[i - 1], h[i])]
    BY <1>7
  <1> HIDE DEF run
  <1>9. run[0] = <<>> /\ \A i \in 1..n : run[i] = execute(run[i - 1], h[i])
    <2>1. 0 \in 0..n /\ \A i \in 1..n : i \in 0..n /\ i # 0
      BY <1>1
    <2>2. QED BY <1>8, <2>1
  <1>10. run[n] \in Made
    <2> DEFINE D == {i \in 0..n : run[i] \in Made}
    <2>1. 0 \in D
      BY <1>1, <1>2, <1>9
    <2>2. ASSUME NEW i \in 0..n, i \in D, i < n PROVE i + 1 \in D
      <3>1. PICK j \in 1..n : j = i + 1
        BY <1>1, <2>2
      <3>2. j - 1 = i /\ j \in 0..n
        BY <1>1, <3>1
      <3>3. run[j] = execute(run[i], h[j]) /\ run[i] \in Made
        BY <1>9, <2>2, <3>2
      <3>4. execute(run[i], h[j]) \in Made
        BY <1>1, <3>3, ExecuteMade
      <3>5. QED BY <3>1, <3>2, <3>3, <3>4
    <2> HIDE DEF D
    <2>3. \A i \in 0..n : i \in D
      BY <1>1, <2>1, <2>2, Climb
    <2>4. n \in 0..n
      BY <1>1
    <2>5. QED BY <2>3, <2>4 DEF D
  <1>11. QED BY <1>4, <1>10

(* SetToSeq lists a finite set, each element once.                         *)
LEMMA ListComplete ==
    ASSUME NEW S, IsFiniteSet(S), NEW s, s = SetToSeq(S)
    PROVE  s \in Seq(S) /\ \A x \in S : \E i \in 1..Len(s) : s[i] = x
  <1>1. PICK size \in Nat : size = Cardinality(S)
    BY FS_CardinalityType
  <1>2. \E f \in [1..size -> S] : IsInjective(f)
    <2>1. ExistsBijection(1..size, S)
      BY <1>1, FS_CardinalityType
    <2>2. PICK f : f \in Bijection(1..size, S)
      BY <2>1 DEF ExistsBijection
    <2>3. QED BY <2>2 DEF Bijection, Injection, IsInjective
  <1>3. s \in [1..size -> S] /\ IsInjective(s)
    BY <1>1, <1>2 DEF SetToSeq
  <1>4. s \in Seq(S) /\ Len(s) = size
    BY <1>3
  <1>5. ASSUME NEW x \in S PROVE \E i \in 1..size : s[i] = x
    <2>1. s \in Injection(1..size, S)
      BY <1>3 DEF Injection
    <2>2. Cardinality(1..size) = size
      BY FS_Interval
    <2>3. s \in Surjection(1..size, S)
      BY <1>1, <2>1, <2>2, FS_Injection
    <2>4. QED BY <1>5, <2>3 DEF Surjection
  <1>6. QED BY <1>4, <1>5

LEMMA TrimmedStays ==
    ASSUME NEW S, NEW p \in Seq(S), Trimmed(p)
    PROVE  Trim(p) = p
  <1>1. Len(p) \in Nat /\ \A i \in 1..Len(p) : p[0 + i] = p[i] /\ ~(i <= 0 \/ 0 + Len(p) < i)
    OBVIOUS
  <1>2. QED BY <1>1, TrimFinds

(* The index of a table is the table.                                      *)
LEMMA IndexIsTable ==
    ASSUME NEW t \in Made, NEW index, index = ParseIndex(prefixList(t))
    PROVE  DOMAIN index = DOMAIN t /\ \A p \in DOMAIN t : index[p] = t[p]
  <1>1. PICK S : S = {t[id] : id \in DOMAIN t}
    OBVIOUS
  <1>2. IsFiniteSet(S)
    <2>1. t \in Surjection(DOMAIN t, S)
      <3>1. t \in [DOMAIN t -> S]
        BY <1>1, MadeFacts
      <3>2. \A x \in S : \E id \in DOMAIN t : t[id] = x
        BY <1>1
      <3>3. QED BY <3>1, <3>2 DEF Surjection
    <2>2. QED BY <2>1, MadeFacts, FS_Surjection
  <1>3. PICK s : s = prefixList(t)
    OBVIOUS
  <1>4. s \in Seq(S) /\ \A x \in S : \E i \in 1..Len(s) : s[i] = x
    <2>1. s = SetToSeq(S)
      BY <1>1, <1>3 DEF prefixList
    <2>2. QED BY <1>2, <2>1, ListComplete
  <1>5. Len(s) \in Nat /\ DOMAIN s = 1..Len(s)
    BY <1>4
  <1>6. ASSUME NEW id \in DOMAIN t PROVE Trim(t[id].prefix) = id
    <2>1. t[id].prefix = id /\ id \in Seq(STRING) /\ Trimmed(id)
      BY MadeFacts
    <2>2. QED BY <2>1, TrimmedStays
  <1>7. ASSUME NEW i \in 1..Len(s) PROVE Trim(s[i].prefix) \in DOMAIN t /\ s[i] = t[Trim(s[i].prefix)]
    <2>1. s[i] \in S
      BY <1>4
    <2>2. PICK id \in DOMAIN t : s[i] = t[id]
      BY <1>1, <2>1
    <2>3. QED BY <1>6, <2>2
  <1>8. ASSUME NEW id \in DOMAIN t PROVE \E i \in 1..Len(s) : Trim(s[i].prefix) = id
    <2>1. t[id] \in S
      BY <1>1
    <2>2. PICK i \in 1..Len(s) : s[i] = t[id]
      BY <1>4, <2>1
    <2>3. QED BY <1>6, <2>2
  <1>9. DOMAIN index = {Trim(s[i].prefix) : i \in DOMAIN s}
    BY <1>3 DEF ParseIndex
  <1>10. DOMAIN index = DOMAIN t
    BY <1>5, <1>7, <1>8, <1>9
  <1>11. ASSUME NEW p \in DOMAIN t PROVE index[p] = t[p]
    <2> DEFINE I == {i \in 1..Len(s) : Trim(s[i].prefix) = p}
               n == IF I # {} THEN CHOOSE x \in I : \A y \in I : x >= y ELSE 0
    <2>1. index[p] = s[SelectLastInSeq(s, LAMBDA c : Trim(c.prefix) = p)]
      BY <1>3, <1>9, <1>10, <1>11 DEF ParseIndex
    <2>2. SelectLastInSeq(s, LAMBDA c : Trim(c.prefix) = p) = n
      BY DEF SelectLastInSeq, Max
    <2>3. I # {}
      BY <1>8, <1>11
    <2>4. I \in SUBSET (1..Len(s))
      OBVIOUS
    <2>5. n \in I
      <3> HIDE DEF I
      <3>1. \E x \in I : \A y \in I : x >= y
        BY <1>5, <2>3, <2>4, GreatestNumber
      <3>2. QED BY <2>3, <3>1
    <2> HIDE DEF n
    <2>6. n \in 1..Len(s) /\ Trim(s[n].prefix) = p
      BY <2>5
    <2>7. QED BY <1>7, <2>1, <2>2, <2>6
  <1>12. QED BY <1>10, <1>11

(* Of two paths to the same place the longer text is that of the deeper.   *)
LEMMA LengthDeeper ==
    ASSUME NEW S, NEW c \in Seq(Plain(S)), NEW n \in 1..Len(c), NEW p, p = SubSeq(c, 1, n)
    PROVE  Length(p) = n + n - 1
  <1>1. Len(c) \in Nat /\ n \in Nat
    OBVIOUS
  <1>2. Len(p) = n /\ DOMAIN p = 1..n /\ \A i \in 1..n : p[i] = c[i]
    BY <1>1
  <1>3. \A i \in 1..n : p[i] # Blank
    BY <1>1, <1>2 DEF Plain
  <1>4. {i \in DOMAIN p : p[i] # Blank} = 1..n
    BY <1>2, <1>3
  <1>5. Cardinality(1..n) = n
    BY <1>1, FS_Interval
  <1>6. Length(p) = Cardinality({i \in DOMAIN p : p[i] # Blank}) + Len(p) - 1
    BY DEF Length, Blank
  <1>7. QED BY <1>1, <1>2, <1>4, <1>5, <1>6

\* The configs that are at c or above it.
Above(t, c) == {p \in DOMAIN t : IsPrefix(p, c)}

LEMMA WholeSequence ==
    ASSUME NEW S, NEW s \in Seq(S)
    PROVE  SubSeq(s, 1, Len(s)) = s
  <1>1. SubSeq(s, 1, Len(s)) \in Seq(S) /\ Len(SubSeq(s, 1, Len(s))) = Len(s)
    OBVIOUS
  <1>2. \A i \in 1..Len(s) : SubSeq(s, 1, Len(s))[i] = s[i]
    OBVIOUS
  <1>3. QED BY <1>1, <1>2, SameSequence

LEMMA AboveIsCut ==
    ASSUME NEW t \in Made, NEW c \in Seq(STRING), NEW p
    PROVE  p \in Above(t, c) <=> p \in DOMAIN t /\ \E n \in 1..Len(c) : p = SubSeq(c, 1, n)
  <1>1. ASSUME p \in Above(t, c)
        PROVE  p \in DOMAIN t /\ \E n \in 1..Len(c) : p = SubSeq(c, 1, n)
    <2>1. p \in DOMAIN t /\ p \in Seq(STRING) /\ p # <<>>
      BY <1>1, MadeFacts DEF Above, Trimmed
    <2>2. Len(p) <= Len(c) /\ SubSeq(p, 1, Len(p)) = SubSeq(c, 1, Len(p))
      BY <1>1 DEF Above, IsPrefix
    <2>3. p = SubSeq(c, 1, Len(p))
      BY <2>1, <2>2, WholeSequence
    <2>4. Len(p) \in 1..Len(c)
      BY <2>1, <2>2
    <2>5. QED BY <2>1, <2>3, <2>4
  <1>2. ASSUME p \in DOMAIN t, NEW n \in 1..Len(c), p = SubSeq(c, 1, n)
        PROVE  p \in Above(t, c)
    <2>1. p \in Seq(STRING)
      BY <1>2, MadeFacts
    <2>2. Len(p) = n /\ Len(p) <= Len(c)
      BY <1>2
    <2>3. SubSeq(p, 1, Len(p)) = p
      BY <2>1, WholeSequence
    <2>4. SubSeq(p, 1, Len(p)) = SubSeq(c, 1, Len(p))
      BY <1>2, <2>2, <2>3
    <2>5. QED BY <1>2, <2>2, <2>4 DEF Above, IsPrefix
  <1>3. QED BY <1>1, <1>2

LEMMA PrecedesLonger ==
    ASSUME NEW p, NEW q, precedes(p, q)
    PROVE  Length(p) > Length(q) \/ Length(p) = Length(q)
  BY DEF precedes

(* The candidates of a key are the configs at or above it, and the best of *)
(* them is the deepest.                                                    *)
LEMMA ByPrefixDeepest ==
    ASSUME NEW t \in Made, NEW index, DOMAIN index = DOMAIN t, \A p \in DOMAIN t : index[p] = t[p],
           NEW c \in Seq(Plain(STRING)), NEW key, Trim(key) = c
    PROVE  /\ Above(t, c) = {} => ByPrefix(index, key) = NoConfig
           /\ Above(t, c) # {} =>
                 \E p \in Above(t, c) : ByPrefix(index, key) = t[p] /\ \A q \in Above(t, c) : Len(q) <= Len(p)
  <1>1. c \in Seq(STRING) /\ Len(c) \in Nat /\ DOMAIN c = 1..Len(c)
    <2>1. c \in Seq(STRING)
      BY PlainTrimmed
    <2>2. QED BY <2>1
  <1>2. PICK found : found = candidates(index, key)
    OBVIOUS
  <1>3. found = {index[p] : p \in {SubSeq(c, 1, n) : n \in 1..Len(c)} \cap DOMAIN index}
    BY <1>1, <1>2 DEF candidates
  <1>4. {SubSeq(c, 1, n) : n \in 1..Len(c)} \cap DOMAIN index = Above(t, c)
    <2>1. \A p : p \in {SubSeq(c, 1, n) : n \in 1..Len(c)} \cap DOMAIN index <=> p \in Above(t, c)
      BY <1>1, AboveIsCut
    <2>2. QED BY <2>1
  <1>5. found = {t[p] : p \in Above(t, c)}
    <2>1. \A p \in Above(t, c) : index[p] = t[p]
      BY DEF Above
    <2>2. found = {index[p] : p \in Above(t, c)}
      BY <1>3, <1>4
    <2>3. QED BY <2>1, <2>2
  <1>6. PICK best : best = {x \in found : \A y \in found \ {x} : precedes(x.prefix, y.prefix)}
    OBVIOUS
  <1>7. ByPrefix(index, key) = IF best = {} THEN NoConfig ELSE CHOOSE x \in best : TRUE
    BY <1>2, <1>6 DEF ByPrefix
  <1>8. ASSUME Above(t, c) = {} PROVE ByPrefix(index, key) = NoConfig
    <2>1. best = {}
      BY <1>5, <1>6, <1>8
    <2>2. QED BY <1>7, <2>1
  <1>9. ASSUME NEW p \in Above(t, c)
        PROVE  /\ p \in DOMAIN t /\ t[p].prefix = p /\ t[p] \in found
               /\ Len(p) \in 1..Len(c) /\ p = SubSeq(c, 1, Len(p)) /\ Length(p) = Len(p) + Len(p) - 1
    <2>1. p \in DOMAIN t /\ t[p].prefix = p
      BY MadeFacts DEF Above
    <2>2. PICK n \in 1..Len(c) : p = SubSeq(c, 1, n)
      BY <1>1, AboveIsCut
    <2>3. Len(p) = n
      BY <1>1, <2>2
    <2>4. Length(p) = n + n - 1
      BY <2>2, LengthDeeper
    <2>5. QED BY <1>5, <2>1, <2>2, <2>3, <2>4
  <1>10. ASSUME Above(t, c) # {}
         PROVE  \E p \in Above(t, c) : ByPrefix(index, key) = t[p] /\ \A q \in Above(t, c) : Len(q) <= Len(p)
    <2>1. PICK p \in Above(t, c) : \A q \in Above(t, c) : Len(p) >= Len(q)
      <3>1. PICK depths : depths = {Len(q) : q \in Above(t, c)}
        OBVIOUS
      <3>2. depths \in SUBSET (1..Len(c)) /\ depths # {}
        BY <1>9, <1>10, <3>1
      <3>3. PICK x \in depths : \A y \in depths : x >= y
        BY <1>1, <3>2, GreatestNumber
      <3>4. PICK p \in Above(t, c) : x = Len(p)
        BY <3>1
      <3>5. QED BY <3>1, <3>3, <3>4
    <2>2. ASSUME NEW q \in Above(t, c), q # p
          PROVE  Length(p) \in Int /\ Length(q) \in Int /\ Length(p) > Length(q)
      <3>1. Len(p) # Len(q)
        BY <1>9, <2>2
      <3>2. Len(p) >= Len(q) /\ Len(p) \in Nat /\ Len(q) \in Nat
        BY <1>1, <1>9, <2>1
      <3>3. QED BY <1>9, <3>1, <3>2
    <2>3. t[p] \in best
      <3>1. ASSUME NEW y \in found \ {t[p]} PROVE precedes(t[p].prefix, y.prefix)
        <4>1. PICK q \in Above(t, c) : y = t[q]
          BY <1>5, <3>1
        <4>2. q # p
          BY <3>1, <4>1
        <4>3. t[p].prefix = p /\ y.prefix = q
          BY <1>9, <4>1
        <4>4. Length(p) > Length(q)
          BY <2>2, <4>2
        <4>5. QED BY <4>3, <4>4 DEF precedes
      <3>2. t[p] \in found
        BY <1>9
      <3>3. QED BY <1>6, <3>1, <3>2
    <2>4. ASSUME NEW x \in best PROVE x = t[p]
      <3>1. PICK q \in Above(t, c) : x = t[q]
        BY <1>5, <1>6
      <3>2. CASE q = p
        BY <3>1, <3>2
      <3>3. CASE q # p
        <4>1. x.prefix = q /\ t[p].prefix = p
          BY <1>9, <3>1
        <4>2. t[p] \in found \ {x}
          BY <1>9, <3>3, <4>1
        <4>3. precedes(q, p)
          BY <1>6, <4>1, <4>2
        <4>4. Length(p) \in Int /\ Length(q) \in Int /\ Length(p) > Length(q)
          BY <2>2, <3>3
        <4>5. QED BY <4>3, <4>4, PrecedesLonger
      <3>4. QED BY <3>2, <3>3
    <2>5. ByPrefix(index, key) = t[p]
      BY <1>7, <2>3, <2>4
    <2>6. \A q \in Above(t, c) : Len(q) <= Len(p)
      BY <1>1, <1>9, <2>1
    <2>7. QED BY <2>5, <2>6
  <1>11. QED BY <1>8, <1>10

(* Whatever commands ran, however many, every request is served under the  *)
(* key of the parameter it names, with the config of the longest path of   *)
(* the table the parameter is at or below, which names backends that exist *)
(* and allows what it uses (canonicalize.go:44, index.go:35,               *)
(* prefix.go:58-96).                                                       *)
THEOREM EveryKeyResolves ==
    ASSUME NEW h \in Seq(Orders), NEW v \in Seq(STRING)
    PROVE  Resolves(h, v)
  <1>1. PICK t : t = written(h)
    OBVIOUS
  <1>2. PICK index : index = ParseIndex(prefixList(t))
    OBVIOUS
  <1>3. PICK key : key = CanonicalizeKey(v)
    OBVIOUS
  <1>4. PICK c : c = Clean(v)
    OBVIOUS
  <1>5. PICK found : found = ByPrefix(index, key)
    OBVIOUS
  <1>6. t \in Made
    BY <1>1, WrittenMade
  <1>7. DOMAIN index = DOMAIN t /\ \A p \in DOMAIN t : index[p] = t[p]
    BY <1>2, <1>6, IndexIsTable
  <1>8. /\ NormalizeKey(key) = NormalizeKey(v) /\ c \in Seq(Plain(STRING))
        /\ Trim(key) = c /\ Trim(NormalizeKey(key)) = c
    BY <1>3, <1>4, KeyNames
  <1>9. /\ Above(t, c) = {} => found = NoConfig
        /\ Above(t, c) # {} =>
              \E p \in Above(t, c) : found = t[p] /\ \A q \in Above(t, c) : Len(q) <= Len(p)
    BY <1>5, <1>6, <1>7, <1>8, ByPrefixDeepest
  <1>10. Above(t, c) = {p \in DOMAIN t : IsPrefix(p, Trim(NormalizeKey(key)))}
    BY <1>8 DEF Above
  <1>11. Resolved(index, key) = IF found = NoConfig THEN "bad request" ELSE found.prefix
    BY <1>5 DEF Resolved
  <1>12. ASSUME Above(t, c) = {} PROVE Resolved(index, key) = "bad request"
    BY <1>9, <1>11, <1>12
  <1>13. ASSUME Above(t, c) # {}
         PROVE  /\ Resolved(index, key) \in Above(t, c) /\ found = t[found.prefix]
                /\ \A p \in Above(t, c) : Len(p) <= Len(found.prefix)
                /\ Usable(found)
    <2>1. PICK p \in Above(t, c) : found = t[p] /\ \A q \in Above(t, c) : Len(q) <= Len(p)
      BY <1>9, <1>13
    <2>2. p \in DOMAIN t
      BY <2>1 DEF Above
    <2>3. found \in Configs /\ found.prefix = p /\ Trimmed(p)
      BY <1>6, <2>1, <2>2, MadeFacts
    <2>4. found # NoConfig
      <3>1. NoConfig.prefix = <<>>
        BY DEF NoConfig
      <3>2. QED BY <2>3, <3>1 DEF Trimmed
    <2>5. Usable(found)
      BY <2>3 DEF Configs
    <2>6. QED BY <1>11, <2>1, <2>3, <2>4, <2>5
  <1>14. NormalizeKey(key) = NormalizeKey(v)
    BY <1>8
  <1>15. IF Above(t, c) = {} THEN Resolved(index, key) = "bad request"
         ELSE /\ Resolved(index, key) \in Above(t, c) /\ found = t[found.prefix]
              /\ \A p \in Above(t, c) : Len(p) <= Len(found.prefix)
              /\ found.default \in found.allowed /\ found.secure \in found.allowed \cup {Blank}
              /\ found.allowed \subseteq Backends
    BY <1>12, <1>13 DEF Usable
  <1>16. QED BY <1>1, <1>2, <1>3, <1>5, <1>10, <1>14, <1>15 DEF Resolves, Blank

(* The gateway routes by such a table, whatever else it does.              *)
THEOREM RoutesStaySpecific == Spec => []RoutesSpecific
  <1>1. ASSUME NEW h \in Histories, NEW v \in Paths PROVE Resolves(h, v)
    <2>1. PICK n \in 0..3 : h \in [1..n -> Orders]
      BY DEF Histories
    <2>2. h \in Seq(Orders)
      BY <2>1
    <2>3. v \in Seq(STRING)
      BY RoutesAssumption
    <2>4. QED BY <2>2, <2>3, EveryKeyResolves
  <1>2. RoutesSpecific
    BY <1>1 DEF RoutesSpecific, Specific
  <1>3. QED BY <1>2, PTL

=============================================================================
