------------------------------- MODULE Gateway -------------------------------
(***************************************************************************)
(* The Gateway (internal/entry/store/gateway.go): one entry, two stores.   *)
(*                                                                         *)
(* Every entry has a row in the index.  The routing table says whether its *)
(* value is in that row too or in the SSM Parameter Store, in which case   *)
(* the row holds the address.  Upsert writes parameters first and rows     *)
(* after; Delete the same; Resolve reads the row and then what it points   *)
(* to.  There is no transaction, and the routing table changes under the   *)
(* calls when the config snapshot is refreshed.                            *)
(*                                                                         *)
(* The index appears here as EntryIndex leaves it to its callers: rows are *)
(* written and removed one at a time, results are honest, a Delete that    *)
(* nothing disturbs removes its subtree.  Keys are sanitized already.  A   *)
(* value is the number of the Upsert that brought it.                      *)
(***************************************************************************)
EXTENDS Routes

CONSTANTS
    Calls,      \* calls of Upsert or Delete that may be in flight together
    Readers,    \* calls of Resolve that may be
    Keys,       \* sequences of segments
    Batches,    \* what Upsert is given: sets of [key, secure], keys distinct
    Tables,     \* routing tables
    MaxWrites,  \* bound: Upserts in a behaviour
    MaxSwaps,   \* bound: changes of the routing table
    \* What the environment may do:
    Failing,    \* what fails: "param", "index", "process", and "between" the
                \* stores, when a backend has done its part and the index has not
    Racing      \* calls of one key overlap whatever they do (see Orderly)

SSM == {"parameterstore", "parameterstore_secure"}

\* k is p or below it, on a segment boundary.
Under(k, p) == Len(p) <= Len(k) /\ \A i \in 1..Len(p) : k[i] = p[i]

ASSUME GatewayAssumption ==
    /\ \A k \in Keys : k \in Seq(STRING) /\ k # <<>>
    /\ \A b \in Batches :
          /\ b \subseteq [key : Keys, secure : BOOLEAN] /\ IsFiniteSet(b)
          /\ \A d, e \in b : d.key = e.key => d = e
    /\ \A t \in Tables : \A p \in DOMAIN t : Validate(t[p])
    /\ MaxWrites \in Nat \ {0} /\ MaxSwaps \in Nat
    /\ Failing \subseteq {"param", "index", "process", "between"}
    /\ Racing \in BOOLEAN

NoValue == 0
Address == MaxWrites + 1      \* what the row of a parameter holds
Ciphertext == MaxWrites + 2   \* what a SecureString reads as, not decrypted
Values == 0..(MaxWrites + 2)

NoRow == [backend |-> "", value |-> NoValue, secure |-> FALSE]
Rows == [backend : {"dynamodb"}, value : 1..MaxWrites, secure : BOOLEAN]
        \cup [backend : SSM, value : {Address}, secure : BOOLEAN]

NoParam == [value |-> NoValue, secure |-> FALSE]
Params == [value : 1..MaxWrites, secure : BOOLEAN]

VARIABLES
    routes,    \* the routing table in the current config snapshot
    rows,      \* the index
    params,    \* the parameter store
    phase,     \* of each call: idle, upsert, param, lost, root or walk
    toPut,     \* Upsert: entries whose parameter is still to be written
    toIndex,   \* Upsert: rows still to be written
    results,   \* Upsert: what it will report for each key
    target,    \* Delete: its key, and whether it went to a backend first
    doomed,    \* Delete: keys whose rows the walk has still to remove
    reading,   \* Resolve: its key and the row it has read, if that is an address
    writes,    \* number of the last Upsert
    swaps,     \* number of changes of the routing table
    claims,    \* of each call: its keys and where they go
    \* History:
    pending, owed, reported,  \* those of EntryMap
    seen       \* Resolve: the values its key had, or was being given, since it began

storeVars == <<routes, rows, params>>
callVars  == <<phase, toPut, toIndex, results, target, doomed, claims>>
pastVars == <<pending, owed, reported>>
vars == <<storeVars, callVars, reading, writes, swaps, pastVars, seen>>

-----------------------------------------------------------------------------
(* Routing: resolveBackend.                                                *)

\* "" when the config names no backend for secure entries.
Backend(k, secure) ==
    LET c == ByPrefix(routes, k)
    IN  IF c = NoConfig THEN "dynamodb" ELSE IF secure THEN c.secure ELSE c.default

(* What a Resolve that nothing interrupts answers.                         *)
Reads(backend, k) ==
    IF params[k].secure /\ backend = "parameterstore" THEN Ciphertext
    ELSE params[k].value

\* The row holds the value itself.
inIndex(row) == row.backend \notin SSM

Value(k) == IF inIndex(rows[k]) THEN rows[k].value ELSE Reads(rows[k].backend, k)

\* Call c is deleting k.
Deleting(c, k) == [key |-> k, place |-> "gone"] \in claims[c]

\* What k is, what is being written to its parameter, and nothing, if it is
\* being deleted.
Prospects(k) ==
    {Value(k)} \cup {e.value : e \in {d \in UNION {toPut[c] : c \in Calls} : d.key = k}}
               \cup {NoValue : c \in {d \in Calls : Deleting(d, k)}}

-----------------------------------------------------------------------------
NoResults == [k \in Keys |-> "none"]
NoTarget == [key |-> <<>>, external |-> FALSE]
NoReading == [key |-> <<>>, row |-> NoRow]

Init ==
    /\ routes \in Tables
    /\ rows = [k \in Keys |-> NoRow]
    /\ params = [k \in Keys |-> NoParam]
    /\ phase = [c \in Calls |-> "idle"]
    /\ toPut = [c \in Calls |-> {}]
    /\ toIndex = [c \in Calls |-> {}]
    /\ results = [c \in Calls |-> NoResults]
    /\ target = [c \in Calls |-> NoTarget]
    /\ doomed = [c \in Calls |-> {}]
    /\ reading = [r \in Readers |-> NoReading]
    /\ writes = 0 /\ swaps = 0
    /\ claims = [c \in Calls |-> {}]
    /\ pending = {} /\ owed = {} /\ reported = {}
    /\ seen = [r \in Readers |-> {}]

Claimed(c, k) == \E x \in claims[c] : x.key = k

\* Call c promises its keys a value.
Promise(c, ks, v) ==
    /\ pending' = pending \cup [call : {c}, key : ks, value : {v}]
    /\ owed' = owed \cup [call : {c}, key : ks, value : {v}]
    /\ reported' = {}

\* A step of c fulfils the promises whose value has become visible, and its
\* own whose value is.
Fulfil(c) ==
    LET done == {x \in pending : /\ Value(x.key)' = x.value
                                 /\ x.call = c \/ Value(x.key) # x.value}
    IN  /\ owed' = {x \in owed : \A y \in done : y.key # x.key}
        /\ reported' = {}
        /\ UNCHANGED pending

\* The value is in a parameter that its row does not name.
hidden(x) == params[x.key].value = x.value /\ params[x.key] # NoParam /\ inIndex(rows[x.key])

\* Call c returns and reports ks done.  What else it wanted can come about
\* only where it lies hidden.
Report(c, ks) ==
    /\ phase' = [phase EXCEPT ![c] = "idle"]
    /\ claims' = [claims EXCEPT ![c] = {}]
    /\ target' = [target EXCEPT ![c] = NoTarget]
    /\ pending' = {x \in pending : x.call = c => x.key \notin ks /\ hidden(x)}
    /\ owed' = {x \in owed : x.call # c}
    /\ reported' = [call : {c}, key : ks]

-----------------------------------------------------------------------------
(* Upsert.  The code routes the entries of a batch one after the other;    *)
(* here at once, since no property relates two entries.                    *)

\* Mutant: the row keeps the value that went to the parameter store.
addressRowKeeps(e) ==
    [backend |-> IF e.secure THEN "parameterstore_secure" ELSE "parameterstore",
     value |-> e.value, secure |-> e.secure]

\* Mutant: the row of a secure parameter names the plain backend.
addressRowPlain(e) ==
    [backend |-> "parameterstore", value |-> Address, secure |-> e.secure]

addressRow(e) ==
    [backend |-> IF e.secure THEN "parameterstore_secure" ELSE "parameterstore",
     value |-> Address, secure |-> e.secure]

Upsert(c, batch) ==
    LET n == writes + 1
        routed == {[key |-> e.key, backend |-> Backend(e.key, e.secure), value |-> n,
                    secure |-> e.secure \/ Backend(e.key, e.secure) = "parameterstore_secure"]
                   : e \in batch}
        refused == {e \in routed : e.backend = ""}
        local == {e \in routed : e.backend = "dynamodb"}
    IN  /\ phase[c] = "idle" /\ writes < MaxWrites
        /\ phase' = [phase EXCEPT ![c] = "upsert"]
        /\ toPut' = [toPut EXCEPT ![c] =
              {[key |-> e.key, value |-> n, secure |-> e.secure]
               : e \in routed \ (refused \cup local)}]
        /\ toIndex' = [toIndex EXCEPT ![c] =
              {[key |-> e.key, row |-> [backend |-> "dynamodb", value |-> n,
                                        secure |-> e.secure]] : e \in local}]
        /\ results' = [results EXCEPT ![c] =
              [k \in Keys |-> IF \E e \in refused : e.key = k THEN "failed" ELSE "none"]]
        /\ writes' = n
        /\ claims' = [claims EXCEPT ![c] =
              {[key |-> e.key, place |-> IF e.backend \in SSM THEN "ssm" ELSE e.backend]
               : e \in routed}]
        /\ Promise(c, {e.key : e \in routed \ refused}, n)
        /\ UNCHANGED <<storeVars, target, doomed, reading, swaps>>

\* The parameter of an entry, a SecureString or not.
prepare(e) == [value |-> e.value, secure |-> e.secure]

(* SSM.Send, one goroutine per entry: PutParameter, which refuses to turn  *)
(* a String into a SecureString or back.  A failed request may have done   *)
(* its work, and so may one whose answer is lost: that is sent again.      *)
PutParameter(c, e) ==
    LET typed == params[e.key] = NoParam \/ params[e.key].secure = e.secure
        put == [params EXCEPT ![e.key] = prepare(e)]
        answered == [toPut EXCEPT ![c] = @ \ {e}]
    IN  /\ e \in toPut[c]
        /\ \/ /\ typed /\ params' = put /\ toPut' = answered
              /\ toIndex' = [toIndex EXCEPT ![c] =
                                @ \cup {[key |-> e.key, row |-> addressRow(e)]}]
              /\ results' = [results EXCEPT ![c][e.key] = "ok"]
           \/ /\ ~typed \/ "param" \in Failing
              /\ params' \in {params} \cup (IF typed THEN {put} ELSE {})
              /\ results' = [results EXCEPT ![c][e.key] = "failed"]
              /\ toPut' = answered /\ UNCHANGED toIndex
           \/ typed /\ params' = put /\ UNCHANGED <<toPut, toIndex, results>>
        /\ UNCHANGED <<routes, rows, phase, target, doomed, claims, reading, writes,
                       swaps>>
        /\ Fulfil(c)

\* Mutant: no failure of the index is reported.
mergeLogs(old, new) == "ok"

\* A row that was not written is an error, except when its parameter was:
\* then it is only logged.
merge(old, new) == IF old = "none" THEN new ELSE old

\* wg.Wait: the index is written when every backend has answered.
backendsDone(c) == phase[c] = "upsert" /\ toPut[c] = {}

(* The index.Upsert of all rows, row by row.  BatchWrite sends a chunk     *)
(* again when its answer is lost, so that a row may be put several times.  *)
PutRow(c, i) ==
    LET kind == IF i.row.backend = "dynamodb" THEN "index" ELSE "between"
        put == [rows EXCEPT ![i.key] = i.row]
        answered == [toIndex EXCEPT ![c] = @ \ {i}]
    IN  /\ backendsDone(c) /\ i \in toIndex[c]
        /\ \/ /\ rows' = put /\ toIndex' = answered
              /\ results' = [results EXCEPT ![c][i.key] = merge(@, "ok")]
           \/ /\ kind \in Failing
              /\ rows' \in {rows, put} /\ toIndex' = answered
              /\ results' = [results EXCEPT ![c][i.key] = merge(@, "failed")]
           \/ rows' = put /\ UNCHANGED <<toIndex, results>>
        /\ UNCHANGED <<routes, params, phase, toPut, target, doomed, claims, reading,
                       writes, swaps>>
        /\ Fulfil(c)

UpsertReturn(c) ==
    /\ backendsDone(c) /\ toIndex[c] = {}
    /\ Report(c, {k \in Keys : results[c][k] = "ok"})
    /\ results' = [results EXCEPT ![c] = NoResults]
    /\ UNCHANGED <<storeVars, toPut, toIndex, doomed, reading, writes, swaps>>

-----------------------------------------------------------------------------
(* Delete is routed as a plain entry is, whatever the entry was.           *)
Subtree(k) == {j \in Keys : Under(j, k)}

Delete(c, k) ==
    LET external == Backend(k, FALSE) # "dynamodb"
    IN  /\ phase[c] = "idle"
        /\ phase' = [phase EXCEPT ![c] = IF external THEN "param" ELSE "root"]
        /\ target' = [target EXCEPT ![c] = [key |-> k, external |-> external]]
        /\ claims' = [claims EXCEPT ![c] = [key : Subtree(k), place : {"gone"}]]
        /\ Promise(c, Subtree(k), NoValue)
        /\ UNCHANGED <<storeVars, toPut, toIndex, results, doomed, reading,
                       writes, swaps>>

\* Sent again after a lost answer it would find nothing to remove: calls of
\* one key do not overlap a Delete (Orderly).
DeleteParameter(c) ==
    /\ phase[c] = "param"
    /\ params' = [params EXCEPT ![target[c].key] = NoParam]
    /\ \/ phase' = [phase EXCEPT ![c] = "root"]
       \/ "between" \in Failing /\ phase' = [phase EXCEPT ![c] = "lost"]
    /\ UNCHANGED <<routes, rows, toPut, toIndex, results, target, doomed, claims,
                   reading, writes, swaps>>
    /\ Fulfil(c)

\* The request failed, or was carried out and its answer is lost.
DeleteParameterFails(c) ==
    /\ phase[c] = "lost" \/ (phase[c] = "param" /\ "param" \in Failing)
    /\ Report(c, {})
    /\ UNCHANGED <<storeVars, toPut, toIndex, results, doomed, reading, writes,
                   swaps>>

\* Mutant: the index keeps the row of what a backend has deleted.
DeleteRootKeeps(c) ==
    LET k == target[c].key
    IN  /\ phase[c] = "root"
        /\ rows' = IF target[c].external /\ ~inIndex(rows[k]) THEN rows
                   ELSE [rows EXCEPT ![k] = NoRow]
        /\ phase' = [phase EXCEPT ![c] = "walk"]
        /\ doomed' = [doomed EXCEPT ![c] = {j \in Subtree(k) \ {k} : rows'[j] # NoRow}]
        /\ UNCHANGED <<routes, params, toPut, toIndex, results, target, claims,
                       reading, writes, swaps>>
        /\ Fulfil(c)

(* DynamoDB.Delete: the row of the target, and then the rows below it.     *)
DeleteRoot(c) ==
    LET k == target[c].key
    IN  /\ phase[c] = "root"
        /\ rows' = [rows EXCEPT ![k] = NoRow]
        /\ phase' = [phase EXCEPT ![c] = "walk"]
        /\ doomed' = [doomed EXCEPT ![c] = {j \in Subtree(k) : rows'[j] # NoRow}]
        /\ UNCHANGED <<routes, params, toPut, toIndex, results, target, claims,
                       reading, writes, swaps>>
        /\ Fulfil(c)

DeleteRow(c, k) ==
    /\ phase[c] = "walk" /\ k \in Subtree(target[c].key)
    /\ k \in doomed[c] \/ rows[k] # NoRow
    /\ rows' = [rows EXCEPT ![k] = NoRow]
    /\ doomed' = [doomed EXCEPT ![c] = @ \ {k}]
    /\ UNCHANGED <<routes, params, phase, toPut, toIndex, results, target, claims,
                   reading, writes, swaps>>
    /\ Fulfil(c)

DeleteReturn(c) ==
    /\ phase[c] = "walk" /\ doomed[c] = {}
    /\ Report(c, Subtree(target[c].key))
    /\ UNCHANGED <<storeVars, toPut, toIndex, results, doomed, reading, writes,
                   swaps>>

\* The index gives up.  After a backend has deleted that is only logged.
DeleteRowsFail(c) ==
    LET external == target[c].external
    IN  /\ phase[c] \in {"root", "walk"}
        /\ (IF external THEN "between" ELSE "index") \in Failing
        /\ Report(c, IF external THEN Subtree(target[c].key) ELSE {})
        /\ doomed' = [doomed EXCEPT ![c] = {}]
        /\ UNCHANGED <<storeVars, toPut, toIndex, results, reading, writes, swaps>>

\* A Delete has removed the parameter and not all rows.
between(c) == phase[c] \in {"lost", "root", "walk"} /\ target[c].external

(* The process of a call dies.                                             *)
Crash(c) ==
    /\ "process" \in Failing /\ phase[c] # "idle"
    /\ between(c) => "between" \in Failing
    /\ Report(c, {})
    /\ toPut' = [toPut EXCEPT ![c] = {}]
    /\ toIndex' = [toIndex EXCEPT ![c] = {}]
    /\ results' = [results EXCEPT ![c] = NoResults]
    /\ doomed' = [doomed EXCEPT ![c] = {}]
    /\ UNCHANGED <<storeVars, reading, writes, swaps>>

-----------------------------------------------------------------------------
(* Resolve: the row, by a consistent read, and then what it points to.  If  *)
(* the row holds the value that is returned at once.                       *)

Resolve(r, k) ==
    /\ reading[r] = NoReading /\ ~inIndex(rows[k])
    /\ reading' = [reading EXCEPT ![r] = [key |-> k, row |-> rows[k]]]
    /\ seen' = [seen EXCEPT ![r] = Prospects(k)]
    /\ UNCHANGED <<storeVars, callVars, writes, swaps, pastVars>>

\* Mutant: the backend is asked for the entry as Retrieve does, undecrypted.
AnswerRetrieve(r) == Reads("parameterstore", reading[r].key)

\* What it will return if it asks the backend now.
Answer(r) == Reads(reading[r].row.backend, reading[r].key)

ResolveReturn(r) ==
    /\ reading[r] # NoReading
    /\ reading' = [reading EXCEPT ![r] = NoReading]
    /\ seen' = [seen EXCEPT ![r] = {}]
    /\ UNCHANGED <<storeVars, callVars, writes, swaps, pastVars>>

-----------------------------------------------------------------------------
(* The config snapshot is refreshed.                                       *)
SwapRoutes(t) ==
    /\ swaps < MaxSwaps /\ t # routes
    /\ routes' = t
    /\ swaps' = swaps + 1
    /\ UNCHANGED <<rows, params, callVars, reading, writes, pastVars>>

Step(c) ==
    \/ \E e \in toPut[c] : PutParameter(c, e)
    \/ \E i \in toIndex[c] : PutRow(c, i)
    \/ UpsertReturn(c)
    \/ DeleteParameter(c) \/ DeleteParameterFails(c)
    \/ DeleteRoot(c) \/ (\E k \in Keys : DeleteRow(c, k)) \/ DeleteReturn(c)
    \/ DeleteRowsFail(c) \/ Crash(c)

Call(c) == (\E b \in Batches : Upsert(c, b)) \/ (\E k \in Keys : Delete(c, k))

(***************************************************************************)
(* Calls that share a key do not overlap, except Upserts on their way to   *)
(* the same place.  Otherwise a change that was reported done and is       *)
(* overwritten can take effect again, when the row of another call is      *)
(* written, and a row can be left without the parameter it names.          *)
(***************************************************************************)
Orderly ==
    \A c, d \in Calls : \A x \in claims[c], y \in claims[d] :
        c # d /\ x.key = y.key => x.place = y.place /\ x.place # "gone"

\* While a Resolve runs it is told what its key is, and is about to be.
Observe ==
    seen' = [r \in Readers |->
               IF reading[r] = NoReading THEN seen[r]
               ELSE seen[r] \cup Prospects(reading[r].key)']

Next ==
    \/ \E c \in Calls : Call(c) /\ Observe /\ (Racing \/ Orderly')
    \/ \E c \in Calls : Step(c) /\ Observe
    \/ \E t \in Tables : SwapRoutes(t) /\ Observe
    \/ \E r \in Readers : ResolveReturn(r) \/ \E k \in Keys : Resolve(r, k)

Spec == Init /\ [][Next]_vars

-----------------------------------------------------------------------------
(* Every variable holds a value of its kind.  In particular a row holds a  *)
(* value only if the index is the backend it names, and an address if it   *)
(* names another ("The real value lives in the routed backend").           *)
Phases == {"idle", "upsert", "param", "lost", "root", "walk"}
KeyedRows == [key : Keys, row : Rows]

TypeOK ==
    /\ routes \in Tables
    /\ rows \in [Keys -> Rows \cup {NoRow}]
    /\ params \in [Keys -> Params \cup {NoParam}]
    /\ phase \in [Calls -> Phases]
    /\ toPut \in [Calls -> SUBSET [key : Keys, value : 1..MaxWrites, secure : BOOLEAN]]
    /\ toIndex \in [Calls -> SUBSET KeyedRows]
    /\ results \in [Calls -> [Keys -> {"none", "ok", "failed"}]]
    /\ target \in [Calls -> [key : Keys, external : BOOLEAN] \cup {NoTarget}]
    /\ doomed \in [Calls -> SUBSET Keys]
    /\ reading \in [Readers -> [key : Keys, row : Rows] \cup {NoReading}]
    /\ writes \in 0..MaxWrites /\ swaps \in 0..MaxSwaps
    /\ claims \in [Calls -> SUBSET [key : Keys, place : {"", "dynamodb", "ssm", "gone"}]]
    /\ pending \subseteq [call : Calls, key : Keys, value : Values]
    /\ owed \subseteq pending /\ reported \subseteq [call : Calls, key : Keys]
    /\ seen \in [Readers -> SUBSET Values]

(***************************************************************************)
(* The two stores are one map (EntryMap): what Resolve answers for a key   *)
(* changes only when a change of a call takes effect, whatever a call      *)
(* reports done is done, and then never comes back once it is overwritten, *)
(* though requests are sent again after lost answers and the routing of    *)
(* the key changes (gateway.go, Upsert, Delete and Resolve together).      *)
(***************************************************************************)
Map == INSTANCE EntryMap WITH entries <- [k \in Keys |-> Value(k)]
ImplementsMap == Map!Spec

(***************************************************************************)
(* Resolve reads two stores, one after the other; still it answers a value *)
(* that its key had while it ran, or that was being written to its         *)
(* parameter, or nothing, if the key was being deleted: never an older     *)
(* value, an address or what another entry left.  Only if the key was      *)
(* deleted under it may it return what replaced the entry, and then        *)
(* undecrypted, for it goes by the row it read (gateway.go:88).            *)
(***************************************************************************)
ResolveRegular ==
    \A r \in Readers : reading[r] # NoReading =>
        \/ Answer(r) \in seen[r]
        \/ Answer(r) = Ciphertext /\ NoValue \in seen[r]

(***************************************************************************)
(* When no call is at work on a key, a row that names a parameter has one, *)
(* of the kind it says, whatever failed, crashed or was re-routed before:  *)
(* what List shows can be resolved (gateway.go, Upsert and Delete).        *)
(***************************************************************************)
NoDanglingRows ==
    \A k \in Keys :
        rows[k].backend \in SSM /\ (\A c \in Calls : ~Claimed(c, k)) =>
            /\ params[k] # NoParam
            /\ params[k].secure = (rows[k].backend = "parameterstore_secure")
            /\ params[k].secure = rows[k].secure

(***************************************************************************)
(* Whatever interrupted calls have left in the two stores, an Upsert that  *)
(* gets as far as writing the row of a key makes the key resolve again, to *)
(* its own value or to one that another Upsert has put there since: the    *)
(* repair of a half-done change is to repeat it (gateway.go, Upsert).      *)
(***************************************************************************)
UpsertRestores ==
    [][\A c \in Calls : \A i \in toIndex[c] :
          (backendsDone(c) /\ i \notin toIndex'[c] /\ rows'[i.key] = i.row) =>
              /\ Value(i.key)' \in 1..MaxWrites
              /\ inIndex(i.row) => Value(i.key)' = i.row.value]_vars

(***************************************************************************)
(* "delete keys & children" (handler.go:120): a Delete that reports        *)
(* success leaves neither rows nor parameters of its subtree.              *)
(***************************************************************************)
DeleteLeavesNothing ==
    [][\A c \in Calls : phase[c] = "walk" /\ phase'[c] = "idle" =>
          \A k \in Subtree(target[c].key) : rows[k] = NoRow /\ params[k] = NoParam]_vars

(***************************************************************************)
(* The tables in use come from nbox-cli, and give of every key what        *)
(* Specific says: the most specific config there is.                       *)
(***************************************************************************)
RoutesSpecific == routes \in Tables => Specific
=============================================================================
