------------------------------- MODULE Guard --------------------------------
(***************************************************************************)
(* The guard around AWS requests (pkg/resiliency/guard.go) and its two     *)
(* kinds of users: DynamoDBKit.BatchGet, which lookups and template builds *)
(* read through (internal/platform/aws/dynamodb_kit.go), and the calls of  *)
(* the Parameter Store (internal/entry/store/ssm.go).                      *)
(*                                                                         *)
(* A call takes a permit, asks the circuit breaker, and then sends its     *)
(* request, again while the service has processed only a part of it.  The  *)
(* breaker and the semaphore are libraries (gobreaker, x/sync).  Instead   *)
(* of gobreaker's generation numbers each call says whether it was         *)
(* admitted by the present generation.  A guard of the code serves either  *)
(* lookups or requests; here both may share one.                           *)
(***************************************************************************)
EXTENDS Naturals, Sequences, FiniteSets

CONSTANTS
    Calls,          \* concurrent callers of one guard
    Readers,        \* those that look keys up; the others send single requests
    Keys,           \* keys of a batch read
    Lookups,        \* what BatchGet is asked for: sequences of keys
    Table,          \* keys that have a row
    BatchGetSize,   \* keys in one request
    MaxConcurrency, \* permits
    MaxRetries,     \* retries of a partial batch
    MaxFailures     \* CBMaxConsecutiveFailures

ASSUME GuardAssumption ==
    /\ \A l \in Lookups : l \in Seq(Keys) \ {<<>>} /\ \A i, j \in DOMAIN l : l[i] = l[j] => i = j
    /\ Table \subseteq Keys
    /\ BatchGetSize \in Nat \ {0} /\ MaxConcurrency \in Nat \ {0}
    /\ MaxRetries \in Nat /\ MaxFailures \in Nat

VARIABLES
    permits,    \* free permits of the semaphore
    breaker,    \* closed, open or half
    failures,   \* consecutive failures in this generation of the breaker
    probing,    \* half open: the one admitted request is under way
    phase,      \* of each call: idle, waiting, holding, request or backoff
    fresh,      \* the present generation has admitted the call
    current,    \* BatchGet: keys of this chunk not processed yet (currentKeys)
    rest,       \* BatchGet: keys of the chunks to come
    tries,      \* attempts at this chunk so far
    got,        \* BatchGet: how often each item has been collected
    up,         \* the service works
    \* History:
    wanted,     \* what the call was asked for
    outcome,    \* how the last call of each caller ended
    blame       \* fresh requests that failed since one succeeded, at most MaxFailures + 1

breakerVars == <<breaker, failures, probing>>
batchVars == <<current, rest, tries, got>>
vars == <<permits, breakerVars, phase, fresh, batchVars, up, wanted, outcome, blame>>

-----------------------------------------------------------------------------
Nothing == [k \in Keys |-> 0]
Upto(n, bound) == IF n < bound THEN n ELSE bound

Init ==
    /\ permits = MaxConcurrency
    /\ breaker = "closed" /\ failures = 0 /\ probing = FALSE
    /\ phase = [c \in Calls |-> "idle"]
    /\ fresh = [c \in Calls |-> FALSE]
    /\ current = [c \in Calls |-> {}] /\ rest = [c \in Calls |-> <<>>]
    /\ tries = [c \in Calls |-> 0]
    /\ got = [c \in Calls |-> Nothing]
    /\ up = TRUE
    /\ wanted = [c \in Calls |-> {}]
    /\ outcome = [c \in Calls |-> "none"]
    /\ blame = 0

\* The keys of the first chunk, and those of the chunks after it.
Chunk(keys) == {keys[i] : i \in 1..Upto(Len(keys), BatchGetSize)}
Chunks(keys) == SubSeq(keys, BatchGetSize + 1, Len(keys))

\* RetrieveMany has dropped repeated keys; BatchGet cuts the rest in chunks.
BatchGet(c, keys) ==
    /\ phase[c] = "idle" /\ c \in Readers
    /\ phase' = [phase EXCEPT ![c] = "waiting"]
    /\ current' = [current EXCEPT ![c] = Chunk(keys)]
    /\ rest' = [rest EXCEPT ![c] = Chunks(keys)]
    /\ got' = [got EXCEPT ![c] = Nothing]
    /\ wanted' = [wanted EXCEPT ![c] = {keys[i] : i \in DOMAIN keys}]
    /\ outcome' = [outcome EXCEPT ![c] = "none"]
    /\ UNCHANGED <<permits, breakerVars, fresh, tries, up, blame>>

\* One goroutine of SSM.Upsert, or SSM.Delete: a request without keys.
SSMRequest(c) ==
    /\ phase[c] = "idle" /\ c \notin Readers
    /\ phase' = [phase EXCEPT ![c] = "waiting"]
    /\ got' = [got EXCEPT ![c] = Nothing]
    /\ wanted' = [wanted EXCEPT ![c] = {}]
    /\ outcome' = [outcome EXCEPT ![c] = "none"]
    /\ UNCHANGED <<permits, breakerVars, fresh, current, rest, tries, up, blame>>

\* sem.Acquire.
Acquire(c) ==
    /\ phase[c] = "waiting" /\ permits > 0
    /\ permits' = permits - 1
    /\ phase' = [phase EXCEPT ![c] = "holding"]
    /\ UNCHANGED <<breakerVars, fresh, batchVars, up, wanted, outcome, blame>>

\* The call gives its permit back and ends, all its chunks with it.
End(c, how) ==
    /\ permits' = permits + 1
    /\ phase' = [phase EXCEPT ![c] = "idle"]
    /\ outcome' = [outcome EXCEPT ![c] = how]
    /\ current' = [current EXCEPT ![c] = {}]
    /\ rest' = [rest EXCEPT ![c] = <<>>]
    /\ tries' = [tries EXCEPT ![c] = 0]
    /\ got' = [got EXCEPT ![c] = Nothing]

refuses == breaker = "open" \/ (breaker = "half" /\ probing)

\* Mutant: a refused call keeps its permit.
RefuseHolds(c) ==
    /\ phase[c] = "holding" /\ refuses
    /\ phase' = [phase EXCEPT ![c] = "idle"]
    /\ outcome' = [outcome EXCEPT ![c] = "failed"]
    /\ current' = [current EXCEPT ![c] = {}] /\ rest' = [rest EXCEPT ![c] = <<>>]
    /\ tries' = [tries EXCEPT ![c] = 0] /\ got' = [got EXCEPT ![c] = Nothing]
    /\ UNCHANGED <<permits, breakerVars, fresh, up, wanted, blame>>

\* cb.Execute: ErrOpenState or ErrTooManyRequests.
Refuse(c) ==
    /\ phase[c] = "holding" /\ refuses
    /\ End(c, "failed")
    /\ UNCHANGED <<breakerVars, fresh, up, wanted, blame>>

Admit(c) ==
    /\ phase[c] = "holding" /\ ~refuses
    /\ phase' = [phase EXCEPT ![c] = "request"]
    /\ fresh' = [fresh EXCEPT ![c] = TRUE]
    /\ probing' = (breaker = "half")
    /\ UNCHANGED <<permits, breaker, failures, batchVars, up, wanted, outcome, blame>>

\* A new generation: counts start again, calls under way no longer matter.
Become(state) ==
    /\ breaker' = state
    /\ failures' = 0 /\ probing' = FALSE
    /\ fresh' = [c \in Calls |-> FALSE]

\* afterRequest: results of an earlier generation do not count.
Success(c) ==
    /\ blame' = IF fresh[c] THEN 0 ELSE blame
    /\ IF ~fresh[c] THEN UNCHANGED <<breakerVars, fresh>>
       ELSE IF breaker = "half" THEN Become("closed")
       ELSE failures' = 0 /\ UNCHANGED <<breaker, probing, fresh>>

\* ReadyToTrip: counts.ConsecutiveFailures > maxFailures.
readyToTrip(n) == n > MaxFailures

Bad(c) ==
    /\ blame' = IF fresh[c] THEN Upto(blame + 1, MaxFailures + 1) ELSE blame
    /\ IF ~fresh[c] THEN UNCHANGED <<breakerVars, fresh>>
       ELSE IF breaker = "half" \/ readyToTrip(failures + 1) THEN Become("open")
       ELSE failures' = failures + 1 /\ UNCHANGED <<breaker, probing, fresh>>

\* Mutant: all failures of an interval are counted.
GoodTotal(c) ==
    /\ blame' = IF fresh[c] THEN 0 ELSE blame
    /\ IF fresh[c] /\ breaker = "half" THEN Become("closed") ELSE UNCHANGED <<breakerVars, fresh>>

\* backoff.Retry returns nil when the last attempt has.
Good(c) == Success(c)

\* The SDK has answered for all keys it was sent: the items that exist.
collected(c, keys) ==
    [k \in Keys |-> got[c][k] + (IF k \in keys /\ k \in Table THEN 1 ELSE 0)]

\* The request is done.  BatchGet goes on with its next chunk, which is a
\* call of the guard of its own, or returns what it has collected.
Done(c) ==
    /\ phase[c] = "request" /\ up
    /\ got' = [got EXCEPT ![c] = collected(c, current[c])]
    /\ permits' = permits + 1
    /\ tries' = [tries EXCEPT ![c] = 0]
    /\ IF rest[c] = <<>>
       THEN /\ phase' = [phase EXCEPT ![c] = "idle"]
            /\ outcome' = [outcome EXCEPT ![c] = "ok"]
            /\ current' = [current EXCEPT ![c] = {}]
            /\ UNCHANGED rest
       ELSE /\ phase' = [phase EXCEPT ![c] = "waiting"]
            /\ current' = [current EXCEPT ![c] = Chunk(rest[c])]
            /\ rest' = [rest EXCEPT ![c] = Chunks(@)]
            /\ UNCHANGED outcome
    /\ Good(c)
    /\ UNCHANGED <<up, wanted>>

\* Mutant: a retry asks for the whole chunk again.
unprocessedAll(c, left) == current[c]

\* currentKeys = out.UnprocessedKeys.
unprocessed(c, left) == left

\* A part of the batch comes back unprocessed.
Partial(c) ==
    /\ phase[c] = "request" /\ up
    /\ \E left \in (SUBSET current[c]) \ {{}, current[c]} :
          /\ got' = [got EXCEPT ![c] = collected(c, current[c] \ left)]
          /\ current' = [current EXCEPT ![c] = unprocessed(c, left)]
    /\ tries' = [tries EXCEPT ![c] = @ + 1]
    /\ phase' = [phase EXCEPT ![c] = "backoff"]
    /\ UNCHANGED <<permits, breakerVars, fresh, rest, up, wanted, outcome, blame>>

Retry(c) ==
    /\ phase[c] = "backoff" /\ tries[c] <= MaxRetries
    /\ phase' = [phase EXCEPT ![c] = "request"]
    /\ UNCHANGED <<permits, breakerVars, fresh, batchVars, up, wanted, outcome, blame>>

\* Retries are used up: an error like any other.
Exhausted(c) ==
    /\ phase[c] = "backoff" /\ tries[c] > MaxRetries
    /\ End(c, "failed") /\ Bad(c)
    /\ UNCHANGED <<up, wanted>>

\* Any other error is final, and so is the caller's leaving.
Fails(c) ==
    /\ phase[c] = "request" /\ ~up
    /\ End(c, "failed") /\ Bad(c)
    /\ UNCHANGED <<up, wanted>>

\* DeleteParameter answers ParameterNotFound: for the guard an error, which
\* only the caller turns into success.
DeleteAbsent(c) ==
    /\ phase[c] = "request" /\ up /\ wanted[c] = {}
    /\ End(c, "ok")
    /\ Bad(c)
    /\ UNCHANGED <<up, wanted>>

\* The context of the caller ends while it waits for a permit.
CancelWaiting(c) ==
    /\ phase[c] = "waiting"
    /\ phase' = [phase EXCEPT ![c] = "idle"]
    /\ outcome' = [outcome EXCEPT ![c] = "failed"]
    /\ current' = [current EXCEPT ![c] = {}]
    /\ rest' = [rest EXCEPT ![c] = <<>>]
    /\ got' = [got EXCEPT ![c] = Nothing]
    /\ UNCHANGED <<permits, breakerVars, fresh, tries, up, wanted, blame>>

\* Mutant: the breaker is not told of a caller that has left.
CancelUncounted(c) ==
    /\ phase[c] \in {"request", "backoff"}
    /\ End(c, "failed")
    /\ UNCHANGED <<breakerVars, fresh, up, wanted, blame>>

\* The same while its request is under way.
CancelRequest(c) ==
    /\ phase[c] \in {"request", "backoff"}
    /\ End(c, "failed") /\ Bad(c)
    /\ UNCHANGED <<up, wanted>>

-----------------------------------------------------------------------------
\* CBTimeout has passed since the breaker opened.
TimeoutPasses ==
    /\ breaker = "open" /\ Become("half")
    /\ UNCHANGED <<permits, phase, batchVars, up, wanted, outcome, blame>>

\* CBInterval has passed: a closed breaker forgets what it has counted.
IntervalPasses ==
    /\ breaker = "closed" /\ (failures > 0 \/ \E c \in Calls : fresh[c])
    /\ Become("closed")
    /\ UNCHANGED <<permits, phase, batchVars, up, wanted, outcome, blame>>

ServiceDown ==
    /\ up /\ up' = FALSE
    /\ UNCHANGED <<permits, breakerVars, phase, fresh, batchVars, wanted, outcome, blame>>

ServiceUp ==
    /\ ~up /\ up' = TRUE
    /\ UNCHANGED <<permits, breakerVars, phase, fresh, batchVars, wanted, outcome, blame>>

Step(c) ==
    \/ Acquire(c) \/ Refuse(c) \/ Admit(c)
    \/ Done(c) \/ Partial(c) \/ Retry(c) \/ Exhausted(c) \/ Fails(c) \/ DeleteAbsent(c)

Next ==
    \/ \E c \in Calls : (\E keys \in Lookups : BatchGet(c, keys)) \/ SSMRequest(c)
    \/ \E c \in Calls : Step(c) \/ CancelWaiting(c) \/ CancelRequest(c)
    \/ TimeoutPasses \/ IntervalPasses \/ ServiceDown \/ ServiceUp

\* Every step of a call is taken when it can be forever, permits are given in
\* the order they are asked for, and the timeout of the breaker passes.
Fairness ==
    /\ \A c \in Calls : WF_vars(Step(c)) /\ SF_vars(Acquire(c))
    /\ WF_vars(TimeoutPasses)

Spec == Init /\ [][Next]_vars /\ Fairness

-----------------------------------------------------------------------------
Holders == {c \in Calls : phase[c] \in {"holding", "request", "backoff"}}

(* Every variable holds a value of its kind, and a permit is either free or *)
(* held by a call that has not ended (guard.go:79, Acquire and Release).    *)
TypeOK ==
    /\ permits \in 0..MaxConcurrency
    /\ permits + Cardinality(Holders) = MaxConcurrency
    /\ breaker \in {"closed", "open", "half"}
    /\ failures \in 0..MaxFailures /\ probing \in BOOLEAN
    /\ phase \in [Calls -> {"idle", "waiting", "holding", "request", "backoff"}]
    /\ fresh \in [Calls -> BOOLEAN]
    /\ current \in [Calls -> SUBSET Keys] /\ rest \in [Calls -> Seq(Keys)]
    /\ tries \in [Calls -> 0..(MaxRetries + 1)]
    /\ got \in [Calls -> [Keys -> Nat]]
    /\ up \in BOOLEAN
    /\ wanted \in [Calls -> SUBSET Keys]
    /\ outcome \in [Calls -> {"none", "ok", "failed"}]
    /\ blame \in 0..(MaxFailures + 1)

(***************************************************************************)
(* A lookup that succeeds has every row of the keys it was asked for and   *)
(* each once, however its chunks were cut, answered in part and retried    *)
(* (dynamodb_kit.go, BatchGet and processGetChunk).                        *)
(***************************************************************************)
LookupComplete ==
    \A c \in Calls : phase[c] = "idle" /\ outcome[c] = "ok" /\ wanted[c] # {} =>
        got[c] = [k \in Keys |-> IF k \in wanted[c] \cap Table THEN 1 ELSE 0]

(***************************************************************************)
(* The breaker opens only when more than MaxFailures requests in a row     *)
(* have failed that it admitted while closed, however successes, results   *)
(* that come late, callers that leave the queue and the limit of the       *)
(* semaphore lie in between (guard.go:61).                                 *)
(***************************************************************************)
OpensOnFailures ==
    [][breaker = "closed" /\ breaker' = "open" => blame' > MaxFailures]_vars

\* What counts as a failure although the service works.
Disturbs(c) == DeleteAbsent(c) \/ CancelRequest(c)

(***************************************************************************)
(* However often the service has failed and callers have left before, from *)
(* when it works and answers in full, nobody leaves in the middle of a     *)
(* request and no parameter is deleted that does not exist, the breaker    *)
(* closes for good if calls keep coming: the one request that a half-open  *)
(* breaker admits has always been counted (guard.go:57, MaxRequests).      *)
(* Either of the latter two may keep it open for ever, see the README.     *)
(***************************************************************************)
BreakerRecovers ==
    /\ <>[](up /\ \A c \in Calls : phase[c] # "backoff")
    /\ <>[][\A c \in Calls : ~Disturbs(c)]_vars
    /\ []<>(\E c \in Calls : phase[c] = "waiting")
    => <>[](breaker = "closed")

(***************************************************************************)
(* Every call ends, whether it is refused, retried or cancelled: permits   *)
(* come back from all of them (guard.go, Execute).                         *)
(***************************************************************************)
CallsAnswered == \A c \in Calls : phase[c] # "idle" ~> phase[c] = "idle"
=============================================================================
