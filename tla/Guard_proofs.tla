---------------------------- MODULE Guard_proofs ----------------------------
(* Proofs about the guard, for every set of callers, every number of       *)
(* permits and failures, and whatever the service does.                    *)
EXTENDS Guard, FiniteSetTheorems, SequenceTheorems, TLAPS

\* What the breaker counts has happened: its count is of failures since a
\* success that it was told of.  It stops short of the count that opens it.
Counted ==
    /\ failures \in 0..MaxFailures /\ blame \in 0..(MaxFailures + 1)
    /\ failures <= blame

LEMMA CountedInit == Init => Counted
  BY GuardAssumption DEF Init, Counted

(* Of a failed request: it counts, unless it is of an earlier generation.  *)
LEMMA BadCounts ==
    ASSUME Counted, NEW c \in Calls, Bad(c)
    PROVE  /\ Counted'
           /\ breaker = "closed" /\ breaker' = "open" => blame' > MaxFailures
  <1> USE GuardAssumption DEF Counted
  <1>1. blame' \in 0..(MaxFailures + 1) /\ blame <= blame'
    BY DEF Bad, Upto
  <1>2. CASE ~fresh[c]
    BY <1>1, <1>2 DEF Bad, breakerVars
  <1>3. CASE fresh[c] /\ (breaker = "half" \/ readyToTrip(failures + 1))
    <2>1. failures' = 0
      BY <1>3 DEF Bad, Become
    <2>2. ASSUME breaker = "closed" PROVE blame' > MaxFailures
      <3>1. failures + 1 > MaxFailures /\ blame' = Upto(blame + 1, MaxFailures + 1)
        BY <1>3, <2>2 DEF readyToTrip, Bad
      <3>2. QED BY <3>1 DEF Upto
    <2>3. QED BY <1>1, <2>1, <2>2
  <1>4. CASE fresh[c] /\ breaker # "half" /\ ~readyToTrip(failures + 1)
    <2>1. failures' = failures + 1 /\ breaker' = breaker
      BY <1>4 DEF Bad
    <2>2. blame' = blame + 1 \/ blame' = MaxFailures + 1
      BY <1>4 DEF Bad, Upto
    <2>3. QED BY <1>1, <1>4, <2>1, <2>2 DEF readyToTrip
  <1>5. QED BY <1>2, <1>3, <1>4

(* Of an answered request: a success that counts ends both rows.           *)
LEMMA GoodForgets ==
    ASSUME Counted, NEW c \in Calls, Good(c)
    PROVE  /\ Counted'
           /\ breaker = "closed" => breaker' # "open"
  BY GuardAssumption DEF Counted, Good, Success, Become, breakerVars

LEMMA CountedNext ==
    ASSUME Counted, [Next]_vars
    PROVE  /\ Counted'
           /\ breaker = "closed" /\ breaker' = "open" => blame' > MaxFailures
  <1>1. CASE UNCHANGED <<breaker, failures, blame>>
    BY <1>1 DEF Counted
  <1>2. ASSUME NEW c \in Calls, Bad(c)
        PROVE  /\ Counted'
               /\ breaker = "closed" /\ breaker' = "open" => blame' > MaxFailures
    BY <1>2, BadCounts
  <1>3. ASSUME NEW c \in Calls, Done(c)
        PROVE  /\ Counted'
               /\ breaker = "closed" /\ breaker' = "open" => blame' > MaxFailures
    BY <1>3, GoodForgets DEF Done
  <1>4. CASE TimeoutPasses \/ IntervalPasses
    <2>1. failures' = 0 /\ blame' = blame /\ breaker' # "open"
      BY <1>4 DEF TimeoutPasses, IntervalPasses, Become
    <2>2. QED BY <2>1, GuardAssumption DEF Counted
  <1>5. ASSUME NEW c \in Calls, Step(c)
        PROVE  \/ UNCHANGED <<breaker, failures, blame>>
               \/ Bad(c) \/ Done(c)
    BY <1>5 DEF Step, Acquire, Refuse, Admit, Partial, Retry, Exhausted, Fails, DeleteAbsent, breakerVars
  <1>6. ASSUME NEW c \in Calls, CancelWaiting(c) \/ CancelRequest(c)
        PROVE  UNCHANGED <<breaker, failures, blame>> \/ Bad(c)
    BY <1>6 DEF CancelWaiting, CancelRequest, breakerVars
  <1>7. ASSUME NEW c \in Calls, NEW keys \in Lookups, BatchGet(c, keys)
        PROVE  UNCHANGED <<breaker, failures, blame>>
    BY <1>7 DEF BatchGet, breakerVars
  <1>8. ASSUME NEW c \in Calls, SSMRequest(c)
        PROVE  UNCHANGED <<breaker, failures, blame>>
    BY <1>8 DEF SSMRequest, breakerVars
  <1>9. ASSUME ServiceDown \/ ServiceUp
        PROVE  UNCHANGED <<breaker, failures, blame>>
    BY <1>9 DEF ServiceDown, ServiceUp, breakerVars
  <1>10. ASSUME UNCHANGED vars
         PROVE  UNCHANGED <<breaker, failures, blame>>
    BY <1>10 DEF vars, breakerVars
  <1>11. QED
    BY <1>1, <1>2, <1>3, <1>4, <1>5, <1>6, <1>7, <1>8, <1>9, <1>10 DEF Next

(* The breaker does not open unless more than MaxFailures requests that it *)
(* admitted have failed in a row, whatever is late, refused or cancelled   *)
(* (guard.go:61).                                                          *)
THEOREM GuardOpensOnFailures == Spec => OpensOnFailures
  <1>1. Counted /\ [Next]_vars =>
            Counted' /\ [breaker = "closed" /\ breaker' = "open" => blame' > MaxFailures]_vars
    BY CountedNext
  <1>2. QED BY <1>1, CountedInit, PTL DEF Spec, OpensOnFailures
-----------------------------------------------------------------------------
\* The types of all variables but the counts of permits and of the breaker.
\* A request is sent only while retries are left, and who waits or holds a
\* permit has made no attempt at its chunk.
Typed ==
    /\ breaker \in {"closed", "open", "half"} /\ probing \in BOOLEAN
    /\ phase \in [Calls -> {"idle", "waiting", "holding", "request", "backoff"}]
    /\ fresh \in [Calls -> BOOLEAN]
    /\ current \in [Calls -> SUBSET Keys] /\ rest \in [Calls -> Seq(Keys)]
    /\ tries \in [Calls -> 0..(MaxRetries + 1)]
    /\ \A c \in Calls :
          /\ phase[c] \notin {"request", "backoff"} => tries[c] = 0
          /\ phase[c] = "request" => tries[c] <= MaxRetries
    /\ got \in [Calls -> [Keys -> Nat]]
    /\ up \in BOOLEAN
    /\ wanted \in [Calls -> SUBSET Keys]
    /\ outcome \in [Calls -> {"none", "ok", "failed"}]

LEMMA TypedInit == Init => Typed
  <1> SUFFICES ASSUME Init PROVE Typed
    OBVIOUS
  <1>1. Nothing \in [Keys -> Nat]
    BY DEF Nothing
  <1>2. <<>> \in Seq(Keys)
    OBVIOUS
  <1>3. tries \in [Calls -> 0..(MaxRetries + 1)] /\ \A c \in Calls : tries[c] = 0
    BY GuardAssumption DEF Init
  <1>4. \A c \in Calls : phase[c] = "idle"
    BY DEF Init
  <1>5. \A c \in Calls : phase[c] = "request" => tries[c] <= MaxRetries
    BY <1>4, GuardAssumption DEF Init
  <1>6. /\ current \in [Calls -> SUBSET Keys] /\ rest \in [Calls -> Seq(Keys)]
        /\ got \in [Calls -> [Keys -> Nat]] /\ wanted \in [Calls -> SUBSET Keys]
    BY <1>1, <1>2 DEF Init
  <1>7. QED BY <1>3, <1>4, <1>5, <1>6 DEF Init, Typed

(* What a chunk and the chunks after it are made of.                       *)
LEMMA ChunkTypes ==
    ASSUME NEW keys \in Seq(Keys)
    PROVE  Chunk(keys) \in SUBSET Keys /\ Chunks(keys) \in Seq(Keys)
  <1>1. Upto(Len(keys), BatchGetSize) \in 0..Len(keys)
    BY GuardAssumption DEF Upto
  <1>2. Chunk(keys) \in SUBSET Keys
    BY <1>1 DEF Chunk
  <1>3. Chunks(keys) \in Seq(Keys)
    BY GuardAssumption, SubSeqProperties DEF Chunks
  <1>4. QED BY <1>2, <1>3

LEMMA BreakerTyped ==
    ASSUME Typed, NEW c \in Calls, Bad(c) \/ Good(c)
    PROVE  /\ breaker' \in {"closed", "open", "half"} /\ probing' \in BOOLEAN
           /\ fresh' \in [Calls -> BOOLEAN]
  BY DEF Typed, Bad, Good, Success, Become, breakerVars

LEMMA EndTyped ==
    ASSUME Typed, NEW c \in Calls, NEW how \in {"ok", "failed"}, End(c, how),
           Bad(c) \/ UNCHANGED <<breakerVars, fresh>>, UNCHANGED wanted, UNCHANGED up
    PROVE  Typed'
  <1>1. /\ breaker' \in {"closed", "open", "half"} /\ probing' \in BOOLEAN
        /\ fresh' \in [Calls -> BOOLEAN]
    BY BreakerTyped DEF Typed, breakerVars
  <1>2. Nothing \in [Keys -> Nat]
    BY DEF Nothing
  <1>3. /\ phase' = [phase EXCEPT ![c] = "idle"] /\ outcome' = [outcome EXCEPT ![c] = how]
        /\ current' = [current EXCEPT ![c] = {}] /\ rest' = [rest EXCEPT ![c] = <<>>]
        /\ tries' = [tries EXCEPT ![c] = 0] /\ got' = [got EXCEPT ![c] = Nothing]
    BY DEF End
  <1>4. /\ tries' \in [Calls -> 0..(MaxRetries + 1)]
        /\ \A d \in Calls :
              /\ phase'[d] \notin {"request", "backoff"} => tries'[d] = 0
              /\ phase'[d] = "request" => tries'[d] <= MaxRetries
    BY <1>3, GuardAssumption DEF Typed
  <1>5. /\ current' \in [Calls -> SUBSET Keys] /\ rest' \in [Calls -> Seq(Keys)]
        /\ got' \in [Calls -> [Keys -> Nat]]
    BY <1>2, <1>3 DEF Typed
  <1>6. /\ phase' \in [Calls -> {"idle", "waiting", "holding", "request", "backoff"}]
        /\ outcome' \in [Calls -> {"none", "ok", "failed"}]
        /\ up' \in BOOLEAN /\ wanted' \in [Calls -> SUBSET Keys]
    BY <1>3 DEF Typed
  <1>7. QED BY <1>1, <1>4, <1>5, <1>6 DEF Typed

LEMMA TypedNext == Typed /\ [Next]_vars => Typed'
  <1> SUFFICES ASSUME Typed, [Next]_vars PROVE Typed'
    OBVIOUS
  <1>1. ASSUME NEW c \in Calls, NEW keys \in Lookups, BatchGet(c, keys) PROVE Typed'
    <2>1. Chunk(keys) \in SUBSET Keys /\ Chunks(keys) \in Seq(Keys)
      BY ChunkTypes, GuardAssumption
    <2>2. {keys[i] : i \in DOMAIN keys} \in SUBSET Keys /\ Nothing \in [Keys -> Nat]
      BY GuardAssumption DEF Nothing
    <2>3. QED BY <1>1, <2>1, <2>2 DEF BatchGet, Typed, breakerVars
  <1>2. ASSUME NEW c \in Calls, SSMRequest(c) PROVE Typed'
    BY <1>2 DEF SSMRequest, Typed, Nothing, breakerVars
  <1>3. ASSUME NEW c \in Calls, Acquire(c) \/ Admit(c) PROVE Typed'
    <2>1. /\ phase[c] \notin {"request", "backoff"}
          /\ \E to \in {"holding", "request"} : phase' = [phase EXCEPT ![c] = to]
          /\ fresh' \in [Calls -> BOOLEAN] /\ probing' \in BOOLEAN
          /\ UNCHANGED <<breaker, current, rest, tries, got, up, wanted, outcome>>
      BY <1>3 DEF Acquire, Admit, Typed, breakerVars, batchVars
    <2>2. \A d \in Calls :
              /\ phase'[d] \notin {"request", "backoff"} => tries'[d] = 0
              /\ phase'[d] = "request" => tries'[d] <= MaxRetries
      BY <2>1, GuardAssumption DEF Typed
    <2>3. phase' \in [Calls -> {"idle", "waiting", "holding", "request", "backoff"}]
      BY <2>1 DEF Typed
    <2>4. QED BY <2>1, <2>2, <2>3 DEF Typed
  <1>4. ASSUME NEW c \in Calls, Refuse(c) \/ Exhausted(c) \/ Fails(c) \/ DeleteAbsent(c) \/ CancelRequest(c)
        PROVE  Typed'
    <2>1. \E how \in {"ok", "failed"} : End(c, how)
      BY <1>4 DEF Refuse, Exhausted, Fails, DeleteAbsent, CancelRequest
    <2>2. Bad(c) \/ UNCHANGED <<breakerVars, fresh>>
      BY <1>4 DEF Refuse, Exhausted, Fails, DeleteAbsent, CancelRequest
    <2>3. UNCHANGED wanted /\ UNCHANGED up
      BY <1>4, GuardAssumption DEF Typed, Refuse, Exhausted, Fails, DeleteAbsent, CancelRequest
    <2>4. QED BY <2>1, <2>2, <2>3, EndTyped
  <1>5. ASSUME NEW c \in Calls, Done(c) PROVE Typed'
    <2>1. /\ breaker' \in {"closed", "open", "half"} /\ probing' \in BOOLEAN
          /\ fresh' \in [Calls -> BOOLEAN]
      BY <1>5, BreakerTyped DEF Done
    <2>2. Chunk(rest[c]) \in SUBSET Keys /\ Chunks(rest[c]) \in Seq(Keys)
      BY ChunkTypes DEF Typed
    <2>3. collected(c, current[c]) \in [Keys -> Nat]
      BY DEF Typed, collected
    <2>4. /\ phase' \in [Calls -> {"idle", "waiting", "holding", "request", "backoff"}]
          /\ outcome' \in [Calls -> {"none", "ok", "failed"}]
          /\ current' \in [Calls -> SUBSET Keys] /\ rest' \in [Calls -> Seq(Keys)]
      <3>1. CASE rest[c] = <<>>
        BY <1>5, <3>1 DEF Done, Typed
      <3>2. CASE rest[c] # <<>>
        <4>1. /\ phase' = [phase EXCEPT ![c] = "waiting"] /\ outcome' = outcome
              /\ current' = [current EXCEPT ![c] = Chunk(rest[c])]
              /\ rest' = [rest EXCEPT ![c] = Chunks(rest[c])]
          BY <1>5, <3>2 DEF Done
        <4>2. QED BY <2>2, <4>1 DEF Typed
      <3>3. QED BY <3>1, <3>2
    <2>5. got' \in [Calls -> [Keys -> Nat]]
      BY <1>5, <2>3 DEF Done, Typed
    <2>6. /\ tries' \in [Calls -> 0..(MaxRetries + 1)]
          /\ \A d \in Calls :
                /\ phase'[d] \notin {"request", "backoff"} => tries'[d] = 0
                /\ phase'[d] = "request" => tries'[d] <= MaxRetries
      BY <1>5, GuardAssumption DEF Done, Typed
    <2>7. UNCHANGED <<up, wanted>>
      BY <1>5 DEF Done
    <2>8. QED BY <2>1, <2>4, <2>5, <2>6, <2>7 DEF Typed
  <1>6. ASSUME NEW c \in Calls, Partial(c) PROVE Typed'
    <2>1. PICK left \in SUBSET current[c] :
               /\ got' = [got EXCEPT ![c] = collected(c, current[c] \ left)]
               /\ current' = [current EXCEPT ![c] = left]
      BY <1>6 DEF Partial, unprocessed
    <2>2. collected(c, current[c] \ left) \in [Keys -> Nat]
      BY DEF Typed, collected
    <2>3. got' \in [Calls -> [Keys -> Nat]] /\ current' \in [Calls -> SUBSET Keys]
      BY <2>1, <2>2 DEF Typed
    <2>4. /\ phase[c] = "request" /\ phase' = [phase EXCEPT ![c] = "backoff"]
          /\ tries' = [tries EXCEPT ![c] = @ + 1]
          /\ UNCHANGED <<permits, breakerVars, fresh, rest, up, wanted, outcome, blame>>
      BY <1>6 DEF Partial
    <2>5. /\ tries' \in [Calls -> 0..(MaxRetries + 1)]
          /\ \A d \in Calls :
                /\ phase'[d] \notin {"request", "backoff"} => tries'[d] = 0
                /\ phase'[d] = "request" => tries'[d] <= MaxRetries
      BY <2>4, GuardAssumption DEF Typed
    <2>6. phase' \in [Calls -> {"idle", "waiting", "holding", "request", "backoff"}]
      BY <2>4 DEF Typed
    <2>7. UNCHANGED <<breaker, probing, fresh, rest, up, wanted, outcome>>
      BY <2>4 DEF breakerVars
    <2>8. QED BY <2>3, <2>5, <2>6, <2>7 DEF Typed
  <1>7. ASSUME NEW c \in Calls, Retry(c) PROVE Typed'
    BY <1>7, GuardAssumption DEF Retry, Typed, breakerVars, batchVars
  <1>8. ASSUME NEW c \in Calls, CancelWaiting(c) PROVE Typed'
    BY <1>8, GuardAssumption DEF CancelWaiting, Typed, Nothing, breakerVars
  <1>9. CASE TimeoutPasses \/ IntervalPasses
    BY <1>9 DEF TimeoutPasses, IntervalPasses, Become, Typed, batchVars
  <1>10. CASE ServiceDown \/ ServiceUp
    <2>1. UNCHANGED <<breaker, probing, fresh, phase, current, rest, tries, got, wanted, outcome>>
      BY <1>10 DEF ServiceDown, ServiceUp, breakerVars, batchVars
    <2>2. up' \in BOOLEAN
      BY <1>10 DEF ServiceDown, ServiceUp
    <2>3. QED BY <2>1, <2>2 DEF Typed
  <1>11. CASE UNCHANGED vars
    BY <1>11 DEF vars, Typed, breakerVars, batchVars
  <1>12. QED
    BY <1>1, <1>2, <1>3, <1>4, <1>5, <1>6, <1>7, <1>8, <1>9, <1>10, <1>11 DEF Next, Step
-----------------------------------------------------------------------------
\* Every permit is free or with a holder.
Counting ==
    /\ IsFiniteSet(Holders)
    /\ permits \in 0..MaxConcurrency
    /\ permits + Cardinality(Holders) = MaxConcurrency

\* How a step may change the permits and their holders.
NoHolder == permits' = permits /\ Holders' = Holders
NewHolder == \E c \in Calls \ Holders :
    permits > 0 /\ permits' = permits - 1 /\ Holders' = Holders \cup {c}
LessHolder == \E c \in Holders : permits' = permits + 1 /\ Holders' = Holders \ {c}

LEMMA CountingInit == Init => Counting
  <1> SUFFICES ASSUME Init PROVE Counting
    OBVIOUS
  <1>1. Holders = {}
    BY DEF Init, Holders
  <1>2. QED BY <1>1, FS_EmptySet, GuardAssumption DEF Init, Counting

LEMMA CountingKept ==
    ASSUME Counting, NoHolder \/ NewHolder \/ LessHolder
    PROVE  Counting'
  <1> USE GuardAssumption
  <1>1. CASE NoHolder
    BY <1>1 DEF Counting, NoHolder
  <1>2. CASE NewHolder
    <2>1. PICK c \in Calls \ Holders :
              permits > 0 /\ permits' = permits - 1 /\ Holders' = Holders \cup {c}
      BY <1>2 DEF NewHolder
    <2>2. IsFiniteSet(Holders') /\ Cardinality(Holders') = Cardinality(Holders) + 1
      BY <2>1, FS_AddElement DEF Counting
    <2>3. Cardinality(Holders) \in Nat
      BY FS_CardinalityType DEF Counting
    <2>4. QED BY <2>1, <2>2, <2>3 DEF Counting
  <1>3. CASE LessHolder
    <2>1. PICK c \in Holders : permits' = permits + 1 /\ Holders' = Holders \ {c}
      BY <1>3 DEF LessHolder
    <2>2. IsFiniteSet(Holders') /\ Cardinality(Holders') = Cardinality(Holders) - 1
      BY <2>1, FS_RemoveElement DEF Counting
    <2>3. Cardinality(Holders) \in Nat /\ Cardinality(Holders') \in Nat
      BY <2>2, FS_CardinalityType DEF Counting
    <2>4. QED BY <2>1, <2>2, <2>3 DEF Counting
  <1>4. QED BY <1>1, <1>2, <1>3

(* A permit is taken by sem.Acquire alone and comes back once with each    *)
(* end of a chunk or of a call: refused, answered, failed or left.         *)
LEMMA HoldersNext ==
    ASSUME Typed, [Next]_vars
    PROVE  NoHolder \/ NewHolder \/ LessHolder
  <1> USE DEF Holders
  <1>0. phase \in [Calls -> {"idle", "waiting", "holding", "request", "backoff"}]
    BY DEF Typed
  <1>1. ASSUME NEW c \in Calls, NEW from, NEW to, phase[c] = from,
               phase' = [phase EXCEPT ![c] = to], permits' = permits,
               \/ {from, to} \subseteq {"idle", "waiting"}
               \/ {from, to} \subseteq {"holding", "request", "backoff"}
        PROVE  NoHolder
    BY <1>0, <1>1 DEF NoHolder
  <1>2. ASSUME NEW c \in Calls, NEW to \in {"idle", "waiting"},
               phase[c] \in {"holding", "request", "backoff"},
               phase' = [phase EXCEPT ![c] = to], permits' = permits + 1
        PROVE  LessHolder
    BY <1>0, <1>2 DEF LessHolder
  <1>3. ASSUME NEW c \in Calls, Acquire(c) PROVE NewHolder
    BY <1>0, <1>3 DEF Acquire, NewHolder
  <1>4. ASSUME NEW c \in Calls,
               (\E keys \in Lookups : BatchGet(c, keys)) \/ SSMRequest(c) \/ CancelWaiting(c)
        PROVE  NoHolder
    <2>1. /\ permits' = permits /\ phase[c] \in {"idle", "waiting"}
          /\ \E to \in {"idle", "waiting"} : phase' = [phase EXCEPT ![c] = to]
      BY <1>4 DEF BatchGet, SSMRequest, CancelWaiting
    <2>2. QED BY <1>1, <2>1
  <1>5. ASSUME NEW c \in Calls, Admit(c) \/ Partial(c) \/ Retry(c) PROVE NoHolder
    <2>1. /\ permits' = permits /\ phase[c] \in {"holding", "request", "backoff"}
          /\ \E to \in {"holding", "request", "backoff"} : phase' = [phase EXCEPT ![c] = to]
      BY <1>5 DEF Admit, Partial, Retry
    <2>2. QED BY <1>1, <2>1
  <1>6. ASSUME NEW c \in Calls,
               \/ Refuse(c) \/ Exhausted(c) \/ Fails(c) \/ DeleteAbsent(c) \/ CancelRequest(c)
               \/ Done(c)
        PROVE  LessHolder
    <2>1. /\ permits' = permits + 1 /\ phase[c] \in {"holding", "request", "backoff"}
          /\ \E to \in {"idle", "waiting"} : phase' = [phase EXCEPT ![c] = to]
      BY <1>6 DEF Refuse, Exhausted, Fails, DeleteAbsent, CancelRequest, Done, End
    <2>2. QED BY <1>2, <2>1
  <1>7. ASSUME UNCHANGED vars \/ TimeoutPasses \/ IntervalPasses \/ ServiceDown \/ ServiceUp
        PROVE  NoHolder
    BY <1>7 DEF vars, TimeoutPasses, IntervalPasses, ServiceDown, ServiceUp, NoHolder
  <1>8. QED BY <1>3, <1>4, <1>5, <1>6, <1>7 DEF Next, Step

TypeInv == Counted /\ Typed /\ Counting

LEMMA TypeInvNext == TypeInv /\ [Next]_vars => TypeInv'
  BY CountedNext, TypedNext, HoldersNext, CountingKept DEF TypeInv

(* Every variable keeps a value of its kind, and no permit is lost or made: *)
(* each is free or held by a call that has not ended, whether it is refused, *)
(* answered, retried or cancelled (guard.go:79).                           *)
THEOREM GuardTypes == Spec => []TypeOK
  <1>1. Init => TypeInv
    BY CountedInit, TypedInit, CountingInit DEF TypeInv
  <1>2. TypeInv => TypeOK
    BY DEF TypeInv, Counted, Typed, Counting, TypeOK
  <1>3. QED BY <1>1, <1>2, TypeInvNext, PTL DEF Spec
-----------------------------------------------------------------------------
\* The keys of a sequence; one that has each of its keys once.
KeysOf(s) == {s[i] : i \in DOMAIN s}
Distinct(s) == \A i, j \in DOMAIN s : s[i] = s[j] => i = j

(* BatchGet's chunks are a partition: a key is in the first one or in those *)
(* after it, in one place (dynamodb_kit.go, BatchGet).                     *)
LEMMA ChunksPartition ==
    ASSUME NEW keys \in Seq(Keys), Distinct(keys)
    PROVE  /\ Distinct(Chunks(keys))
           /\ Chunk(keys) \cap KeysOf(Chunks(keys)) = {}
           /\ Chunk(keys) \cup KeysOf(Chunks(keys)) = KeysOf(keys)
  <1>0. PICK len \in Nat, size \in Nat \ {0} :
             len = Len(keys) /\ size = BatchGetSize /\ DOMAIN keys = 1..len
    BY GuardAssumption
  <1>1. CASE len <= size
    <2>1. Chunks(keys) = <<>>
      BY <1>0, <1>1, SubSeqEmpty DEF Chunks
    <2>2. Upto(Len(keys), BatchGetSize) = len
      BY <1>0, <1>1 DEF Upto
    <2>3. Chunk(keys) = KeysOf(keys)
      BY <1>0, <2>2 DEF Chunk, KeysOf
    <2>4. QED BY <2>1, <2>3 DEF KeysOf, Distinct
  <1>2. CASE len > size
    <2> DEFINE n == len - size
               tail == Chunks(keys)
    <2>1. n \in Nat \ {0} /\ size \in 1..len
      BY <1>0, <1>2
    <2>2. /\ tail \in Seq(Keys) /\ Len(tail) = n
          /\ \A i \in 1..n : tail[i] = keys[size + i]
      <3>1. \A i \in (size + 1)..len : keys[i] \in Keys
        BY <1>0
      <3>2. /\ tail \in Seq(Keys)
            /\ Len(tail) = IF size + 1 <= len THEN len - (size + 1) + 1 ELSE 0
            /\ \A i \in 1..(len - (size + 1) + 1) : tail[i] = keys[size + 1 + i - 1]
        BY <1>0, <3>1, SubSeqProperties DEF Chunks
      <3>3. QED BY <1>0, <1>2, <3>2
    <2>3. DOMAIN tail = 1..n
      BY <2>2
    <2>4. Chunk(keys) = {keys[i] : i \in 1..size}
      BY <1>0, <1>2 DEF Chunk, Upto
    <2>5. KeysOf(tail) = {keys[i] : i \in (size + 1)..len}
      <3>1. ASSUME NEW i \in 1..n PROVE \E j \in (size + 1)..len : tail[i] = keys[j]
        BY <1>0, <2>1, <2>2, <3>1
      <3>2. ASSUME NEW j \in (size + 1)..len PROVE \E i \in 1..n : tail[i] = keys[j]
        <4>1. j - size \in 1..n /\ size + (j - size) = j
          BY <1>0, <2>1, <3>2
        <4>2. QED BY <2>2, <4>1
      <3> HIDE DEF tail, n
      <3>3. KeysOf(tail) = {tail[i] : i \in 1..n}
        BY <2>3 DEF KeysOf
      <3>4. QED BY <3>1, <3>2, <3>3
    <2>6. Distinct(tail)
      <3>1. SUFFICES ASSUME NEW i \in 1..n, NEW j \in 1..n, tail[i] = tail[j] PROVE i = j
        BY <2>3 DEF Distinct
      <3>2. size + i \in DOMAIN keys /\ size + j \in DOMAIN keys
        BY <1>0, <2>1
      <3>3. keys[size + i] = keys[size + j]
        BY <2>2, <3>1
      <3>4. QED BY <2>1, <3>2, <3>3 DEF Distinct
    <2>7. \A i \in 1..size, j \in (size + 1)..len : keys[i] # keys[j]
      BY <1>0, <2>1 DEF Distinct
    <2>8. 1..len = (1..size) \cup ((size + 1)..len)
      BY <1>0, <2>1
    <2>9. KeysOf(keys) = Chunk(keys) \cup KeysOf(tail)
      BY <1>0, <2>4, <2>5, <2>8 DEF KeysOf
    <2>10. Chunk(keys) \cap KeysOf(tail) = {}
      BY <2>4, <2>5, <2>7
    <2>11. QED BY <2>6, <2>9, <2>10
  <1>3. QED BY <1>0, <1>1, <1>2

\* The keys a lookup has yet to ask for, and what it has when it has asked
\* for those of S: the items that exist, each once.
Left(c) == current[c] \cup KeysOf(rest[c])
Items(S) == [k \in Keys |-> IF k \in S \cap Table THEN 1 ELSE 0]

\* How far a lookup is: each key is still to be asked for in one place, or
\* has been collected.
Lookup(c) ==
    /\ Distinct(rest[c]) /\ current[c] \cap KeysOf(rest[c]) = {}
    /\ Left(c) \subseteq wanted[c]
    /\ phase[c] = "idle" => current[c] = {} /\ rest[c] = <<>>
    /\ phase[c] # "idle" \/ outcome[c] = "ok" => got[c] = Items(wanted[c] \ Left(c))

LookupInv == \A c \in Calls : Lookup(c)

LEMMA NoKeys == KeysOf(<<>>) = {} /\ Distinct(<<>>) /\ Items({}) = Nothing
  BY DEF KeysOf, Distinct, Items, Nothing

LEMMA LookupInit == Init => LookupInv
  BY NoKeys DEF Init, LookupInv, Lookup, Left

(* Collecting keys that had not been collected.                            *)
LEMMA CollectedOnce ==
    ASSUME NEW c \in Calls, NEW S \in SUBSET Keys, NEW T \in SUBSET Keys,
           S \cap T = {}, got[c] = Items(S)
    PROVE  collected(c, T) = Items(S \cup T)
  <1>1. \A k \in Keys : Items(S)[k] + (IF k \in T /\ k \in Table THEN 1 ELSE 0)
                       = IF k \in (S \cup T) \cap Table THEN 1 ELSE 0
    BY DEF Items
  <1>2. QED BY <1>1 DEF collected, Items

LEMMA LookupNext == Typed /\ LookupInv /\ [Next]_vars => LookupInv'
  <1> SUFFICES ASSUME Typed, LookupInv, [Next]_vars PROVE LookupInv'
    OBVIOUS
  <1>0. /\ phase \in [Calls -> {"idle", "waiting", "holding", "request", "backoff"}]
        /\ current \in [Calls -> SUBSET Keys] /\ rest \in [Calls -> Seq(Keys)]
        /\ got \in [Calls -> [Keys -> Nat]] /\ wanted \in [Calls -> SUBSET Keys]
        /\ outcome \in [Calls -> {"none", "ok", "failed"}]
    BY DEF Typed
  \* What a step does to the call that takes it is all that matters.
  <1>a. ASSUME NEW c \in Calls, Lookup(c)',
               \A d \in Calls \ {c} :
                  /\ phase'[d] = phase[d] /\ current'[d] = current[d] /\ rest'[d] = rest[d]
                  /\ got'[d] = got[d] /\ wanted'[d] = wanted[d] /\ outcome'[d] = outcome[d]
        PROVE  LookupInv'
    BY <1>a DEF LookupInv, Lookup, Left
  <1>b. ASSUME NEW c \in Calls, current'[c] = {}, rest'[c] = <<>>,
               phase'[c] = "idle", outcome'[c] = "ok" => got'[c] = Items(wanted'[c])
        PROVE  Lookup(c)'
    BY <1>b, NoKeys DEF Lookup, Left
  <1>c. ASSUME NEW c \in Calls, phase[c] # "idle", phase'[c] # "idle",
               UNCHANGED <<current, rest, got, wanted, outcome>>
        PROVE  Lookup(c)'
    BY <1>c DEF LookupInv, Lookup, Left
  <1>1. ASSUME NEW c \in Calls, NEW keys \in Lookups, BatchGet(c, keys) PROVE LookupInv'
    <2>1. keys \in Seq(Keys) /\ Distinct(keys)
      BY GuardAssumption DEF Distinct
    <2>2. /\ phase'[c] = "waiting" /\ current'[c] = Chunk(keys) /\ rest'[c] = Chunks(keys)
          /\ got'[c] = Nothing /\ wanted'[c] = KeysOf(keys)
      BY <1>0, <1>1 DEF BatchGet, KeysOf
    <2>3. Left(c)' = KeysOf(keys)
      BY <2>1, <2>2, ChunksPartition DEF Left
    <2>4. Items(wanted[c] \ Left(c))' = Nothing
      BY <2>2, <2>3, NoKeys
    <2>5. Lookup(c)'
      BY <2>1, <2>2, <2>3, <2>4, ChunksPartition DEF Lookup
    <2>6. QED BY <1>a, <1>0, <1>1, <2>5 DEF BatchGet
  <1>2. ASSUME NEW c \in Calls, SSMRequest(c) PROVE LookupInv'
    <2>1. current[c] = {} /\ rest[c] = <<>>
      BY <1>2 DEF SSMRequest, LookupInv, Lookup
    <2>2. /\ phase'[c] = "waiting" /\ current'[c] = {} /\ rest'[c] = <<>>
          /\ got'[c] = Items({}) /\ wanted'[c] = {}
      BY <1>0, <1>2, <2>1, NoKeys DEF SSMRequest
    <2>3. Lookup(c)'
      BY <2>2, NoKeys DEF Lookup, Left
    <2>4. QED BY <1>a, <1>0, <1>2, <2>3 DEF SSMRequest
  <1>3. ASSUME NEW c \in Calls, Acquire(c) \/ Admit(c) \/ Retry(c) PROVE LookupInv'
    <2>1. /\ phase[c] # "idle" /\ phase'[c] # "idle" /\ UNCHANGED <<current, rest, got, wanted, outcome>>
          /\ \A d \in Calls \ {c} : phase'[d] = phase[d]
      BY <1>0, <1>3 DEF Acquire, Admit, Retry, batchVars
    <2>2. QED BY <1>a, <1>c, <2>1
  <1>4. ASSUME NEW c \in Calls, Refuse(c) \/ Exhausted(c) \/ Fails(c) \/ CancelRequest(c) \/ CancelWaiting(c)
        PROVE  LookupInv'
    <2>1. /\ phase' = [phase EXCEPT ![c] = "idle"] /\ outcome' = [outcome EXCEPT ![c] = "failed"]
          /\ current' = [current EXCEPT ![c] = {}] /\ rest' = [rest EXCEPT ![c] = <<>>]
          /\ got' = [got EXCEPT ![c] = Nothing] /\ wanted' = wanted
      BY <1>4 DEF Refuse, Exhausted, Fails, CancelRequest, CancelWaiting, End
    <2>2. Lookup(c)'
      BY <1>0, <1>b, <2>1
    <2>3. QED BY <1>a, <1>0, <2>1, <2>2
  <1>5. ASSUME NEW c \in Calls, DeleteAbsent(c) PROVE LookupInv'
    <2>1. /\ phase' = [phase EXCEPT ![c] = "idle"] /\ outcome' = [outcome EXCEPT ![c] = "ok"]
          /\ current' = [current EXCEPT ![c] = {}] /\ rest' = [rest EXCEPT ![c] = <<>>]
          /\ got' = [got EXCEPT ![c] = Nothing] /\ wanted' = wanted /\ wanted[c] = {}
      BY <1>5 DEF DeleteAbsent, End
    <2>2. Lookup(c)'
      BY <1>0, <1>b, <2>1, NoKeys
    <2>3. QED BY <1>a, <1>0, <2>1, <2>2
  <1>6. ASSUME NEW c \in Calls, Done(c) PROVE LookupInv'
    <2>1. /\ Distinct(rest[c]) /\ current[c] \cap KeysOf(rest[c]) = {}
          /\ Left(c) \subseteq wanted[c] /\ got[c] = Items(wanted[c] \ Left(c))
      BY <1>6 DEF Done, LookupInv, Lookup
    <2>2. collected(c, current[c]) = Items((wanted[c] \ Left(c)) \cup current[c])
      <3>1. wanted[c] \ Left(c) \in SUBSET Keys /\ current[c] \in SUBSET Keys
        BY <1>0
      <3>2. (wanted[c] \ Left(c)) \cap current[c] = {}
        BY DEF Left
      <3>3. QED BY <2>1, <3>1, <3>2, CollectedOnce
    <2>3. (wanted[c] \ Left(c)) \cup current[c] = wanted[c] \ KeysOf(rest[c])
      BY <2>1 DEF Left
    <2>4. got'[c] = Items(wanted[c] \ KeysOf(rest[c])) /\ wanted' = wanted
      BY <1>0, <1>6, <2>2, <2>3 DEF Done
    <2>5. CASE rest[c] = <<>>
      <3>1. phase'[c] = "idle" /\ current'[c] = {} /\ rest'[c] = <<>>
        BY <1>0, <1>6, <2>5 DEF Done
      <3>2. got'[c] = Items(wanted'[c])
        BY <2>4, <2>5, NoKeys
      <3>3. Lookup(c)'
        BY <1>b, <3>1, <3>2
      <3>4. QED BY <1>a, <1>0, <1>6, <2>4, <2>5, <3>3 DEF Done
    <2>6. CASE rest[c] # <<>>
      <3>1. phase'[c] = "waiting" /\ current'[c] = Chunk(rest[c]) /\ rest'[c] = Chunks(rest[c])
        BY <1>0, <1>6, <2>6 DEF Done
      <3>2. rest[c] \in Seq(Keys)
        BY <1>0
      <3>3. Left(c)' = KeysOf(rest[c])
        BY <2>1, <3>1, <3>2, ChunksPartition DEF Left
      <3>4. got'[c] = Items(wanted'[c] \ Left(c)')
        BY <2>4, <3>3
      <3>5. Lookup(c)'
        BY <2>1, <2>4, <3>1, <3>2, <3>3, <3>4, ChunksPartition DEF Lookup, Left
      <3>6. QED BY <1>a, <1>0, <1>6, <2>4, <2>6, <3>5 DEF Done
    <2>7. QED BY <2>5, <2>6
  <1>7. ASSUME NEW c \in Calls, Partial(c) PROVE LookupInv'
    <2>1. PICK left \in SUBSET current[c] :
               /\ got' = [got EXCEPT ![c] = collected(c, current[c] \ left)]
               /\ current' = [current EXCEPT ![c] = left]
      BY <1>7 DEF Partial, unprocessed
    <2>2. /\ phase[c] = "request" /\ phase' = [phase EXCEPT ![c] = "backoff"]
          /\ UNCHANGED <<rest, wanted, outcome>>
      BY <1>7 DEF Partial
    <2>3. /\ Distinct(rest[c]) /\ current[c] \cap KeysOf(rest[c]) = {}
          /\ Left(c) \subseteq wanted[c] /\ got[c] = Items(wanted[c] \ Left(c))
      BY <2>2 DEF LookupInv, Lookup
    <2>4. collected(c, current[c] \ left) = Items((wanted[c] \ Left(c)) \cup (current[c] \ left))
      BY <1>0, <2>3, CollectedOnce DEF Left
    <2>5. Left(c)' = left \cup KeysOf(rest[c])
      BY <1>0, <2>1, <2>2 DEF Left
    <2>6. (wanted[c] \ Left(c)) \cup (current[c] \ left) = wanted[c] \ (left \cup KeysOf(rest[c]))
      BY <2>3 DEF Left
    <2>7. got'[c] = Items(wanted'[c] \ Left(c)')
      BY <1>0, <2>1, <2>2, <2>4, <2>5, <2>6
    <2>8. phase'[c] = "backoff" /\ current'[c] = left /\ rest'[c] = rest[c] /\ wanted'[c] = wanted[c]
      BY <1>0, <2>1, <2>2
    <2>9. left \cap KeysOf(rest[c]) = {} /\ left \cup KeysOf(rest[c]) \subseteq wanted[c]
      BY <2>3 DEF Left
    <2>10. Lookup(c)'
      BY <2>3, <2>5, <2>7, <2>8, <2>9 DEF Lookup
    <2>11. QED BY <1>a, <1>0, <2>1, <2>2, <2>10
  <1>8. ASSUME UNCHANGED vars \/ TimeoutPasses \/ IntervalPasses \/ ServiceDown \/ ServiceUp
        PROVE  LookupInv'
    <2>1. UNCHANGED <<phase, current, rest, got, wanted, outcome>>
      BY <1>8 DEF vars, TimeoutPasses, IntervalPasses, ServiceDown, ServiceUp, batchVars
    <2>2. QED BY <2>1 DEF LookupInv, Lookup, Left
  <1>9. QED
    BY <1>1, <1>2, <1>3, <1>4, <1>5, <1>6, <1>7, <1>8 DEF Next, Step

(* A lookup that succeeds has every row of the keys it was asked for, each *)
(* once, however it was cut in chunks, answered in part and retried        *)
(* (dynamodb_kit.go, BatchGet and processGetChunk).                        *)
THEOREM LookupsComplete == Spec => []LookupComplete
  <1>1. Init => Typed /\ LookupInv
    BY TypedInit, LookupInit
  <1>2. Typed /\ LookupInv /\ [Next]_vars => (Typed /\ LookupInv)'
    BY TypedNext, LookupNext
  <1>3. LookupInv => LookupComplete
    BY NoKeys DEF LookupInv, Lookup, Left, Items, LookupComplete
  <1>4. QED BY <1>1, <1>2, <1>3, PTL DEF Spec
-----------------------------------------------------------------------------
(* Why the breaker does not wait for ever: of BreakerRecovers what is true *)
(* of every state.  A generation that is open, or half open and has let    *)
(* nobody through, counts nobody's result; half open and refusing, that of *)
(* one call, which has a request under way.                                *)
UnderWay(c) == fresh[c] /\ phase[c] \in {"request", "backoff"}

ProbeInv ==
    /\ breaker = "open" => \A c \in Calls : ~fresh[c]
    /\ breaker = "half" /\ ~probing => \A c \in Calls : ~fresh[c]
    /\ breaker = "half" /\ probing =>
          \E c \in Calls : UnderWay(c) /\ \A d \in Calls : fresh[d] => d = c

\* Who is refused waits for a timeout or for one request that is under way.
OneProbe ==
    refuses => breaker = "open" \/ \E c \in Calls : UnderWay(c) /\ \A d \in Calls : fresh[d] => d = c

LEMMA ProbeInit == Init => ProbeInv
  BY DEF Init, ProbeInv

(* The result of a call that counts ends the generation it is the probe of. *)
LEMMA ProbeResult ==
    ASSUME Typed, ProbeInv, NEW c \in Calls, Bad(c) \/ Good(c),
           \A d \in Calls : d # c => phase'[d] = phase[d]
    PROVE  ProbeInv'
  <1>1. CASE fresh[c]
    <2>1. breaker' = "closed" \/ (breaker' = "open" /\ fresh' = [d \in Calls |-> FALSE])
      BY <1>1 DEF ProbeInv, Typed, Bad, Good, Success, Become, UnderWay
    <2>2. QED BY <2>1 DEF ProbeInv
  <1>2. CASE ~fresh[c]
    <2>1. UNCHANGED <<breaker, probing, fresh>>
      BY <1>2 DEF Bad, Good, Success, breakerVars
    <2>2. CASE breaker = "half" /\ probing
      <3>1. PICK p \in Calls : UnderWay(p) /\ \A d \in Calls : fresh[d] => d = p
        BY <2>2 DEF ProbeInv
      <3>2. UnderWay(p)'
        BY <1>2, <2>1, <3>1 DEF UnderWay
      <3>3. QED BY <2>1, <2>2, <3>1, <3>2 DEF ProbeInv
    <2>3. CASE ~(breaker = "half" /\ probing)
      BY <2>1, <2>3 DEF ProbeInv
    <2>4. QED BY <2>2, <2>3
  <1>3. QED BY <1>1, <1>2

(* Steps that tell the breaker nothing leave the probe under way.          *)
LEMMA ProbeKept ==
    ASSUME Typed, ProbeInv, UNCHANGED <<breaker, probing, fresh>>,
           \A d \in Calls : phase[d] \in {"request", "backoff"} => phase'[d] \in {"request", "backoff"}
    PROVE  ProbeInv'
  <1>1. CASE breaker = "half" /\ probing
    <2>1. PICK p \in Calls : UnderWay(p) /\ \A d \in Calls : fresh[d] => d = p
      BY <1>1 DEF ProbeInv
    <2>2. UnderWay(p)'
      BY <2>1 DEF UnderWay
    <2>3. QED BY <1>1, <2>1, <2>2 DEF ProbeInv
  <1>2. CASE ~(breaker = "half" /\ probing)
    BY <1>2 DEF ProbeInv
  <1>3. QED BY <1>1, <1>2

LEMMA ProbeNext == Typed /\ ProbeInv /\ [Next]_vars => ProbeInv'
  <1> SUFFICES ASSUME Typed, ProbeInv, [Next]_vars PROVE ProbeInv'
    OBVIOUS
  <1> DEFINE Asks(c) == phase[c] \in {"request", "backoff"}
  <1>1. ASSUME NEW c \in Calls, Exhausted(c) \/ Fails(c) \/ DeleteAbsent(c) \/ CancelRequest(c) \/ Done(c)
        PROVE  ProbeInv'
    <2>1. Bad(c) \/ Good(c)
      BY <1>1 DEF Exhausted, Fails, DeleteAbsent, CancelRequest, Done
    <2>2. \A d \in Calls : d # c => phase'[d] = phase[d]
      BY <1>1 DEF Typed, Exhausted, Fails, DeleteAbsent, CancelRequest, Done, End
    <2>3. QED BY <2>1, <2>2, ProbeResult
  <1>2. ASSUME NEW c \in Calls, Admit(c) PROVE ProbeInv'
    <2>1. /\ ~refuses /\ breaker' = breaker /\ probing' = (breaker = "half")
          /\ fresh'[c] /\ phase'[c] = "request" /\ \A d \in Calls : d # c => fresh'[d] = fresh[d]
      BY <1>2 DEF Admit, Typed
    <2>2. breaker' # "open" /\ (breaker' = "half" => probing')
      BY <2>1 DEF refuses
    <2>3. ASSUME breaker' = "half"
          PROVE  UnderWay(c)' /\ \A d \in Calls : fresh'[d] => d = c
      <3>1. \A d \in Calls : ~fresh[d]
        BY <2>1, <2>3 DEF refuses, ProbeInv
      <3>2. QED BY <2>1, <3>1 DEF UnderWay
    <2>4. QED BY <2>2, <2>3 DEF ProbeInv
  <1>3. ASSUME NEW c \in Calls, Acquire(c) \/ Refuse(c) \/ Partial(c) \/ Retry(c) \/ CancelWaiting(c)
        PROVE  UNCHANGED <<breaker, probing, fresh>> /\ \A d \in Calls : Asks(d) => Asks(d)'
    <2>1. UNCHANGED <<breaker, probing, fresh>>
      BY <1>3 DEF Acquire, Refuse, Partial, Retry, CancelWaiting, breakerVars
    <2>2. \A d \in Calls : Asks(d) => Asks(d)'
      BY <1>3 DEF Typed, Acquire, Refuse, Partial, Retry, CancelWaiting, End
    <2>3. QED BY <2>1, <2>2
  <1>4. ASSUME NEW c \in Calls, SSMRequest(c) \/ \E keys \in Lookups : BatchGet(c, keys)
        PROVE  UNCHANGED <<breaker, probing, fresh>> /\ \A d \in Calls : Asks(d) => Asks(d)'
    BY <1>4 DEF Typed, SSMRequest, BatchGet, breakerVars
  <1>5. CASE ServiceDown \/ ServiceUp \/ UNCHANGED vars
    <2>1. UNCHANGED <<breaker, probing, fresh, phase>>
      BY <1>5 DEF ServiceDown, ServiceUp, vars, breakerVars
    <2>2. QED BY <2>1, ProbeKept
  <1>6. CASE TimeoutPasses \/ IntervalPasses
    <2>1. breaker' # "open" /\ probing' = FALSE /\ fresh' = [c \in Calls |-> FALSE]
      BY <1>6 DEF TimeoutPasses, IntervalPasses, Become
    <2>2. QED BY <2>1 DEF ProbeInv
  <1>7. QED
    BY <1>1, <1>2, <1>3, <1>4, <1>5, <1>6, ProbeKept DEF Next, Step

(* A half-open breaker refuses only while one request is under way whose   *)
(* result it will count, whoever else answers late, leaves or is refused:  *)
(* it never waits for an answer that nobody is left to give (guard.go:57,  *)
(* MaxRequests).                                                           *)
THEOREM ProbesUnderWay == Spec => []OneProbe
  <1>1. Spec => []Typed
    BY TypedInit, TypedNext, PTL DEF Spec
  <1>2. ProbeInv => OneProbe
    BY DEF ProbeInv, OneProbe, refuses
  <1>3. QED BY <1>1, <1>2, ProbeInit, ProbeNext, PTL DEF Spec

=============================================================================
