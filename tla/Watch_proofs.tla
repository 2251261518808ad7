---------------------------- MODULE Watch_proofs ----------------------------
(* Proofs about the push pipeline for every set of streams, keys and        *)
(* requests, any number of writes and any channel size.                     *)
EXTENDS Watch, SequenceTheorems, TLAPS

(* What Head, Tail and Append do to a channel.                              *)
LEMMA Channel ==
    ASSUME NEW S, NEW q \in Seq(S)
    PROVE  /\ q # <<>> => /\ Head(q) \in S /\ Tail(q) \in Seq(S)
                          /\ Len(Tail(q)) = Len(q) - 1
           /\ \A e \in S : Append(q, e) \in Seq(S) /\ Len(Append(q, e)) = Len(q) + 1
           /\ Len(q) \in Nat
  BY HeadTailProperties, AppendProperties, LenProperties

(* A key a writer spells has a row, the row of its sanitized form.          *)
LEMMA SanitizedKeys ==
    /\ \A k \in Written : sanitize(k) \in Keys
    /\ \A k \in Subjects : sanitize(k) \in Keys
  BY WatchAssumption DEF Keys, Subjects

(* Calls that return leave every variable in its type.                      *)
LEMMA LeaveType ==
    ASSUME TypeOK, NEW gone, Leave(gone), flights' \subseteq flights
    PROVE  TypeOK'
  <1>1. /\ store' = store /\ prior' = prior /\ writes' = writes /\ tasks' = tasks
        /\ bus' = bus /\ view' = view /\ missed' = missed
    BY DEF Leave, nboxVars
  <1>2. /\ phase' \in [Streams -> {"off", "snapshot", "live", "resolving"}]
        /\ request' \in [Streams -> Requests \cup {NoRequest}]
        /\ todo' \in [Streams -> Seq(Paths)]
        /\ scan' \in [Streams -> SUBSET Keys]
    BY DEF TypeOK, Leave
  <1>3. burst' \in [Streams -> SUBSET (Keys \X (1..MaxWrites))]
    BY DEF TypeOK, Leave
  <1>4. buf' \in [Streams -> Seq(Events)] /\ delta' \in [Streams -> SUBSET Events]
    BY DEF TypeOK, Leave
  <1>5. \A s \in Streams : Len(buf'[s]) <= Buffer
    <2>1. Len(<<>>) <= Buffer
      BY WatchAssumption
    <2>2. QED BY <2>1 DEF TypeOK, Leave
  <1>6. QED BY <1>1, <1>2, <1>3, <1>4, <1>5 DEF TypeOK

(* The steps of nbox.                                                       *)
LEMMA NboxType ==
    ASSUME TypeOK,
           \/ \E k \in Written : Upsert(k)
           \/ \E k \in Keys : Delete(k)
           \/ \E e \in tasks : Publish(e) \/ Lose(e)
    PROVE  TypeOK'
  <1> USE DEF TypeOK, streamVars
  <1>1. ASSUME NEW k \in Written, Upsert(k)
        PROVE  TypeOK'
    <2>1. sanitize(k) \in Keys /\ k \in Subjects
      BY SanitizedKeys DEF Subjects
    <2>2. writes + 1 \in 1..MaxWrites
      BY <1>1, WatchAssumption DEF Upsert
    <2>3. PICK trace \in IF TraceReuse THEN 1..(writes + 1) ELSE {writes + 1} :
            tasks' = tasks \cup {[id |-> trace, subject |-> k, write |-> writes + 1]}
      BY <1>1 DEF Upsert
    <2>4. trace \in 1..MaxWrites
      BY <2>2, <2>3, WatchAssumption
    <2>5. tasks' \subseteq Events
      BY <2>1, <2>2, <2>3, <2>4 DEF Events
    <2>6. store' \in [Keys -> 0..MaxWrites] /\ prior' \in [Keys -> 0..MaxWrites]
      BY <1>1, <2>1, <2>2 DEF Upsert
    <2>7. writes' \in 0..MaxWrites
      BY <1>1, <2>2 DEF Upsert
    <2>8. QED BY <1>1, <2>5, <2>6, <2>7 DEF Upsert
  <1>2. ASSUME NEW k \in Keys, Delete(k)
        PROVE  TypeOK'
    <2>1. 0 \in 0..MaxWrites
      BY WatchAssumption
    <2>2. QED BY <1>2, <2>1 DEF Delete
  <1>3. ASSUME NEW e \in tasks, Publish(e)
        PROVE  TypeOK'
    <2>1. bus' \in Seq(Events)
      BY <1>3, Channel DEF Publish
    <2>2. QED BY <1>3, <2>1 DEF Publish
  <1>4. ASSUME NEW e \in tasks, Lose(e)
        PROVE  TypeOK'
    <2>1. e.write \in 1..MaxWrites
      BY DEF Events
    <2>2. QED BY <1>4, <2>1 DEF Lose
  <1>5. QED BY <1>1, <1>2, <1>3, <1>4

(* The broker.                                                              *)
LEMMA HandleType ==
    ASSUME TypeOK, Handle
    PROVE  TypeOK'
  <1> DEFINE e == Head(bus)
             kept == {s \in Streams : accepts(s, e) /\ hasRoom(s)}
             full == {s \in Streams : accepts(s, e)} \ kept
  <1>1. e \in Events /\ bus' \in Seq(Events) /\ e.write \in 1..MaxWrites
    <2>1. bus \in Seq(Events) /\ bus # <<>> /\ bus' = Tail(bus)
      BY DEF TypeOK, Handle
    <2>2. Head(bus) \in Events /\ Tail(bus) \in Seq(Events)
      BY <2>1, Channel
    <2>3. QED BY <2>1, <2>2 DEF Events
  <1>2. /\ buf' = [s \in Streams |-> IF s \in kept THEN Append(buf[s], e) ELSE buf[s]]
        /\ missed' = [s \in Streams |->
              IF s \in full THEN missed[s] \cup {e.write} ELSE missed[s]]
    BY DEF Handle
  <1>3. ASSUME NEW s \in Streams
        PROVE  buf'[s] \in Seq(Events) /\ Len(buf'[s]) <= Buffer
    <2>1. CASE s \in kept
      <3>1. Len(buf[s]) < Buffer
        BY <2>1 DEF hasRoom
      <3>2. buf'[s] = Append(buf[s], e)
        BY <1>2, <2>1
      <3>3. buf[s] \in Seq(Events)
        BY DEF TypeOK
      <3> HIDE DEF e
      <3>4. /\ Append(buf[s], e) \in Seq(Events) /\ Len(buf[s]) \in Nat
            /\ Len(Append(buf[s], e)) = Len(buf[s]) + 1
        BY <1>1, <3>3, Channel
      <3>5. QED BY <3>1, <3>2, <3>4, WatchAssumption
    <2>2. CASE s \notin kept
      BY <1>2, <2>2 DEF TypeOK
    <2>3. QED BY <2>1, <2>2
  <1> HIDE DEF e, kept, full
  <1>4. buf' \in [Streams -> Seq(Events)] /\ missed' \in [Streams -> SUBSET (1..MaxWrites)]
    BY <1>1, <1>2, <1>3 DEF TypeOK
  <1>5. QED BY <1>1, <1>3, <1>4 DEF TypeOK, Handle, nboxVars, streamVars

(* An agent connects, and its snapshot.                                     *)
LEMMA SnapshotType ==
    ASSUME TypeOK, NEW s \in Streams,
           \/ \E r \in Requests : Connect(s, r)
           \/ FetchPrefix(s) \/ SnapshotDone(s) \/ SnapshotFails(s)
           \/ \E k \in scan[s] : ScanRow(s, k)
           \/ \E row \in burst[s] : SendRow(s, row)
    PROVE  TypeOK'
  <1> USE DEF TypeOK, nboxVars
  <1>1. ASSUME NEW r \in Requests, Connect(s, r)
        PROVE  TypeOK'
    <2>1. r.prefixes \in Seq(Paths) /\ <<>> \in Seq(Paths)
      BY WatchAssumption
    <2>2. [k \in Subjects |-> 0] \in [Subjects -> 0..(MaxWrites + 1)]
      BY WatchAssumption
    <2>3. todo' \in [Streams -> Seq(Paths)]
      BY <1>1, <2>1 DEF Connect
    <2>4. view' \in [Streams -> [Subjects -> 0..(MaxWrites + 1)]]
      BY <1>1, <2>2 DEF Connect
    <2>5. phase' \in [Streams -> {"off", "snapshot", "live", "resolving"}]
      BY <1>1 DEF Connect
    <2>6. missed' \in [Streams -> SUBSET (1..MaxWrites)]
      BY <1>1 DEF Connect
    <2>7. QED BY <1>1, <2>3, <2>4, <2>5, <2>6 DEF Connect
  <1>2. ASSUME FetchPrefix(s)
        PROVE  TypeOK'
    <2>1. Tail(todo[s]) \in Seq(Paths)
      BY <1>2, Channel DEF FetchPrefix
    <2>2. Leaves(Head(todo[s])) \subseteq Keys
      BY DEF Leaves
    <2>3. QED BY <1>2, <2>1, <2>2 DEF FetchPrefix
  <1>3. ASSUME SnapshotDone(s)
        PROVE  TypeOK'
    BY <1>3 DEF SnapshotDone
  <1>4. ASSUME SnapshotFails(s)
        PROVE  TypeOK'
    BY <1>4, LeaveType DEF SnapshotFails
  <1>5. ASSUME NEW k \in scan[s], ScanRow(s, k)
        PROVE  TypeOK'
    <2>1. k \in Keys
      OBVIOUS
    <2>2. PICK w \in {store[k]} \cup (IF StaleScan THEN {prior[k]} ELSE {}) :
            burst' = [burst EXCEPT ![s] = IF w = 0 THEN @ ELSE @ \cup {<<k, w>>}]
      BY <1>5 DEF ScanRow
    <2>3. w \in 0..MaxWrites
      BY <2>1, <2>2
    <2>4. w # 0 => <<k, w>> \in Keys \X (1..MaxWrites)
      BY <2>1, <2>3, WatchAssumption
    <2>5. burst' \in [Streams -> SUBSET (Keys \X (1..MaxWrites))]
      BY <2>2, <2>4
    <2>6. QED BY <1>5, <2>5 DEF ScanRow
  <1>6. ASSUME NEW row \in burst[s], SendRow(s, row)
        PROVE  TypeOK'
    <2>1. row[1] \in Keys /\ row[1] \in Subjects /\ row[2] \in 1..MaxWrites
      BY DEF Subjects
    <2>2. CASE Leave({s}) /\ UNCHANGED flights
      BY <2>2, LeaveType
    <2>3. CASE ~(Leave({s}) /\ UNCHANGED flights)
      <3> DEFINE w == IF needsResolve(s, [subject |-> row[1]])
                      THEN store[row[1]] ELSE plain(row[1], row[2])
      <3>1. w \in 0..(MaxWrites + 1)
        BY <2>1, WatchAssumption DEF plain, Opaque
      <3>2. /\ burst' = [burst EXCEPT ![s] = @ \ {row}]
            /\ view' = [view EXCEPT ![s][row[1]] = w]
            /\ UNCHANGED <<nboxVars, bus, phase, request, todo, scan, buf,
                           delta, flights, missed>>
        BY <1>6, <2>3 DEF SendRow
      <3> HIDE DEF w
      <3>3. view' \in [Streams -> [Subjects -> 0..(MaxWrites + 1)]]
        BY <2>1, <3>1, <3>2
      <3>4. QED BY <3>2, <3>3
    <2>4. QED BY <2>2, <2>3
  <1>7. QED BY <1>1, <1>2, <1>3, <1>4, <1>5, <1>6

(* The live loop and the resolves it shares.                                *)
LEMMA LiveType ==
    ASSUME TypeOK,
           \/ \E s \in Streams : Deliver(s) \/ StartResolve(s) \/ Disconnect(s)
           \/ \E f \in flights : FlightStep(f)
    PROVE  TypeOK'
  <1> USE DEF TypeOK, nboxVars, streamVars
  <1>1. ASSUME NEW s \in Streams, buf[s] # <<>>
        PROVE  /\ Head(buf[s]) \in Events
               /\ Tail(buf[s]) \in Seq(Events) /\ Len(Tail(buf[s])) <= Buffer
    <2>1. buf[s] \in Seq(Events) /\ Len(buf[s]) <= Buffer
      OBVIOUS
    <2>2. /\ Head(buf[s]) \in Events /\ Tail(buf[s]) \in Seq(Events)
          /\ Len(Tail(buf[s])) = Len(buf[s]) - 1 /\ Len(buf[s]) \in Nat
      BY <1>1, <2>1, Channel
    <2>3. QED BY <2>1, <2>2, WatchAssumption
  <1>2. ASSUME NEW s \in Streams, Deliver(s)
        PROVE  TypeOK'
    <2> DEFINE e == Head(buf[s])
    <2>1. e.subject \in Subjects /\ e.write \in 1..MaxWrites
      BY <1>1, <1>2 DEF Deliver, Events
    <2>2. plain(e.subject, e.write) \in 0..(MaxWrites + 1)
      BY <2>1, WatchAssumption DEF plain, Opaque
    <2>3. view' = [view EXCEPT ![s][e.subject] = plain(e.subject, e.write)]
      BY <1>2 DEF Deliver
    <2> HIDE DEF e
    <2>4. view' \in [Streams -> [Subjects -> 0..(MaxWrites + 1)]]
      BY <2>1, <2>2, <2>3
    <2>5. buf' = [buf EXCEPT ![s] = Tail(buf[s])] /\ buf[s] # <<>>
      BY <1>2 DEF Deliver
    <2>6. buf' \in [Streams -> Seq(Events)] /\ \A t \in Streams : Len(buf'[t]) <= Buffer
      BY <1>1, <2>5
    <2>7. QED BY <1>2, <2>4, <2>6 DEF Deliver
  <1>3. ASSUME NEW s \in Streams, StartResolve(s)
        PROVE  TypeOK'
    <2> DEFINE e == Head(buf[s])
    <2>1. e \in Events /\ e.id \in 1..MaxWrites /\ e.subject \in Subjects
      BY <1>1, <1>3 DEF StartResolve, Events
    <2>2. CASE HasClient
      <3>1. /\ delta' = [delta EXCEPT ![s] = {e}]
            /\ phase' = [phase EXCEPT ![s] = "resolving"]
            /\ buf' = [buf EXCEPT ![s] = Tail(@)] /\ buf[s] # <<>>
            /\ UNCHANGED <<nboxVars, bus, request, todo, scan, burst, view, missed>>
        BY <1>3, <2>2 DEF StartResolve
      <3>2. \/ flights' = flights
            \/ flights' = flights \cup {[id |-> e.id, subject |-> e.subject,
                                         leader |-> s, value |-> 0]}
        BY <1>3, <2>2 DEF StartResolve
      <3> HIDE DEF e
      <3>3. flights' \subseteq [id : 1..MaxWrites, subject : Subjects,
                                leader : Streams, value : 0..MaxWrites]
        BY <2>1, <3>2, WatchAssumption
      <3>4. buf' \in [Streams -> Seq(Events)] /\ \A t \in Streams : Len(buf'[t]) <= Buffer
        BY <1>1, <3>1
      <3>5. delta' \in [Streams -> SUBSET Events]
        BY <2>1, <3>1
      <3>6. QED BY <3>1, <3>3, <3>4, <3>5
    <2>3. CASE ~HasClient
      <3>1. Leave(Streams) /\ UNCHANGED flights
        BY <1>3, <2>3 DEF StartResolve
      <3>2. QED BY <3>1, LeaveType
    <2>4. QED BY <2>2, <2>3
  <1>4. ASSUME NEW s \in Streams, Disconnect(s)
        PROVE  TypeOK'
    <2>1. PICK gone : Leave(gone) /\ flights' \subseteq flights
      BY <1>4 DEF Disconnect
    <2>2. QED BY <2>1, LeaveType
  <1>5. ASSUME NEW f \in flights, ResolveRead(f)
        PROVE  TypeOK'
    <2>1. store[f.subject] \in 0..MaxWrites
      BY <1>5 DEF ResolveRead
    <2>2. [f EXCEPT !.value = store[f.subject]] \in
             [id : 1..MaxWrites, subject : Subjects, leader : Streams,
              value : 0..MaxWrites]
      BY <2>1
    <2>3. QED BY <1>5, <2>2 DEF ResolveRead
  <1>6. ASSUME NEW f \in flights, ResolveDone(f)
        PROVE  TypeOK'
    <2>1. f.subject \in Subjects /\ f.value \in 0..(MaxWrites + 1)
      BY WatchAssumption
    <2>2. view' \in [Streams -> [Subjects -> 0..(MaxWrites + 1)]]
      BY <1>6, <2>1 DEF ResolveDone
    <2>3. phase' \in [Streams -> {"off", "snapshot", "live", "resolving"}]
      BY <1>6 DEF ResolveDone
    <2>4. delta' \in [Streams -> SUBSET Events]
      BY <1>6 DEF ResolveDone
    <2>5. QED BY <1>6, <2>2, <2>3, <2>4 DEF ResolveDone
  <1>7. ASSUME NEW f \in flights, ResolveFails(f)
        PROVE  TypeOK'
    <2>1. Leave(waiters(f)) /\ flights' \subseteq flights
      BY <1>7 DEF ResolveFails
    <2>2. QED BY <2>1, LeaveType
  <1>8. QED BY <1>2, <1>3, <1>4, <1>5, <1>6, <1>7 DEF FlightStep

(* Type correctness of the push pipeline: in particular no channel ever     *)
(* holds more events than its capacity.                                     *)
THEOREM WatchTypeCorrect == Spec => []TypeOK
  <1>1. Init => TypeOK
    <2> SUFFICES ASSUME Init PROVE TypeOK
      OBVIOUS
    <2> USE DEF Init
    <2>1. 0 \in 0..MaxWrites /\ 0 \in 0..(MaxWrites + 1)
      BY WatchAssumption
    <2>2. \A s \in Streams : buf[s] = <<>> /\ Len(<<>>) <= Buffer
      BY WatchAssumption
    <2>3. view \in [Streams -> [Subjects -> 0..(MaxWrites + 1)]]
      BY <2>1
    <2>4. QED BY <2>1, <2>2, <2>3 DEF TypeOK
  <1>2. TypeOK /\ [Next]_vars => TypeOK'
    <2>1. ASSUME TypeOK, UNCHANGED vars PROVE TypeOK'
      BY <2>1 DEF TypeOK, vars, nboxVars, streamVars
    <2>2. ASSUME TypeOK, Next PROVE TypeOK'
      BY <2>2, NboxType, HandleType, SnapshotType, LiveType DEF Next, StreamStep
    <2>3. QED BY <2>1, <2>2
  <1>3. QED BY <1>1, <1>2, PTL DEF Spec

-----------------------------------------------------------------------------
(***************************************************************************)
(* Why a vault delta is fresh when every write has a trace of its own.  An *)
(* event on its way is fresh: its id is the number of its write, and the   *)
(* row it is about has not gone back behind that write (it may be gone).   *)
(* So two events with one flight key are the same event, and whatever a    *)
(* flight reads from the store is at least as new as that event.           *)
(* VaultDeltaFresh alone says nothing of the events and flights a stream   *)
(* will meet later.                                                        *)
(***************************************************************************)
Covers(k, n) == n <= writes /\ (store[sanitize(k)] = 0 \/ store[sanitize(k)] >= n)

FreshEvents == {e \in Events : e.id = e.write /\ Covers(e.subject, e.write)}

FreshInv ==
    /\ \A k \in Keys : store[k] <= writes
    /\ tasks \subseteq FreshEvents
    /\ bus \in Seq(FreshEvents)
    /\ buf \in [Streams -> Seq(FreshEvents)]
    /\ delta \in [Streams -> SUBSET FreshEvents]
    /\ \A s \in Streams : \A d, e \in delta[s] : d = e
    /\ \A f \in flights : /\ Covers(f.subject, f.id)
                          /\ f.value = 0 \/ f.value >= f.id

(* A step that does not touch the entries leaves fresh events fresh; so do  *)
(* a write, which is newer than every event, and a removal.                 *)
LEMMA StaysFresh ==
    ASSUME TypeOK, FreshInv,
           \/ UNCHANGED <<store, writes>>
           \/ \E k \in Written : Upsert(k)
           \/ \E k \in Keys : Delete(k)
    PROVE  /\ \A k \in Subjects, n \in 1..MaxWrites : Covers(k, n) => Covers(k, n)'
           /\ FreshEvents \subseteq FreshEvents'
           /\ Seq(FreshEvents) \subseteq Seq(FreshEvents')
           /\ \A k \in Keys : store'[k] <= writes'
  <1>1. CASE UNCHANGED <<store, writes>>
    BY <1>1 DEF Covers, FreshEvents, FreshInv
  <1>2. ASSUME NEW j \in Written, Upsert(j)
        PROVE  /\ \A k \in Subjects, n \in 1..MaxWrites : Covers(k, n) => Covers(k, n)'
               /\ \A k \in Keys : store'[k] <= writes'
    <2>1. /\ store' = [store EXCEPT ![sanitize(j)] = writes + 1] /\ writes' = writes + 1
          /\ writes \in Nat /\ store \in [Keys -> 0..MaxWrites]
      BY <1>2 DEF Upsert, TypeOK
    <2>2. \A k \in Subjects : sanitize(k) \in Keys
      BY SanitizedKeys
    <2>3. QED BY <2>1, <2>2 DEF Covers, FreshInv
  <1>3. ASSUME NEW j \in Keys, Delete(j)
        PROVE  /\ \A k \in Subjects, n \in 1..MaxWrites : Covers(k, n) => Covers(k, n)'
               /\ \A k \in Keys : store'[k] <= writes'
    <2>1. /\ store' = [store EXCEPT ![j] = 0] /\ writes' = writes
          /\ writes \in Nat /\ store \in [Keys -> 0..MaxWrites]
      BY <1>3 DEF Delete, TypeOK
    <2>2. \A k \in Subjects : sanitize(k) \in Keys
      BY SanitizedKeys
    <2>3. QED BY <2>1, <2>2 DEF Covers, FreshInv
  <1>4. /\ \A k \in Subjects, n \in 1..MaxWrites : Covers(k, n) => Covers(k, n)'
        /\ \A k \in Keys : store'[k] <= writes'
    BY <1>1, <1>2, <1>3
  <1>5. FreshEvents \subseteq FreshEvents'
    <2>1. \A e \in Events : e.subject \in Subjects /\ e.write \in 1..MaxWrites
      BY DEF Events
    <2>2. QED BY <1>4, <2>1 DEF FreshEvents
  <1>6. Seq(FreshEvents) \subseteq Seq(FreshEvents')
    BY <1>5, SeqMonotonic
  <1>7. QED BY <1>4, <1>5, <1>6

(* A step that adds no event and no flight keeps the invariant.             *)
LEMMA NothingNew ==
    ASSUME TypeOK, FreshInv, UNCHANGED <<store, writes>>,
           tasks' \subseteq tasks,
           bus' \in Seq(FreshEvents),
           buf' \in [Streams -> Seq(FreshEvents)],
           delta' \in [Streams -> SUBSET FreshEvents],
           \A s \in Streams : \A d, e \in delta'[s] : d = e,
           flights' \subseteq flights
    PROVE  FreshInv'
  <1>1. FreshEvents' = FreshEvents
    BY DEF FreshEvents, Covers
  <1>2. \A f \in flights' : Covers(f.subject, f.id)' /\ (f.value = 0 \/ f.value >= f.id)
    BY DEF FreshInv, Covers
  <1>3. QED BY <1>1, <1>2 DEF FreshInv

LEMMA LeaveFresh ==
    ASSUME TypeOK, FreshInv, NEW gone, Leave(gone), flights' \subseteq flights
    PROVE  FreshInv'
  <1>1. /\ UNCHANGED <<store, writes>> /\ tasks' = tasks /\ bus' = bus
        /\ buf' = [s \in Streams |-> IF s \in gone THEN <<>> ELSE buf[s]]
        /\ delta' = [s \in Streams |-> IF s \in gone THEN {} ELSE delta[s]]
    BY DEF Leave, nboxVars
  <1>2. <<>> \in Seq(FreshEvents)
    BY EmptySeq
  <1>3. QED BY <1>1, <1>2, NothingNew DEF FreshInv

(* The steps of nbox and of the broker.                                     *)
LEMMA EventsFresh ==
    ASSUME ~TraceReuse, TypeOK, FreshInv,
           \/ \E k \in Written : Upsert(k)
           \/ \E k \in Keys : Delete(k)
           \/ \E e \in tasks : Publish(e) \/ Lose(e)
           \/ Handle
    PROVE  FreshInv'
  <1>1. ASSUME NEW k \in Written, Upsert(k)
        PROVE  FreshInv'
    <2>1. PICK n \in 1..MaxWrites : n = writes + 1
      BY <1>1, WatchAssumption DEF Upsert, TypeOK
    <2>2. PICK new \in Events : new = [id |-> n, subject |-> k, write |-> n]
      BY DEF Events, Subjects
    <2>3. tasks' = tasks \cup {new}
      BY <1>1, <2>1, <2>2 DEF Upsert
    <2>4. /\ store' = [store EXCEPT ![sanitize(k)] = n] /\ writes' = n
          /\ store \in [Keys -> 0..MaxWrites]
      BY <1>1, <2>1 DEF Upsert, TypeOK
    <2>5. sanitize(k) \in Keys
      BY SanitizedKeys
    <2>6. new \in FreshEvents'
      BY <2>2, <2>4, <2>5 DEF FreshEvents, Covers
    <2>7. /\ bus' = bus /\ buf' = buf /\ delta' = delta /\ flights' = flights
      BY <1>1 DEF Upsert, streamVars
    <2>8. \A f \in flights : f.subject \in Subjects /\ f.id \in 1..MaxWrites
      BY DEF TypeOK
    <2>9. QED BY <1>1, <2>3, <2>6, <2>7, <2>8, StaysFresh DEF FreshInv
  <1>2. ASSUME NEW k \in Keys, Delete(k)
        PROVE  FreshInv'
    <2>1. /\ bus' = bus /\ buf' = buf /\ delta' = delta /\ flights' = flights
          /\ tasks' = tasks
      BY <1>2 DEF Delete, streamVars
    <2>2. \A f \in flights : f.subject \in Subjects /\ f.id \in 1..MaxWrites
      BY DEF TypeOK
    <2>3. QED BY <1>2, <2>1, <2>2, StaysFresh DEF FreshInv
  <1>3. ASSUME NEW e \in tasks, Publish(e)
        PROVE  FreshInv'
    <2>1. bus' \in Seq(FreshEvents)
      BY <1>3, Channel DEF Publish, FreshInv
    <2>2. QED BY <1>3, <2>1, NothingNew DEF Publish, FreshInv, streamVars
  <1>4. ASSUME NEW e \in tasks, Lose(e)
        PROVE  FreshInv'
    BY <1>4, NothingNew DEF Lose, FreshInv, streamVars
  <1>5. ASSUME Handle
        PROVE  FreshInv'
    <2>1. bus \in Seq(FreshEvents) /\ bus # <<>> /\ bus' = Tail(bus)
      BY <1>5 DEF FreshInv, Handle
    <2>2. Head(bus) \in FreshEvents /\ bus' \in Seq(FreshEvents)
      BY <2>1, Channel
    <2>3. PICK kept : buf' = [s \in Streams |->
                  IF s \in kept THEN Append(buf[s], Head(bus)) ELSE buf[s]]
      BY <1>5 DEF Handle
    <2>4. \A s \in Streams : buf[s] \in Seq(FreshEvents)
      BY DEF FreshInv
    <2>5. \A s \in Streams : Append(buf[s], Head(bus)) \in Seq(FreshEvents)
      BY <2>2, <2>4, Channel
    <2>6. buf' \in [Streams -> Seq(FreshEvents)]
      BY <2>3, <2>4, <2>5
    <2>7. QED BY <1>5, <2>2, <2>6, NothingNew DEF Handle, FreshInv, nboxVars, streamVars
  <1>6. QED BY <1>1, <1>2, <1>3, <1>4, <1>5

(* The steps of the streams and of their resolves.                          *)
LEMMA StreamsFresh ==
    ASSUME TypeOK, FreshInv,
           \/ \E s \in Streams : \/ \E r \in Requests : Connect(s, r)
                                 \/ StreamStep(s) \/ SnapshotFails(s) \/ Disconnect(s)
           \/ \E f \in flights : FlightStep(f)
    PROVE  FreshInv'
  <1> USE DEF nboxVars, streamVars
  <1>1. ASSUME NEW s \in Streams, buf[s] # <<>>
        PROVE  /\ Head(buf[s]) \in FreshEvents
               /\ [buf EXCEPT ![s] = Tail(@)] \in [Streams -> Seq(FreshEvents)]
    <2>1. buf \in [Streams -> Seq(FreshEvents)] /\ buf[s] \in Seq(FreshEvents)
      BY DEF FreshInv
    <2>2. Head(buf[s]) \in FreshEvents /\ Tail(buf[s]) \in Seq(FreshEvents)
      BY <1>1, <2>1, Channel
    <2>3. QED BY <2>1, <2>2
  <1>2. ASSUME UNCHANGED <<store, writes, tasks, bus, buf, delta, flights>>
        PROVE  FreshInv'
    BY <1>2, NothingNew DEF FreshInv
  <1>3. ASSUME NEW s \in Streams, NEW r \in Requests, Connect(s, r)
        PROVE  FreshInv'
    BY <1>2, <1>3 DEF Connect
  <1>4. ASSUME NEW s \in Streams, FetchPrefix(s) \/ SnapshotDone(s)
        PROVE  FreshInv'
    BY <1>2, <1>4 DEF FetchPrefix, SnapshotDone
  <1>5. ASSUME NEW s \in Streams, NEW k \in scan[s], ScanRow(s, k)
        PROVE  FreshInv'
    BY <1>2, <1>5 DEF ScanRow
  <1>6. ASSUME NEW s \in Streams, NEW row \in burst[s], SendRow(s, row)
        PROVE  FreshInv'
    <2>1. \/ Leave({s}) /\ UNCHANGED flights
          \/ UNCHANGED <<nboxVars, bus, buf, delta, flights>>
      BY <1>6 DEF SendRow
    <2>2. QED BY <1>2, <2>1, LeaveFresh
  <1>7. ASSUME NEW s \in Streams, SnapshotFails(s)
        PROVE  FreshInv'
    BY <1>7, LeaveFresh DEF SnapshotFails
  <1>8. ASSUME NEW s \in Streams, Disconnect(s)
        PROVE  FreshInv'
    <2>1. PICK gone : Leave(gone) /\ flights' \subseteq flights
      BY <1>8 DEF Disconnect
    <2>2. QED BY <2>1, LeaveFresh
  <1>9. ASSUME NEW s \in Streams, Deliver(s)
        PROVE  FreshInv'
    <2>1. buf' \in [Streams -> Seq(FreshEvents)]
      BY <1>1, <1>9 DEF Deliver
    <2>2. QED BY <1>9, <2>1, NothingNew DEF Deliver, FreshInv
  <1>10. ASSUME NEW s \in Streams, StartResolve(s)
         PROVE  FreshInv'
    <2>1. CASE ~HasClient
      BY <1>10, <2>1, LeaveFresh DEF StartResolve
    <2>2. CASE HasClient
      <3> DEFINE e == Head(buf[s])
                 new == [id |-> e.id, subject |-> e.subject, leader |-> s, value |-> 0]
      <3>1. buf[s] # <<>> /\ e \in FreshEvents
        BY <1>1, <1>10 DEF StartResolve
      <3>2. /\ delta' = [delta EXCEPT ![s] = {e}]
            /\ buf' = [buf EXCEPT ![s] = Tail(@)]
            /\ UNCHANGED <<store, writes, tasks, bus>>
            /\ flights' \subseteq flights \cup {new}
        BY <1>10, <2>2 DEF StartResolve
      <3>3. Covers(e.subject, e.id)
        BY <3>1 DEF FreshEvents
      <3>4. new.value = 0 /\ Covers(new.subject, new.id)
        BY <3>3
      <3> HIDE DEF e, new
      <3>5. /\ buf' \in [Streams -> Seq(FreshEvents)]
            /\ delta' \in [Streams -> SUBSET FreshEvents]
            /\ \A t \in Streams : \A c, d \in delta'[t] : c = d
        BY <1>1, <3>1, <3>2 DEF FreshInv
      <3>6. \A f \in flights' : Covers(f.subject, f.id) /\ (f.value = 0 \/ f.value >= f.id)
        BY <3>2, <3>4 DEF FreshInv
      <3>7. FreshEvents' = FreshEvents /\ \A k, n : Covers(k, n)' = Covers(k, n)
        BY <3>2 DEF FreshEvents, Covers
      <3>8. QED BY <3>2, <3>5, <3>6, <3>7 DEF FreshInv
    <2>3. QED BY <2>1, <2>2
  <1>11. ASSUME NEW f \in flights, ResolveRead(f)
         PROVE  FreshInv'
    <2> DEFINE g == [f EXCEPT !.value = store[f.subject]]
    <2>1. /\ flights' = (flights \ {f}) \cup {g}
          /\ f.subject \in Keys /\ store[f.subject] # 0
          /\ UNCHANGED <<store, writes, tasks, bus, buf, delta>>
      BY <1>11 DEF ResolveRead
    <2>2. sanitize(f.subject) = f.subject
      BY <2>1, WatchAssumption
    <2>3. Covers(f.subject, f.id) /\ store[f.subject] >= f.id
      BY <2>1, <2>2 DEF FreshInv, Covers
    <2>4. g.id = f.id /\ g.subject = f.subject /\ g.value = store[f.subject]
      BY DEF TypeOK
    <2> HIDE DEF g
    <2>5. \A h \in flights' : Covers(h.subject, h.id) /\ (h.value = 0 \/ h.value >= h.id)
      BY <2>1, <2>3, <2>4 DEF FreshInv
    <2>6. FreshEvents' = FreshEvents /\ \A k, n : Covers(k, n)' = Covers(k, n)
      BY <2>1 DEF FreshEvents, Covers
    <2>7. QED BY <2>1, <2>5, <2>6 DEF FreshInv
  <1>12. ASSUME NEW f \in flights, ResolveDone(f)
         PROVE  FreshInv'
    BY <1>12, NothingNew DEF ResolveDone, FreshInv
  <1>13. ASSUME NEW f \in flights, ResolveFails(f)
         PROVE  FreshInv'
    <2>1. Leave(waiters(f)) /\ flights' \subseteq flights
      BY <1>13 DEF ResolveFails
    <2>2. QED BY <2>1, LeaveFresh
  <1>14. QED
    BY <1>3, <1>4, <1>5, <1>6, <1>7, <1>8, <1>9, <1>10, <1>11, <1>12, <1>13
       DEF StreamStep, FlightStep

(* Only the end of a flight takes a stream from resolving to live.          *)
LEMMA OnlyResolveDone ==
    ASSUME TypeOK, Next, NEW s \in Streams,
           phase[s] = "resolving", phase'[s] = "live"
    PROVE  \E f \in flights : ResolveDone(f) /\ s \in waiters(f)
  <1> USE DEF streamVars, TypeOK
  <1>1. ASSUME NEW gone, Leave(gone) PROVE FALSE
    BY <1>1 DEF Leave
  <1>2. ASSUME UNCHANGED phase PROVE FALSE
    BY <1>2
  <1>3. ASSUME NEW t \in Streams, t # s, phase' = [phase EXCEPT ![t] = phase'[t]]
        PROVE  FALSE
    BY <1>3
  <1>4. \/ \E k \in Written : Upsert(k)
        \/ \E k \in Keys : Delete(k)
        \/ \E e \in tasks : Publish(e) \/ Lose(e)
        \/ Handle
        => FALSE
    BY <1>2 DEF Upsert, Delete, Publish, Lose, Handle
  <1>5. ASSUME NEW t \in Streams, NEW r \in Requests, Connect(t, r) PROVE FALSE
    BY <1>5 DEF Connect
  <1>6. ASSUME NEW t \in Streams, StreamStep(t) \/ SnapshotFails(t) \/ Disconnect(t)
        PROVE  FALSE
    <2>1. CASE FetchPrefix(t) \/ Deliver(t) \/ \E k \in scan[t] : ScanRow(t, k)
      BY <1>2, <2>1 DEF FetchPrefix, Deliver, ScanRow
    <2>2. CASE SnapshotDone(t)
      BY <2>2 DEF SnapshotDone
    <2>3. ASSUME NEW row \in burst[t], SendRow(t, row) PROVE FALSE
      BY <1>1, <1>2, <2>3 DEF SendRow
    <2>4. CASE StartResolve(t)
      BY <1>1, <2>4 DEF StartResolve
    <2>5. CASE SnapshotFails(t) \/ Disconnect(t)
      BY <1>1, <2>5 DEF SnapshotFails, Disconnect
    <2>6. QED BY <1>6, <2>1, <2>2, <2>3, <2>4, <2>5 DEF StreamStep
  <1>7. PICK f \in flights : FlightStep(f)
    BY <1>4, <1>5, <1>6 DEF Next
  <1>8. ~ResolveRead(f) /\ ~ResolveFails(f)
    BY <1>1, <1>2 DEF ResolveRead, ResolveFails
  <1>9. ResolveDone(f)
    BY <1>7, <1>8 DEF FlightStep
  <1>10. s \in waiters(f)
    BY <1>9 DEF ResolveDone
  <1>11. QED BY <1>9, <1>10

LEMMA FreshInit == Init => FreshInv
  <1>1. <<>> \in Seq(FreshEvents)
    BY EmptySeq
  <1>2. QED BY <1>1 DEF Init, FreshInv

LEMMA FreshNext == ~TraceReuse /\ TypeOK /\ FreshInv /\ [Next]_vars => FreshInv'
  <1>1. ASSUME ~TraceReuse, TypeOK, FreshInv, UNCHANGED vars PROVE FreshInv'
    BY <1>1, NothingNew DEF FreshInv, vars, nboxVars, streamVars
  <1>2. ASSUME ~TraceReuse, TypeOK, FreshInv, Next PROVE FreshInv'
    BY <1>2, EventsFresh, StreamsFresh DEF Next
  <1>3. QED BY <1>1, <1>2

(* If every write has a trace of its own, no stream ever delivers a vault   *)
(* value older than the event it was woken by, also when it shares the      *)
(* resolve of another stream (resolveOnce).                                 *)
THEOREM WatchVaultDeltaFresh == ~TraceReuse => (Spec => VaultDeltaFresh)
  <1> DEFINE Fresh(s) == phase[s] = "resolving" /\ phase'[s] = "live" =>
                             \A e \in delta[s] : view'[s][e.subject] >= e.write
             AllFresh == \A s \in Streams : Fresh(s)
  <1> SUFFICES ASSUME ~TraceReuse PROVE Spec => [][AllFresh]_vars
    BY DEF VaultDeltaFresh
  <1>1. Init => FreshInv
    BY FreshInit
  <1>2. TypeOK /\ FreshInv /\ [Next]_vars => FreshInv'
    BY FreshNext
  <1>3. TypeOK /\ FreshInv /\ [Next]_vars => [AllFresh]_vars
    <2> SUFFICES ASSUME TypeOK, FreshInv, Next, NEW s \in Streams,
                        phase[s] = "resolving", phase'[s] = "live", NEW e \in delta[s]
                 PROVE  view'[s][e.subject] >= e.write
      OBVIOUS
    <2>1. PICK f \in flights : ResolveDone(f) /\ s \in waiters(f)
      BY OnlyResolveDone
    <2>2. flightKey(e) = flightKey(f)
      BY <2>1 DEF waiters, FreshInv
    <2>3. e.id = f.id /\ e.subject = f.subject
      BY <2>2 DEF flightKey
    <2>4. f.value >= e.id /\ e.id = e.write
      BY <2>1, <2>3 DEF ResolveDone, FreshInv, FreshEvents
    <2>5. view'[s][f.subject] = f.value
      BY <2>1 DEF ResolveDone, TypeOK
    <2>6. QED BY <2>3, <2>4, <2>5
  <1>4. QED
    <2>1. Spec => []TypeOK
      BY WatchTypeCorrect
    <2>2. QED BY <1>1, <1>2, <1>3, <2>1, PTL DEF Spec

-----------------------------------------------------------------------------
(***************************************************************************)
(* Why a call that ends takes only those with it that wait for the same    *)
(* plaintext.  A flight is led by a stream that waits for it, no two       *)
(* flights have one key, and a stream waits for one event at most; so all  *)
(* who wait for a flight of one leader wait for the same event as it does. *)
(***************************************************************************)
Waiting(s) ==
    /\ scan[s] # {} \/ burst[s] # {} => phase[s] = "snapshot"
    /\ delta[s] # {} => phase[s] = "resolving"
    /\ \A d, e \in delta[s] : d = e

Led(f) == \E e \in delta[f.leader] : flightKey(e) = flightKey(f)

SharedInv ==
    /\ \A s \in Streams : Waiting(s)
    /\ \A f \in flights : Led(f)
    /\ \A f, g \in flights : flightKey(f) = flightKey(g) => f = g

(* Calls end together with the flights they lead.                           *)
LEMMA LeaveShared ==
    ASSUME TypeOK, SharedInv, NEW gone, Leave(gone), flights' \subseteq flights,
           \A f \in flights' : f.leader \notin gone
    PROVE  SharedInv'
  <1>1. \A s \in Streams : Waiting(s)'
    BY DEF TypeOK, SharedInv, Waiting, Leave
  <1>2. \A f \in flights' : Led(f)'
    BY DEF TypeOK, SharedInv, Led, Leave, flightKey
  <1>3. QED BY <1>1, <1>2 DEF SharedInv, flightKey

(* Only those who wait for a flight end with it, and none of them leads     *)
(* another one.                                                             *)
LEMMA WaitersLead ==
    ASSUME TypeOK, SharedInv, NEW f \in flights, NEW g \in flights, g # f
    PROVE  g.leader \notin waiters(f)
  <1>1. flightKey(g) # flightKey(f) /\ Led(g) /\ g.leader \in Streams
    BY DEF SharedInv, TypeOK
  <1>2. Waiting(g.leader)
    BY <1>1 DEF SharedInv
  <1>3. QED BY <1>1, <1>2 DEF Led, Waiting, waiters

(* A stream that waits for a flight of t waits for what t waits for.        *)
LEMMA WaitsLikeLeader ==
    ASSUME TypeOK, SharedInv, NEW f \in flights, NEW s \in waiters(f)
    PROVE  \E d \in delta[s], e \in delta[f.leader] : flightKey(d) = flightKey(e)
  BY DEF SharedInv, Led, waiters

(* What a step does to the calls: it ends some, with the flights they lead, *)
(* or none; those that end wait for one event or are one.                   *)
Ends(gone) ==
    /\ Leave(gone) /\ flights' \subseteq flights
    /\ \A f \in flights' : f.leader \notin gone
    /\ \A s, t \in gone \cap Streams : s # t =>
          \E d \in delta[s], e \in delta[t] : flightKey(d) = flightKey(e)

LEMMA WaitAlike ==
    ASSUME TypeOK, SharedInv, NEW l \in Streams, NEW gone \in SUBSET Streams,
           \A s \in gone : s = l \/ \E f \in flights : f.leader = l /\ s \in waiters(f)
    PROVE  \A s, t \in gone : s # t =>
              \E d \in delta[s], e \in delta[t] : flightKey(d) = flightKey(e)
  <1> SUFFICES ASSUME NEW s \in gone, NEW t \in gone, s # t
               PROVE  \E d \in delta[s], e \in delta[t] : flightKey(d) = flightKey(e)
    OBVIOUS
  <1>1. ASSUME NEW u \in gone, u # l
        PROVE  \E d \in delta[u], e \in delta[l] : flightKey(d) = flightKey(e)
    BY <1>1, WaitsLikeLeader
  <1>2. \A d, e \in delta[l] : d = e
    BY DEF SharedInv, Waiting
  <1>3. CASE s = l
    BY <1>1, <1>3
  <1>4. CASE t = l
    BY <1>1, <1>4
  <1>5. CASE s # l /\ t # l
    <2>1. PICK d \in delta[s], e \in delta[l] : flightKey(d) = flightKey(e)
      BY <1>1, <1>5
    <2>2. PICK a \in delta[t], b \in delta[l] : flightKey(a) = flightKey(b)
      BY <1>1, <1>5
    <2>3. e = b
      BY <1>2, <2>1, <2>2
    <2>4. QED BY <2>1, <2>2, <2>3
  <1>6. QED BY <1>3, <1>4, <1>5

LEMMA SnapshotEnds ==
    ASSUME TypeOK, SharedInv, NEW s \in Streams, phase[s] = "snapshot",
           Leave({s}), UNCHANGED flights
    PROVE  Ends({s})
  <1>1. delta[s] = {}
    BY DEF SharedInv, Waiting
  <1>2. \A f \in flights : f.leader # s
    BY <1>1 DEF SharedInv, Led
  <1>3. QED BY <1>2 DEF Ends

LEMMA EndingSteps ==
    ASSUME TypeOK, SharedInv, HasClient,
           \/ \E s \in Streams : \/ SnapshotFails(s) \/ Disconnect(s)
                                 \/ \E row \in burst[s] : SendRow(s, row) /\ phase' # phase
           \/ \E f \in flights : ResolveFails(f)
    PROVE  \E gone : Ends(gone)
  <1>1. ASSUME NEW s \in Streams, SnapshotFails(s)
        PROVE  Ends({s})
    BY <1>1, SnapshotEnds DEF SnapshotFails
  <1>2. ASSUME NEW s \in Streams, NEW row \in burst[s], SendRow(s, row), phase' # phase
        PROVE  Ends({s})
    <2>1. phase[s] = "snapshot"
      BY DEF SharedInv, Waiting
    <2>2. Leave({s}) /\ UNCHANGED flights
      BY <1>2 DEF SendRow
    <2>3. QED BY <2>1, <2>2, SnapshotEnds
  <1>3. ASSUME NEW s \in Streams, Disconnect(s)
        PROVE  \E gone : Ends(gone)
    <2> DEFINE led == {f \in flights : f.leader = s}
               gone == {s} \cup UNION {waiters(f) : f \in led}
    <2>1. Leave(gone) /\ flights' = flights \ led
      BY <1>3 DEF Disconnect
    <2>2. gone \in SUBSET Streams
      BY DEF waiters
    <2>3. \A t \in gone : t = s \/ \E f \in flights : f.leader = s /\ t \in waiters(f)
      OBVIOUS
    <2>4. ASSUME NEW g \in flights' PROVE g.leader \notin gone
      <3>1. g \in flights /\ g.leader # s
        BY <2>1
      <3>2. \A f \in led : g.leader \notin waiters(f)
        BY <3>1, WaitersLead
      <3>3. QED BY <3>1, <3>2
    <2> HIDE DEF gone
    <2>5. \A t, u \in gone : t # u =>
              \E d \in delta[t], e \in delta[u] : flightKey(d) = flightKey(e)
      BY <2>2, <2>3, WaitAlike
    <2>6. QED BY <2>1, <2>4, <2>5 DEF Ends
  <1>4. ASSUME NEW f \in flights, ResolveFails(f)
        PROVE  Ends(waiters(f))
    <2>1. Leave(waiters(f)) /\ flights' = flights \ {f}
      BY <1>4 DEF ResolveFails
    <2>2. \A g \in flights' : g.leader \notin waiters(f)
      BY <2>1, WaitersLead
    <2>3. waiters(f) \in SUBSET Streams /\ f.leader \in Streams
      BY DEF waiters, TypeOK
    <2>4. \A t \in waiters(f) :
              t = f.leader \/ \E h \in flights : h.leader = f.leader /\ t \in waiters(h)
      OBVIOUS
    <2>5. \A t, u \in waiters(f) : t # u =>
              \E d \in delta[t], e \in delta[u] : flightKey(d) = flightKey(e)
      BY <2>3, <2>4, WaitAlike
    <2>6. QED BY <2>1, <2>2, <2>5 DEF Ends
  <1>5. QED BY <1>1, <1>2, <1>3, <1>4

(* All other steps end no call.                                             *)
LEMMA SharedStep ==
    ASSUME TypeOK, SharedInv, HasClient, [Next]_vars
    PROVE  /\ SharedInv'
           /\ \/ \E gone : Ends(gone)
              \/ \A s \in Streams : Subscribed(s) => Subscribed(s)'
  <1> DEFINE Live == \A s \in Streams : Subscribed(s) => Subscribed(s)'
  <1> USE DEF nboxVars, streamVars
  <1>1. ASSUME NEW gone, Ends(gone) PROVE SharedInv'
    BY <1>1, LeaveShared DEF Ends
  <1>2. ASSUME UNCHANGED <<phase, scan, burst, delta, flights>>
        PROVE  SharedInv' /\ Live
    BY <1>2 DEF SharedInv, Waiting, Led, Subscribed, flightKey
  <1>3. ASSUME NEW s \in Streams, UNCHANGED <<delta, flights>>,
               \A t \in Streams \ {s} : /\ phase'[t] = phase[t] /\ scan'[t] = scan[t]
                                        /\ burst'[t] = burst[t],
               Waiting(s)', phase'[s] # "off"
        PROVE  SharedInv' /\ Live
    <2>1. \A t \in Streams : Waiting(t)'
      BY <1>3 DEF SharedInv, Waiting
    <2>2. QED BY <1>3, <2>1 DEF SharedInv, Led, Subscribed, flightKey
  <1>4. CASE UNCHANGED vars
    BY <1>2, <1>4 DEF vars
  <1>5. CASE \/ \E k \in Written : Upsert(k)
             \/ \E k \in Keys : Delete(k)
             \/ \E e \in tasks : Publish(e) \/ Lose(e)
             \/ Handle
    BY <1>2, <1>5 DEF Upsert, Delete, Publish, Lose, Handle
  <1>6. ASSUME NEW s \in Streams, NEW r \in Requests, Connect(s, r)
        PROVE  SharedInv' /\ Live
    <2>1. scan[s] = {} /\ burst[s] = {} /\ delta[s] = {}
      BY <1>6 DEF Connect, SharedInv, Waiting
    <2>2. QED BY <1>3, <1>6, <2>1 DEF Connect, Waiting, TypeOK
  <1>7. ASSUME NEW s \in Streams, FetchPrefix(s)
        PROVE  SharedInv' /\ Live
    <2>1. Waiting(s)' /\ phase'[s] # "off"
      BY <1>7 DEF FetchPrefix, SharedInv, Waiting, TypeOK
    <2>2. QED BY <1>3, <1>7, <2>1 DEF FetchPrefix, TypeOK
  <1>8. ASSUME NEW s \in Streams, SnapshotDone(s)
        PROVE  SharedInv' /\ Live
    <2>1. delta[s] = {}
      BY <1>8 DEF SnapshotDone, SharedInv, Waiting
    <2>2. Waiting(s)' /\ phase'[s] # "off"
      BY <1>8, <2>1 DEF SnapshotDone, Waiting, TypeOK
    <2>3. QED BY <1>3, <1>8, <2>2 DEF SnapshotDone, TypeOK
  <1>9. ASSUME NEW s \in Streams, NEW k \in scan[s], ScanRow(s, k)
        PROVE  SharedInv' /\ Live
    <2>1. phase[s] = "snapshot" /\ delta[s] = {}
      BY DEF SharedInv, Waiting
    <2>2. Waiting(s)' /\ phase'[s] # "off"
      BY <1>9, <2>1 DEF ScanRow, Waiting
    <2>3. QED BY <1>3, <1>9, <2>2 DEF ScanRow, TypeOK
  <1>10. ASSUME NEW s \in Streams, NEW row \in burst[s], SendRow(s, row), phase' = phase
         PROVE  SharedInv' /\ Live
    <2>1. phase[s] = "snapshot" /\ delta[s] = {}
      BY DEF SharedInv, Waiting
    <2>2. ~Leave({s})
      BY <1>10, <2>1 DEF Leave
    <2>3. Waiting(s)' /\ phase'[s] # "off"
      BY <1>10, <2>1, <2>2 DEF SendRow, Waiting
    <2>4. QED BY <1>3, <1>10, <2>2, <2>3 DEF SendRow, TypeOK
  <1>11. ASSUME NEW s \in Streams, Deliver(s)
         PROVE  SharedInv' /\ Live
    BY <1>2, <1>11 DEF Deliver
  <1>12. ASSUME NEW s \in Streams, StartResolve(s)
         PROVE  SharedInv' /\ Live
    <2>0. PICK e, new : /\ e = Head(buf[s])
                        /\ new = [id |-> e.id, subject |-> e.subject, leader |-> s, value |-> 0]
      OBVIOUS
    <2>1. /\ phase[s] = "live" /\ delta' = [delta EXCEPT ![s] = {e}]
          /\ phase' = [phase EXCEPT ![s] = "resolving"]
          /\ UNCHANGED <<scan, burst>>
      BY <1>12, <2>0 DEF StartResolve
    <2>2. \/ flights' = flights
          \/ /\ flights' = flights \cup {new}
             /\ \A f \in flights : flightKey(f) # flightKey(e)
      BY <1>12, <2>0 DEF StartResolve
    <2>3. delta[s] = {}
      BY <2>1 DEF SharedInv, Waiting
    <2>4. flightKey(new) = flightKey(e) /\ new.leader = s
      BY <2>0 DEF flightKey
    <2>5. \A t \in Streams : Waiting(t)'
      BY <2>1 DEF SharedInv, Waiting, TypeOK
    <2>6. \A f \in flights : f.leader # s /\ f.leader \in Streams
      BY <2>3 DEF SharedInv, Led, TypeOK
    <2>7. \A f \in flights : Led(f)'
      BY <2>1, <2>6 DEF SharedInv, Led, TypeOK, flightKey
    <2>8. Led(new)'
      BY <2>1, <2>4 DEF Led, TypeOK, flightKey
    <2>9. \A f, g \in flights' : flightKey(f) = flightKey(g) => f = g
      BY <2>2, <2>4 DEF SharedInv
    <2>10. SharedInv'
      BY <2>2, <2>5, <2>7, <2>8, <2>9 DEF SharedInv, flightKey
    <2>11. QED BY <2>1, <2>10 DEF Subscribed, TypeOK
  <1>13. ASSUME NEW f \in flights, ResolveRead(f)
         PROVE  SharedInv' /\ Live
    <2>0. PICK g : g = [f EXCEPT !.value = store[f.subject]]
      OBVIOUS
    <2>1. /\ flights' = (flights \ {f}) \cup {g}
          /\ UNCHANGED <<phase, scan, burst, delta>>
      BY <1>13, <2>0 DEF ResolveRead
    <2>2. flightKey(g) = flightKey(f) /\ g.leader = f.leader
      BY <2>0 DEF TypeOK, flightKey
    <2>3. \A s \in Streams : Waiting(s)'
      BY <2>1 DEF SharedInv, Waiting
    <2>4. \A h \in flights' : Led(h)'
      BY <2>1, <2>2 DEF SharedInv, Led, flightKey
    <2>5. \A h, i \in flights' : flightKey(h) = flightKey(i) => h = i
      BY <2>1, <2>2 DEF SharedInv
    <2>6. SharedInv'
      BY <2>3, <2>4, <2>5 DEF SharedInv, flightKey
    <2>7. QED BY <2>1, <2>6 DEF Subscribed
  <1>14. ASSUME NEW f \in flights, ResolveDone(f)
         PROVE  SharedInv' /\ Live
    <2>1. /\ flights' = flights \ {f}
          /\ phase' = [s \in Streams |-> IF s \in waiters(f) THEN "live" ELSE phase[s]]
          /\ delta' = [s \in Streams |-> IF s \in waiters(f) THEN {} ELSE delta[s]]
          /\ UNCHANGED <<scan, burst>>
      BY <1>14 DEF ResolveDone
    <2>2. \A s \in waiters(f) : phase[s] = "resolving"
      BY DEF SharedInv, Waiting, waiters
    <2>3. \A s \in waiters(f) : scan[s] = {} /\ burst[s] = {}
      BY <2>2 DEF SharedInv, Waiting, waiters
    <2>4. \A s \in Streams : Waiting(s)'
      BY <2>1, <2>3 DEF SharedInv, Waiting
    <2>5. \A g \in flights' : g.leader \notin waiters(f) /\ g.leader \in Streams
      BY <2>1, WaitersLead DEF TypeOK
    <2>6. \A g \in flights' : Led(g)'
      BY <2>1, <2>5 DEF SharedInv, Led, flightKey
    <2>7. SharedInv'
      BY <2>1, <2>4, <2>6 DEF SharedInv, flightKey
    <2>8. QED BY <2>1, <2>7 DEF Subscribed
  <1>15. CASE \/ \E s \in Streams : \/ SnapshotFails(s) \/ Disconnect(s)
                                    \/ \E row \in burst[s] : SendRow(s, row) /\ phase' # phase
              \/ \E f \in flights : ResolveFails(f)
    BY <1>1, <1>15, EndingSteps
  <1>16. QED
    BY <1>4, <1>5, <1>6, <1>7, <1>8, <1>9, <1>10, <1>11, <1>12, <1>13, <1>14, <1>15
       DEF Next, StreamStep, FlightStep

(* With a Snapshotter, one stream's failure is its own: whatever fails or   *)
(* leaves, two calls end in one step only if both were waiting for the      *)
(* plaintext of the same event (stream_server.go, resolveOnce).             *)
THEOREM WatchFailuresContained == HasClient => (Spec => FailuresContained)
  <1> DEFINE Contained(s, t) ==
                 s # t /\ Subscribed(s) /\ Subscribed(t)
                       /\ ~Subscribed(s)' /\ ~Subscribed(t)' =>
                    \E d \in delta[s], e \in delta[t] : flightKey(d) = flightKey(e)
             AllContained == \A s, t \in Streams : Contained(s, t)
  <1> SUFFICES ASSUME HasClient PROVE Spec => [][AllContained]_vars
    BY DEF FailuresContained
  <1>1. Init => SharedInv
    BY DEF Init, SharedInv, Waiting
  <1>2. TypeOK /\ SharedInv /\ [Next]_vars => SharedInv'
    BY SharedStep
  <1>3. TypeOK /\ SharedInv /\ [Next]_vars => [AllContained]_vars
    <2> SUFFICES ASSUME TypeOK, SharedInv, [Next]_vars,
                        NEW s \in Streams, NEW t \in Streams, s # t,
                        Subscribed(s), Subscribed(t), ~Subscribed(s)', ~Subscribed(t)'
                 PROVE  \E d \in delta[s], e \in delta[t] : flightKey(d) = flightKey(e)
      OBVIOUS
    <2>1. PICK gone : Ends(gone)
      BY SharedStep
    <2>2. s \in gone /\ t \in gone
      BY <2>1 DEF Ends, Leave, Subscribed
    <2>3. QED BY <2>1, <2>2 DEF Ends
  <1>4. QED
    <2>1. Spec => []TypeOK
      BY WatchTypeCorrect
    <2>2. QED BY <1>1, <1>2, <1>3, <2>1, PTL DEF Spec

-----------------------------------------------------------------------------
(***************************************************************************)
(* The safety half of DeltasDrain.  A stream that waits for a plaintext    *)
(* waits for a flight that is in progress, so that the end of a flight,    *)
(* which Fairness promises, ends every wait.                               *)
(***************************************************************************)
Attended(s) == phase[s] = "resolving" => \E f \in flights : s \in waiters(f)

AllAttended == \A s \in Streams : Attended(s)

(* Nobody loses his flight when it keeps its key and he his event.          *)
LEMMA StillAttended ==
    ASSUME AllAttended, NEW s \in Streams,
           phase'[s] = "resolving" => phase[s] = "resolving" /\ delta'[s] = delta[s],
           \A f \in flights : s \in waiters(f) =>
               \E g \in flights' : flightKey(g) = flightKey(f)
    PROVE  Attended(s)'
  <1> SUFFICES ASSUME phase'[s] = "resolving"
               PROVE  \E g \in flights' : s \in waiters(g)'
    BY DEF Attended
  <1>1. PICK f \in flights : s \in waiters(f)
    BY DEF AllAttended, Attended
  <1>2. PICK g \in flights' : flightKey(g) = flightKey(f)
    BY <1>1
  <1>3. PICK e \in delta[s] : flightKey(e) = flightKey(f)
    BY <1>1 DEF waiters
  <1>4. e \in delta'[s] /\ flightKey(e) = flightKey(g)
    BY <1>2, <1>3
  <1>5. QED BY <1>2, <1>4 DEF waiters, flightKey

(* Calls end with every flight that only they wait for.                     *)
LEMMA LeaveAttended ==
    ASSUME TypeOK, AllAttended, NEW gone, Leave(gone),
           \A f \in flights \ flights' : waiters(f) \subseteq gone
    PROVE  AllAttended'
  <1> SUFFICES ASSUME NEW s \in Streams PROVE Attended(s)'
    BY DEF AllAttended
  <1>1. CASE s \in gone
    BY <1>1 DEF Leave, Attended
  <1>2. CASE s \notin gone
    <2>1. phase'[s] = phase[s] /\ delta'[s] = delta[s]
      BY <1>2 DEF Leave
    <2>2. \A f \in flights : s \in waiters(f) => f \in flights'
      BY <1>2
    <2>3. QED BY <2>1, <2>2, StillAttended
  <1>3. QED BY <1>1, <1>2

LEMMA AttendedNext ==
    ASSUME TypeOK, SharedInv, HasClient, AllAttended, [Next]_vars
    PROVE  AllAttended'
  <1> USE DEF nboxVars, streamVars
  <1>1. ASSUME UNCHANGED <<delta, flights>>,
               \A s \in Streams : phase'[s] = "resolving" => phase[s] = "resolving"
        PROVE  AllAttended'
    <2>1. \A s \in Streams : Attended(s)'
      BY <1>1, StillAttended
    <2>2. QED BY <2>1 DEF AllAttended
  <1>2. CASE UNCHANGED vars
    BY <1>1, <1>2 DEF vars
  <1>3. CASE \/ \E k \in Written : Upsert(k)
             \/ \E k \in Keys : Delete(k)
             \/ \E e \in tasks : Publish(e) \/ Lose(e)
             \/ Handle
    BY <1>1, <1>3 DEF Upsert, Delete, Publish, Lose, Handle
  <1>4. ASSUME NEW s \in Streams, NEW r \in Requests, Connect(s, r)
        PROVE  AllAttended'
    BY <1>1, <1>4 DEF Connect, TypeOK
  <1>5. ASSUME NEW s \in Streams,
               \/ FetchPrefix(s) \/ SnapshotDone(s) \/ Deliver(s)
               \/ \E k \in scan[s] : ScanRow(s, k)
        PROVE  AllAttended'
    BY <1>1, <1>5 DEF FetchPrefix, SnapshotDone, Deliver, ScanRow, TypeOK
  <1>6. ASSUME NEW s \in Streams, NEW row \in burst[s], SendRow(s, row)
        PROVE  AllAttended'
    <2>1. CASE Leave({s}) /\ UNCHANGED flights
      BY <2>1, LeaveAttended
    <2>2. CASE ~(Leave({s}) /\ UNCHANGED flights)
      BY <1>1, <1>6, <2>2 DEF SendRow
    <2>3. QED BY <2>1, <2>2
  <1>7. ASSUME NEW s \in Streams, SnapshotFails(s)
        PROVE  AllAttended'
    BY <1>7, LeaveAttended DEF SnapshotFails
  <1>8. ASSUME NEW s \in Streams, Disconnect(s)
        PROVE  AllAttended'
    <2>1. PICK gone : /\ gone = {s} \cup UNION {waiters(f) : f \in {h \in flights : h.leader = s}}
                      /\ Leave(gone)
      BY <1>8 DEF Disconnect
    <2>2. \A f \in flights \ flights' : waiters(f) \subseteq gone
      BY <1>8, <2>1 DEF Disconnect
    <2>3. QED BY <2>1, <2>2, LeaveAttended
  <1>9. ASSUME NEW f \in flights, ResolveFails(f)
        PROVE  AllAttended'
    BY <1>9, LeaveAttended DEF ResolveFails
  <1>10. ASSUME NEW f \in flights, ResolveRead(f)
         PROVE  AllAttended'
    <2>1. PICK g : g = [f EXCEPT !.value = store[f.subject]]
      OBVIOUS
    <2>2. /\ flights' = (flights \ {f}) \cup {g}
          /\ UNCHANGED <<phase, delta>>
      BY <1>10, <2>1 DEF ResolveRead
    <2>3. flightKey(g) = flightKey(f)
      BY <2>1 DEF TypeOK, flightKey
    <2>4. \A h \in flights : \E i \in flights' : flightKey(i) = flightKey(h)
      BY <2>2, <2>3
    <2>5. \A s \in Streams : Attended(s)'
      BY <2>2, <2>4, StillAttended
    <2>6. QED BY <2>5 DEF AllAttended
  <1>11. ASSUME NEW f \in flights, ResolveDone(f)
         PROVE  AllAttended'
    <2> SUFFICES ASSUME NEW s \in Streams PROVE Attended(s)'
      BY DEF AllAttended
    <2>1. /\ flights' = flights \ {f}
          /\ phase'[s] = IF s \in waiters(f) THEN "live" ELSE phase[s]
          /\ delta'[s] = IF s \in waiters(f) THEN {} ELSE delta[s]
      BY <1>11 DEF ResolveDone
    <2>2. CASE s \in waiters(f)
      BY <2>1, <2>2 DEF Attended
    <2>3. CASE s \notin waiters(f)
      <3>1. \A g \in flights : s \in waiters(g) => g \in flights'
        BY <2>1, <2>3
      <3>2. QED BY <2>1, <2>3, <3>1, StillAttended
    <2>4. QED BY <2>2, <2>3
  <1>12. ASSUME NEW s \in Streams, StartResolve(s)
         PROVE  AllAttended'
    <2>1. PICK e, new : /\ e = Head(buf[s])
                        /\ new = [id |-> e.id, subject |-> e.subject, leader |-> s, value |-> 0]
      OBVIOUS
    <2>2. /\ delta' = [delta EXCEPT ![s] = {e}]
          /\ phase' = [phase EXCEPT ![s] = "resolving"]
          /\ flights' = IF \E f \in flights : flightKey(f) = flightKey(e)
                        THEN flights ELSE flights \cup {new}
      BY <1>12, <2>1 DEF StartResolve
    <2>3. \A t \in Streams \ {s} : Attended(t)'
      <3>1. \A t \in Streams \ {s} : phase'[t] = phase[t] /\ delta'[t] = delta[t]
        BY <2>2 DEF TypeOK
      <3>2. flights \subseteq flights'
        BY <2>2
      <3>3. QED BY <3>1, <3>2, StillAttended
    <2>4. flightKey(new) = flightKey(e)
      BY <2>1 DEF flightKey
    <2>5. PICK g \in flights' : flightKey(g) = flightKey(e)
      BY <2>2, <2>4
    <2>6. delta'[s] = {e}
      BY <2>2 DEF TypeOK
    <2>7. s \in waiters(g)'
      BY <2>5, <2>6 DEF waiters, flightKey
    <2>8. QED BY <2>3, <2>7 DEF AllAttended, Attended
  <1>13. QED
    BY <1>2, <1>3, <1>4, <1>5, <1>6, <1>7, <1>8, <1>9, <1>10, <1>11, <1>12
       DEF Next, StreamStep, FlightStep

(* With a Snapshotter, no stream waits for a resolve that nobody runs any   *)
(* more, whoever led it, left or failed (stream_server.go, resolveOnce).    *)
(* And the stream that runs it is one of those that wait for it.            *)
THEOREM WatchWaitsAttended ==
    HasClient =>
      (Spec => [](\A s \in Streams : phase[s] = "resolving" =>
                     \E f \in flights : s \in waiters(f) /\ f.leader \in waiters(f)))
  <1> DEFINE Together == \A s \in Streams : phase[s] = "resolving" =>
                             \E f \in flights : s \in waiters(f) /\ f.leader \in waiters(f)
  <1> SUFFICES ASSUME HasClient PROVE Spec => []Together
    OBVIOUS
  <1>1. Init => SharedInv /\ AllAttended
    BY DEF Init, SharedInv, Waiting, AllAttended, Attended
  <1>2. TypeOK /\ SharedInv /\ AllAttended /\ [Next]_vars => SharedInv' /\ AllAttended'
    BY SharedStep, AttendedNext
  <1>3. TypeOK /\ SharedInv /\ AllAttended => Together
    <2> SUFFICES ASSUME TypeOK, SharedInv, AllAttended,
                        NEW s \in Streams, phase[s] = "resolving"
                 PROVE  \E f \in flights : s \in waiters(f) /\ f.leader \in waiters(f)
      OBVIOUS
    <2>1. PICK f \in flights : s \in waiters(f)
      BY DEF AllAttended, Attended
    <2>2. f.leader \in waiters(f)
      BY DEF SharedInv, Led, waiters, TypeOK
    <2>3. QED BY <2>1, <2>2
  <1> HIDE DEF Together
  <1>4. QED
    <2>1. Spec => []TypeOK
      BY WatchTypeCorrect
    <2>2. QED BY <1>1, <1>2, <1>3, <2>1, PTL DEF Spec

-----------------------------------------------------------------------------
(***************************************************************************)
(* Why agents converge.  As long as a stream is to hold the last write of  *)
(* a key (Due), that write's event, the newest of the key, is not yet at   *)
(* the broker (Out), in the stream's channel (Queued) or being resolved    *)
(* (Awaited), or the key is in a part of the snapshot that is still ahead, *)
(* or the agent has the value.  PlainKeysConverge and VaultKeysConverge    *)
(* say nothing of what is on its way.                                      *)
(*                                                                         *)
(* It takes a snapshot that is not behind; of the key, that writers spell  *)
(* it as it is stored; and of the agent, that the prefixes it asks for     *)
(* match the key in the broker's eyes as well ("/a" has a snapshot but no  *)
(* deltas).                                                                *)
(***************************************************************************)
InStep == HasClient /\ ~StaleScan

Spelled(k) == k \in Keys /\ \A w \in Written : sanitize(w) = k => w = k

Asks(s, k) == matchesPrefix(k, request[s].prefixes)

Newest(e, k) == e.subject = k /\ e.write = store[k]

Out(k) == \E e \in tasks \cup Range(bus) : Newest(e, k)
Queued(s, k) == \E e \in Range(buf[s]) : Newest(e, k)
Coming(s, k) == Out(k) \/ Queued(s, k)
Awaited(s, k) == \E e \in delta[s] : Newest(e, k)
Ahead(s, k) ==
    \/ \E i \in DOMAIN todo[s] : k \in Leaves(todo[s][i])
    \/ k \in scan[s]
    \/ \E row \in burst[s] : row[1] = k

Due(s, k) ==
    /\ phase[s] # "off"
    /\ k \in Scope(request[s]) /\ matchesPrefix(k, request[s].prefixes)
    /\ matchesType(EntryUpserted, request[s].types) /\ Spelled(k)
    /\ store[k] # 0 /\ store[k] \notin missed[s]

Placed(s, k) ==
    Coming(s, k) \/ Awaited(s, k) \/ Ahead(s, k) \/ view[s][k] = store[k]

(* What is empty in which phase; only vault keys are resolved.              *)
Closed(s) ==
    /\ phase[s] # "snapshot" => todo[s] = <<>>
    /\ phase[s] = "off" => buf[s] = <<>>
    /\ \A e \in delta[s] : isVaultKey(e.subject)

ClosedInv == SharedInv /\ \A s \in Streams : Closed(s)

(* What is in a channel, and where.                                         *)
LEMMA ChannelRange ==
    ASSUME NEW S, NEW q \in Seq(S)
    PROVE  /\ Range(q) \subseteq S
           /\ q # <<>> => /\ Head(q) \in Range(q)
                          /\ Range(q) = Range(Tail(q)) \cup {Head(q)}
           /\ \A e \in S : Range(Append(q, e)) = Range(q) \cup {e}
  <1>1. Len(q) \in Nat /\ DOMAIN q = 1..Len(q) /\ \A i \in 1..Len(q) : q[i] \in S
    BY LenProperties, ElementOfSeq
  <1>2. Range(q) \subseteq S
    BY <1>1 DEF Range
  <1>3. ASSUME q # <<>>
        PROVE  Head(q) \in Range(q) /\ Range(q) = Range(Tail(q)) \cup {Head(q)}
    <2>1. /\ Head(q) = q[1] /\ Len(q) # 0
          /\ DOMAIN Tail(q) = 1..(Len(q) - 1)
          /\ \A i \in 1..(Len(q) - 1) : Tail(q)[i] = q[i + 1]
      BY <1>1, <1>3, HeadTailProperties, EmptySeq, LenProperties
    <2>2. Head(q) \in Range(q)
      BY <1>1, <2>1 DEF Range
    <2>3. Range(Tail(q)) \subseteq Range(q)
      BY <1>1, <2>1 DEF Range
    <2>4. ASSUME NEW i \in DOMAIN q PROVE q[i] = Head(q) \/ q[i] \in Range(Tail(q))
      <3>1. CASE i = 1
        BY <2>1, <3>1
      <3>2. CASE i # 1
        <4>1. i - 1 \in 1..(Len(q) - 1) /\ (i - 1) + 1 = i
          BY <1>1, <3>2
        <4>2. Tail(q)[i - 1] = q[i]
          BY <2>1, <4>1
        <4>3. QED BY <2>1, <4>1, <4>2 DEF Range
      <3>3. QED BY <3>1, <3>2
    <2>5. QED BY <2>2, <2>3, <2>4 DEF Range
  <1>4. ASSUME NEW e \in S PROVE Range(Append(q, e)) = Range(q) \cup {e}
    <2>1. /\ DOMAIN Append(q, e) = 1..(Len(q) + 1)
          /\ \A i \in 1..Len(q) : Append(q, e)[i] = q[i]
          /\ Append(q, e)[Len(q) + 1] = e
      BY AppendProperties, LenProperties
    <2>2. \A i \in 1..(Len(q) + 1) : i \in 1..Len(q) \/ i = Len(q) + 1
      BY <1>1
    <2>3. 1..Len(q) \subseteq 1..(Len(q) + 1) /\ Len(q) + 1 \in 1..(Len(q) + 1)
      BY <1>1
    <2>4. Range(q) = {q[i] : i \in 1..Len(q)}
      BY <1>1 DEF Range
    <2>5. Range(Append(q, e)) = {Append(q, e)[i] : i \in 1..(Len(q) + 1)}
      BY <2>1 DEF Range
    <2>6. QED BY <2>1, <2>2, <2>3, <2>4, <2>5
  <1>5. QED BY <1>2, <1>3, <1>4

(* A variable that does not change takes nothing from where a key's newest  *)
(* event is.                                                                *)
LEMMA Unmoved ==
    ASSUME NEW s, NEW k, store'[k] = store[k]
    PROVE  /\ tasks' = tasks /\ bus' = bus => (Out(k)' <=> Out(k))
           /\ buf'[s] = buf[s] => (Queued(s, k)' <=> Queued(s, k))
           /\ delta'[s] = delta[s] => (Awaited(s, k)' <=> Awaited(s, k))
           /\ todo'[s] = todo[s] /\ scan'[s] = scan[s] /\ burst'[s] = burst[s]
                 => (Ahead(s, k)' <=> Ahead(s, k))
           /\ phase'[s] = phase[s] /\ request'[s] = request[s] /\ missed'[s] = missed[s]
                 => (Due(s, k)' <=> Due(s, k))
  BY DEF Out, Queued, Awaited, Ahead, Due, Newest

LEMMA ClosedInit == Init => ClosedInv
  BY DEF Init, ClosedInv, Closed, SharedInv, Waiting

LEMMA ClosedNext == TypeOK /\ HasClient /\ ClosedInv /\ [Next]_vars => ClosedInv'
  <1> SUFFICES ASSUME TypeOK, HasClient, ClosedInv, [Next]_vars
               PROVE  \A s \in Streams : Closed(s)'
    BY SharedStep DEF ClosedInv
  <1> USE DEF nboxVars, streamVars
  <1>1. ASSUME UNCHANGED <<phase, todo, buf, delta>> PROVE \A s \in Streams : Closed(s)'
    BY <1>1 DEF ClosedInv, Closed
  <1>2. ASSUME NEW gone, Leave(gone) PROVE \A s \in Streams : Closed(s)'
    BY <1>2 DEF ClosedInv, Closed, Leave
  <1>3. ASSUME NEW s \in Streams, Closed(s)',
               \A t \in Streams \ {s} : /\ phase'[t] = phase[t] /\ todo'[t] = todo[t]
                                        /\ buf'[t] = buf[t] /\ delta'[t] = delta[t]
        PROVE  \A t \in Streams : Closed(t)'
    BY <1>3 DEF ClosedInv, Closed
  <1>4. CASE \/ UNCHANGED vars
             \/ \E k \in Written : Upsert(k)
             \/ \E k \in Keys : Delete(k)
             \/ \E e \in tasks : Publish(e) \/ Lose(e)
    BY <1>1, <1>4 DEF vars, Upsert, Delete, Publish, Lose
  <1>5. CASE Handle
    <2>1. PICK kept : /\ buf' = [s \in Streams |->
                            IF s \in kept THEN Append(buf[s], Head(bus)) ELSE buf[s]]
                      /\ \A s \in kept : phase[s] # "off"
                      /\ UNCHANGED <<phase, todo, delta>>
      <3>1. /\ buf' = [s \in Streams |->
                         IF s \in {t \in Streams : accepts(t, Head(bus)) /\ hasRoom(t)}
                         THEN Append(buf[s], Head(bus)) ELSE buf[s]]
            /\ UNCHANGED <<phase, todo, delta>>
        BY <1>5 DEF Handle
      <3>2. \A s \in {t \in Streams : accepts(t, Head(bus)) /\ hasRoom(t)} : phase[s] # "off"
        BY DEF accepts, Subscribed
      <3>3. QED BY <3>1, <3>2
    <2>2. QED BY <2>1 DEF ClosedInv, Closed
  <1>6. ASSUME NEW s \in Streams, NEW r \in Requests, Connect(s, r)
        PROVE  \A t \in Streams : Closed(t)'
    <2>1. delta[s] = {} /\ buf[s] = <<>>
      BY <1>6 DEF Connect, ClosedInv, SharedInv, Waiting, Closed
    <2>2. Closed(s)'
      BY <1>6, <2>1 DEF Connect, Closed, TypeOK
    <2>3. QED BY <1>3, <1>6, <2>2 DEF Connect, TypeOK
  <1>7. ASSUME NEW s \in Streams, FetchPrefix(s)
        PROVE  \A t \in Streams : Closed(t)'
    <2>1. Closed(s)'
      BY <1>7 DEF FetchPrefix, ClosedInv, Closed, TypeOK
    <2>2. QED BY <1>3, <1>7, <2>1 DEF FetchPrefix, TypeOK
  <1>8. ASSUME NEW s \in Streams, SnapshotDone(s)
        PROVE  \A t \in Streams : Closed(t)'
    <2>1. Closed(s)'
      BY <1>8 DEF SnapshotDone, ClosedInv, Closed, TypeOK
    <2>2. QED BY <1>3, <1>8, <2>1 DEF SnapshotDone, TypeOK
  <1>9. ASSUME NEW s \in Streams, NEW k \in scan[s], ScanRow(s, k)
        PROVE  \A t \in Streams : Closed(t)'
    BY <1>1, <1>9 DEF ScanRow
  <1>10. ASSUME NEW s \in Streams, NEW row \in burst[s], SendRow(s, row)
         PROVE  \A t \in Streams : Closed(t)'
    BY <1>1, <1>2, <1>10 DEF SendRow
  <1>11. ASSUME NEW s \in Streams, Deliver(s)
         PROVE  \A t \in Streams : Closed(t)'
    <2>1. phase'[s] # "off" /\ buf' = [buf EXCEPT ![s] = Tail(@)]
      BY <1>11 DEF Deliver
    <2>2. Closed(s)'
      BY <1>11, <2>1 DEF Deliver, ClosedInv, Closed, TypeOK
    <2>3. QED BY <1>3, <1>11, <2>1, <2>2 DEF Deliver, TypeOK
  <1>12. ASSUME NEW s \in Streams, StartResolve(s)
         PROVE  \A t \in Streams : Closed(t)'
    <2>1. PICK e : /\ delta' = [delta EXCEPT ![s] = {e}] /\ isVaultKey(e.subject)
                   /\ phase' = [phase EXCEPT ![s] = "resolving"] /\ phase[s] = "live"
                   /\ buf' = [buf EXCEPT ![s] = Tail(@)]
                   /\ todo' = todo
      BY <1>12 DEF StartResolve, needsResolve
    <2>2. Closed(s)'
      BY <2>1 DEF ClosedInv, Closed, TypeOK
    <2>3. QED BY <1>3, <2>1, <2>2 DEF TypeOK
  <1>13. ASSUME NEW f \in flights, ResolveDone(f)
         PROVE  \A t \in Streams : Closed(t)'
    <2>1. /\ phase' = [s \in Streams |-> IF s \in waiters(f) THEN "live" ELSE phase[s]]
          /\ delta' = [s \in Streams |-> IF s \in waiters(f) THEN {} ELSE delta[s]]
          /\ UNCHANGED <<todo, buf>>
      BY <1>13 DEF ResolveDone
    <2>2. \A s \in waiters(f) : phase[s] = "resolving"
      BY DEF ClosedInv, SharedInv, Waiting, waiters
    <2>3. QED BY <2>1, <2>2 DEF ClosedInv, Closed
  <1>14. ASSUME NEW f \in flights, ResolveRead(f) \/ ResolveFails(f)
         PROVE  \A t \in Streams : Closed(t)'
    BY <1>1, <1>2, <1>14 DEF ResolveRead, ResolveFails
  <1>15. ASSUME NEW s \in Streams, SnapshotFails(s) \/ Disconnect(s)
         PROVE  \A t \in Streams : Closed(t)'
    BY <1>2, <1>15 DEF SnapshotFails, Disconnect
  <1>16. QED
    BY <1>4, <1>5, <1>6, <1>7, <1>8, <1>9, <1>10, <1>11, <1>12, <1>13, <1>14, <1>15
       DEF Next, StreamStep, FlightStep

(* A step that shows stream s a value for key k.                            *)
Shows(s, k) ==
    \/ \E row \in burst[s] : row[1] = k /\ SendRow(s, row) /\ phase' = phase
    \/ Deliver(s) /\ Head(buf[s]).subject = k
    \/ \E f \in flights : ResolveDone(f) /\ s \in waiters(f) /\ f.subject = k

(* A stream that is due a key asks for it, so the broker accepts its events. *)
LEMMA DueAccepts ==
    ASSUME NEW s \in Streams, NEW k, Due(s, k), NEW e, e.subject = k
    PROVE  accepts(s, e)
  BY DEF accepts, Subscribed, matchesFilter, Due

(* What the broker does with the event at the head of the bus.              *)
Takers(e) == {t \in Streams : accepts(t, e) /\ hasRoom(t)}
Droppers(e) == {t \in Streams : accepts(t, e)} \ Takers(e)

LEMMA HandleSteps ==
    ASSUME Handle, NEW e, e = Head(bus), NEW kept, kept = Takers(e),
           NEW full, full = Droppers(e)
    PROVE  /\ buf' = [t \in Streams |-> IF t \in kept THEN Append(buf[t], e) ELSE buf[t]]
           /\ missed' = [t \in Streams |->
                 IF t \in full THEN missed[t] \cup {e.write} ELSE missed[t]]
  <1>1. kept = {t \in Streams : accepts(t, e) /\ hasRoom(t)}
    BY DEF Takers
  <1>2. full = {t \in Streams : accepts(t, e)} \ kept
    BY DEF Takers, Droppers
  <1>3. QED BY <1>1, <1>2 DEF Handle

(* A write or an event on its way changes what is due only by putting the   *)
(* newest event of the key out.                                             *)
LEMMA WritesKeep ==
    ASSUME TypeOK, InStep, NEW s \in Streams, NEW k \in Keys, Due(s, k)',
           \/ \E j \in Written : Upsert(j)
           \/ \E j \in Keys : Delete(j)
           \/ \E e \in tasks : Publish(e) \/ Lose(e)
    PROVE  /\ UNCHANGED <<streamVars, buf, flights, view>>
           /\ \/ Out(k)'
              \/ Due(s, k) /\ store'[k] = store[k] /\ (Out(k) => Out(k)')
  <1> USE DEF streamVars, nboxVars
  <1>1. ASSUME NEW j \in Written, Upsert(j)
        PROVE  Out(k)' \/ (Due(s, k) /\ store'[k] = store[k] /\ (Out(k) => Out(k)'))
    <2>1. sanitize(j) \in Keys
      BY SanitizedKeys
    <2>2. PICK new : /\ new \in tasks' /\ new.subject = j /\ new.write = writes + 1
                     /\ store' = [store EXCEPT ![sanitize(j)] = writes + 1]
                     /\ tasks \subseteq tasks'
                     /\ UNCHANGED <<bus, streamVars, buf, view, missed>>
      <3>1. PICK trace : tasks' = tasks \cup
                             {[id |-> trace, subject |-> j, write |-> writes + 1]}
        BY <1>1 DEF Upsert
      <3>2. WITNESS [id |-> trace, subject |-> j, write |-> writes + 1]
      <3>3. QED BY <1>1, <3>1 DEF Upsert
    <2>3. CASE k = sanitize(j)
      <3>1. k = j
        BY <2>3 DEF Due, Spelled
      <3>2. store'[k] = writes + 1
        BY <2>1, <2>2, <2>3 DEF TypeOK
      <3>3. QED BY <2>2, <3>1, <3>2 DEF Out, Newest
    <2>4. CASE k # sanitize(j)
      <3>1. store'[k] = store[k]
        BY <2>2, <2>4 DEF TypeOK
      <3>2. Due(s, k)
        BY <2>2, <3>1, Unmoved
      <3>3. Out(k) => Out(k)'
        BY <2>2, <3>1 DEF Out, Newest
      <3>4. QED BY <3>1, <3>2, <3>3
    <2>5. QED BY <2>3, <2>4
  <1>2. ASSUME NEW j \in Keys, Delete(j)
        PROVE  Due(s, k) /\ store'[k] = store[k] /\ (Out(k) => Out(k)')
    <2>1. store'[k] = store[k]
      BY <1>2 DEF Delete, TypeOK, Due
    <2>2. QED BY <1>2, <2>1, Unmoved DEF Delete
  <1>3. ASSUME NEW e \in tasks, Publish(e)
        PROVE  Due(s, k) /\ store'[k] = store[k] /\ (Out(k) => Out(k)')
    <2>1. store'[k] = store[k] /\ UNCHANGED <<phase, request, missed>>
      BY <1>3 DEF Publish
    <2>2. Range(bus') = Range(bus) \cup {e} /\ tasks' = tasks \ {e}
      BY <1>3, ChannelRange DEF Publish, TypeOK
    <2>3. Out(k) => Out(k)'
      BY <2>1, <2>2 DEF Out, Newest
    <2>4. QED BY <2>1, <2>3, Unmoved
  <1>4. ASSUME NEW e \in tasks, Lose(e)
        PROVE  Due(s, k) /\ store'[k] = store[k] /\ (Out(k) => Out(k)')
    <2>1. store'[k] = store[k] /\ UNCHANGED <<bus, phase, request>>
      BY <1>4 DEF Lose
    <2>2. missed'[s] = missed[s] \cup {e.write} /\ tasks' = tasks \ {e}
      BY <1>4 DEF Lose
    <2>3. Due(s, k) /\ ~Newest(e, k)
      BY <2>1, <2>2 DEF Due, Newest
    <2>4. Out(k) => Out(k)'
      BY <2>1, <2>2, <2>3 DEF Out, Newest
    <2>5. QED BY <2>1, <2>3, <2>4
  <1>5. UNCHANGED <<streamVars, buf, flights, view>>
    BY DEF Upsert, Delete, Publish, Lose
  <1>6. QED BY <1>1, <1>2, <1>3, <1>4, <1>5

(* The broker gives the newest event of a key to a stream that is due it.   *)
LEMMA HandleKeeps ==
    ASSUME TypeOK, InStep, NEW s \in Streams, NEW k \in Keys, Due(s, k)', Handle,
           NEW e, e = Head(bus)
    PROVE  /\ Due(s, k) /\ UNCHANGED <<nboxVars, streamVars, flights, view>>
           /\ e \in Events /\ e \in Range(bus) /\ buf[s] \in Seq(Events)
           /\ \/ buf'[s] = Append(buf[s], e)
              \/ buf'[s] = buf[s] /\ ~Newest(e, k)
           /\ Newest(e, k) \/ (Out(k) => Out(k)')
  <1> USE DEF streamVars, nboxVars
  <1>1. PICK kept : kept = Takers(e)
    OBVIOUS
  <1>2. PICK full : full = Droppers(e)
    OBVIOUS
  <1>3. /\ buf' = [t \in Streams |-> IF t \in kept THEN Append(buf[t], e) ELSE buf[t]]
        /\ missed' = [t \in Streams |->
              IF t \in full THEN missed[t] \cup {e.write} ELSE missed[t]]
    BY <1>1, <1>2, HandleSteps
  <1>4. bus # <<>> /\ bus' = Tail(bus) /\ UNCHANGED <<nboxVars, streamVars, flights, view>>
    BY DEF Handle
  <1>5. e \in Events /\ Range(bus) = Range(bus') \cup {e} /\ buf[s] \in Seq(Events)
    BY <1>4, ChannelRange DEF TypeOK
  <1>6. Due(s, k)
    BY <1>3, <1>4 DEF Due
  <1>7. ~Newest(e, k) => (Out(k) => Out(k)')
    BY <1>4, <1>5 DEF Out, Newest
  <1>8. CASE s \in kept
    BY <1>3, <1>4, <1>5, <1>6, <1>7, <1>8
  <1>9. CASE s \notin kept
    <2>1. ASSUME Newest(e, k) PROVE FALSE
      <3>1. accepts(s, e)
        BY <1>6, <2>1, DueAccepts DEF Newest
      <3>2. s \in full
        BY <1>1, <1>2, <1>9, <3>1 DEF Droppers
      <3>3. QED BY <1>3, <1>4, <2>1, <3>2 DEF Due, Newest
    <2>2. QED BY <1>3, <1>4, <1>5, <1>6, <1>7, <1>9, <2>1
  <1>10. QED BY <1>8, <1>9

(* The steps of nbox and of the broker keep a key placed.                   *)
LEMMA NboxPlaced ==
    ASSUME TypeOK, InStep, NEW s \in Streams, NEW k \in Keys,
           Due(s, k) => Placed(s, k), Due(s, k)',
           \/ \E j \in Written : Upsert(j)
           \/ \E j \in Keys : Delete(j)
           \/ \E e \in tasks : Publish(e) \/ Lose(e)
           \/ Handle
    PROVE  Placed(s, k)'
  <1> USE DEF streamVars, nboxVars
  <1>1. CASE ~Handle
    <2>1. /\ UNCHANGED <<streamVars, buf, flights, view>>
          /\ \/ Out(k)'
             \/ Due(s, k) /\ store'[k] = store[k] /\ (Out(k) => Out(k)')
      BY <1>1, WritesKeep
    <2>2. CASE Out(k)'
      BY <2>2 DEF Placed, Coming
    <2>3. CASE Due(s, k) /\ store'[k] = store[k] /\ (Out(k) => Out(k)')
      BY <2>1, <2>3, Unmoved DEF Placed, Coming
    <2>4. QED BY <2>1, <2>2, <2>3
  <1>2. CASE Handle
    <2>1. PICK e : e = Head(bus)
      OBVIOUS
    <2>2. /\ Due(s, k) /\ UNCHANGED <<nboxVars, streamVars, flights, view>>
          /\ e \in Events /\ buf[s] \in Seq(Events)
          /\ \/ buf'[s] = Append(buf[s], e)
             \/ buf'[s] = buf[s] /\ ~Newest(e, k)
          /\ Newest(e, k) \/ (Out(k) => Out(k)')
      BY <1>2, <2>1, HandleKeeps
    <2>3. /\ Queued(s, k) => Queued(s, k)'
          /\ Newest(e, k) => Queued(s, k)'
      <3>1. CASE buf'[s] = buf[s] /\ ~Newest(e, k)
        BY <2>2, <3>1 DEF Queued, Newest
      <3>2. CASE buf'[s] = Append(buf[s], e)
        <4>1. Range(buf'[s]) = Range(buf[s]) \cup {e}
          BY <2>2, <3>2, ChannelRange
        <4>2. QED BY <2>2, <4>1 DEF Queued, Newest
      <3>3. QED BY <2>2, <3>1, <3>2
    <2>4. Coming(s, k) => Coming(s, k)'
      BY <2>2, <2>3 DEF Coming
    <2>5. QED BY <2>2, <2>4, Unmoved DEF Placed
  <1>3. QED BY <1>1, <1>2

(* So do the steps of the streams, other than those that show a value.      *)
LEMMA StreamPlaced ==
    ASSUME TypeOK, ClosedInv, InStep, NEW s \in Streams, NEW k \in Keys,
           Due(s, k) => Placed(s, k), Due(s, k)', ~Shows(s, k),
           \/ \E t \in Streams : \/ \E r \in Requests : Connect(t, r)
                                 \/ StreamStep(t) \/ SnapshotFails(t) \/ Disconnect(t)
           \/ \E f \in flights : FlightStep(f)
    PROVE  Placed(s, k)'
  <1> USE DEF streamVars, nboxVars
  <1>1. ASSUME store' = store, tasks' = tasks, bus' = bus,
               phase[s] # "off", request'[s] = request[s], missed'[s] = missed[s],
               Queued(s, k) => Queued(s, k)' \/ Awaited(s, k)',
               Awaited(s, k) => Awaited(s, k)',
               Ahead(s, k) => Ahead(s, k)',
               view'[s][k] = view[s][k]
        PROVE  Placed(s, k)'
    <2>1. Due(s, k) /\ (Out(k)' <=> Out(k))
      BY <1>1, Unmoved DEF Due
    <2>2. QED BY <1>1, <2>1 DEF Placed, Coming
  <1>2. ASSUME UNCHANGED <<nboxVars, bus, missed>>,
               phase'[s] = phase[s], request'[s] = request[s], todo'[s] = todo[s],
               scan'[s] = scan[s], burst'[s] = burst[s], buf'[s] = buf[s],
               delta'[s] = delta[s], view'[s][k] = view[s][k]
        PROVE  Placed(s, k)'
    <2>1. phase[s] # "off"
      BY <1>2 DEF Due
    <2>2. QED BY <1>1, <1>2, <2>1, Unmoved
  <1>3. ASSUME NEW gone, Leave(gone) PROVE Placed(s, k)'
    <2>1. s \notin gone
      BY <1>3 DEF Leave, Due
    <2>2. QED BY <1>2, <1>3, <2>1 DEF Leave
  <1>4. ASSUME NEW t \in Streams, t # s, UNCHANGED <<nboxVars, bus>>,
               \A u \in Streams \ {t} :
                  /\ phase'[u] = phase[u] /\ request'[u] = request[u] /\ todo'[u] = todo[u]
                  /\ scan'[u] = scan[u] /\ burst'[u] = burst[u] /\ buf'[u] = buf[u]
                  /\ delta'[u] = delta[u] /\ view'[u] = view[u] /\ missed'[u] = missed[u]
        PROVE  Placed(s, k)'
    <2>1. phase[s] # "off"
      BY <1>4 DEF Due
    <2>2. QED BY <1>1, <1>4, <2>1, Unmoved
  <1>5. ASSUME NEW t \in Streams, NEW r \in Requests, Connect(t, r)
        PROVE  Placed(s, k)'
    <2>1. CASE t # s
      BY <1>4, <1>5, <2>1 DEF Connect, TypeOK
    <2>2. CASE t = s
      <3>1. todo'[s] = r.prefixes /\ request'[s] = r
        BY <1>5, <2>2 DEF Connect, TypeOK, InStep
      <3>2. k \in Scope(r)
        BY <3>1 DEF Due
      <3>3. QED BY <3>1, <3>2 DEF Placed, Ahead, Scope
    <2>3. QED BY <2>1, <2>2
  <1>6. ASSUME NEW t \in Streams, FetchPrefix(t)
        PROVE  Placed(s, k)'
    <2>1. CASE t # s
      BY <1>4, <1>6, <2>1 DEF FetchPrefix, TypeOK
    <2>2. CASE t = s
      <3>1. /\ scan' = [scan EXCEPT ![s] = Leaves(Head(todo[s]))]
            /\ todo' = [todo EXCEPT ![s] = Tail(@)]
            /\ scan[s] = {} /\ burst[s] = {} /\ todo[s] # <<>> /\ todo[s] \in Seq(Paths)
            /\ phase[s] = "snapshot"
            /\ UNCHANGED <<nboxVars, bus, phase, request, burst, buf, delta, view, missed>>
        BY <1>6, <2>2 DEF FetchPrefix, TypeOK
      <3>2. Range(todo[s]) = Range(todo'[s]) \cup {Head(todo[s])}
        BY <3>1, ChannelRange DEF TypeOK
      <3>3. ASSUME Ahead(s, k) PROVE Ahead(s, k)'
        <4>1. \E p \in Range(todo[s]) : k \in Leaves(p)
          BY <3>1, <3>3 DEF Ahead, Range
        <4>2. k \in scan'[s] \/ \E p \in Range(todo'[s]) : k \in Leaves(p)
          BY <3>1, <3>2, <4>1 DEF TypeOK
        <4>3. QED BY <4>2 DEF Ahead, Range
      <3>4. QED BY <1>1, <3>1, <3>3, Unmoved
    <2>3. QED BY <2>1, <2>2
  <1>7. ASSUME NEW t \in Streams, SnapshotDone(t)
        PROVE  Placed(s, k)'
    <2>1. CASE t # s
      BY <1>4, <1>7, <2>1 DEF SnapshotDone, TypeOK
    <2>2. CASE t = s
      <3>1. ~Ahead(s, k) /\ phase[s] # "off"
        BY <1>7, <2>2 DEF SnapshotDone, Ahead
      <3>2. UNCHANGED <<nboxVars, bus, request, buf, delta, view, missed>>
        BY <1>7 DEF SnapshotDone
      <3>3. QED BY <1>1, <3>1, <3>2, Unmoved
    <2>3. QED BY <2>1, <2>2
  <1>8. ASSUME NEW t \in Streams, NEW j \in scan[t], ScanRow(t, j)
        PROVE  Placed(s, k)'
    <2>1. CASE t # s
      BY <1>4, <1>8, <2>1 DEF ScanRow, TypeOK
    <2>2. CASE t = s
      <3>1. /\ scan' = [scan EXCEPT ![s] = @ \ {j}]
            /\ burst' = [burst EXCEPT ![s] = IF store[j] = 0 THEN @ ELSE @ \cup {<<j, store[j]>>}]
            /\ UNCHANGED <<nboxVars, bus, phase, request, todo, buf, delta, view, missed>>
        BY <1>8, <2>2 DEF ScanRow, InStep
      <3>2. store[k] # 0 /\ phase[s] # "off"
        BY <3>1 DEF Due
      <3>3. ASSUME Ahead(s, k) PROVE Ahead(s, k)'
        <4>1. burst[s] \subseteq burst'[s] /\ todo' = todo /\ scan'[s] = scan[s] \ {j}
          BY <3>1 DEF TypeOK
        <4>2. CASE k # j
          BY <3>3, <4>1, <4>2 DEF Ahead
        <4>3. CASE k = j
          <5>1. <<k, store[k]>> \in burst'[s]
            BY <3>1, <3>2, <4>3 DEF TypeOK
          <5>2. QED BY <5>1 DEF Ahead
        <4>4. QED BY <4>2, <4>3
      <3>4. QED BY <1>1, <3>1, <3>2, <3>3, Unmoved
    <2>3. QED BY <2>1, <2>2
  <1>9. ASSUME NEW t \in Streams, NEW row \in burst[t], SendRow(t, row)
        PROVE  Placed(s, k)'
    <2>1. CASE Leave({t})
      BY <1>3, <2>1
    <2>2. CASE ~Leave({t})
      <3>1. /\ burst' = [burst EXCEPT ![t] = @ \ {row}]
            /\ UNCHANGED <<nboxVars, bus, phase, request, todo, scan, buf, delta, missed>>
        BY <1>9, <2>2 DEF SendRow
      <3>2. \E v : view' = [view EXCEPT ![t][row[1]] = v]
        BY <1>9, <2>2 DEF SendRow
      <3>3. CASE t # s
        BY <1>4, <3>1, <3>2, <3>3 DEF TypeOK
      <3>4. CASE t = s
        <4>1. row[1] # k
          BY <1>9, <3>1, <3>4 DEF Shows
        <4>2. view'[s][k] = view[s][k]
          BY <3>2, <3>4, <4>1 DEF TypeOK
        <4>3. Ahead(s, k) => Ahead(s, k)'
          <5>1. burst'[s] = burst[s] \ {row} /\ todo' = todo /\ scan' = scan
            BY <3>1, <3>4 DEF TypeOK
          <5>2. \A r \in burst[s] : r[1] = k => r \in burst'[s]
            BY <4>1, <5>1
          <5>3. QED BY <5>1, <5>2 DEF Ahead
        <4>4. phase[s] # "off"
          BY <3>1 DEF Due
        <4>5. QED BY <1>1, <3>1, <4>2, <4>3, <4>4, Unmoved
      <3>5. QED BY <3>3, <3>4
    <2>3. QED BY <2>1, <2>2
  <1>10. ASSUME NEW t \in Streams, buf[t] # <<>>,
                buf' = [buf EXCEPT ![t] = Tail(@)]
         PROVE  /\ Range(buf[t]) = Range(buf'[t]) \cup {Head(buf[t])}
                /\ store' = store => (Queued(t, k) <=> Queued(t, k)' \/ Newest(Head(buf[t]), k))
    <2>1. Range(buf[t]) = Range(buf'[t]) \cup {Head(buf[t])}
      BY <1>10, ChannelRange DEF TypeOK
    <2>2. QED BY <2>1 DEF Queued, Newest
  <1>11. ASSUME NEW t \in Streams, Deliver(t)
         PROVE  Placed(s, k)'
    <2>1. /\ buf' = [buf EXCEPT ![t] = Tail(@)] /\ buf[t] # <<>>
          /\ UNCHANGED <<nboxVars, bus, streamVars, missed>>
          /\ \E v : view' = [view EXCEPT ![t][Head(buf[t]).subject] = v]
      BY <1>11 DEF Deliver
    <2>2. CASE t # s
      BY <1>4, <2>1, <2>2 DEF TypeOK
    <2>3. CASE t = s
      <3>1. Head(buf[s]).subject # k
        BY <1>11, <2>3 DEF Shows
      <3>2. view'[s][k] = view[s][k]
        BY <2>1, <2>3, <3>1 DEF TypeOK
      <3>3. Queued(s, k) => Queued(s, k)'
        BY <1>10, <2>1, <2>3, <3>1 DEF Newest
      <3>4. phase[s] # "off"
        BY <2>1 DEF Due
      <3>5. QED BY <1>1, <2>1, <3>2, <3>3, <3>4, Unmoved
    <2>4. QED BY <2>2, <2>3
  <1>12. ASSUME NEW t \in Streams, StartResolve(t)
         PROVE  Placed(s, k)'
    <2>1. PICK e : /\ e = Head(buf[t]) /\ delta' = [delta EXCEPT ![t] = {e}]
                   /\ phase' = [phase EXCEPT ![t] = "resolving"] /\ phase[t] = "live"
                   /\ buf' = [buf EXCEPT ![t] = Tail(@)] /\ buf[t] # <<>>
                   /\ UNCHANGED <<nboxVars, bus, request, todo, scan, burst, view, missed>>
      BY <1>12 DEF StartResolve, InStep
    <2>2. CASE t # s
      BY <1>4, <2>1, <2>2 DEF TypeOK
    <2>3. CASE t = s
      <3>1. delta[s] = {}
        BY <2>1, <2>3 DEF ClosedInv, SharedInv, Waiting
      <3>2. Newest(e, k) => Awaited(s, k)'
        BY <2>1, <2>3 DEF Awaited, Newest, TypeOK
      <3>3. Queued(s, k) => Queued(s, k)' \/ Awaited(s, k)'
        BY <1>10, <2>1, <2>3, <3>2
      <3>4. ~Awaited(s, k)
        BY <3>1 DEF Awaited
      <3>5. QED BY <1>1, <2>1, <2>3, <3>3, <3>4, Unmoved
    <2>4. QED BY <2>2, <2>3
  <1>13. ASSUME NEW f \in flights, ResolveRead(f)
         PROVE  Placed(s, k)'
    BY <1>2, <1>13 DEF ResolveRead
  <1>14. ASSUME NEW f \in flights, ResolveDone(f)
         PROVE  Placed(s, k)'
    <2>1. /\ UNCHANGED <<nboxVars, bus, request, todo, scan, burst, buf, missed>>
          /\ view' = [t \in Streams |-> IF t \in waiters(f)
                                        THEN [view[t] EXCEPT ![f.subject] = f.value]
                                        ELSE view[t]]
          /\ delta' = [t \in Streams |-> IF t \in waiters(f) THEN {} ELSE delta[t]]
          /\ phase' = [t \in Streams |-> IF t \in waiters(f) THEN "live" ELSE phase[t]]
      BY <1>14 DEF ResolveDone
    <2>2. CASE s \notin waiters(f)
      BY <1>2, <2>1, <2>2
    <2>3. CASE s \in waiters(f)
      <3>1. f.subject # k
        BY <1>14, <2>3 DEF Shows
      <3>2. view'[s][k] = view[s][k]
        BY <2>1, <2>3, <3>1 DEF TypeOK
      <3>3. \A e \in delta[s] : e.subject = f.subject /\ phase[s] = "resolving"
        BY <2>3 DEF ClosedInv, SharedInv, Waiting, waiters, flightKey
      <3>4. ~Awaited(s, k)
        BY <3>1, <3>3 DEF Awaited, Newest
      <3>5. phase[s] # "off"
        BY <2>3, <3>3 DEF waiters
      <3>6. QED BY <1>1, <2>1, <3>2, <3>4, <3>5, Unmoved
    <2>4. QED BY <2>2, <2>3
  <1>15. ASSUME NEW f \in flights, ResolveFails(f)
         PROVE  Placed(s, k)'
    BY <1>3, <1>15 DEF ResolveFails
  <1>16. ASSUME NEW t \in Streams, SnapshotFails(t) \/ Disconnect(t)
         PROVE  Placed(s, k)'
    BY <1>3, <1>16 DEF SnapshotFails, Disconnect
  <1>17. QED
    BY <1>5, <1>6, <1>7, <1>8, <1>9, <1>11, <1>12, <1>13, <1>14, <1>15, <1>16
       DEF StreamStep, FlightStep

-----------------------------------------------------------------------------
(***************************************************************************)
(* Vault keys.  What a resolve read may be older than the entry is now (it *)
(* Lags).  Every stream that waits for it, or will join it because the     *)
(* event is in its channel, gets the newest event of the key after that.   *)
(* An event is published once, so no stream gets one whose resolve is      *)
(* already under way.                                                      *)
(***************************************************************************)
VaultPlaced ==
    \A s \in Streams : \A k \in Keys :
        Due(s, k) /\ isVaultKey(k) /\ request[s].pub => Placed(s, k)

PublishedOnce ==
    /\ \A i, j \in DOMAIN bus : bus[i] = bus[j] => i = j
    /\ tasks \cap Range(bus) = {}
    /\ \A s \in Streams : (Range(buf[s]) \cup delta[s]) \cap (tasks \cup Range(bus)) = {}

Lags(f) == f.value # 0 /\ f.subject \in Keys /\ store[f.subject] \notin {0, f.value}

Followup(s, f) ==
    /\ (\E d \in delta[s] : flightKey(d) = flightKey(f)) => Coming(s, f.subject)
    /\ \A i \in DOMAIN buf[s] : flightKey(buf[s][i]) = flightKey(f) =>
          \/ Out(f.subject)
          \/ \E j \in DOMAIN buf[s] : i < j /\ Newest(buf[s][j], f.subject)

LagsRepaired ==
    \A f \in flights : Lags(f) =>
        \A s \in Streams : Due(s, f.subject) => Followup(s, f)

(* An event leaves the bus for good.                                        *)
LEMMA HeadOnce ==
    ASSUME NEW S, NEW q \in Seq(S), q # <<>>,
           \A i, j \in DOMAIN q : q[i] = q[j] => i = j
    PROVE  /\ Head(q) \notin Range(Tail(q))
           /\ \A i, j \in DOMAIN Tail(q) : Tail(q)[i] = Tail(q)[j] => i = j
  <1>1. /\ Len(q) \in Nat /\ DOMAIN q = 1..Len(q) /\ Head(q) = q[1] /\ Len(q) # 0
        /\ DOMAIN Tail(q) = 1..(Len(q) - 1)
        /\ \A i \in 1..(Len(q) - 1) : Tail(q)[i] = q[i + 1]
    BY HeadTailProperties, EmptySeq, LenProperties
  <1>2. ASSUME NEW i \in 1..(Len(q) - 1)
        PROVE  i + 1 \in 1..Len(q) /\ i + 1 # 1 /\ 1 \in 1..Len(q)
    BY <1>1
  <1>3. \A i \in 1..(Len(q) - 1) : Tail(q)[i] # Head(q)
    BY <1>1, <1>2
  <1>4. Head(q) \notin Range(Tail(q))
    BY <1>1, <1>3 DEF Range
  <1>5. ASSUME NEW i \in DOMAIN Tail(q), NEW j \in DOMAIN Tail(q), Tail(q)[i] = Tail(q)[j]
        PROVE  i = j
    <2>1. q[i + 1] = q[j + 1] /\ i + 1 \in DOMAIN q /\ j + 1 \in DOMAIN q
      BY <1>1, <1>2, <1>5
    <2>2. i + 1 = j + 1
      BY <2>1
    <2>3. QED BY <1>1, <2>2
  <1>6. QED BY <1>4, <1>5

LEMMA AppendOnce ==
    ASSUME NEW S, NEW q \in Seq(S), NEW e \in S, e \notin Range(q),
           \A i, j \in DOMAIN q : q[i] = q[j] => i = j
    PROVE  \A i, j \in DOMAIN Append(q, e) : Append(q, e)[i] = Append(q, e)[j] => i = j
  <1>1. /\ Len(q) \in Nat /\ DOMAIN q = 1..Len(q)
        /\ DOMAIN Append(q, e) = 1..(Len(q) + 1)
        /\ \A i \in 1..Len(q) : Append(q, e)[i] = q[i]
        /\ Append(q, e)[Len(q) + 1] = e
    BY AppendProperties, LenProperties
  <1>2. \A i \in 1..(Len(q) + 1) : i \in 1..Len(q) \/ i = Len(q) + 1
    BY <1>1
  <1>3. \A i \in 1..Len(q) : q[i] # e
    BY <1>1 DEF Range
  <1>4. QED BY <1>1, <1>2, <1>3

LEMMA OnceNext ==
    ~TraceReuse /\ TypeOK /\ ClosedInv /\ FreshInv /\ HasClient
        /\ PublishedOnce /\ [Next]_vars => PublishedOnce'
  <1> SUFFICES ASSUME ~TraceReuse, TypeOK, ClosedInv, FreshInv, HasClient,
                      PublishedOnce, [Next]_vars
               PROVE  PublishedOnce'
    OBVIOUS
  <1> USE DEF nboxVars, streamVars
  <1>1. ASSUME bus' = bus, tasks' \subseteq tasks,
               \A s \in Streams : Range(buf'[s]) \cup delta'[s] \subseteq Range(buf[s]) \cup delta[s]
        PROVE  PublishedOnce'
    BY <1>1 DEF PublishedOnce
  <1>2. Range(<<>>) = {}
    BY DEF Range
  <1>3. ASSUME NEW gone, Leave(gone) PROVE PublishedOnce'
    <2>1. /\ bus' = bus /\ tasks' = tasks
          /\ buf' = [s \in Streams |-> IF s \in gone THEN <<>> ELSE buf[s]]
          /\ delta' = [s \in Streams |-> IF s \in gone THEN {} ELSE delta[s]]
      BY <1>3 DEF Leave
    <2>2. QED BY <1>1, <1>2, <2>1
  <1>4. ASSUME NEW k \in Written, Upsert(k)
        PROVE  PublishedOnce'
    <2>1. PICK new : /\ tasks' = tasks \cup {new} /\ new.write = writes + 1
                     /\ UNCHANGED <<bus, buf, delta>>
      <3>1. PICK trace : tasks' = tasks \cup
                             {[id |-> trace, subject |-> k, write |-> writes + 1]}
        BY <1>4 DEF Upsert
      <3>2. WITNESS [id |-> trace, subject |-> k, write |-> writes + 1]
      <3>3. QED BY <1>4, <3>1 DEF Upsert
    <2>2. \A e \in FreshEvents : e # new
      <3>1. writes \in Nat
        BY DEF TypeOK
      <3>2. \A e \in FreshEvents : e.write \in Nat /\ e.write <= writes
        BY DEF FreshEvents, Covers, Events
      <3>3. QED BY <2>1, <3>1, <3>2
    <2>3. /\ new \notin Range(bus)
          /\ \A s \in Streams : new \notin Range(buf[s]) \cup delta[s]
      <3>1. bus \in Seq(FreshEvents)
        BY DEF FreshInv
      <3>2. \A s \in Streams : buf[s] \in Seq(FreshEvents) /\ delta[s] \subseteq FreshEvents
        BY DEF FreshInv
      <3>3. Range(bus) \subseteq FreshEvents
        BY <3>1, ChannelRange
      <3>4. \A s \in Streams : Range(buf[s]) \subseteq FreshEvents
        BY <3>2, ChannelRange
      <3>5. QED BY <2>2, <3>2, <3>3, <3>4
    <2>4. QED BY <2>1, <2>3 DEF PublishedOnce
  <1>5. ASSUME NEW e \in tasks, Publish(e)
        PROVE  PublishedOnce'
    <2>1. /\ bus' = Append(bus, e) /\ tasks' = tasks \ {e} /\ UNCHANGED <<buf, delta>>
          /\ e \in Events /\ bus \in Seq(Events) /\ e \notin Range(bus)
      BY <1>5 DEF Publish, TypeOK, PublishedOnce
    <2>2. Range(bus') = Range(bus) \cup {e}
      BY <2>1, ChannelRange
    <2>3. \A i, j \in DOMAIN bus' : bus'[i] = bus'[j] => i = j
      BY <2>1, AppendOnce DEF PublishedOnce
    <2>4. tasks' \cap Range(bus') = {}
      BY <2>1, <2>2 DEF PublishedOnce
    <2>5. \A s \in Streams : (Range(buf'[s]) \cup delta'[s]) \cap (tasks' \cup Range(bus')) = {}
      BY <2>1, <2>2 DEF PublishedOnce
    <2>6. QED BY <2>3, <2>4, <2>5 DEF PublishedOnce
  <1>6. CASE Handle
    <2>0. PICK e : e = Head(bus)
      OBVIOUS
    <2>a. PICK kept : kept = Takers(e)
      OBVIOUS
    <2>1. buf' = [t \in Streams |-> IF t \in kept THEN Append(buf[t], e) ELSE buf[t]]
      BY <1>6, <2>0, <2>a, HandleSteps
    <2>2. bus # <<>> /\ bus' = Tail(bus) /\ tasks' = tasks /\ delta' = delta
      BY <1>6 DEF Handle
    <2>3. e \in Events /\ Range(bus) = Range(bus') \cup {e} /\ e \notin Range(bus')
      BY <2>0, <2>2, ChannelRange, HeadOnce DEF TypeOK, PublishedOnce
    <2>4. \A i, j \in DOMAIN bus' : bus'[i] = bus'[j] => i = j
      BY <2>2, HeadOnce DEF TypeOK, PublishedOnce
    <2>5. \A s \in Streams : Range(buf'[s]) \subseteq Range(buf[s]) \cup {e}
      <3> TAKE s \in Streams
      <3>1. buf[s] \in Seq(Events)
        BY DEF TypeOK
      <3>2. Range(Append(buf[s], e)) = Range(buf[s]) \cup {e}
        BY <2>3, <3>1, ChannelRange
      <3>3. QED BY <2>1, <3>2
    <2>6. e \notin tasks
      BY <2>3 DEF PublishedOnce
    <2>7. tasks' \cap Range(bus') = {}
      BY <2>2, <2>3 DEF PublishedOnce
    <2>8. \A s \in Streams : (Range(buf'[s]) \cup delta'[s]) \cap (tasks' \cup Range(bus')) = {}
      BY <2>2, <2>3, <2>5, <2>6 DEF PublishedOnce
    <2>9. QED BY <2>4, <2>7, <2>8 DEF PublishedOnce
  <1>7. CASE UNCHANGED <<bus, tasks, buf, delta>>
    BY <1>1, <1>7
  <1>8. CASE UNCHANGED vars \/ (\E k \in Keys : Delete(k)) \/ \E e \in tasks : Lose(e)
    BY <1>1, <1>8 DEF vars, Delete, Lose
  <1>9. ASSUME NEW s \in Streams,
               \/ \E r \in Requests : Connect(s, r)
               \/ FetchPrefix(s) \/ SnapshotDone(s) \/ \E k \in scan[s] : ScanRow(s, k)
        PROVE  PublishedOnce'
    BY <1>7, <1>9 DEF Connect, FetchPrefix, SnapshotDone, ScanRow
  <1>10. ASSUME NEW s \in Streams, NEW row \in burst[s], SendRow(s, row)
         PROVE  PublishedOnce'
    BY <1>3, <1>7, <1>10 DEF SendRow
  <1>11. ASSUME NEW s \in Streams, buf[s] # <<>>, buf' = [buf EXCEPT ![s] = Tail(@)]
         PROVE  /\ Range(buf'[s]) \cup {Head(buf[s])} = Range(buf[s])
                /\ \A t \in Streams \ {s} : buf'[t] = buf[t]
    BY <1>11, ChannelRange DEF TypeOK
  <1>12. ASSUME NEW s \in Streams, Deliver(s)
         PROVE  PublishedOnce'
    <2>1. /\ buf[s] # <<>> /\ buf' = [buf EXCEPT ![s] = Tail(@)]
          /\ UNCHANGED <<bus, tasks, delta>>
      BY <1>12 DEF Deliver
    <2>2. QED BY <1>1, <1>11, <2>1
  <1>13. ASSUME NEW s \in Streams, StartResolve(s)
         PROVE  PublishedOnce'
    <2>1. /\ buf[s] # <<>> /\ buf' = [buf EXCEPT ![s] = Tail(@)]
          /\ delta' = [delta EXCEPT ![s] = {Head(buf[s])}]
          /\ UNCHANGED <<bus, tasks>>
      BY <1>13 DEF StartResolve
    <2>2. delta'[s] = {Head(buf[s])} /\ \A t \in Streams \ {s} : delta'[t] = delta[t]
      BY <2>1 DEF TypeOK
    <2>3. QED BY <1>1, <1>11, <2>1, <2>2
  <1>14. ASSUME NEW f \in flights, ResolveDone(f)
         PROVE  PublishedOnce'
    <2>1. /\ UNCHANGED <<bus, tasks, buf>>
          /\ delta' = [t \in Streams |-> IF t \in waiters(f) THEN {} ELSE delta[t]]
      BY <1>14 DEF ResolveDone
    <2>2. QED BY <1>1, <2>1
  <1>15. ASSUME NEW f \in flights, ResolveRead(f) \/ ResolveFails(f)
         PROVE  PublishedOnce'
    BY <1>3, <1>7, <1>15 DEF ResolveRead, ResolveFails
  <1>16. ASSUME NEW s \in Streams, SnapshotFails(s) \/ Disconnect(s)
         PROVE  PublishedOnce'
    BY <1>3, <1>16 DEF SnapshotFails, Disconnect
  <1>17. QED
    BY <1>4, <1>5, <1>6, <1>8, <1>9, <1>10, <1>12, <1>13, <1>14, <1>15, <1>16
       DEF Next, StreamStep, FlightStep

(* No event that is still to be handled has a resolve under way.            *)
LEMMA NoFlightYet ==
    ASSUME TypeOK, ClosedInv, FreshInv, PublishedOnce, NEW f \in flights,
           NEW e \in tasks \cup Range(bus)
    PROVE  flightKey(e) # flightKey(f)
  <1>1. PICK d \in delta[f.leader] : flightKey(d) = flightKey(f)
    BY DEF ClosedInv, SharedInv, Led
  <1>2. f.leader \in Streams /\ bus \in Seq(FreshEvents)
    BY DEF TypeOK, FreshInv
  <1>3. d \in FreshEvents /\ e \in FreshEvents
    BY <1>2, ChannelRange DEF FreshInv
  <1>4. d # e
    BY <1>2 DEF PublishedOnce
  <1>5. /\ d = [id |-> d.id, subject |-> d.subject, write |-> d.write] /\ d.id = d.write
        /\ e = [id |-> e.id, subject |-> e.subject, write |-> e.write] /\ e.id = e.write
    BY <1>3 DEF FreshEvents, Events
  <1>6. flightKey(d) # flightKey(e)
    <2>1. SUFFICES ASSUME flightKey(d) = flightKey(e) PROVE FALSE
      OBVIOUS
    <2>2. d.id = e.id /\ d.subject = e.subject
      BY <2>1 DEF flightKey
    <2>3. QED BY <1>4, <1>5, <2>2
  <1>7. QED BY <1>1, <1>6

(* In a channel, what comes after what: when its head is taken, and when an *)
(* event is added.                                                          *)
Follows(q, A, B) ==
    \A i \in DOMAIN q : q[i] \in A => \E j \in DOMAIN q : i < j /\ q[j] \in B

LEMMA TailFollows ==
    ASSUME NEW S, NEW q \in Seq(S), q # <<>>, NEW A, NEW B, Follows(q, A, B)
    PROVE  /\ Follows(Tail(q), A, B)
           /\ Head(q) \in A => \E e \in Range(Tail(q)) : e \in B
  <1>1. /\ Len(q) \in Nat /\ DOMAIN q = 1..Len(q) /\ Head(q) = q[1] /\ Len(q) # 0
        /\ DOMAIN Tail(q) = 1..(Len(q) - 1)
        /\ \A i \in 1..(Len(q) - 1) : Tail(q)[i] = q[i + 1]
    BY HeadTailProperties, EmptySeq, LenProperties
  <1>2. ASSUME NEW j \in DOMAIN q, NEW i \in DOMAIN q, i < j
        PROVE  j - 1 \in DOMAIN Tail(q) /\ Tail(q)[j - 1] = q[j]
    <2>1. j - 1 \in 1..(Len(q) - 1) /\ (j - 1) + 1 = j
      BY <1>1, <1>2
    <2>2. QED BY <1>1, <2>1
  <1>3. ASSUME NEW i \in DOMAIN Tail(q), Tail(q)[i] \in A
        PROVE  \E j \in DOMAIN Tail(q) : i < j /\ Tail(q)[j] \in B
    <2>1. PICK h \in DOMAIN q : h = i + 1
      BY <1>1
    <2>2. q[h] \in A
      BY <1>1, <1>3, <2>1
    <2>3. PICK j \in DOMAIN q : h < j /\ q[j] \in B
      BY <2>2 DEF Follows
    <2>4. j - 1 \in DOMAIN Tail(q) /\ Tail(q)[j - 1] \in B
      BY <1>2, <2>3
    <2>5. i < j - 1
      BY <1>1, <2>1, <2>3
    <2>6. QED BY <2>4, <2>5
  <1>4. ASSUME Head(q) \in A PROVE \E e \in Range(Tail(q)) : e \in B
    <2>1. 1 \in DOMAIN q /\ q[1] \in A
      BY <1>1, <1>4
    <2>2. PICK j \in DOMAIN q : 1 < j /\ q[j] \in B
      BY <2>1 DEF Follows
    <2>3. j - 1 \in DOMAIN Tail(q) /\ Tail(q)[j - 1] \in B
      BY <1>2, <2>1, <2>2
    <2>4. QED BY <2>3 DEF Range
  <1>5. QED BY <1>3, <1>4 DEF Follows

LEMMA AppendFollows ==
    ASSUME NEW S, NEW q \in Seq(S), NEW e \in S, NEW A, NEW B, e \notin A,
           Follows(q, A, B) \/ e \in B
    PROVE  Follows(Append(q, e), A, B)
  <1>1. /\ Len(q) \in Nat /\ DOMAIN q = 1..Len(q)
        /\ DOMAIN Append(q, e) = 1..(Len(q) + 1)
        /\ \A i \in 1..Len(q) : Append(q, e)[i] = q[i]
        /\ Append(q, e)[Len(q) + 1] = e
    BY AppendProperties, LenProperties
  <1>2. ASSUME NEW i \in DOMAIN Append(q, e), Append(q, e)[i] \in A
        PROVE  \E j \in DOMAIN Append(q, e) : i < j /\ Append(q, e)[j] \in B
    <2>1. i \in 1..Len(q) /\ q[i] \in A
      <3>1. i # Len(q) + 1
        BY <1>1, <1>2
      <3>2. i \in 1..Len(q)
        BY <1>1, <3>1
      <3>3. QED BY <1>1, <1>2, <3>2
    <2>2. CASE e \in B
      <3>1. Len(q) + 1 \in DOMAIN Append(q, e) /\ i < Len(q) + 1
        BY <1>1, <2>1
      <3>2. QED BY <1>1, <2>2, <3>1
    <2>3. CASE Follows(q, A, B)
      <3>1. PICK j \in DOMAIN q : i < j /\ q[j] \in B
        BY <1>1, <2>1, <2>3 DEF Follows
      <3>2. j \in DOMAIN Append(q, e) /\ Append(q, e)[j] = q[j]
        BY <1>1
      <3>3. QED BY <3>1, <3>2
    <2>4. QED BY <2>2, <2>3
  <1>3. QED BY <1>2 DEF Follows

(* The events with the key of a flight, and the newest ones of its key.     *)
Joining(f) == {e \in Events : flightKey(e) = flightKey(f)}
NewestOf(k) == {e \in Events : Newest(e, k)}

LEMMA FollowupIs ==
    ASSUME TypeOK, NEW s \in Streams, NEW f
    PROVE  Followup(s, f) <=>
              /\ delta[s] \cap Joining(f) # {} => Coming(s, f.subject)
              /\ Out(f.subject) \/ Follows(buf[s], Joining(f), NewestOf(f.subject))
  <1>1. delta[s] \subseteq Events /\ \A i \in DOMAIN buf[s] : buf[s][i] \in Events
    <2>1. buf[s] \in Seq(Events)
      BY DEF TypeOK
    <2>2. QED BY <2>1, ElementOfSeq, LenProperties DEF TypeOK
  <1>2. (\E d \in delta[s] : flightKey(d) = flightKey(f)) <=> delta[s] \cap Joining(f) # {}
    BY <1>1 DEF Joining
  <1>3. CASE Out(f.subject)
    BY <1>2, <1>3 DEF Followup
  <1>4. CASE ~Out(f.subject)
    <2>1. (\A i \in DOMAIN buf[s] : flightKey(buf[s][i]) = flightKey(f) =>
              \E j \in DOMAIN buf[s] : i < j /\ Newest(buf[s][j], f.subject))
          <=> Follows(buf[s], Joining(f), NewestOf(f.subject))
      BY <1>1 DEF Follows, Joining, NewestOf
    <2>2. QED BY <1>2, <1>4, <2>1 DEF Followup
  <1>5. QED BY <1>3, <1>4

(* A step after which s is due a key keeps the request of s, unless s has   *)
(* just connected.                                                          *)
LEMMA StillDue ==
    ASSUME TypeOK, ClosedInv, InStep, NEW s \in Streams, NEW k \in Keys, Due(s, k)',
           \/ \E t \in Streams : \/ \E r \in Requests : Connect(t, r)
                                 \/ StreamStep(t) \/ SnapshotFails(t) \/ Disconnect(t)
           \/ \E f \in flights : FlightStep(f)
    PROVE  \/ /\ phase[s] = "off" /\ \E r \in Requests : Connect(s, r)
              /\ buf'[s] = <<>> /\ delta'[s] = {} /\ flights' = flights
           \/ /\ Due(s, k) /\ request'[s] = request[s] /\ delta[s] = {}
              /\ buf[s] # <<>> /\ buf'[s] = Tail(buf[s]) /\ Deliver(s) /\ delta'[s] = {}
           \/ /\ Due(s, k) /\ request'[s] = request[s] /\ delta[s] = {}
              /\ buf[s] # <<>> /\ buf'[s] = Tail(buf[s]) /\ StartResolve(s)
              /\ delta'[s] = {Head(buf[s])}
           \/ /\ Due(s, k) /\ request'[s] = request[s]
              /\ buf'[s] = buf[s] /\ delta'[s] \subseteq delta[s]
  <1> USE DEF streamVars, nboxVars
  <1> DEFINE Same == /\ Due(s, k) /\ request'[s] = request[s]
                     /\ buf'[s] = buf[s] /\ delta'[s] \subseteq delta[s]
  <1>1. ASSUME store' = store, missed'[s] = missed[s], phase[s] # "off",
               request'[s] = request[s], buf'[s] = buf[s], delta'[s] = delta[s]
        PROVE  Same
    BY <1>1 DEF Due
  <1>2. ASSUME NEW gone, Leave(gone) PROVE Same
    <2>1. s \notin gone
      BY <1>2 DEF Leave, Due
    <2>2. /\ store' = store /\ missed'[s] = missed[s] /\ phase'[s] = phase[s]
          /\ request'[s] = request[s] /\ buf'[s] = buf[s] /\ delta'[s] = delta[s]
      BY <1>2, <2>1 DEF Leave
    <2>3. phase[s] # "off"
      BY <2>2 DEF Due
    <2>4. QED BY <1>1, <2>2, <2>3
  <1>3. ASSUME NEW t \in Streams, NEW r \in Requests, Connect(t, r), t # s PROVE Same
    <2>1. /\ store' = store /\ missed'[s] = missed[s] /\ phase'[s] = phase[s]
          /\ request'[s] = request[s] /\ buf'[s] = buf[s] /\ delta'[s] = delta[s]
      BY <1>3 DEF Connect, TypeOK
    <2>2. phase[s] # "off"
      BY <2>1 DEF Due
    <2>3. QED BY <1>1, <2>1, <2>2
  <1>4. ASSUME NEW r \in Requests, Connect(s, r)
        PROVE  /\ phase[s] = "off" /\ buf'[s] = <<>> /\ delta'[s] = {} /\ flights' = flights
    BY <1>4 DEF Connect, ClosedInv, Closed, SharedInv, Waiting
  <1>5. ASSUME NEW t \in Streams, FetchPrefix(t) \/ \E j \in scan[t] : ScanRow(t, j) PROVE Same
    <2>1. /\ store' = store /\ missed' = missed /\ phase' = phase /\ request' = request
          /\ buf' = buf /\ delta' = delta
      BY <1>5 DEF FetchPrefix, ScanRow
    <2>2. phase[s] # "off"
      BY <2>1 DEF Due
    <2>3. QED BY <1>1, <2>1, <2>2
  <1>6. ASSUME NEW t \in Streams, SnapshotDone(t) PROVE Same
    <2>1. /\ store' = store /\ missed' = missed /\ request' = request
          /\ buf' = buf /\ delta' = delta /\ phase[t] = "snapshot"
          /\ phase' = [phase EXCEPT ![t] = "live"]
      BY <1>6 DEF SnapshotDone
    <2>2. phase[s] # "off"
      BY <2>1 DEF Due, TypeOK
    <2>3. QED BY <1>1, <2>1, <2>2
  <1>7. ASSUME NEW t \in Streams, NEW row \in burst[t], SendRow(t, row) PROVE Same
    <2>1. CASE Leave({t})
      BY <1>2, <2>1
    <2>2. CASE ~Leave({t})
      <3>1. /\ store' = store /\ missed' = missed /\ phase' = phase /\ request' = request
            /\ buf' = buf /\ delta' = delta
        BY <1>7, <2>2 DEF SendRow
      <3>2. phase[s] # "off"
        BY <3>1 DEF Due
      <3>3. QED BY <1>1, <3>1, <3>2
    <2>3. QED BY <2>1, <2>2
  <1>8. ASSUME NEW t \in Streams, Deliver(t)
        PROVE  \/ Same
               \/ /\ Due(s, k) /\ request'[s] = request[s] /\ delta[s] = {} /\ Deliver(s)
                  /\ buf[s] # <<>> /\ buf'[s] = Tail(buf[s]) /\ delta'[s] = {}
    <2>1. /\ store' = store /\ missed' = missed /\ phase' = phase /\ request' = request
          /\ delta' = delta /\ buf' = [buf EXCEPT ![t] = Tail(@)] /\ buf[t] # <<>>
          /\ phase[t] = "live"
      BY <1>8 DEF Deliver
    <2>2. Due(s, k)
      BY <2>1 DEF Due
    <2>3. CASE t # s
      BY <2>1, <2>2, <2>3 DEF TypeOK
    <2>4. CASE t = s
      BY <1>8, <2>1, <2>2, <2>4 DEF TypeOK, ClosedInv, SharedInv, Waiting
    <2>5. QED BY <2>3, <2>4
  <1>9. ASSUME NEW t \in Streams, StartResolve(t)
        PROVE  \/ Same
               \/ /\ Due(s, k) /\ request'[s] = request[s] /\ delta[s] = {}
                  /\ buf[s] # <<>> /\ buf'[s] = Tail(buf[s]) /\ StartResolve(s)
                  /\ delta'[s] = {Head(buf[s])}
    <2>1. /\ store' = store /\ missed' = missed /\ request' = request
          /\ phase' = [phase EXCEPT ![t] = "resolving"] /\ phase[t] = "live"
          /\ delta' = [delta EXCEPT ![t] = {Head(buf[t])}]
          /\ buf' = [buf EXCEPT ![t] = Tail(@)] /\ buf[t] # <<>>
      BY <1>9 DEF StartResolve, InStep
    <2>2. Due(s, k)
      BY <2>1 DEF Due, TypeOK
    <2>3. CASE t # s
      BY <2>1, <2>2, <2>3 DEF TypeOK
    <2>4. CASE t = s
      BY <1>9, <2>1, <2>2, <2>4 DEF TypeOK, ClosedInv, SharedInv, Waiting
    <2>5. QED BY <2>3, <2>4
  <1>10. ASSUME NEW f \in flights, ResolveDone(f) PROVE Same
    <2>1. /\ store' = store /\ missed' = missed /\ request' = request /\ buf' = buf
          /\ phase' = [t \in Streams |-> IF t \in waiters(f) THEN "live" ELSE phase[t]]
          /\ delta' = [t \in Streams |-> IF t \in waiters(f) THEN {} ELSE delta[t]]
      BY <1>10 DEF ResolveDone
    <2>2. s \in waiters(f) => phase[s] = "resolving"
      BY DEF waiters, ClosedInv, SharedInv, Waiting
    <2>3. phase[s] # "off"
      BY <2>1, <2>2 DEF Due
    <2>4. QED BY <2>1, <2>3 DEF Due
  <1>11. ASSUME NEW f \in flights, ResolveRead(f) PROVE Same
    <2>1. /\ store' = store /\ missed' = missed /\ phase' = phase /\ request' = request
          /\ buf' = buf /\ delta' = delta
      BY <1>11 DEF ResolveRead
    <2>2. phase[s] # "off"
      BY <2>1 DEF Due
    <2>3. QED BY <1>1, <2>1, <2>2
  <1>12. ASSUME NEW f \in flights, ResolveFails(f) PROVE Same
    BY <1>2, <1>12 DEF ResolveFails
  <1>13. ASSUME NEW t \in Streams, SnapshotFails(t) \/ Disconnect(t) PROVE Same
    BY <1>2, <1>13 DEF SnapshotFails, Disconnect
  <1> HIDE DEF Same
  <1>14. CASE \E t \in Streams, r \in Requests : Connect(t, r)
    <2>1. PICK t \in Streams, r \in Requests : Connect(t, r)
      BY <1>14
    <2>2. CASE t = s
      BY <1>4, <2>1, <2>2
    <2>3. CASE t # s
      BY <1>3, <2>1, <2>3 DEF Same
    <2>4. QED BY <2>2, <2>3
  <1>15. CASE \/ \E t \in Streams : \/ FetchPrefix(t) \/ \E j \in scan[t] : ScanRow(t, j)
                                    \/ SnapshotDone(t)
                                    \/ \E row \in burst[t] : SendRow(t, row)
                                    \/ SnapshotFails(t) \/ Disconnect(t)
              \/ \E f \in flights : ResolveDone(f) \/ ResolveRead(f) \/ ResolveFails(f)
    <2>1. Same
      BY <1>5, <1>6, <1>7, <1>10, <1>11, <1>12, <1>13, <1>15
    <2>2. QED BY <2>1 DEF Same
  <1>16. CASE \E t \in Streams : Deliver(t)
    <2>1. \/ Same
          \/ /\ Due(s, k) /\ request'[s] = request[s] /\ delta[s] = {} /\ Deliver(s)
             /\ buf[s] # <<>> /\ buf'[s] = Tail(buf[s]) /\ delta'[s] = {}
      BY <1>8, <1>16
    <2>2. QED BY <2>1 DEF Same
  <1>17. CASE \E t \in Streams : StartResolve(t)
    <2>1. \/ Same
          \/ /\ Due(s, k) /\ request'[s] = request[s] /\ delta[s] = {}
             /\ buf[s] # <<>> /\ buf'[s] = Tail(buf[s]) /\ StartResolve(s)
             /\ delta'[s] = {Head(buf[s])}
      BY <1>9, <1>17
    <2>2. QED BY <2>1 DEF Same
  <1>18. QED BY <1>14, <1>15, <1>16, <1>17 DEF StreamStep, FlightStep

(* What stream steps leave alone, and the flights they make.                *)
LEMMA FlightsAfter ==
    ASSUME TypeOK, InStep,
           \/ \E t \in Streams : \/ \E r \in Requests : Connect(t, r)
                                 \/ StreamStep(t) \/ SnapshotFails(t) \/ Disconnect(t)
           \/ \E f \in flights : FlightStep(f)
    PROVE  /\ UNCHANGED <<store, writes, tasks, bus>>
           /\ \A f \in flights' : Lags(f)' => f \in flights /\ Lags(f)
  <1> USE DEF streamVars, nboxVars
  <1>1. ASSUME UNCHANGED <<store, writes, tasks, bus>>, flights' \subseteq flights
        PROVE  \A f \in flights' : Lags(f)' => f \in flights /\ Lags(f)
    BY <1>1 DEF Lags
  <1>2. ASSUME NEW gone, Leave(gone) PROVE UNCHANGED <<store, writes, tasks, bus>>
    BY <1>2 DEF Leave
  <1>3. CASE \E t \in Streams :
                 \/ \E r \in Requests : Connect(t, r)
                 \/ FetchPrefix(t) \/ SnapshotDone(t) \/ (\E j \in scan[t] : ScanRow(t, j))
                 \/ Deliver(t)
    BY <1>1, <1>3 DEF Connect, FetchPrefix, SnapshotDone, ScanRow, Deliver
  <1>4. ASSUME NEW t \in Streams, NEW row \in burst[t], SendRow(t, row)
        PROVE  UNCHANGED <<store, writes, tasks, bus, flights>>
    BY <1>2, <1>4 DEF SendRow
  <1>5. CASE \/ \E t \in Streams : SnapshotFails(t) \/ Disconnect(t)
             \/ \E f \in flights : ResolveFails(f)
    BY <1>1, <1>2, <1>5 DEF SnapshotFails, Disconnect, ResolveFails
  <1>6. ASSUME NEW t \in Streams, StartResolve(t)
        PROVE  /\ UNCHANGED <<store, writes, tasks, bus>>
               /\ \A f \in flights' : Lags(f)' => f \in flights /\ Lags(f)
    <2>1. /\ UNCHANGED <<store, writes, tasks, bus>>
          /\ \A f \in flights' : f \in flights \/ f.value = 0
      BY <1>6 DEF StartResolve, InStep
    <2>2. QED BY <2>1 DEF Lags
  <1>7. ASSUME NEW g \in flights, ResolveRead(g)
        PROVE  /\ UNCHANGED <<store, writes, tasks, bus>>
               /\ \A f \in flights' : Lags(f)' => f \in flights /\ Lags(f)
    <2>1. PICK h : h = [g EXCEPT !.value = store[g.subject]]
      OBVIOUS
    <2>2. /\ UNCHANGED <<store, writes, tasks, bus>>
          /\ flights' = (flights \ {g}) \cup {h}
      BY <1>7, <2>1 DEF ResolveRead
    <2>3. h.value = store[h.subject]
      BY <2>1 DEF TypeOK
    <2>4. QED BY <2>2, <2>3 DEF Lags
  <1>8. ASSUME NEW g \in flights, ResolveDone(g)
        PROVE  UNCHANGED <<store, writes, tasks, bus>> /\ flights' \subseteq flights
    BY <1>8 DEF ResolveDone
  <1>9. QED
    BY <1>1, <1>3, <1>4, <1>5, <1>6, <1>7, <1>8 DEF StreamStep, FlightStep

LEMMA LagsNext ==
    ~TraceReuse /\ TypeOK /\ ClosedInv /\ FreshInv /\ InStep /\ PublishedOnce
        /\ LagsRepaired /\ TypeOK' /\ [Next]_vars => LagsRepaired'
  <1> SUFFICES ASSUME ~TraceReuse, TypeOK, ClosedInv, FreshInv, InStep, PublishedOnce,
                      LagsRepaired, TypeOK', [Next]_vars,
                      NEW f \in flights', Lags(f)',
                      NEW s \in Streams, Due(s, f.subject)'
               PROVE  Followup(s, f)'
    BY DEF LagsRepaired
  <1> USE DEF streamVars, nboxVars
  <1>1. PICK k \in Keys : k = f.subject
    BY DEF Lags
  <1>2. PICK A : A = Joining(f)
    OBVIOUS
  <1>3. PICK B : B = NewestOf(k)
    OBVIOUS
  <1>4. buf[s] \in Seq(Events) /\ delta[s] \subseteq Events
    BY DEF TypeOK
  <1>5. ASSUME Due(s, k), f \in flights, Lags(f)
        PROVE  /\ delta[s] \cap A # {} => Coming(s, k)
               /\ Out(k) \/ Follows(buf[s], A, B)
    <2>1. Followup(s, f)
      BY <1>1, <1>5 DEF LagsRepaired
    <2>2. QED BY <1>1, <1>2, <1>3, <2>1, FollowupIs
  <1>6. ASSUME Out(k)' PROVE Followup(s, f)'
    BY <1>1, <1>6 DEF Followup, Coming
  <1>7. ASSUME store'[k] = store[k],
               delta'[s] \cap A # {} => Coming(s, k)',
               Out(k)' \/ Follows(buf'[s], A, B)
        PROVE  Followup(s, f)'
    <2>1. \A i \in DOMAIN buf'[s] : buf'[s][i] \in Events
      <3>1. buf'[s] \in Seq(Events)
        BY DEF TypeOK
      <3>2. QED BY <3>1, ElementOfSeq, LenProperties
    <2>2. delta'[s] \subseteq Events
      BY DEF TypeOK
    <2>3. (\E d \in delta'[s] : flightKey(d) = flightKey(f)) => Coming(s, k)'
      BY <1>2, <1>7, <2>2 DEF Joining
    <2>4. \A e \in B : e.subject = k /\ e.write = store'[k]
      BY <1>3, <1>7 DEF NewestOf, Newest
    <2>5. ASSUME NEW i \in DOMAIN buf'[s], flightKey(buf'[s][i]) = flightKey(f)
          PROVE  \/ Out(k)'
                 \/ \E j \in DOMAIN buf'[s] : /\ i < j /\ buf'[s][j].subject = k
                                               /\ buf'[s][j].write = store'[k]
      <3>1. buf'[s][i] \in A
        BY <1>2, <2>1, <2>5 DEF Joining
      <3>2. QED BY <1>7, <2>4, <3>1 DEF Follows
    <2>6. QED BY <1>1, <2>3, <2>5 DEF Followup, Newest
  <1>8. CASE UNCHANGED vars
    <2>1. store' = store /\ f \in flights /\ Lags(f) /\ Due(s, k)
      BY <1>1, <1>8 DEF vars, Lags, Due
    <2>2. Coming(s, k)' <=> Coming(s, k)
      BY <1>8, Unmoved DEF vars, Coming
    <2>3. Out(k)' <=> Out(k)
      BY <1>8, Unmoved DEF vars
    <2>4. QED BY <1>5, <1>7, <1>8, <2>1, <2>2, <2>3 DEF vars
  <1>9. CASE \/ \E j \in Written : Upsert(j)
             \/ \E j \in Keys : Delete(j)
             \/ \E e \in tasks : Publish(e) \/ Lose(e)
    <2>1. Due(s, k)'
      BY <1>1
    <2>2. /\ UNCHANGED <<streamVars, buf, flights, view>>
          /\ \/ Out(k)'
             \/ Due(s, k) /\ store'[k] = store[k] /\ (Out(k) => Out(k)')
      BY <1>9, <2>1, WritesKeep
    <2>3. ASSUME Due(s, k), store'[k] = store[k], Out(k) => Out(k)'
          PROVE  Followup(s, f)'
      <3>1. f \in flights /\ Lags(f)
        BY <1>1, <2>2, <2>3 DEF Lags
      <3>2. Coming(s, k) => Coming(s, k)'
        BY <2>2, <2>3, Unmoved DEF Coming
      <3>3. QED BY <1>5, <1>7, <2>2, <2>3, <3>1, <3>2
    <2>4. QED BY <1>6, <2>2, <2>3
  <1>10. CASE Handle
    <2>1. PICK e : e = Head(bus)
      OBVIOUS
    <2>2. Due(s, k)'
      BY <1>1
    <2>3. /\ Due(s, k) /\ UNCHANGED <<nboxVars, streamVars, flights, view>>
          /\ e \in Events /\ e \in Range(bus)
          /\ \/ buf'[s] = Append(buf[s], e)
             \/ buf'[s] = buf[s] /\ ~Newest(e, k)
          /\ Newest(e, k) \/ (Out(k) => Out(k)')
      BY <1>10, <2>1, <2>2, HandleKeeps
    <2>4. f \in flights /\ Lags(f)
      BY <2>3 DEF Lags
    <2>5. e \notin A
      BY <1>2, <2>3, <2>4, NoFlightYet DEF Joining
    <2>6. Newest(e, k) => e \in B
      BY <1>3, <2>3 DEF NewestOf
    <2>7. Out(k)' \/ Follows(buf'[s], A, B)
      <3>1. Out(k)' \/ Newest(e, k) \/ Follows(buf[s], A, B)
        BY <1>5, <2>3, <2>4
      <3>2. CASE buf'[s] = Append(buf[s], e)
        BY <1>4, <2>3, <2>5, <2>6, <3>1, <3>2, AppendFollows
      <3>3. CASE buf'[s] = buf[s] /\ ~Newest(e, k)
        BY <3>1, <3>3
      <3>4. QED BY <2>3, <3>2, <3>3
    <2>8. Coming(s, k) => Coming(s, k)'
      <3>1. CASE buf'[s] = Append(buf[s], e)
        <4>1. Range(buf'[s]) = Range(buf[s]) \cup {e}
          BY <1>4, <2>3, <3>1, ChannelRange
        <4>2. QED BY <2>3, <4>1 DEF Coming, Queued, Newest
      <3>2. CASE buf'[s] = buf[s] /\ ~Newest(e, k)
        BY <2>3, <3>2, Unmoved DEF Coming
      <3>3. QED BY <2>3, <3>1, <3>2
    <2>9. QED BY <1>5, <1>7, <2>3, <2>4, <2>7, <2>8
  <1>11. CASE \/ \E t \in Streams : \/ \E r \in Requests : Connect(t, r)
                                    \/ StreamStep(t) \/ SnapshotFails(t) \/ Disconnect(t)
              \/ \E g \in flights : FlightStep(g)
    <2>1. UNCHANGED <<store, writes, tasks, bus>> /\ f \in flights /\ Lags(f)
      BY <1>11, FlightsAfter
    <2>2. (Out(k)' <=> Out(k)) /\ (buf'[s] = buf[s] => (Queued(s, k)' <=> Queued(s, k)))
      BY <2>1, Unmoved
    <2>3. Due(s, k)'
      BY <1>1
    <2>4. \/ buf'[s] = <<>> /\ delta'[s] = {}
          \/ /\ Due(s, k) /\ buf[s] # <<>> /\ buf'[s] = Tail(buf[s])
             /\ delta'[s] \in {{}, {Head(buf[s])}}
          \/ Due(s, k) /\ buf'[s] = buf[s] /\ delta'[s] \subseteq delta[s]
      BY <1>11, <2>3, StillDue
    <2>5. CASE buf'[s] = <<>> /\ delta'[s] = {}
      <3>1. Follows(buf'[s], A, B)
        BY <2>5 DEF Follows
      <3>2. QED BY <1>7, <2>1, <2>5, <3>1
    <2>6. CASE /\ Due(s, k) /\ buf[s] # <<>> /\ buf'[s] = Tail(buf[s])
               /\ delta'[s] \in {{}, {Head(buf[s])}}
      <3>1. Out(k) \/ Follows(buf[s], A, B)
        BY <1>5, <2>1, <2>6
      <3>2. CASE Out(k)
        BY <1>6, <2>2, <3>2
      <3>3. CASE Follows(buf[s], A, B)
        <4>1. /\ Follows(buf'[s], A, B)
              /\ Head(buf[s]) \in A => \E e \in Range(buf'[s]) : e \in B
          BY <1>4, <2>6, <3>3, TailFollows
        <4>2. delta'[s] \cap A # {} => Coming(s, k)'
          BY <1>3, <2>1, <2>6, <4>1 DEF Coming, Queued, NewestOf, Newest
        <4>3. QED BY <1>7, <2>1, <4>1, <4>2
      <3>4. QED BY <3>1, <3>2, <3>3
    <2>7. CASE Due(s, k) /\ buf'[s] = buf[s] /\ delta'[s] \subseteq delta[s]
      <3>1. Coming(s, k) => Coming(s, k)'
        BY <2>2, <2>7 DEF Coming
      <3>2. QED BY <1>5, <1>7, <2>1, <2>2, <2>7, <3>1
    <2>8. QED BY <2>4, <2>5, <2>6, <2>7
  <1>12. Next \/ UNCHANGED vars
    OBVIOUS
  <1>13. CASE Next
    <2>1. \/ \E j \in Written : Upsert(j)
          \/ \E j \in Keys : Delete(j)
          \/ \E e \in tasks : Publish(e) \/ Lose(e)
          \/ Handle
          \/ \E t \in Streams : \/ \E r \in Requests : Connect(t, r)
                                \/ StreamStep(t) \/ SnapshotFails(t) \/ Disconnect(t)
          \/ \E g \in flights : FlightStep(g)
      BY <1>13 DEF Next
    <2>2. QED BY <1>9, <1>10, <1>11, <2>1
  <1>14. QED BY <1>8, <1>12, <1>13

LEMMA VaultPlacedNext ==
    ASSUME TypeOK, ClosedInv, InStep, LagsRepaired, VaultPlaced, [Next]_vars
    PROVE  VaultPlaced'
  <1> SUFFICES ASSUME NEW s \in Streams, NEW k \in Keys,
                      Due(s, k)', isVaultKey(k), request'[s].pub
               PROVE  Placed(s, k)'
    BY DEF VaultPlaced
  <1> USE DEF streamVars, nboxVars
  <1>1. CASE UNCHANGED vars
    <2>1. Due(s, k) /\ request[s].pub
      BY <1>1 DEF vars, Due
    <2>2. Placed(s, k)
      BY <2>1 DEF VaultPlaced
    <2>3. QED BY <1>1, <2>2, Unmoved DEF vars, Placed, Coming
  <1>2. CASE \/ \E j \in Written : Upsert(j)
             \/ \E j \in Keys : Delete(j)
             \/ \E e \in tasks : Publish(e) \/ Lose(e)
             \/ Handle
    <2>1. request' = request
      BY <1>2 DEF Upsert, Delete, Publish, Lose, Handle
    <2>2. Due(s, k) => Placed(s, k)
      BY <2>1 DEF VaultPlaced
    <2>3. QED BY <1>2, <2>2, NboxPlaced
  <1>3. CASE \/ \E t \in Streams : \/ \E r \in Requests : Connect(t, r)
                                   \/ StreamStep(t) \/ SnapshotFails(t) \/ Disconnect(t)
             \/ \E f \in flights : FlightStep(f)
    <2>1. phase[s] = "off" \/ (Due(s, k) /\ request'[s] = request[s])
      BY <1>3, StillDue
    <2>2. Due(s, k) => Placed(s, k)
      BY <2>1 DEF VaultPlaced, Due
    <2>3. CASE ~Shows(s, k)
      BY <1>3, <2>2, <2>3, StreamPlaced
    <2>4. ASSUME phase[s] # "off" PROVE needsResolve(s, [subject |-> k]) /\ Due(s, k)
      BY <2>1, <2>4 DEF needsResolve
    <2>5. ASSUME NEW row \in burst[s], row[1] = k, SendRow(s, row), phase' = phase
          PROVE  Placed(s, k)'
      <3>1. ~Leave({s}) /\ phase[s] # "off"
        BY <2>5 DEF Leave, Due
      <3>2. view' = [view EXCEPT ![s][k] = store[k]] /\ store' = store
        BY <2>4, <2>5, <3>1 DEF SendRow
      <3>3. view'[s][k] = store'[k]
        BY <3>2 DEF TypeOK, Subjects
      <3>4. QED BY <3>3 DEF Placed
    <2>6. ASSUME Deliver(s), Head(buf[s]).subject = k PROVE FALSE
      <3>1. phase[s] # "off" /\ ~needsResolve(s, Head(buf[s]))
        BY <2>6 DEF Deliver
      <3>2. QED BY <2>4, <2>6, <3>1 DEF needsResolve
    <2>7. ASSUME NEW f \in flights, ResolveDone(f), s \in waiters(f), f.subject = k
          PROVE  Placed(s, k)'
      <3>1. /\ UNCHANGED <<nboxVars, bus, buf>> /\ f.value # 0
            /\ view' = [t \in Streams |-> IF t \in waiters(f)
                                          THEN [view[t] EXCEPT ![f.subject] = f.value]
                                          ELSE view[t]]
        BY <2>7 DEF ResolveDone
      <3>2. PICK d \in delta[s] : flightKey(d) = flightKey(f)
        BY <2>7 DEF waiters
      <3>3. phase[s] # "off"
        BY <3>2 DEF ClosedInv, SharedInv, Waiting
      <3>4. view'[s][k] = f.value
        BY <2>7, <3>1 DEF TypeOK, Subjects
      <3>5. CASE f.value = store[k]
        BY <3>1, <3>4, <3>5 DEF Placed
      <3>6. CASE f.value # store[k]
        <4>1. Lags(f)
          BY <2>4, <2>7, <3>1, <3>3, <3>6 DEF Lags, Due
        <4>2. Coming(s, k)
          BY <2>4, <2>7, <3>2, <3>3, <4>1 DEF LagsRepaired, Followup
        <4>3. QED BY <3>1, <4>2, Unmoved DEF Placed, Coming
      <3>7. QED BY <3>5, <3>6
    <2>8. QED BY <2>3, <2>5, <2>6, <2>7 DEF Shows
  <1>4. Next \/ UNCHANGED vars
    OBVIOUS
  <1>5. QED BY <1>1, <1>2, <1>3, <1>4 DEF Next

(* When nothing about a key is on its way, all that is left of Placed is    *)
(* that the agent has the value.                                            *)
LEMMA SettledShown ==
    ASSUME ClosedInv, NEW s \in Streams, NEW k \in Followed(s), Asks(s, k), Spelled(k),
           store[k] # 0, Settled(s, k), Due(s, k) => Placed(s, k)
    PROVE  view[s][k] = store[k]
  <1>1. k \in Keys /\ sanitize(k) = k
    BY WatchAssumption DEF Followed, Scope, Leaves
  <1>2. Due(s, k)
    BY DEF Due, Asks, Followed, Settled
  <1>3. \A e : Newest(e, k) => about(e, k)
    BY <1>1 DEF Newest, about
  <1>4. ~Coming(s, k)
    BY <1>3 DEF Settled, Coming, Out, Queued, Range
  <1>5. phase[s] = "live" /\ delta[s] = {} /\ scan[s] = {} /\ burst[s] = {} /\ todo[s] = <<>>
    BY DEF Settled, ClosedInv, Closed, SharedInv, Waiting
  <1>6. ~Awaited(s, k) /\ ~Ahead(s, k)
    BY <1>5 DEF Awaited, Ahead
  <1>7. QED BY <1>2, <1>4, <1>6 DEF Placed

(***************************************************************************)
(* Agents with a public key converge on vault entries (stream_server.go:   *)
(* 126, 188): when every write has its own trace and the snapshot is not   *)
(* behind, an agent that asks for a prefix which also gives it a key's     *)
(* deltas ends up with its value, if writers spell it as it is stored;     *)
(* whatever is lost, dropped, shared or fails, whatever the other agents   *)
(* ask for, and in whatever order events and resolves end.                 *)
(***************************************************************************)
VaultStreamConverges(s) ==
    \A k \in Followed(s) :
        /\ Asks(s, k) /\ Spelled(k)
        /\ Settled(s, k) /\ store[k] # 0 /\ isVaultKey(k) /\ request[s].pub
        => view[s][k] = store[k]

VaultStreamsConverge == \A s \in Streams : VaultStreamConverges(s)

\* Stated stream by stream and key by key: what other agents ask for and how
\* other keys are spelled does not matter.
THEOREM WatchVaultStreamsConverge ==
    ~TraceReuse /\ InStep => (Spec => []VaultStreamsConverge)
  <1> SUFFICES ASSUME ~TraceReuse, InStep PROVE Spec => []VaultStreamsConverge
    OBVIOUS
  <1> DEFINE VaultInv == FreshInv /\ ClosedInv /\ PublishedOnce /\ LagsRepaired /\ VaultPlaced
  <1>1. Init => VaultInv
    <2> SUFFICES ASSUME Init PROVE VaultInv
      OBVIOUS
    <2>1. ClosedInv
      BY ClosedInit
    <2>2. PublishedOnce /\ LagsRepaired /\ VaultPlaced
      BY DEF Init, PublishedOnce, LagsRepaired, VaultPlaced, Due, Range
    <2>3. FreshInv
      BY FreshInit
    <2>4. QED BY <2>1, <2>2, <2>3
  <1>2. TypeOK /\ VaultInv /\ [Next]_vars /\ TypeOK' => VaultInv'
    <2> SUFFICES ASSUME TypeOK, VaultInv, [Next]_vars, TypeOK' PROVE VaultInv'
      OBVIOUS
    <2>1. FreshInv'
      BY FreshNext
    <2>2. ClosedInv' /\ PublishedOnce'
      BY ClosedNext, OnceNext DEF InStep
    <2>3. LagsRepaired'
      BY LagsNext
    <2>4. VaultPlaced'
      BY VaultPlacedNext
    <2>5. QED BY <2>1, <2>2, <2>3, <2>4
  <1>3. VaultInv => VaultStreamsConverge
    BY SettledShown
       DEF VaultStreamsConverge, VaultStreamConverges, VaultPlaced, Followed, Scope, Leaves
  <1>4. Spec => []TypeOK
    BY WatchTypeCorrect
  <1>5. QED BY <1>1, <1>2, <1>3, <1>4, PTL DEF Spec

(* All keys being written as they are stored, and all requests such that    *)
(* who gets the snapshot of a key gets its deltas too.                      *)
AsStored == \A k \in Written : sanitize(k) = k

PrefixesMatch == \A r \in Requests : \A k \in Scope(r) : matchesPrefix(k, r.prefixes)

LEMMA FollowedAsks ==
    ASSUME TypeOK, AsStored, PrefixesMatch, NEW s \in Streams, NEW k \in Followed(s)
    PROVE  Asks(s, k) /\ Spelled(k)
  <1>1. request[s] \in Requests \cup {NoRequest} /\ k \in Scope(request[s])
    BY DEF TypeOK, Followed
  <1>2. request[s] # NoRequest
    BY <1>1 DEF NoRequest, Scope
  <1>3. Asks(s, k)
    BY <1>1, <1>2 DEF PrefixesMatch, Asks
  <1>4. Spelled(k)
    BY <1>1 DEF AsStored, Spelled, Scope, Leaves
  <1>5. QED BY <1>3, <1>4

(* When that holds of all of them, VaultKeysConverge: each agent with a     *)
(* key has the value of each vault entry it follows (stream_server.go:126). *)
THEOREM WatchVaultKeysConverge ==
    ~TraceReuse /\ InStep /\ AsStored /\ PrefixesMatch => (Spec => []VaultKeysConverge)
  <1> SUFFICES ASSUME ~TraceReuse, InStep, AsStored, PrefixesMatch PROVE Spec => []VaultKeysConverge
    OBVIOUS
  <1>1. TypeOK /\ VaultStreamsConverge => VaultKeysConverge
    BY FollowedAsks DEF VaultStreamsConverge, VaultStreamConverges, VaultKeysConverge
  <1>2. Spec => []TypeOK /\ []VaultStreamsConverge
    BY WatchTypeCorrect, WatchVaultStreamsConverge
  <1>3. QED BY <1>1, <1>2, PTL

-----------------------------------------------------------------------------
(***************************************************************************)
(* Plain keys.  Their deltas carry what was written, so they must arrive   *)
(* in order.  When the writers of a key wait for its earlier event to be   *)
(* out (Spaced), its events keep their order over the bus and in every     *)
(* channel.  So behind an event, or a row of the snapshot, that is older   *)
(* than the entry the newest event comes still, unless the stream missed   *)
(* it.                                                                     *)
(***************************************************************************)
PlainPlaced ==
    \A s \in Streams : \A k \in Keys :
        Due(s, k) /\ ~isVaultKey(k) => Placed(s, k)

Ordered(q) ==
    \A i, j \in DOMAIN q : i < j /\ q[i].subject = q[j].subject => q[i].write < q[j].write

Before(A, B) == \A a \in A, b \in B : a.subject = b.subject => a.write < b.write

stored(e) == store[sanitize(e.subject)]

Known(e) == e.write <= writes /\ (stored(e) = 0 \/ e.write <= stored(e))

OrderInv ==
    /\ \A d, e \in tasks : d.subject = e.subject => d = e
    /\ \A e \in tasks : stored(e) \in {0, e.write}
    /\ Ordered(bus) /\ Before(Range(bus), tasks)
    /\ \A e \in tasks \cup Range(bus) : Known(e)
    /\ \A s \in Streams : /\ Ordered(buf[s]) /\ Before(Range(buf[s]), tasks \cup Range(bus))
                          /\ \A e \in Range(buf[s]) : Known(e)

Older(e) == stored(e) \notin {0, e.write}

OldOnBus ==
    \A e \in Range(bus) : Spelled(e.subject) /\ Older(e) =>
        Out(e.subject) \/ \A s \in Streams : stored(e) \in missed[s]

Behind(s, k) ==
    \/ \E e \in Range(buf[s]) : e.subject = k /\ Older(e)
    \/ \E row \in burst[s] : row[1] = k /\ row[2] # store[k]

OldQueued ==
    \A s \in Streams : \A k \in Keys :
        Due(s, k) /\ ~isVaultKey(k) /\ Behind(s, k) => Coming(s, k)

(* Order, when the head of a channel is taken and when an event is added.   *)
LEMMA OrderedTail ==
    ASSUME NEW S, NEW q \in Seq(S), q # <<>>, Ordered(q)
    PROVE  Ordered(Tail(q)) /\ Before({Head(q)}, Range(Tail(q)))
  <1>1. /\ Len(q) \in Nat /\ DOMAIN q = 1..Len(q) /\ Head(q) = q[1] /\ Len(q) # 0
        /\ DOMAIN Tail(q) = 1..(Len(q) - 1)
        /\ \A i \in 1..(Len(q) - 1) : Tail(q)[i] = q[i + 1]
    BY HeadTailProperties, EmptySeq, LenProperties
  <1>2. ASSUME NEW i \in DOMAIN Tail(q)
        PROVE  \E g \in DOMAIN q : g = i + 1 /\ 1 < g /\ Tail(q)[i] = q[g]
    BY <1>1
  <1>3. ASSUME NEW i \in DOMAIN Tail(q), NEW j \in DOMAIN Tail(q), i < j,
               Tail(q)[i].subject = Tail(q)[j].subject
        PROVE  Tail(q)[i].write < Tail(q)[j].write
    <2>1. PICK g \in DOMAIN q : g = i + 1 /\ Tail(q)[i] = q[g]
      BY <1>2
    <2>2. PICK h \in DOMAIN q : h = j + 1 /\ Tail(q)[j] = q[h]
      BY <1>2
    <2>3. g < h
      BY <1>1, <1>3, <2>1, <2>2
    <2>4. QED BY <1>3, <2>1, <2>2, <2>3 DEF Ordered
  <1>4. ASSUME NEW e \in Range(Tail(q)), Head(q).subject = e.subject
        PROVE  Head(q).write < e.write
    <2>1. PICK i \in DOMAIN Tail(q) : e = Tail(q)[i]
      BY <1>4 DEF Range
    <2>2. PICK g \in DOMAIN q : 1 < g /\ e = q[g]
      BY <1>2, <2>1
    <2>3. 1 \in DOMAIN q
      BY <1>1
    <2>4. QED BY <1>1, <1>4, <2>2, <2>3 DEF Ordered
  <1>5. QED BY <1>3, <1>4 DEF Ordered, Before

LEMMA OrderedAppend ==
    ASSUME NEW S, NEW q \in Seq(S), NEW e \in S, Ordered(q), Before(Range(q), {e})
    PROVE  Ordered(Append(q, e))
  <1>1. /\ Len(q) \in Nat /\ DOMAIN q = 1..Len(q)
        /\ DOMAIN Append(q, e) = 1..(Len(q) + 1)
        /\ \A i \in 1..Len(q) : Append(q, e)[i] = q[i]
        /\ Append(q, e)[Len(q) + 1] = e
    BY AppendProperties, LenProperties
  <1>2. ASSUME NEW i \in DOMAIN Append(q, e), NEW j \in DOMAIN Append(q, e), i < j,
               Append(q, e)[i].subject = Append(q, e)[j].subject
        PROVE  Append(q, e)[i].write < Append(q, e)[j].write
    <2>1. i \in DOMAIN q /\ Append(q, e)[i] = q[i]
      <3>1. i \in 1..Len(q)
        BY <1>1, <1>2
      <3>2. QED BY <1>1, <3>1
    <2>2. CASE j = Len(q) + 1
      <3>1. q[i] \in Range(q)
        BY <2>1 DEF Range
      <3>2. QED BY <1>1, <1>2, <2>1, <2>2, <3>1 DEF Before
    <2>3. CASE j # Len(q) + 1
      <3>1. j \in 1..Len(q)
        BY <1>1, <2>3
      <3>2. j \in DOMAIN q /\ Append(q, e)[j] = q[j]
        BY <1>1, <3>1
      <3>3. QED BY <1>2, <2>1, <3>2 DEF Ordered
    <2>4. QED BY <2>2, <2>3
  <1>3. QED BY <1>2 DEF Ordered

(* What stream steps do to the channels.                                    *)
LEMMA ChannelsAfter ==
    ASSUME TypeOK, InStep,
           \/ \E t \in Streams : \/ \E r \in Requests : Connect(t, r)
                                 \/ StreamStep(t) \/ SnapshotFails(t) \/ Disconnect(t)
           \/ \E f \in flights : FlightStep(f)
    PROVE  \A s \in Streams : \/ buf'[s] = buf[s] \/ buf'[s] = <<>>
                              \/ buf[s] # <<>> /\ buf'[s] = Tail(buf[s])
  <1> USE DEF streamVars, nboxVars
  <1>1. ASSUME NEW gone, Leave(gone)
        PROVE  \A s \in Streams : buf'[s] = buf[s] \/ buf'[s] = <<>>
    BY <1>1 DEF Leave
  <1>2. ASSUME NEW t \in Streams, Deliver(t) \/ StartResolve(t)
        PROVE  \A s \in Streams : buf'[s] = buf[s] \/ (buf[s] # <<>> /\ buf'[s] = Tail(buf[s]))
    <2>1. buf' = [buf EXCEPT ![t] = Tail(@)] /\ buf[t] # <<>>
      BY <1>2 DEF Deliver, StartResolve, InStep
    <2>2. QED BY <2>1 DEF TypeOK
  <1>3. ASSUME NEW t \in Streams, NEW row \in burst[t], SendRow(t, row)
        PROVE  \A s \in Streams : buf'[s] = buf[s] \/ buf'[s] = <<>>
    BY <1>1, <1>3 DEF SendRow
  <1>4. CASE \/ \E t \in Streams : \/ \E r \in Requests : Connect(t, r)
                                   \/ FetchPrefix(t) \/ SnapshotDone(t)
                                   \/ \E j \in scan[t] : ScanRow(t, j)
             \/ \E f \in flights : ResolveRead(f) \/ ResolveDone(f)
    BY <1>4 DEF Connect, FetchPrefix, SnapshotDone, ScanRow, ResolveRead, ResolveDone
  <1>5. CASE \/ \E t \in Streams : SnapshotFails(t) \/ Disconnect(t)
             \/ \E f \in flights : ResolveFails(f)
    BY <1>1, <1>5 DEF SnapshotFails, Disconnect, ResolveFails
  <1>6. QED BY <1>2, <1>3, <1>4, <1>5 DEF StreamStep, FlightStep

LEMMA OrderNext ==
    Spaced /\ InStep /\ TypeOK /\ OrderInv /\ [Next]_vars => OrderInv'
  <1> SUFFICES ASSUME Spaced, InStep, TypeOK, OrderInv, [Next]_vars
               PROVE  OrderInv'
    OBVIOUS
  <1> USE DEF streamVars, nboxVars
  <1>1. ASSUME NEW e \in Events
        PROVE  sanitize(e.subject) \in Keys /\ e.write \in Nat
    BY <1>1, SanitizedKeys DEF Events
  <1>2. /\ tasks \subseteq Events /\ bus \in Seq(Events) /\ Range(bus) \subseteq Events
        /\ \A s \in Streams : buf[s] \in Seq(Events) /\ Range(buf[s]) \subseteq Events
    BY ChannelRange DEF TypeOK
  <1>3. CASE UNCHANGED vars
    BY <1>3 DEF OrderInv, vars, Ordered, Before, Known, stored
  <1>4. ASSUME NEW j \in Written, Upsert(j)
        PROVE  OrderInv'
    <2>1. PICK new : /\ tasks' = tasks \cup {new} /\ new.subject = j /\ new.write = writes + 1
                     /\ store' = [store EXCEPT ![sanitize(j)] = writes + 1]
                     /\ writes' = writes + 1 /\ UNCHANGED <<bus, buf>>
                     /\ writes \in Nat /\ sanitize(j) \in Keys
      <3>1. PICK trace : tasks' = tasks \cup
                             {[id |-> trace, subject |-> j, write |-> writes + 1]}
        BY <1>4 DEF Upsert
      <3>2. sanitize(j) \in Keys
        BY SanitizedKeys
      <3>3. writes \in Nat
        BY DEF TypeOK
      <3>4. WITNESS [id |-> trace, subject |-> j, write |-> writes + 1]
      <3>5. QED BY <1>4, <3>1, <3>2, <3>3 DEF Upsert
    <2>2. \A e \in tasks : sanitize(e.subject) # sanitize(j)
      BY <1>4 DEF Upsert
    <2>3. /\ store'[sanitize(j)] = writes + 1
          /\ \A k \in Keys \ {sanitize(j)} : store'[k] = store[k]
      BY <2>1 DEF TypeOK
    <2>4. ASSUME NEW e \in Events, Known(e)
          PROVE  Known(e)' /\ e.write < new.write
      BY <1>1, <2>1, <2>3, <2>4 DEF Known, stored
    <2>5. Known(new)'
      BY <2>1, <2>3 DEF Known, stored
    <2>6. /\ \A d, e \in tasks' : d.subject = e.subject => d = e
          /\ \A e \in tasks' : stored(e)' \in {0, e.write}
      BY <1>1, <1>2, <2>1, <2>2, <2>3 DEF OrderInv, stored
    <2>7. Before(Range(bus), tasks') /\ \A s \in Streams : Before(Range(buf[s]), tasks' \cup Range(bus))
      BY <1>2, <2>1, <2>4 DEF OrderInv, Before
    <2>8. /\ \A e \in tasks' \cup Range(bus) : Known(e)'
          /\ \A s \in Streams : \A e \in Range(buf[s]) : Known(e)'
      BY <1>2, <2>1, <2>4, <2>5 DEF OrderInv
    <2>9. Ordered(bus) /\ \A s \in Streams : Ordered(buf[s])
      BY DEF OrderInv
    <2>10. QED BY <2>1, <2>6, <2>7, <2>8, <2>9 DEF OrderInv, Ordered, Before
  <1>5. ASSUME NEW j \in Keys, Delete(j)
        PROVE  OrderInv'
    <2>1. UNCHANGED <<writes, tasks, bus, buf>> /\ store' = [store EXCEPT ![j] = 0]
      BY <1>5 DEF Delete
    <2>2. \A k \in Keys : store'[k] \in {0, store[k]}
      BY <2>1 DEF TypeOK
    <2>3. \A e \in Events : Known(e) => Known(e)'
      BY <1>1, <2>1, <2>2 DEF Known, stored
    <2>4. \A e \in tasks : stored(e)' \in {0, e.write}
      BY <1>1, <1>2, <2>2 DEF OrderInv, stored
    <2>5. /\ \A e \in tasks \cup Range(bus) : Known(e)'
          /\ \A s \in Streams : \A e \in Range(buf[s]) : Known(e)'
      BY <1>2, <2>3 DEF OrderInv
    <2>6. QED BY <2>1, <2>4, <2>5 DEF OrderInv, Ordered, Before
  <1>6. ASSUME NEW e \in tasks, Publish(e)
        PROVE  OrderInv'
    <2>1. UNCHANGED <<writes, store, buf>> /\ tasks' = tasks \ {e} /\ bus' = Append(bus, e)
      BY <1>6 DEF Publish
    <2>2. Range(bus') = Range(bus) \cup {e}
      BY <1>2, <2>1, ChannelRange
    <2>3. Ordered(bus')
      <3>1. Before(Range(bus), {e})
        BY DEF OrderInv, Before
      <3>2. QED BY <1>2, <2>1, <3>1, OrderedAppend DEF OrderInv
    <2>4. Before(Range(bus'), tasks')
      BY <2>1, <2>2 DEF OrderInv, Before
    <2>5. tasks' \cup Range(bus') = tasks \cup Range(bus) /\ tasks' \subseteq tasks
      BY <2>1, <2>2
    <2>6. \A d \in Events : Known(d)' <=> Known(d)
      BY <2>1 DEF Known, stored
    <2>7. /\ \A d \in tasks \cup Range(bus) : Known(d)'
          /\ \A s \in Streams : \A d \in Range(buf[s]) : Known(d)'
      BY <1>2, <2>6 DEF OrderInv
    <2>8. /\ \A c, d \in tasks' : c.subject = d.subject => c = d
          /\ \A d \in tasks' : stored(d)' \in {0, d.write}
      BY <2>1, <2>5 DEF OrderInv, stored
    <2>9. \A s \in Streams : Ordered(buf'[s]) /\ Before(Range(buf'[s]), tasks' \cup Range(bus'))
      BY <2>1, <2>5 DEF OrderInv
    <2>10. QED BY <2>1, <2>3, <2>4, <2>5, <2>7, <2>8, <2>9 DEF OrderInv, Ordered, Before
  <1>7. ASSUME NEW e \in tasks, Lose(e)
        PROVE  OrderInv'
    BY <1>7 DEF Lose, OrderInv, Ordered, Before, Known, stored
  <1>8. CASE Handle
    <2>1. PICK e : e = Head(bus)
      OBVIOUS
    <2>2. PICK kept : kept = Takers(e)
      OBVIOUS
    <2>3. /\ buf' = [t \in Streams |-> IF t \in kept THEN Append(buf[t], e) ELSE buf[t]]
          /\ bus # <<>> /\ bus' = Tail(bus) /\ UNCHANGED <<store, writes, tasks>>
      BY <1>8, <2>1, <2>2, HandleSteps DEF Handle
    <2>4. /\ e \in Range(bus) /\ Range(bus) = Range(bus') \cup {e}
          /\ Ordered(bus') /\ Before({e}, Range(bus'))
      BY <1>2, <2>1, <2>3, ChannelRange, OrderedTail DEF OrderInv
    <2>5. Before({e}, tasks' \cup Range(bus')) /\ Before(Range(bus'), tasks')
      BY <2>3, <2>4 DEF OrderInv, Before
    <2>6. \A d \in Events : Known(d)' <=> Known(d)
      BY <2>3 DEF Known, stored
    <2>7. Known(e)
      BY <2>4 DEF OrderInv
    <2>8. ASSUME NEW s \in Streams
          PROVE  /\ Ordered(buf'[s]) /\ Before(Range(buf'[s]), tasks' \cup Range(bus'))
                 /\ \A d \in Range(buf'[s]) : Known(d)'
      <3>1. /\ Ordered(buf[s]) /\ Before(Range(buf[s]), tasks' \cup Range(bus') \cup {e})
            /\ \A d \in Range(buf[s]) : Known(d)'
        BY <1>2, <2>3, <2>4, <2>6 DEF OrderInv, Before
      <3>2. CASE buf'[s] = buf[s]
        BY <3>1, <3>2 DEF Before
      <3>3. CASE buf'[s] = Append(buf[s], e)
        <4>1. Range(buf'[s]) = Range(buf[s]) \cup {e}
          BY <1>2, <2>4, <3>3, ChannelRange
        <4>2. Before(Range(buf[s]), {e})
          BY <3>1 DEF Before
        <4>3. Ordered(buf'[s])
          BY <1>2, <2>4, <3>1, <3>3, <4>2, OrderedAppend
        <4>4. Before(Range(buf'[s]), tasks' \cup Range(bus'))
          BY <2>5, <3>1, <4>1 DEF Before
        <4>5. \A d \in Range(buf'[s]) : Known(d)'
          BY <1>2, <2>4, <2>6, <2>7, <3>1, <4>1
        <4>6. QED BY <4>3, <4>4, <4>5
      <3>4. QED BY <2>3, <3>2, <3>3
    <2>9. /\ \A c, d \in tasks' : c.subject = d.subject => c = d
          /\ \A d \in tasks' : stored(d)' \in {0, d.write}
          /\ \A d \in tasks' \cup Range(bus') : Known(d)'
      BY <1>2, <2>3, <2>4, <2>6 DEF OrderInv, stored
    <2>10. QED BY <2>4, <2>5, <2>8, <2>9 DEF OrderInv, Ordered, Before
  <1>9. CASE \/ \E t \in Streams : \/ \E r \in Requests : Connect(t, r)
                                   \/ StreamStep(t) \/ SnapshotFails(t) \/ Disconnect(t)
             \/ \E f \in flights : FlightStep(f)
    <2>1. UNCHANGED <<store, writes, tasks, bus>>
      BY <1>9, FlightsAfter
    <2>2. \A d \in Events : Known(d)' <=> Known(d)
      BY <2>1 DEF Known, stored
    <2>3. ASSUME NEW s \in Streams
          PROVE  /\ Ordered(buf'[s]) /\ Before(Range(buf'[s]), tasks' \cup Range(bus'))
                 /\ \A d \in Range(buf'[s]) : Known(d)'
      <3>1. Ordered(buf'[s]) /\ Range(buf'[s]) \subseteq Range(buf[s])
        <4>1. CASE buf'[s] = buf[s]
          BY <4>1 DEF OrderInv
        <4>2. CASE buf'[s] = <<>>
          <5>1. Range(<<>>) = {} /\ DOMAIN <<>> = {}
            BY DEF Range
          <5>2. QED BY <4>2, <5>1 DEF Ordered
        <4>3. CASE buf[s] # <<>> /\ buf'[s] = Tail(buf[s])
          <5>1. buf[s] \in Seq(Events) /\ Ordered(buf[s])
            BY <1>2 DEF OrderInv
          <5>2. Ordered(Tail(buf[s]))
            BY <4>3, <5>1, OrderedTail
          <5>3. Range(Tail(buf[s])) \subseteq Range(buf[s])
            BY <4>3, <5>1, ChannelRange
          <5>4. QED BY <4>3, <5>2, <5>3
        <4>4. QED BY <1>9, <4>1, <4>2, <4>3, ChannelsAfter
      <3>2. QED BY <1>2, <2>1, <2>2, <3>1 DEF OrderInv, Before
    <2>4. \A d \in tasks \cup Range(bus) : Known(d)'
      BY <1>2, <2>2 DEF OrderInv
    <2>5. QED BY <2>1, <2>3, <2>4 DEF OrderInv, Ordered, Before, stored
  <1>10. Next \/ UNCHANGED vars
    OBVIOUS
  <1>11. QED BY <1>3, <1>4, <1>5, <1>6, <1>7, <1>8, <1>9, <1>10 DEF Next

LEMMA OldOnBusNext ==
    Spaced /\ InStep /\ TypeOK /\ OrderInv /\ OldOnBus /\ [Next]_vars => OldOnBus'
  <1> SUFFICES ASSUME Spaced, InStep, TypeOK, OrderInv, OldOnBus, [Next]_vars,
                      NEW d \in Range(bus'), Spelled(d.subject), Older(d)', ~Out(d.subject)',
                      NEW s \in Streams
               PROVE  stored(d)' \in missed'[s]
    BY DEF OldOnBus, Spelled
  <1> USE DEF streamVars, nboxVars
  <1>1. PICK k : k = d.subject
    OBVIOUS
  <1>2. /\ tasks \subseteq Events /\ bus \in Seq(Events) /\ Range(bus) \subseteq Events
    BY ChannelRange DEF TypeOK
  <1>a. \A e \in Events : e.write \in Nat
    BY DEF Events
  <1>b. k \in Keys /\ sanitize(k) = k
    BY <1>1, WatchAssumption DEF Spelled
  <1>c. stored(d) = store[k] /\ stored(d)' = store'[k]
    BY <1>1, <1>b DEF stored
  <1>3. ASSUME store'[k] = store[k], d \in Range(bus), Out(k) => Out(k)',
               store[k] \in missed[s] => store[k] \in missed'[s]
        PROVE  stored(d)' \in missed'[s]
    <2>1. Older(d) /\ ~Out(k)
      BY <1>1, <1>3, <1>c DEF Older
    <2>2. QED BY <1>1, <1>3, <1>c, <2>1 DEF OldOnBus
  <1>4. CASE UNCHANGED vars
    BY <1>3, <1>4, Unmoved DEF vars
  <1>5. ASSUME NEW j \in Written, Upsert(j)
        PROVE  stored(d)' \in missed'[s]
    <2>1. PICK new : /\ tasks' = tasks \cup {new} /\ new.subject = j /\ new.write = writes + 1
                     /\ store' = [store EXCEPT ![sanitize(j)] = writes + 1]
                     /\ UNCHANGED <<bus, missed>>
      <3>1. PICK trace : tasks' = tasks \cup
                             {[id |-> trace, subject |-> j, write |-> writes + 1]}
        BY <1>5 DEF Upsert
      <3>2. WITNESS [id |-> trace, subject |-> j, write |-> writes + 1]
      <3>3. QED BY <1>5, <3>1 DEF Upsert
    <2>2. k # sanitize(j)
      <3>1. SUFFICES ASSUME k = sanitize(j) PROVE FALSE
        OBVIOUS
      <3>2. k = j /\ store'[k] = writes + 1
        BY <1>1, <1>b, <2>1, <3>1 DEF Spelled, TypeOK
      <3>3. Out(k)'
        BY <2>1, <3>2 DEF Out, Newest
      <3>4. QED BY <1>1, <3>3
    <2>3. store'[k] = store[k]
      BY <1>b, <2>1, <2>2 DEF TypeOK
    <2>4. Out(k) => Out(k)'
      BY <2>1, <2>3 DEF Out, Newest
    <2>5. QED BY <1>3, <2>1, <2>3, <2>4
  <1>6. ASSUME NEW j \in Keys, Delete(j)
        PROVE  stored(d)' \in missed'[s]
    <2>1. store' = [store EXCEPT ![j] = 0] /\ UNCHANGED <<tasks, bus, missed>>
      BY <1>6 DEF Delete
    <2>2. k \in Keys /\ store'[k] # 0
      BY <1>b, <1>c DEF Older
    <2>3. store'[k] = store[k]
      BY <2>1, <2>2 DEF TypeOK
    <2>4. QED BY <1>3, <2>1, <2>3, Unmoved
  <1>7. ASSUME NEW e \in tasks, Publish(e)
        PROVE  stored(d)' \in missed'[s]
    <2>1. UNCHANGED <<store, missed>> /\ tasks' = tasks \ {e} /\ bus' = Append(bus, e)
      BY <1>7 DEF Publish
    <2>2. Range(bus') = Range(bus) \cup {e}
      BY <1>2, <2>1, ChannelRange
    <2>3. d # e
      BY <2>1 DEF Older, OrderInv, stored
    <2>4. Out(k) => Out(k)'
      BY <2>1, <2>2 DEF Out, Newest
    <2>5. QED BY <1>3, <2>1, <2>2, <2>3, <2>4
  <1>8. ASSUME NEW e \in tasks, Lose(e)
        PROVE  stored(d)' \in missed'[s]
    <2>1. /\ UNCHANGED <<store, bus>> /\ tasks' = tasks \ {e}
          /\ missed'[s] = missed[s] \cup {e.write}
      BY <1>8 DEF Lose
    <2>2. CASE Newest(e, k)
      BY <1>c, <2>1, <2>2 DEF Newest
    <2>3. CASE ~Newest(e, k)
      <3>1. Out(k) => Out(k)'
        BY <2>1, <2>3 DEF Out, Newest
      <3>2. QED BY <1>3, <2>1, <3>1
    <2>4. QED BY <2>2, <2>3
  <1>9. CASE Handle
    <2>1. PICK e : e = Head(bus)
      OBVIOUS
    <2>2. PICK full : full = Droppers(e)
      OBVIOUS
    <2>a. PICK kept : kept = Takers(e)
      OBVIOUS
    <2>3. /\ missed' = [t \in Streams |->
                IF t \in full THEN missed[t] \cup {e.write} ELSE missed[t]]
          /\ bus # <<>> /\ bus' = Tail(bus) /\ UNCHANGED <<store, tasks>>
      <3>1. missed' = [t \in Streams |->
                IF t \in full THEN missed[t] \cup {e.write} ELSE missed[t]]
        BY <1>9, <2>1, <2>2, <2>a, HandleSteps
      <3>2. bus # <<>> /\ bus' = Tail(bus) /\ UNCHANGED <<store, tasks>>
        BY <1>9 DEF Handle
      <3>3. QED BY <3>1, <3>2
    <2>4. Range(bus) = Range(bus') \cup {e} /\ Before({e}, Range(bus'))
      BY <1>2, <2>1, <2>3, ChannelRange, OrderedTail DEF OrderInv
    <2>5. ~Newest(e, k)
      <3>1. SUFFICES ASSUME Newest(e, k) PROVE FALSE
        OBVIOUS
      <3>2. e.write < d.write /\ e.write = store[k]
        BY <1>1, <2>4, <3>1 DEF Before, Newest
      <3>3. d \in Events /\ Known(d) /\ store[k] # 0
        BY <1>2, <1>c, <2>3, <2>4 DEF OrderInv, Older
      <3>4. d.write <= store[k]
        BY <1>c, <3>3 DEF Known
      <3>5. e.write \in Nat /\ d.write \in Nat
        BY <1>2, <1>a, <2>4
      <3>6. QED BY <3>2, <3>4, <3>5
    <2>6. Out(k) => Out(k)'
      BY <2>3, <2>4, <2>5 DEF Out, Newest
    <2>7. QED BY <1>3, <2>3, <2>4, <2>6
  <1>10. CASE \/ \E t \in Streams : \/ \E r \in Requests : Connect(t, r)
                                    \/ StreamStep(t) \/ SnapshotFails(t) \/ Disconnect(t)
              \/ \E f \in flights : FlightStep(f)
    <2>1. UNCHANGED <<store, writes, tasks, bus>>
      BY <1>10, FlightsAfter
    <2>2. missed'[s] = missed[s] \/ Quiet
      <3>1. ASSUME NEW t \in Streams, NEW r \in Requests, Connect(t, r)
            PROVE  missed'[s] = missed[s] \/ Quiet
        BY <3>1 DEF Connect, TypeOK
      <3>2. ASSUME NEW gone, Leave(gone) PROVE missed' = missed
        BY <3>2 DEF Leave
      <3>3. ASSUME NEW t \in Streams, StreamStep(t) PROVE missed' = missed
        BY <3>2, <3>3 DEF StreamStep, FetchPrefix, SnapshotDone, ScanRow, SendRow, Deliver,
                          StartResolve
      <3>4. ASSUME NEW t \in Streams, SnapshotFails(t) \/ Disconnect(t) PROVE missed' = missed
        BY <3>2, <3>4 DEF SnapshotFails, Disconnect
      <3>5. ASSUME NEW f \in flights, FlightStep(f) PROVE missed' = missed
        BY <3>2, <3>5 DEF FlightStep, ResolveRead, ResolveDone, ResolveFails
      <3>6. QED BY <1>10, <3>1, <3>3, <3>4, <3>5
    <2>3. ~Quiet
      BY <2>1 DEF Quiet, Range
    <2>4. QED BY <1>3, <2>1, <2>2, <2>3, Unmoved
  <1>11. Next \/ UNCHANGED vars
    OBVIOUS
  <1>12. QED BY <1>4, <1>5, <1>6, <1>7, <1>8, <1>9, <1>10, <1>11 DEF Next

(* A row that is fetched is as the entry is.                                *)
LEMMA RowsAfter ==
    ASSUME TypeOK, InStep,
           \/ \E t \in Streams : \/ \E r \in Requests : Connect(t, r)
                                 \/ StreamStep(t) \/ SnapshotFails(t) \/ Disconnect(t)
           \/ \E f \in flights : FlightStep(f)
    PROVE  \A s \in Streams : \A row \in burst'[s] : row \in burst[s] \/ row[2] = store[row[1]]
  <1> USE DEF streamVars, nboxVars
  <1>1. ASSUME NEW gone, Leave(gone) PROVE \A s \in Streams : burst'[s] \subseteq burst[s]
    BY <1>1 DEF Leave
  <1>2. ASSUME NEW t \in Streams, NEW j \in scan[t], ScanRow(t, j)
        PROVE  \A s \in Streams : \A row \in burst'[s] : row \in burst[s] \/ row[2] = store[row[1]]
    <2>1. burst' = [burst EXCEPT ![t] = IF store[j] = 0 THEN @ ELSE @ \cup {<<j, store[j]>>}]
      BY <1>2 DEF ScanRow, InStep
    <2>2. QED BY <2>1 DEF TypeOK
  <1>3. ASSUME NEW t \in Streams, NEW row \in burst[t], SendRow(t, row)
        PROVE  \A s \in Streams : burst'[s] \subseteq burst[s]
    <2>1. CASE Leave({t})
      BY <1>1, <2>1
    <2>2. CASE ~Leave({t})
      <3>1. burst' = [burst EXCEPT ![t] = @ \ {row}]
        BY <1>3, <2>2 DEF SendRow
      <3>2. QED BY <3>1 DEF TypeOK
    <2>3. QED BY <2>1, <2>2
  <1>4. CASE \/ \E t \in Streams : \/ \E r \in Requests : Connect(t, r)
                                   \/ FetchPrefix(t) \/ SnapshotDone(t) \/ Deliver(t)
             \/ \E f \in flights : ResolveRead(f) \/ ResolveDone(f)
    BY <1>4 DEF Connect, FetchPrefix, SnapshotDone, Deliver, ResolveRead, ResolveDone
  <1>5. ASSUME NEW t \in Streams, StartResolve(t) PROVE burst' = burst
    BY <1>5 DEF StartResolve, InStep
  <1>6. CASE \/ \E t \in Streams : SnapshotFails(t) \/ Disconnect(t)
             \/ \E f \in flights : ResolveFails(f)
    BY <1>1, <1>6 DEF SnapshotFails, Disconnect, ResolveFails
  <1>7. QED BY <1>2, <1>3, <1>4, <1>5, <1>6 DEF StreamStep, FlightStep

LEMMA OldQueuedNext ==
    ASSUME TypeOK, ClosedInv, InStep, OrderInv, OldOnBus, OldQueued, [Next]_vars
    PROVE  OldQueued'
  <1> SUFFICES ASSUME NEW s \in Streams, NEW k \in Keys,
                      Due(s, k)', ~isVaultKey(k), Behind(s, k)'
               PROVE  Coming(s, k)'
    BY DEF OldQueued
  <1> USE DEF streamVars, nboxVars
  <1>1. Due(s, k) /\ Behind(s, k) => Coming(s, k)
    BY DEF OldQueued
  <1>2. buf[s] \in Seq(Events)
    BY DEF TypeOK
  <1>a. \A e : e.subject = k => stored(e) = store[k] /\ stored(e)' = store'[k]
    BY WatchAssumption DEF stored
  <1>b. Due(s, k) => Spelled(k)
    BY DEF Due
  <1>3. CASE UNCHANGED vars
    <2>1. Due(s, k) /\ Behind(s, k)
      BY <1>3 DEF vars, Due, Behind, Older, stored
    <2>2. QED BY <1>1, <1>3, <2>1, Unmoved DEF vars, Coming
  <1>4. CASE \/ \E j \in Written : Upsert(j)
             \/ \E j \in Keys : Delete(j)
             \/ \E e \in tasks : Publish(e) \/ Lose(e)
    <2>1. /\ UNCHANGED <<streamVars, buf, flights, view>>
          /\ \/ Out(k)'
             \/ Due(s, k) /\ store'[k] = store[k] /\ (Out(k) => Out(k)')
      BY <1>4, WritesKeep
    <2>2. ASSUME store'[k] = store[k] PROVE Behind(s, k)
      BY <1>a, <2>1, <2>2 DEF Behind, Older
    <2>3. QED BY <1>1, <2>1, <2>2, Unmoved DEF Coming
  <1>5. CASE Handle
    <2>1. PICK e : e = Head(bus)
      OBVIOUS
    <2>2. /\ Due(s, k) /\ UNCHANGED <<nboxVars, streamVars, flights, view>>
          /\ e \in Events /\ e \in Range(bus)
          /\ \/ buf'[s] = Append(buf[s], e)
             \/ buf'[s] = buf[s] /\ ~Newest(e, k)
          /\ Newest(e, k) \/ (Out(k) => Out(k)')
      BY <1>5, <2>1, HandleKeeps
    <2>3. /\ Range(buf[s]) \subseteq Range(buf'[s])
          /\ Range(buf'[s]) \subseteq Range(buf[s]) \cup {e}
          /\ Newest(e, k) => e \in Range(buf'[s])
      <3>1. Range(Append(buf[s], e)) = Range(buf[s]) \cup {e}
        BY <1>2, <2>2, ChannelRange
      <3>2. QED BY <2>2, <3>1
    <2>4. CASE Newest(e, k)
      BY <2>2, <2>3, <2>4 DEF Coming, Queued, Newest
    <2>5. CASE ~Newest(e, k)
      <3>1. Coming(s, k) => Coming(s, k)'
        BY <2>2, <2>3, <2>5 DEF Coming, Queued, Newest
      <3>2. Behind(s, k) \/ (e.subject = k /\ Older(e))
        BY <2>2, <2>3 DEF Behind, Older, stored
      <3>3. e.subject = k /\ Older(e) => Coming(s, k)
        BY <1>a, <1>b, <2>2 DEF OldOnBus, Due, Coming
      <3>4. QED BY <1>1, <2>2, <3>1, <3>2, <3>3
    <2>6. QED BY <2>4, <2>5
  <1>6. CASE \/ \E t \in Streams : \/ \E r \in Requests : Connect(t, r)
                                   \/ StreamStep(t) \/ SnapshotFails(t) \/ Disconnect(t)
             \/ \E f \in flights : FlightStep(f)
    <2>1. UNCHANGED <<store, writes, tasks, bus>>
      BY <1>6, FlightsAfter
    <2>2. \A row \in burst'[s] : row[1] = k /\ row[2] # store[k] => row \in burst[s]
      BY <1>6, RowsAfter
    <2>3. \/ phase[s] = "off" /\ buf'[s] = <<>>
          \/ Due(s, k) /\ phase[s] = "live" /\ buf[s] # <<>> /\ buf'[s] = Tail(buf[s])
          \/ Due(s, k) /\ buf'[s] = buf[s]
      BY <1>6, StillDue DEF Deliver, StartResolve
    <2>4. CASE phase[s] = "off" /\ buf'[s] = <<>>
      <3>1. burst[s] = {}
        BY <2>4 DEF ClosedInv, SharedInv, Waiting
      <3>2. QED BY <2>1, <2>2, <2>4, <3>1 DEF Behind, Range
    <2>5. CASE Due(s, k) /\ phase[s] = "live" /\ buf[s] # <<>> /\ buf'[s] = Tail(buf[s])
      <3>1. PICK head : head = Head(buf[s])
        OBVIOUS
      <3>2. Range(buf[s]) = Range(buf'[s]) \cup {head} /\ Range(buf[s]) \subseteq Events
        BY <1>2, <2>5, <3>1, ChannelRange
      <3>3. Behind(s, k)
        BY <2>1, <2>2, <3>2 DEF Behind, Older, stored
      <3>4. CASE Newest(head, k)
        <4>1. Before({head}, Range(buf'[s]))
          BY <1>2, <2>5, <3>1, OrderedTail DEF OrderInv
        <4>2. ASSUME NEW e \in Range(buf'[s]), e.subject = k, Older(e)' PROVE FALSE
          <5>1. e \in Events /\ Known(e) /\ store[k] # 0 /\ e.write # store[k]
            BY <1>a, <2>1, <3>2, <4>2 DEF OrderInv, Older
          <5>2. head.write < e.write /\ head.write = store[k]
            BY <3>4, <4>1, <4>2 DEF Before, Newest
          <5>3. e.write <= store[k]
            BY <1>a, <4>2, <5>1 DEF Known
          <5>4. e.write \in Nat /\ head.write \in Nat
            BY <3>2, <5>1 DEF Events
          <5>5. QED BY <5>2, <5>3, <5>4
        <4>3. PICK row \in burst[s] : TRUE
          BY <2>1, <2>2, <4>2 DEF Behind
        <4>4. phase[s] = "snapshot"
          BY <4>3 DEF ClosedInv, SharedInv, Waiting
        <4>5. QED BY <2>5, <4>4
      <3>5. CASE ~Newest(head, k)
        <4>1. Queued(s, k) => Queued(s, k)'
          BY <2>1, <3>2, <3>5 DEF Queued, Newest
        <4>2. QED BY <1>1, <2>1, <2>5, <3>3, <4>1, Unmoved DEF Coming
      <3>6. QED BY <3>4, <3>5
    <2>6. CASE Due(s, k) /\ buf'[s] = buf[s]
      <3>1. Behind(s, k)
        BY <2>1, <2>2, <2>6 DEF Behind, Older, stored
      <3>2. QED BY <1>1, <2>1, <2>6, <3>1, Unmoved DEF Coming
    <2>7. QED BY <2>3, <2>4, <2>5, <2>6
  <1>7. Next \/ UNCHANGED vars
    OBVIOUS
  <1>8. QED BY <1>3, <1>4, <1>5, <1>6, <1>7 DEF Next

LEMMA PlainPlacedNext ==
    ASSUME TypeOK, ClosedInv, InStep, OldQueued, PlainPlaced, [Next]_vars
    PROVE  PlainPlaced'
  <1> SUFFICES ASSUME NEW s \in Streams, NEW k \in Keys, Due(s, k)', ~isVaultKey(k)
               PROVE  Placed(s, k)'
    BY DEF PlainPlaced
  <1> USE DEF streamVars, nboxVars
  <1>1. Due(s, k) => Placed(s, k)
    BY DEF PlainPlaced
  <1>2. sanitize(k) = k
    BY WatchAssumption
  <1>3. CASE UNCHANGED vars
    <2>1. Due(s, k)
      BY <1>3 DEF vars, Due
    <2>2. QED BY <1>1, <1>3, <2>1, Unmoved DEF vars, Placed, Coming
  <1>4. CASE \/ \E j \in Written : Upsert(j)
             \/ \E j \in Keys : Delete(j)
             \/ \E e \in tasks : Publish(e) \/ Lose(e)
             \/ Handle
    BY <1>1, <1>4, NboxPlaced
  <1>5. CASE \/ \E t \in Streams : \/ \E r \in Requests : Connect(t, r)
                                   \/ StreamStep(t) \/ SnapshotFails(t) \/ Disconnect(t)
             \/ \E f \in flights : FlightStep(f)
    <2>1. phase[s] = "off" \/ Due(s, k)
      BY <1>5, StillDue
    <2>2. ASSUME phase[s] # "off" PROVE Behind(s, k) => Coming(s, k)
      BY <2>1, <2>2 DEF OldQueued
    <2>3. CASE ~Shows(s, k)
      BY <1>1, <1>5, <2>3, StreamPlaced
    <2>4. ASSUME NEW row \in burst[s], row[1] = k, SendRow(s, row), phase' = phase
          PROVE  Placed(s, k)'
      <3>1. phase[s] # "off" /\ ~needsResolve(s, [subject |-> k])
        BY <2>4 DEF Due, needsResolve
      <3>2. /\ view' = [view EXCEPT ![s][k] = plain(k, row[2])]
            /\ UNCHANGED <<nboxVars, bus, buf>>
        BY <2>4, <3>1 DEF SendRow
      <3>3. view'[s][k] = row[2]
        BY <1>2, <3>2 DEF plain, TypeOK, Subjects
      <3>4. row[2] # store[k] => Coming(s, k)
        BY <2>2, <2>4, <3>1 DEF Behind
      <3>5. QED BY <3>2, <3>3, <3>4, Unmoved DEF Placed, Coming
    <2>5. ASSUME Deliver(s), Head(buf[s]).subject = k
          PROVE  Placed(s, k)'
      <3>1. PICK head : head = Head(buf[s])
        OBVIOUS
      <3>2. /\ view' = [view EXCEPT ![s][k] = plain(k, head.write)]
            /\ buf' = [buf EXCEPT ![s] = Tail(@)] /\ buf[s] # <<>> /\ phase[s] = "live"
            /\ UNCHANGED <<nboxVars, bus>>
        BY <2>5, <3>1 DEF Deliver
      <3>3. view'[s][k] = head.write
        BY <1>2, <3>2 DEF plain, TypeOK, Subjects
      <3>4. Range(buf[s]) = Range(buf'[s]) \cup {head}
        BY <3>1, <3>2, ChannelRange DEF TypeOK
      <3>5. CASE head.write = store[k]
        BY <3>2, <3>3, <3>5 DEF Placed
      <3>6. CASE head.write # store[k]
        <4>1. Behind(s, k) /\ ~Newest(head, k)
          BY <1>2, <2>1, <2>5, <3>1, <3>2, <3>4, <3>6 DEF Behind, Older, Newest, Due, stored
        <4>2. Coming(s, k)
          BY <2>2, <3>2, <4>1
        <4>3. Queued(s, k) => Queued(s, k)'
          BY <3>2, <3>4, <4>1 DEF Queued, Newest
        <4>4. QED BY <3>2, <4>2, <4>3, Unmoved DEF Placed, Coming
      <3>7. QED BY <3>5, <3>6
    <2>6. ASSUME NEW f \in flights, s \in waiters(f), f.subject = k PROVE FALSE
      BY <2>6 DEF waiters, flightKey, ClosedInv, Closed
    <2>7. QED BY <2>3, <2>4, <2>5, <2>6 DEF Shows
  <1>6. Next \/ UNCHANGED vars
    OBVIOUS
  <1>7. QED BY <1>3, <1>4, <1>5, <1>6 DEF Next

(***************************************************************************)
(* Agents converge on plain entries (stream_server.go:182-185): when a     *)
(* key's writers wait for its earlier event to be out, keys are written as *)
(* they are stored and the snapshot is not behind, an agent that asks for  *)
(* a prefix which also gives it the key's deltas ends up with its value;   *)
(* whatever is lost, dropped or fails, whatever the other agents ask for,  *)
(* and wherever in the snapshot the writes fall.                           *)
(***************************************************************************)
PlainStreamConverges(s) ==
    \A k \in Followed(s) :
        /\ Asks(s, k) /\ Spelled(k)
        /\ Settled(s, k) /\ store[k] # 0 /\ ~isVaultKey(k)
        => view[s][k] = store[k]

PlainStreamsConverge == \A s \in Streams : PlainStreamConverges(s)

\* Stated stream by stream and key by key: what other agents ask for and how
\* other keys are spelled does not matter.
THEOREM WatchPlainStreamsConverge ==
    Spaced /\ InStep => (Spec => []PlainStreamsConverge)
  <1> SUFFICES ASSUME Spaced, InStep PROVE Spec => []PlainStreamsConverge
    OBVIOUS
  <1> DEFINE PlainInv == ClosedInv /\ OrderInv /\ OldOnBus /\ OldQueued /\ PlainPlaced
  <1>1. Init => PlainInv
    <2> SUFFICES ASSUME Init PROVE PlainInv
      OBVIOUS
    <2>1. ClosedInv
      BY ClosedInit
    <2>2. OldOnBus /\ OldQueued /\ PlainPlaced
      BY DEF Init, OldOnBus, OldQueued, PlainPlaced, Due, Range
    <2>3. OrderInv
      BY DEF Init, OrderInv, Ordered, Before, Range
    <2>4. QED BY <2>1, <2>2, <2>3
  <1>2. TypeOK /\ PlainInv /\ [Next]_vars => PlainInv'
    <2> SUFFICES ASSUME TypeOK, PlainInv, [Next]_vars PROVE PlainInv'
      OBVIOUS
    <2>1. ClosedInv' /\ OrderInv' /\ OldOnBus'
      BY ClosedNext, OrderNext, OldOnBusNext DEF InStep
    <2>2. OldQueued' /\ PlainPlaced'
      BY OldQueuedNext, PlainPlacedNext
    <2>3. QED BY <2>1, <2>2
  <1>3. PlainInv => PlainStreamsConverge
    BY SettledShown
       DEF PlainStreamsConverge, PlainStreamConverges, PlainPlaced, Followed, Scope, Leaves
  <1>4. Spec => []TypeOK
    BY WatchTypeCorrect
  <1>5. QED BY <1>1, <1>2, <1>3, <1>4, PTL DEF Spec

(* When all requests are such, PlainKeysConverge: each agent has the value  *)
(* of each plain entry it follows (stream_server.go:182-185).               *)
THEOREM WatchPlainKeysConverge ==
    Spaced /\ InStep /\ AsStored /\ PrefixesMatch => (Spec => []PlainKeysConverge)
  <1> SUFFICES ASSUME Spaced, InStep, AsStored, PrefixesMatch PROVE Spec => []PlainKeysConverge
    OBVIOUS
  <1>1. TypeOK /\ PlainStreamsConverge => PlainKeysConverge
    BY FollowedAsks DEF PlainStreamsConverge, PlainStreamConverges, PlainKeysConverge
  <1>2. Spec => []TypeOK /\ []PlainStreamsConverge
    BY WatchTypeCorrect, WatchPlainStreamsConverge
  <1>3. QED BY <1>1, <1>2, PTL
=============================================================================
