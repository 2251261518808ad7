------------------------------- MODULE Watch -------------------------------
(***************************************************************************)
(* The push pipeline, from a write in nbox to what an agent holds:         *)
(*                                                                         *)
(*   Recorder.Upsert --goroutine--> Publisher --NATS--> Broadcast.Handle   *)
(*     --> Broker.Publish --channel--> StreamServer.Watch --gRPC--> agent  *)
(*                                                                         *)
(* and back: Watch reads the current state from nbox when an agent         *)
(* connects (Snapshot) and the plaintext of a vault key when it delivers   *)
(* it (Resolve, shared between streams by singleflight).                   *)
(*                                                                         *)
(* A key is a sequence of characters, because the broker filters with a    *)
(* raw strings.HasPrefix and the snapshot on a segment boundary.  A value  *)
(* is the number of the write that stored it; 0 means there is none.       *)
(***************************************************************************)
EXTENDS Naturals, Sequences, SequencesExt

CONSTANTS
    Streams,      \* Watch calls that may be open together
    Written,      \* the keys writers use, as they spell them
    Lower,        \* strings.ToLower, on characters
    VaultPrefix,  \* "passbox/"
    Requests,     \* what agents ask for: [prefixes, types, pub]
    Buffer,       \* subscriberBuffer
    HasClient,    \* ENTRYPUSHD_NBOX_URL is set: there is a Snapshotter
    MaxWrites,    \* bound: writes in a behaviour
    \* What the environment may do:
    Spaced,       \* writers of a key wait for its earlier event to be out
    Deletes,      \* entries are deleted too
    TraceReuse,   \* writes may share a trace id
    Lossy,        \* events are lost between nbox and entrypushd
    StaleScan,    \* the snapshot's eventually consistent Scan lags
    Drops         \* nbox requests fail and agents disconnect

VARIABLES
    store,     \* nbox: the entries, sanitized key -> write number
    prior,     \* nbox: what a lagging replica may still hold for each key
    writes,    \* nbox: number of the last write
    tasks,     \* nbox: events of the Recorder's goroutines, not yet out
    bus,       \* NATS: published events, in order
    phase,     \* stream: off, snapshot, live or resolving
    request,   \* stream: its WatchRequest and whether it has a public key
    todo,      \* stream: prefixes whose snapshot is still to be fetched
    scan,      \* stream: keys the current Scan has yet to read
    burst,     \* stream: fetched rows still to be sent, <<key, write>>
    buf,       \* stream: its subscription channel
    delta,     \* stream: the events it is resolving, {} or a singleton
    flights,   \* singleflight: resolves in progress
    view,      \* agent: what the stream has told it, by subject
    missed     \* history, stream: writes whose event did not reach it

nboxVars   == <<store, prior, writes, tasks>>
streamVars == <<phase, request, todo, scan, burst, delta>>
vars == <<nboxVars, bus, streamVars, buf, flights, view, missed>>

-----------------------------------------------------------------------------
(* Keys.                                                                   *)

Paths == Seq(DOMAIN Lower)

Trim(s) ==
    LET body == {i \in DOMAIN s : s[i] # "/"}
    IN  IF body = {} THEN <<>> ELSE SubSeq(s, Min(body), Max(body))

\* DynamoDB.sanitize: the key under which the store keeps an entry.
sanitize(k) == Trim([i \in DOMAIN k |-> Lower[k[i]]])

Keys == {sanitize(k) : k \in Written}
Subjects == Keys \cup Written

isVaultKey(k) == IsPrefix(VaultPrefix, k)

\* DynamoDB.List with leaves: the entries strictly below a prefix, on a segment
\* boundary; for an empty prefix it is listLevel, the entries without a folder.
Leaves(p) ==
    {k \in Keys : IF Trim(p) = <<>> THEN "/" \notin Range(k)
                                    ELSE IsPrefix(Append(Trim(p), "/"), k)}
Scope(r) == UNION {Leaves(r.prefixes[i]) : i \in DOMAIN r.prefixes}

-----------------------------------------------------------------------------
(* Events.  All of them have the type nbox.entry.upserted: the Recorder    *)
(* publishes no other.  The subject is the key as the writer spelled it;   *)
(* the id is the trace id of the request that wrote.                       *)

EntryUpserted == <<"nbox", "entry", "upserted">>
Events == [id : 1..MaxWrites, subject : Subjects, write : 1..MaxWrites]

\* The value of a secure entry is masked in its event, and the index row a
\* Scan reads holds the address of its parameter: neither tells the value.
Opaque == MaxWrites + 1
plain(k, w) == IF isVaultKey(sanitize(k)) THEN Opaque ELSE w

matchesPrefix(subject, prefixes) ==
    prefixes = <<>> \/ \E i \in DOMAIN prefixes : IsPrefix(prefixes[i], subject)

matchesType(type, patterns) ==
    patterns = {} \/ \E p \in patterns :
        IF p.star THEN IsPrefix(p.text, type) ELSE p.text = type

matchesFilter(e, r) ==
    matchesPrefix(e.subject, r.prefixes) /\ matchesType(EntryUpserted, r.types)

needsResolve(s, e) == request[s].pub /\ isVaultKey(e.subject)

-----------------------------------------------------------------------------
NoRequest == [prefixes |-> <<>>, types |-> {}, pub |-> FALSE]

ASSUME WatchAssumption ==
    /\ Written \subseteq Paths
    /\ \A k \in Keys : sanitize(k) = k
    /\ \A r \in Requests \cup {NoRequest} :
          r.prefixes \in Seq(Paths) /\ r.pub \in BOOLEAN
    /\ Buffer \in Nat \ {0}
    /\ MaxWrites \in Nat \ {0}
    /\ {HasClient, Spaced, Deletes, TraceReuse, Lossy, StaleScan, Drops} \subseteq BOOLEAN

Init ==
    /\ store = [k \in Keys |-> 0]
    /\ prior = [k \in Keys |-> 0]
    /\ writes = 0
    /\ tasks = {}
    /\ bus = <<>>
    /\ phase = [s \in Streams |-> "off"]
    /\ request = [s \in Streams |-> NoRequest]
    /\ todo = [s \in Streams |-> <<>>]
    /\ scan = [s \in Streams |-> {}]
    /\ burst = [s \in Streams |-> {}]
    /\ buf = [s \in Streams |-> <<>>]
    /\ delta = [s \in Streams |-> {}]
    /\ flights = {}
    /\ view = [s \in Streams |-> [k \in Subjects |-> 0]]
    /\ missed = [s \in Streams |-> {}]

-----------------------------------------------------------------------------
(* nbox.                                                                   *)

(* Recorder.Upsert: the base store has the entry when the goroutine that   *)
(* publishes its event starts.                                             *)
Upsert(k) ==
    LET n == writes + 1
        key == sanitize(k)
    IN  /\ writes < MaxWrites
        /\ Spaced => \A e \in tasks : sanitize(e.subject) # key
        /\ writes' = n
        /\ store' = [store EXCEPT ![key] = n]
        /\ prior' = [prior EXCEPT ![key] = store[key]]
        /\ \E trace \in IF TraceReuse THEN 1..n ELSE {n} :
             tasks' = tasks \cup {[id |-> trace, subject |-> k, write |-> n]}
        /\ UNCHANGED <<bus, streamVars, buf, flights, view, missed>>

(* Recorder.Delete: nothing is published.                                  *)
Delete(k) ==
    /\ Deletes /\ store[k] # 0
    /\ store' = [store EXCEPT ![k] = 0]
    /\ prior' = [prior EXCEPT ![k] = store[k]]
    /\ UNCHANGED <<writes, tasks, bus, streamVars, buf, flights, view, missed>>

(* Publisher.Publish, in a goroutine of its own for each Upsert.           *)
Publish(e) ==
    /\ e \in tasks
    /\ tasks' = tasks \ {e}
    /\ bus' = Append(bus, e)
    /\ UNCHANGED <<store, prior, writes, streamVars, buf, flights, view, missed>>

(* The goroutine's 5 s ran out, the retries did, or NATS had nobody to     *)
(* give the message to.                                                    *)
Lose(e) ==
    /\ Lossy /\ e \in tasks
    /\ tasks' = tasks \ {e}
    /\ missed' = [s \in Streams |-> missed[s] \cup {e.write}]
    /\ UNCHANGED <<store, prior, writes, bus, streamVars, buf, flights, view>>

-----------------------------------------------------------------------------
(* entrypushd: the broker.  A stream is subscribed from its first          *)
(* statement to its last.                                                  *)
\* Mutant: subscribe after the snapshot.
SubscribeLate(s) == phase[s] \in {"live", "resolving"}

Subscribed(s) == phase[s] # "off"

accepts(s, e) == Subscribed(s) /\ matchesFilter(e, request[s])

\* Mutant: one more than the channel holds.
OneTooMany(s) == Len(buf[s]) <= Buffer

hasRoom(s) == Len(buf[s]) < Buffer

(* Broadcast.Handle and Broker.Publish: drop if full.                      *)
Handle ==
    /\ bus # <<>>
    /\ bus' = Tail(bus)
    /\ LET e == Head(bus)
           kept == {s \in Streams : accepts(s, e) /\ hasRoom(s)}
           full == {s \in Streams : accepts(s, e)} \ kept
       IN  /\ buf' = [s \in Streams |->
                        IF s \in kept THEN Append(buf[s], e) ELSE buf[s]]
           /\ missed' = [s \in Streams |->
                 IF s \in full THEN missed[s] \cup {e.write} ELSE missed[s]]
    /\ UNCHANGED <<nboxVars, streamVars, flights, view>>

-----------------------------------------------------------------------------
(* entrypushd: a Watch call.                                               *)

\* No event is on its way: a snapshot taken now makes up for missed ones.
\* Otherwise an older event may still undo what the snapshot says.
Quiet == tasks = {} /\ bus = <<>>

Connect(s, r) ==
    /\ phase[s] = "off"
    /\ phase' = [phase EXCEPT ![s] = IF HasClient /\ r.prefixes # <<>>
                                     THEN "snapshot" ELSE "live"]
    /\ request' = [request EXCEPT ![s] = r]
    /\ todo' = [todo EXCEPT ![s] = IF HasClient THEN r.prefixes ELSE <<>>]
    /\ view' = [view EXCEPT ![s] = [k \in Subjects |-> 0]]
    /\ missed' = [missed EXCEPT ![s] = IF Quiet THEN {} ELSE @]
    /\ UNCHANGED <<nboxVars, bus, scan, burst, buf, delta, flights>>

\* The calls in gone have returned.
Leave(gone) ==
    /\ phase' = [s \in Streams |-> IF s \in gone THEN "off" ELSE phase[s]]
    /\ request' = [s \in Streams |-> IF s \in gone THEN NoRequest ELSE request[s]]
    /\ todo' = [s \in Streams |-> IF s \in gone THEN <<>> ELSE todo[s]]
    /\ scan' = [s \in Streams |-> IF s \in gone THEN {} ELSE scan[s]]
    /\ burst' = [s \in Streams |-> IF s \in gone THEN {} ELSE burst[s]]
    /\ buf' = [s \in Streams |-> IF s \in gone THEN <<>> ELSE buf[s]]
    /\ delta' = [s \in Streams |-> IF s \in gone THEN {} ELSE delta[s]]
    /\ UNCHANGED <<nboxVars, bus, view, missed>>

(* sendSnapshot: the request for the next prefix, its Scan row by row, and *)
(* then one message per row.                                               *)
FetchPrefix(s) ==
    /\ phase[s] = "snapshot" /\ scan[s] = {} /\ burst[s] = {}
    /\ todo[s] # <<>>
    /\ scan' = [scan EXCEPT ![s] = Leaves(Head(todo[s]))]
    /\ todo' = [todo EXCEPT ![s] = Tail(@)]
    /\ UNCHANGED <<nboxVars, bus, phase, request, burst, buf, delta, flights,
                   view, missed>>

ScanRow(s, k) ==
    /\ k \in scan[s]
    /\ scan' = [scan EXCEPT ![s] = @ \ {k}]
    /\ \E w \in {store[k]} \cup (IF StaleScan THEN {prior[k]} ELSE {}) :
         burst' = [burst EXCEPT ![s] = IF w = 0 THEN @ ELSE @ \cup {<<k, w>>}]
    /\ UNCHANGED <<nboxVars, bus, phase, request, todo, buf, delta, flights,
                   view, missed>>

(* sealFor reads the value of a vault key again when it sends it; an entry *)
(* deleted in between ends the call.                                       *)
SendRow(s, row) ==
    LET k == row[1]
        sealed == needsResolve(s, [subject |-> k])
    IN  /\ scan[s] = {} /\ row \in burst[s]
        /\ \/ /\ sealed => store[k] # 0
              /\ burst' = [burst EXCEPT ![s] = @ \ {row}]
              /\ view' = [view EXCEPT ![s][k] = IF sealed THEN store[k]
                                                ELSE plain(k, row[2])]
              /\ UNCHANGED <<nboxVars, bus, phase, request, todo, scan, buf,
                             delta, flights, missed>>
           \/ /\ sealed /\ store[k] = 0
              /\ Leave({s})
              /\ UNCHANGED flights

SnapshotDone(s) ==
    /\ phase[s] = "snapshot" /\ todo[s] = <<>> /\ scan[s] = {} /\ burst[s] = {}
    /\ phase' = [phase EXCEPT ![s] = "live"]
    /\ UNCHANGED <<nboxVars, bus, request, todo, scan, burst, buf, delta,
                   flights, view, missed>>

(* A fetch or a resolve of the snapshot fails: fail closed.                *)
SnapshotFails(s) ==
    /\ Drops /\ phase[s] = "snapshot"
    /\ Leave({s})
    /\ UNCHANGED flights

(* The live loop takes an event that needs no plaintext.                   *)
Deliver(s) ==
    /\ phase[s] = "live" /\ buf[s] # <<>>
    /\ LET e == Head(buf[s])
       IN  /\ ~needsResolve(s, e)
           /\ view' = [view EXCEPT ![s][e.subject] = plain(e.subject, e.write)]
    /\ buf' = [buf EXCEPT ![s] = Tail(@)]
    /\ UNCHANGED <<nboxVars, bus, streamVars, flights, missed>>

-----------------------------------------------------------------------------
(* resolveOnce.  A flight is [id, subject, leader, value]; value 0: nbox   *)
(* has not read the entry yet.                                             *)

\* Mutant: resolves are shared by subject alone.
flightKeySubject(e) == <<e.subject>>

flightKey(e) == <<e.id, e.subject>>

(* The live loop takes an event it must resolve: it joins the flight of    *)
(* that event or starts it.  Without a Snapshotter the call dereferences   *)
(* nil and entrypushd dies with all its streams.                           *)
StartResolve(s) ==
    /\ phase[s] = "live" /\ buf[s] # <<>>
    /\ needsResolve(s, Head(buf[s]))
    /\ LET e == Head(buf[s])
           joins == \E f \in flights : flightKey(f) = flightKey(e)
       IN  IF HasClient
           THEN /\ delta' = [delta EXCEPT ![s] = {e}]
                /\ flights' = IF joins THEN flights
                              ELSE flights \cup {[id |-> e.id, subject |-> e.subject,
                                                  leader |-> s, value |-> 0]}
                /\ phase' = [phase EXCEPT ![s] = "resolving"]
                /\ buf' = [buf EXCEPT ![s] = Tail(@)]
                /\ UNCHANGED <<nboxVars, bus, request, todo, scan, burst, view, missed>>
           ELSE Leave(Streams) /\ UNCHANGED flights

\* Mutant: any resolve ends every wait.
waitersAll(f) == {s \in Streams : delta[s] # {}}

\* The streams whose Do call waits for flight f.
waiters(f) == {s \in Streams : \E e \in delta[s] : flightKey(e) = flightKey(f)}

(* nbox serves the request; the key is looked up as it is spelled.         *)
ResolveRead(f) ==
    /\ f.value = 0 /\ f.subject \in Keys /\ store[f.subject] # 0
    /\ flights' = (flights \ {f}) \cup {[f EXCEPT !.value = store[f.subject]]}
    /\ UNCHANGED <<nboxVars, bus, streamVars, buf, view, missed>>

(* The answer arrives: every waiter seals it to its agent and goes on.  A  *)
(* woken waiter does nothing else first, so they go together.              *)
ResolveDone(f) ==
    /\ f.value # 0
    /\ flights' = flights \ {f}
    /\ view' = [s \in Streams |->
                  IF s \in waiters(f)
                  THEN [view[s] EXCEPT ![f.subject] = f.value] ELSE view[s]]
    /\ phase' = [s \in Streams |-> IF s \in waiters(f) THEN "live" ELSE phase[s]]
    /\ delta' = [s \in Streams |-> IF s \in waiters(f) THEN {} ELSE delta[s]]
    /\ UNCHANGED <<nboxVars, bus, request, todo, scan, burst, buf, missed>>

(* The request fails or the entry is not there: every waiter gets the      *)
(* error and ends its call.                                                *)
ResolveFails(f) ==
    /\ \/ Drops
       \/ f.value = 0 /\ (f.subject \notin Keys \/ store[f.subject] = 0)
    /\ flights' = flights \ {f}
    /\ Leave(waiters(f))

\* Mutant: the flight is dropped and its other waiters are not told.
DisconnectAlone(s) ==
    /\ Drops /\ phase[s] # "off"
    /\ flights' = {f \in flights : f.leader # s}
    /\ Leave({s})

(* The agent goes away.  The request of a flight runs in its leader's      *)
(* context, so it fails for all who wait for it.                           *)
Disconnect(s) ==
    LET led == {f \in flights : f.leader = s}
    IN  /\ Drops /\ phase[s] # "off"
        /\ flights' = flights \ led
        /\ Leave({s} \cup UNION {waiters(f) : f \in led})

-----------------------------------------------------------------------------
StreamStep(s) ==
    \/ FetchPrefix(s) \/ SnapshotDone(s)
    \/ \E k \in scan[s] : ScanRow(s, k)
    \/ \E row \in burst[s] : SendRow(s, row)
    \/ Deliver(s) \/ StartResolve(s)

FlightStep(f) == ResolveRead(f) \/ ResolveDone(f) \/ ResolveFails(f)

Next ==
    \/ \E k \in Written : Upsert(k)
    \/ \E k \in Keys : Delete(k)
    \/ \E e \in tasks : Publish(e) \/ Lose(e)
    \/ Handle
    \/ \E s \in Streams :
         \/ \E r \in Requests : Connect(s, r)
         \/ StreamStep(s) \/ SnapshotFails(s) \/ Disconnect(s)
    \/ \E f \in flights : FlightStep(f)

(***************************************************************************)
(* Goroutines keep running; the Recorder's have 5 s, and nbox requests 10,  *)
(* so every event is published or lost and every resolve ends.             *)
(***************************************************************************)
Fairness ==
    /\ WF_vars(\E e \in tasks : Publish(e) \/ Lose(e))
    /\ WF_vars(Handle)
    /\ \A s \in Streams :
         /\ WF_vars(StreamStep(s))
         /\ WF_vars(\E f \in flights : s \in waiters(f) /\ FlightStep(f))

Spec == Init /\ [][Next]_vars /\ Fairness

-----------------------------------------------------------------------------
(* Every variable holds a value of its kind; in particular the channel of  *)
(* a subscription never holds more than its capacity (broker.go:57).       *)
TypeOK ==
    /\ store \in [Keys -> 0..MaxWrites]
    /\ prior \in [Keys -> 0..MaxWrites]
    /\ writes \in 0..MaxWrites
    /\ tasks \subseteq Events
    /\ bus \in Seq(Events)
    /\ phase \in [Streams -> {"off", "snapshot", "live", "resolving"}]
    /\ request \in [Streams -> Requests \cup {NoRequest}]
    /\ todo \in [Streams -> Seq(Paths)]
    /\ scan \in [Streams -> SUBSET Keys]
    /\ burst \in [Streams -> SUBSET (Keys \X (1..MaxWrites))]
    /\ buf \in [Streams -> Seq(Events)] /\ \A s \in Streams : Len(buf[s]) <= Buffer
    /\ delta \in [Streams -> SUBSET Events]
    /\ flights \subseteq [id : 1..MaxWrites, subject : Subjects,
                          leader : Streams, value : 0..MaxWrites]
    /\ view \in [Streams -> [Subjects -> 0..(MaxWrites + 1)]]
    /\ missed \in [Streams -> SUBSET (1..MaxWrites)]

-----------------------------------------------------------------------------
about(e, k) == sanitize(e.subject) = k

\* No event about k is on its way to stream s.
Settled(s, k) ==
    /\ phase[s] = "live"
    /\ ~ \E e \in tasks : about(e, k)
    /\ ~ \E i \in DOMAIN bus : about(bus[i], k)
    /\ ~ \E i \in DOMAIN buf[s] : about(buf[s][i], k)

\* Keys stream s was given a snapshot of and the event of their last write.
Followed(s) ==
    {k \in Scope(request[s]) : /\ HasClient
                               /\ matchesType(EntryUpserted, request[s].types)
                               /\ store[k] \notin missed[s]}

(***************************************************************************)
(* Agents converge on plain entries (stream_server.go:182-185): once no    *)
(* event about a stored entry is on its way, and the event of its last     *)
(* write was not dropped, the agent holds the value that is stored.        *)
(***************************************************************************)
PlainKeysConverge ==
    \A s \in Streams : \A k \in Followed(s) :
        Settled(s, k) /\ store[k] # 0 /\ ~isVaultKey(k) => view[s][k] = store[k]

(***************************************************************************)
(* Agents with a public key converge on vault entries, whose value is read *)
(* when it is delivered and not when it is written (stream_server.go:126): *)
(* in whatever order the events of several writes arrive.                  *)
(***************************************************************************)
VaultKeysConverge ==
    \A s \in Streams : \A k \in Followed(s) :
        Settled(s, k) /\ store[k] # 0 /\ isVaultKey(k) /\ request[s].pub =>
            view[s][k] = store[k]

(***************************************************************************)
(* A vault delta is never older than the event that announced it           *)
(* (stream_server.go, resolveOnce: "A new event id resolves fresh"), even  *)
(* when the stream joins a resolve that another stream had started.        *)
(***************************************************************************)
VaultDeltaFresh ==
    [][\A s \in Streams : phase[s] = "resolving" /\ phase'[s] = "live" =>
          \A e \in delta[s] : view'[s][e.subject] >= e.write]_vars

(***************************************************************************)
(* One stream's failure is its own: a step ends two calls only if both     *)
(* were waiting for the plaintext of the same event.                       *)
(***************************************************************************)
FailuresContained ==
    [][\A s, t \in Streams :
          s # t /\ Subscribed(s) /\ Subscribed(t)
                /\ ~Subscribed(s)' /\ ~Subscribed(t)' =>
             \E d \in delta[s], e \in delta[t] : flightKey(d) = flightKey(e)]_vars

(***************************************************************************)
(* A buffered event is delivered or the call ends: no stream is left       *)
(* waiting in its snapshot, or for a resolve nobody is running any more.   *)
(***************************************************************************)
DeltasDrain ==
    \A s \in Streams : \A n \in 1..MaxWrites :
        (\E i \in DOMAIN buf[s] : buf[s][i].write = n) ~>
            ~(\E i \in DOMAIN buf[s] : buf[s][i].write = n) /\ phase[s] # "resolving"
=============================================================================
