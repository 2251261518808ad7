----------------------------- MODULE EntryIndex -----------------------------
(***************************************************************************)
(* The entry index: the DynamoDB table that holds every entry of nbox as   *)
(* a tree, and the store in front of it (internal/entry/store/dynamodb.go) *)
(* with its batch writer (internal/platform/aws/dynamodb_kit.go).          *)
(*                                                                         *)
(* A row is [path, name, dir]: partition key Path, sort key Key, and       *)
(* whether Key ends in "/", which makes the row the marker of a folder.    *)
(* A key is the sequence of its segments; the empty sequence is the root   *)
(* (EmptyPath).  A segment is a sequence of letters, because the batch     *)
(* builder of Upsert concatenates a path and a name without a separator.   *)
(*                                                                         *)
(* Upsert writes one row per entry and one marker per ancestor folder;     *)
(* Delete walks the markers down from its target.  Neither is atomic: each *)
(* is a series of BatchWriteItem and Query requests of a goroutine that    *)
(* runs concurrently with the others.  Values are left out: no property    *)
(* here depends on what a row holds.                                       *)
(***************************************************************************)
EXTENDS Naturals, Sequences, FiniteSets

CONSTANTS
    Calls,       \* calls of Upsert or Delete that may be in flight together
    Segments,    \* path segments, non-empty sequences of letters
    Lower,       \* strings.ToLower, on segments
    Batches,     \* entry lists given to Upsert: sequences of keys
    Targets,     \* what Delete is given: [key, slash], slash: trailing "/"
    ChunkSize,   \* DynamodbBatchWriteSize: requests per BatchWriteItem
    \* What the environment may do:
    Failing,     \* phases in which requests fail and processes die
    StaleReads,  \* the eventually consistent Query of Delete lags
    Overlap,     \* an Upsert and a Delete may be in flight together
    Paged        \* a Query may take more than one page

Keys == Seq(Segments)
Items == [path : Keys, name : Segments \cup {<<".">>}, dir : BOOLEAN]

ASSUME IndexAssumption ==
    /\ \A s \in Segments : s # <<>>
    /\ Lower \in [Segments -> Segments]
    /\ \A b \in Batches : b \in Seq(Keys \ {<<>>})
    /\ Targets \subseteq [key : Keys, slash : BOOLEAN]
    /\ ChunkSize \in Nat \ {0}
    /\ Failing \subseteq {"put", "root", "page", "level"}
    /\ {StaleReads, Overlap, Paged} \subseteq BOOLEAN

VARIABLES
    table,        \* the rows, as a consistent read sees them
    replica,      \* the rows, as an eventually consistent read may see them
    phase,        \* where each call is
    keys,         \* Upsert: the sanitized keys of its entries
    target,       \* Delete: its argument
    requests,     \* BatchWrite: requests of the chunks not yet started
    unprocessed,  \* BatchWrite: requests of the current chunk still to do
    failed,       \* BatchWrite: requests given up on (totalFailed)
    frontier,     \* Delete: folders still to visit (queue), the current one too
    current,      \* Delete: the folder being queried, {} or a singleton
    unread,       \* Delete: sort keys of that folder past the paginator's cursor
    written,      \* history, Upsert: rows this call has put
    disturbed     \* history, Upsert: a Delete removed a row meanwhile

batchVars == <<requests, unprocessed, failed>>
walkVars  == <<frontier, current, unread>>
vars == <<table, replica, phase, keys, target, batchVars, walkVars,
          written, disturbed>>

-----------------------------------------------------------------------------
(* Keys and rows: internal/entry/processor.go.                             *)

sanitize(k) == [i \in DOMAIN k |-> Lower[k[i]]]

PathWithoutKey(k) == SubSeq(k, 1, Len(k) - 1)
BaseKey(k) == k[Len(k)]
Prefixes(k) == {SubSeq(k, 1, i) : i \in 1..(Len(k) - 1)}
Concat(path, name) == Append(path, name)

Row(k, isDir) ==
    [path |-> PathWithoutKey(k), name |-> BaseKey(k), dir |-> isDir]
Leaf(k) == Row(k, FALSE)
Markers(k) == {Row(p, TRUE) : p \in Prefixes(k)}

KeyOf(row) == Concat(row.path, row.name)

\* k is p or below it, on a segment boundary.
Under(k, p) == Len(p) <= Len(k) /\ \A i \in 1..Len(p) : k[i] = p[i]

(***************************************************************************)
(* The reads.  listLevel is one Query by Path, the folder view of the UI;  *)
(* listLeaves is one Scan of the table that filters the rows strictly      *)
(* under a prefix and drops the markers.                                   *)
(***************************************************************************)
Retrieve(k) == k # <<>> /\ Leaf(k) \in table
listLevel(p) == {r \in table : r.path = p}
listLeaves(p) == {r \in table : ~r.dir /\ Under(r.path, p)}

\* Browsing level by level from the root, a user can get to key k.
Navigable(k) ==
    /\ Leaf(k) \in listLevel(PathWithoutKey(k))
    /\ \A p \in Prefixes(k) : Row(p, TRUE) \in listLevel(PathWithoutKey(p))

-----------------------------------------------------------------------------
(***************************************************************************)
(* The requests of an Upsert.  uniqueRequests is a map: an entry's row is  *)
(* stored under "path/key", a marker under path and key concatenated, and  *)
(* a marker whose map key is taken is skipped.                             *)
(***************************************************************************)
parentRecordKey(m) ==
    IF m.path = <<>>
    THEN << <<" ">> \o m.name >>
    ELSE Append(PathWithoutKey(m.path), BaseKey(m.path) \o m.name)

uniqueMarkers(ks) ==
    UNION {{m \in Markers(ks[i]) :
              \A j \in 1..(i - 1) : \A n \in Markers(ks[j]) :
                 parentRecordKey(n) = parentRecordKey(m) => n = m} :
           i \in DOMAIN ks}

\* Mutant: a marker for the immediate parent only.
putParentOnly(ks) ==
    {Leaf(ks[i]) : i \in DOMAIN ks}
    \cup {Row(PathWithoutKey(ks[i]), TRUE) : i \in {j \in DOMAIN ks : Len(ks[j]) > 1}}

putRequests(ks) == {Leaf(ks[i]) : i \in DOMAIN ks} \cup uniqueMarkers(ks)

\* Mutant: the base is what follows the last slash, not path.Base.
rootItemSplit(t) ==
    [path |-> IF t.slash THEN t.key ELSE SubSeq(t.key, 1, Len(t.key) - 1),
     name |-> IF t.slash THEN <<>> ELSE t.key[Len(t.key)],
     dir |-> FALSE]

\* The first item Delete removes.  path.Dir("a/b/") is "a/b", path.Base of
\* it "b"; the empty key has no directory and the base ".".
rootItem(t) ==
    IF t.key = <<>>
    THEN [path |-> <<>>, name |-> <<".">>, dir |-> FALSE]
    ELSE [path |-> IF t.slash THEN t.key ELSE PathWithoutKey(t.key),
          name |-> BaseKey(t.key), dir |-> FALSE]

-----------------------------------------------------------------------------
Writing  == {"put"}
Deleting == {"root", "page", "level"}
Returned == {"written", "deleted", "error"}
InFlight(P) == \E c \in Calls : phase[c] \in P

Init ==
    /\ table = {}
    /\ replica = {}
    /\ phase = [c \in Calls |-> "idle"]
    /\ keys = [c \in Calls |-> {}]
    /\ target = [c \in Calls |-> [key |-> <<>>, slash |-> FALSE]]
    /\ requests = [c \in Calls |-> {}]
    /\ unprocessed = [c \in Calls |-> {}]
    /\ failed = [c \in Calls |-> {}]
    /\ frontier = [c \in Calls |-> {}]
    /\ current = [c \in Calls |-> {}]
    /\ unread = [c \in Calls |-> {}]
    /\ written = [c \in Calls |-> {}]
    /\ disturbed = [c \in Calls |-> FALSE]

(* Upsert up to its BatchWrite: the requests are built, none is sent yet.  *)
Upsert(c, batch) ==
    LET ks == [i \in DOMAIN batch |-> sanitize(batch[i])]
    IN  /\ phase[c] = "idle"
        /\ Overlap \/ ~InFlight(Deleting \cup {"deleted"})
        /\ phase' = [phase EXCEPT ![c] = "put"]
        /\ keys' = [keys EXCEPT ![c] = {ks[i] : i \in DOMAIN ks}]
        /\ requests' = [requests EXCEPT ![c] = putRequests(ks)]
        /\ UNCHANGED <<table, replica, target, unprocessed, failed, walkVars,
                       written, disturbed>>

(* Delete up to the BatchWrite of its root item.                           *)
Delete(c, t) ==
    /\ phase[c] = "idle"
    /\ Overlap \/ ~InFlight(Writing \cup {"written"})
    /\ phase' = [phase EXCEPT ![c] = "root"]
    /\ target' = [target EXCEPT ![c] = t]
    /\ requests' = [requests EXCEPT ![c] = {rootItem(t)}]
    /\ UNCHANGED <<table, replica, keys, unprocessed, failed, walkVars,
                   written, disturbed>>

-----------------------------------------------------------------------------
(* DynamoDBKit.BatchWrite, run by a call in phase put, root or level.      *)

InBatch(c) == phase[c] \in {"put", "root", "level"}

NextChunk(c) ==
    /\ InBatch(c) /\ unprocessed[c] = {} /\ requests[c] # {}
    /\ \E chunk \in SUBSET requests[c] :
         /\ chunk # {} /\ Cardinality(chunk) <= ChunkSize
         /\ Cardinality(chunk) < ChunkSize => chunk = requests[c]
         /\ unprocessed' = [unprocessed EXCEPT ![c] = chunk]
         /\ requests' = [requests EXCEPT ![c] = @ \ chunk]
    /\ UNCHANGED <<table, replica, phase, keys, target, failed, walkVars,
                   written, disturbed>>

(***************************************************************************)
(* One attempt.  DynamoDB does part of a batch; the answer names the rest  *)
(* (UnprocessedItems), or it is an error or lost and everything is sent    *)
(* again.  Without failures an attempt does all of the chunk.              *)
(***************************************************************************)
BatchWriteItem(c) ==
    /\ InBatch(c) /\ unprocessed[c] # {}
    /\ \E done \in SUBSET unprocessed[c], answered \in BOOLEAN :
         /\ phase[c] \in Failing \/ (done = unprocessed[c] /\ answered)
         /\ unprocessed' = [unprocessed EXCEPT
                              ![c] = IF answered THEN @ \ done ELSE @]
         /\ IF phase[c] = "put"
            THEN /\ table' = table \cup done
                 /\ written' = [written EXCEPT ![c] = @ \cup done]
                 /\ UNCHANGED disturbed
            ELSE /\ table' = table \ done
                 /\ disturbed' = [d \in Calls |->
                       disturbed[d] \/ (/\ phase[d] \in {"put", "written"}
                                        /\ done # {})]
                 /\ UNCHANGED written
    /\ UNCHANGED <<replica, phase, keys, target, requests, failed, walkVars>>

\* Mutant: only the last chunk's failures are kept.
GiveUpForgets(c) ==
    /\ InBatch(c) /\ phase[c] \in Failing /\ unprocessed[c] # {}
    /\ failed' = [failed EXCEPT ![c] = unprocessed[c]]
    /\ unprocessed' = [unprocessed EXCEPT ![c] = {}]
    /\ UNCHANGED <<table, replica, phase, keys, target, requests, walkVars,
                   written, disturbed>>

(* The back-off of the chunk ran out (15 s) or the context was cancelled:  *)
(* what is left of the chunk is added to the failures, the next chunk      *)
(* starts.                                                                 *)
GiveUp(c) ==
    /\ InBatch(c) /\ phase[c] \in Failing /\ unprocessed[c] # {}
    /\ failed' = [failed EXCEPT ![c] = @ \cup unprocessed[c]]
    /\ unprocessed' = [unprocessed EXCEPT ![c] = {}]
    /\ UNCHANGED <<table, replica, phase, keys, target, requests, walkVars,
                   written, disturbed>>

BatchDone(c) == requests[c] = {} /\ unprocessed[c] = {}

-----------------------------------------------------------------------------
(* Upsert returns: its results are Updated for every key, except that a    *)
(* failed request reports Failed under the key of its row.                 *)
UpsertReturn(c) ==
    /\ phase[c] = "put" /\ BatchDone(c)
    /\ phase' = [phase EXCEPT ![c] = "written"]
    /\ UNCHANGED <<table, replica, keys, target, batchVars, walkVars, written,
                   disturbed>>

updatedKeys(c) == {k \in keys[c] : Leaf(k) \notin failed[c]}

\* Mutant: the walk starts at the directory of the target.
RootDoneParent(c) ==
    /\ phase[c] = "root" /\ BatchDone(c)
    /\ phase' = [phase EXCEPT ![c] = IF failed[c] # {} THEN "error" ELSE "page"]
    /\ frontier' = [frontier EXCEPT ![c] = IF failed[c] # {} THEN {}
                                          ELSE {PathWithoutKey(target[c].key)}]
    /\ UNCHANGED <<table, replica, keys, target, batchVars, current, unread,
                   written, disturbed>>

(* The root item is gone, or Delete returns the error.                     *)
RootDone(c) ==
    /\ phase[c] = "root" /\ BatchDone(c)
    /\ \/ /\ failed[c] # {}
          /\ phase' = [phase EXCEPT ![c] = "error"]
          /\ UNCHANGED frontier
       \/ /\ failed[c] = {}
          /\ phase' = [phase EXCEPT ![c] = "page"]
          /\ frontier' = [frontier EXCEPT ![c] = {target[c].key}]
    /\ UNCHANGED <<table, replica, keys, target, batchVars, current, unread,
                   written, disturbed>>

(* Dequeue a folder and open a paginator on it.                            *)
OpenFolder(c) ==
    /\ phase[c] = "page" /\ current[c] = {}
    /\ \E p \in frontier[c] : current' = [current EXCEPT ![c] = {p}]
    /\ unread' = [unread EXCEPT ![c] = Segments \X BOOLEAN]
    /\ UNCHANGED <<table, replica, phase, keys, target, batchVars, frontier,
                   written, disturbed>>

\* Mutant: the walk does not descend.
childNone(page) == {}

\* A marker among the rows of a page names a folder to descend into.
childFolders(page) == {KeyOf(r) : r \in {q \in page : q.dir}}

(***************************************************************************)
(* Read one page of the open folder, enqueue the folders whose markers are *)
(* in it and start the batch that deletes all its rows.  A page ends at an *)
(* arbitrary place of the sort-key order.                                  *)
(***************************************************************************)
QueryPage(c) ==
    /\ phase[c] = "page" /\ unread[c] # {}
    /\ \E p \in current[c], read \in SUBSET unread[c] :
         /\ read = unread[c] \/ (Paged /\ read # {})
         /\ LET page == {r \in IF StaleReads THEN replica ELSE table :
                           r.path = p /\ <<r.name, r.dir>> \in read}
            IN  /\ requests' = [requests EXCEPT ![c] = page]
                /\ frontier' = [frontier EXCEPT
                                  ![c] = @ \cup childFolders(page)]
         /\ unread' = [unread EXCEPT ![c] = @ \ read]
    /\ phase' = [phase EXCEPT ![c] = "level"]
    /\ UNCHANGED <<table, replica, keys, target, unprocessed, failed, current,
                   written, disturbed>>

QueryFails(c) ==
    /\ phase[c] = "page" /\ "page" \in Failing /\ unread[c] # {}
    /\ phase' = [phase EXCEPT ![c] = "error"]
    /\ UNCHANGED <<table, replica, keys, target, batchVars, walkVars, written,
                   disturbed>>

\* Mutants: the next folder after the first page; the same folder for ever.
PageDoneFirst(c) ==
    /\ phase[c] = "level" /\ BatchDone(c)
    /\ phase' = [phase EXCEPT ![c] = IF failed[c] # {} THEN "error" ELSE "page"]
    /\ frontier' = [frontier EXCEPT ![c] = IF failed[c] # {} THEN @ ELSE @ \ current[c]]
    /\ current' = [current EXCEPT ![c] = IF failed[c] # {} THEN @ ELSE {}]
    /\ UNCHANGED <<table, replica, keys, target, batchVars, unread, written,
                   disturbed>>
PageDoneAgain(c) ==
    /\ phase[c] = "level" /\ BatchDone(c)
    /\ phase' = [phase EXCEPT ![c] = IF failed[c] # {} THEN "error" ELSE "page"]
    /\ current' = [current EXCEPT ![c] = IF unread[c] = {} THEN {} ELSE @]
    /\ UNCHANGED <<table, replica, keys, target, batchVars, frontier, unread,
                   written, disturbed>>

(* The page's rows are gone: next page, or next folder.                    *)
PageDone(c) ==
    /\ phase[c] = "level" /\ BatchDone(c)
    /\ \/ /\ failed[c] # {}
          /\ phase' = [phase EXCEPT ![c] = "error"]
          /\ UNCHANGED <<frontier, current>>
       \/ /\ failed[c] = {} /\ unread[c] # {}
          /\ phase' = [phase EXCEPT ![c] = "page"]
          /\ UNCHANGED <<frontier, current>>
       \/ /\ failed[c] = {} /\ unread[c] = {}
          /\ phase' = [phase EXCEPT ![c] = "page"]
          /\ frontier' = [frontier EXCEPT ![c] = @ \ current[c]]
          /\ current' = [current EXCEPT ![c] = {}]
    /\ UNCHANGED <<table, replica, keys, target, batchVars, unread, written,
                   disturbed>>

DeleteReturn(c) ==
    /\ phase[c] = "page" /\ current[c] = {} /\ frontier[c] = {}
    /\ phase' = [phase EXCEPT ![c] = "deleted"]
    /\ UNCHANGED <<table, replica, keys, target, batchVars, walkVars, written,
                   disturbed>>

-----------------------------------------------------------------------------
Forget(c) ==
    /\ phase' = [phase EXCEPT ![c] = "idle"]
    /\ keys' = [keys EXCEPT ![c] = {}]
    /\ target' = [target EXCEPT ![c] = [key |-> <<>>, slash |-> FALSE]]
    /\ requests' = [requests EXCEPT ![c] = {}]
    /\ unprocessed' = [unprocessed EXCEPT ![c] = {}]
    /\ failed' = [failed EXCEPT ![c] = {}]
    /\ frontier' = [frontier EXCEPT ![c] = {}]
    /\ current' = [current EXCEPT ![c] = {}]
    /\ unread' = [unread EXCEPT ![c] = {}]
    /\ written' = [written EXCEPT ![c] = {}]
    /\ disturbed' = [disturbed EXCEPT ![c] = FALSE]
    /\ UNCHANGED <<table, replica>>

(* The HTTP handler renders what the store returned.                       *)
Reply(c) == phase[c] \in Returned /\ Forget(c)

(* The process that runs the call dies; what it wrote stays.               *)
Crash(c) == phase[c] \in Failing /\ Forget(c)

(* DynamoDB catches up on one row in the copy that stale reads see.        *)
Replicate(r) ==
    /\ StaleReads
    /\ r \in (table \ replica) \cup (replica \ table)
    /\ replica' = IF r \in table THEN replica \cup {r} ELSE replica \ {r}
    /\ UNCHANGED <<table, phase, keys, target, batchVars, walkVars, written,
                   disturbed>>

-----------------------------------------------------------------------------
Step(c) ==
    \/ NextChunk(c) \/ BatchWriteItem(c) \/ UpsertReturn(c) \/ RootDone(c)
    \/ OpenFolder(c) \/ QueryPage(c) \/ PageDone(c) \/ DeleteReturn(c)
    \/ Reply(c)

Next ==
    \/ \E c \in Calls :
         \/ \E batch \in Batches : Upsert(c, batch)
         \/ \E t \in Targets : Delete(c, t)
         \/ Step(c)
         \/ GiveUp(c) \/ QueryFails(c) \/ Crash(c)
    \/ \E r \in table \cup replica : Replicate(r)

(* A goroutine keeps running, and the back-off of a chunk is bounded.      *)
Fairness == \A c \in Calls : WF_vars(Step(c)) /\ WF_vars(GiveUp(c))

Spec == Init /\ [][Next]_vars /\ Fairness

-----------------------------------------------------------------------------
(* Every variable holds a value of its kind.                               *)
TypeOK ==
    /\ table \in SUBSET Items
    /\ replica \in SUBSET Items
    /\ phase \in [Calls -> {"idle"} \cup Writing \cup Deleting \cup Returned]
    /\ keys \in [Calls -> SUBSET Keys]
    /\ target \in [Calls -> [key : Keys, slash : BOOLEAN]]
    /\ requests \in [Calls -> SUBSET Items]
    /\ unprocessed \in [Calls -> SUBSET Items]
    /\ failed \in [Calls -> SUBSET Items]
    /\ frontier \in [Calls -> SUBSET Keys]
    /\ current \in [Calls -> SUBSET Keys]
    /\ unread \in [Calls -> SUBSET (Segments \X BOOLEAN)]
    /\ written \in [Calls -> SUBSET Items]
    /\ disturbed \in [Calls -> BOOLEAN]

(***************************************************************************)
(* A Delete stays inside its subtree (dynamodb.go, Delete): whatever else  *)
(* runs, however reads lag and requests fail, a row that disappears is the *)
(* target of a Delete in flight or below it, on a segment boundary.        *)
(***************************************************************************)
DeleteConfined ==
    [][\A r \in table \ table' :
          \E c \in Calls : phase[c] \in Deleting /\ Under(KeyOf(r), target[c].key)
      ]_vars

(***************************************************************************)
(* Upsert's results are honest (dynamodb.go, Upsert): when it returns,     *)
(* each key it reports Updated was put, and so was every ancestor marker,  *)
(* unless the marker itself is reported Failed.                            *)
(***************************************************************************)
ResultsHonest ==
    \A c \in Calls : phase[c] = "written" =>
        \A k \in updatedKeys(c) :
            Leaf(k) \in written[c] /\ Markers(k) \subseteq written[c] \cup failed[c]

(***************************************************************************)
(* Upserting a key repairs it: after an Upsert without failures during     *)
(* which no Delete removed rows, its keys can be browsed to from the root, *)
(* whatever damage earlier interrupted or racing operations had left.      *)
(***************************************************************************)
UpsertHeals ==
    \A c \in Calls :
        phase[c] = "written" /\ failed[c] = {} /\ ~disturbed[c] =>
            \A k \in keys[c] : Navigable(k)

(***************************************************************************)
(* "Delete removes the target item and its entire subtree"                 *)
(* (dynamodb.go:422): once the Deletes in flight have returned without an  *)
(* error, no entry is left at a target or under it.                        *)
(***************************************************************************)
DeleteRemovesSubtree ==
    (\A c \in Calls : phase[c] \in {"idle", "deleted"}) =>
        \A c \in Calls : phase[c] = "deleted" =>
            /\ listLeaves(target[c].key) = {}
            /\ target[c].slash \/ ~Retrieve(target[c].key)

(***************************************************************************)
(* While a Delete is taking a subtree apart, every entry that can no       *)
(* longer be browsed to is still on some call's list: the folder below its *)
(* deepest missing marker is in the frontier of a Delete in flight, or the *)
(* marker is a request an Upsert has yet to send.  When nothing is in      *)
(* flight every entry can be browsed to.                                   *)
(***************************************************************************)
OrphansAreOwned ==
    \A r \in table : ~r.dir =>
        \A i \in 1..Len(r.path) :
            LET p == SubSeq(r.path, 1, i)
                present == Row(p, TRUE) \in table
                deepest == \A j \in (i + 1)..Len(r.path) :
                              Row(SubSeq(r.path, 1, j), TRUE) \in table
            IN  ~present /\ deepest =>
                    \E c \in Calls :
                        \/ p \in frontier[c]
                        \/ Row(p, TRUE) \in requests[c] \cup unprocessed[c]
                           /\ phase[c] = "put"

(* Every call returns: retries are bounded and the walk of Delete ends.    *)
CallsReturn == \A c \in Calls : phase[c] # "idle" ~> phase[c] = "idle"
=============================================================================
