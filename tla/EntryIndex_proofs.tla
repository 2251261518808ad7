-------------------------- MODULE EntryIndex_proofs --------------------------
(* Proofs about the entry index for every set of calls, segments, batches   *)
(* and targets, and for every combination of the faults it is exposed to.   *)
EXTENDS EntryIndex, SequenceTheorems, TLAPS

(* The path of a non-empty key and its base name put together again give   *)
(* the key (Concat after PathWithoutKey and BaseKey).                      *)
LEMMA SplitKey ==
    ASSUME NEW k \in Keys, k # <<>>
    PROVE  /\ PathWithoutKey(k) \in Keys
           /\ BaseKey(k) \in Segments
           /\ Len(PathWithoutKey(k)) = Len(k) - 1
           /\ \A i \in 1..(Len(k) - 1) : PathWithoutKey(k)[i] = k[i]
  <1>1. PICK n \in Nat : n = Len(k) - 1 /\ Len(k) = n + 1
    BY DEF Keys
  <1>2. \A i \in 1..n : k[i] \in Segments
    BY <1>1 DEF Keys
  <1>3. BaseKey(k) \in Segments
    BY <1>1 DEF Keys, BaseKey
  <1>4. /\ PathWithoutKey(k) \in Keys
        /\ Len(PathWithoutKey(k)) = IF 1 <= n THEN n - 1 + 1 ELSE 0
        /\ \A i \in 1..(n - 1 + 1) : PathWithoutKey(k)[i] = k[1 + i - 1]
    BY <1>1, <1>2, SubSeqProperties DEF Keys, PathWithoutKey
  <1>5. Len(PathWithoutKey(k)) = n
    BY <1>4
  <1>6. ASSUME NEW i \in 1..n
        PROVE  PathWithoutKey(k)[i] = k[i]
    <2>1. i \in 1..(n - 1 + 1) /\ 1 + i - 1 = i
      OBVIOUS
    <2>2. QED BY <1>4, <2>1
  <1>7. QED BY <1>1, <1>3, <1>4, <1>5, <1>6

(* A proper prefix of a key is a key.                                      *)
LEMMA PrefixesAreKeys ==
    ASSUME NEW k \in Keys, NEW p \in Prefixes(k)
    PROVE  p \in Keys /\ p # <<>>
  <1>1. PICK i \in 1..(Len(k) - 1) : p = SubSeq(k, 1, i)
    BY DEF Prefixes
  <1>2. i \in Int /\ 1 <= i /\ \A j \in 1..i : k[j] \in Segments
    BY ElementOfSeq DEF Keys
  <1>3. p \in Keys /\ Len(p) = i
    BY <1>1, <1>2, SubSeqProperties DEF Keys
  <1>4. QED BY <1>2, <1>3 DEF Keys

(* sanitize keeps the shape of a key.                                      *)
LEMMA SanitizeType ==
    ASSUME NEW k \in Keys \ {<<>>}
    PROVE  sanitize(k) \in Keys \ {<<>>}
  <1>1. sanitize(k) \in Seq(Segments) /\ Len(sanitize(k)) = Len(k)
    BY IndexAssumption DEF Keys, sanitize
  <1>2. QED BY <1>1 DEF Keys

LEMMA RowType ==
    ASSUME NEW k \in Keys, k # <<>>, NEW d \in BOOLEAN
    PROVE  Row(k, d) \in Items
  BY SplitKey DEF Row, Items

LEMMA MarkersType ==
    ASSUME NEW k \in Keys
    PROVE  Markers(k) \subseteq Items
  BY PrefixesAreKeys, RowType DEF Markers

LEMMA PutRequestsType ==
    ASSUME NEW ks \in Seq(Keys \ {<<>>})
    PROVE  putRequests(ks) \subseteq Items
  <1>1. \A i \in DOMAIN ks : ks[i] \in Keys /\ ks[i] # <<>>
    OBVIOUS
  <1>2. {Leaf(ks[i]) : i \in DOMAIN ks} \subseteq Items
    BY <1>1, RowType DEF Leaf
  <1>3. uniqueMarkers(ks) \subseteq Items
    BY <1>1, MarkersType DEF uniqueMarkers
  <1>4. QED BY <1>2, <1>3 DEF putRequests

LEMMA RootItemType ==
    ASSUME NEW t \in [key : Keys, slash : BOOLEAN]
    PROVE  rootItem(t) \in Items
  <1>1. CASE t.key = <<>>
    BY <1>1 DEF rootItem, Items, Keys
  <1>2. CASE t.key # <<>>
    BY <1>2, SplitKey DEF rootItem, Items
  <1>3. QED BY <1>1, <1>2

(* A row read from a folder has the key of the folder's child.             *)
LEMMA KeyOfType ==
    ASSUME NEW r \in Items, r.name \in Segments
    PROVE  KeyOf(r) \in Keys
  BY DEF Items, Keys, KeyOf, Concat

-----------------------------------------------------------------------------
(* Every step of a call, of the environment and of the retry loop keeps    *)
(* the variables in their types.                                           *)
LEMMA TypeStep == TypeOK /\ [Next]_vars => TypeOK'
  <1> SUFFICES ASSUME TypeOK, [Next]_vars PROVE TypeOK'
    OBVIOUS
  <1> USE DEF TypeOK, Writing, Deleting, Returned
  <1>1. ASSUME NEW c \in Calls, NEW batch \in Batches, Upsert(c, batch)
        PROVE  TypeOK'
    <2> DEFINE ks == [i \in DOMAIN batch |-> sanitize(batch[i])]
    <2>1. batch \in Seq(Keys \ {<<>>})
      BY IndexAssumption
    <2>2. \A i \in DOMAIN batch : sanitize(batch[i]) \in Keys \ {<<>>}
      BY <2>1, SanitizeType
    <2>3. ks \in Seq(Keys \ {<<>>})
      BY <2>1, <2>2
    <2>4. {ks[i] : i \in DOMAIN ks} \subseteq Keys
      BY <2>3
    <2>5. putRequests(ks) \subseteq Items
      BY <2>3, PutRequestsType
    <2> HIDE DEF ks
    <2>6. /\ phase' = [phase EXCEPT ![c] = "put"]
          /\ keys' = [keys EXCEPT ![c] = {ks[i] : i \in DOMAIN ks}]
          /\ requests' = [requests EXCEPT ![c] = putRequests(ks)]
          /\ UNCHANGED <<table, replica, target, unprocessed, failed, frontier,
                         current, unread, written, disturbed>>
      BY <1>1 DEF Upsert, ks, walkVars
    <2>7. QED BY <2>4, <2>5, <2>6
  <1>2. ASSUME NEW c \in Calls, NEW t \in Targets, Delete(c, t)
        PROVE  TypeOK'
    <2>1. t \in [key : Keys, slash : BOOLEAN]
      BY IndexAssumption
    <2>2. rootItem(t) \in Items
      BY <2>1, RootItemType
    <2>3. QED BY <1>2, <2>1, <2>2 DEF Delete, walkVars
  <1>3. ASSUME NEW c \in Calls, NextChunk(c)
        PROVE  TypeOK'
    BY <1>3 DEF NextChunk, walkVars
  <1>4. ASSUME NEW c \in Calls, BatchWriteItem(c)
        PROVE  TypeOK'
    <2>1. PICK done \in SUBSET unprocessed[c], answered \in BOOLEAN :
            /\ unprocessed' = [unprocessed EXCEPT
                                 ![c] = IF answered THEN @ \ done ELSE @]
            /\ \/ /\ table' = table \cup done
                  /\ written' = [written EXCEPT ![c] = @ \cup done]
                  /\ UNCHANGED disturbed
               \/ /\ table' = table \ done
                  /\ disturbed' = [d \in Calls |->
                        disturbed[d] \/ (phase[d] \in {"put", "written"} /\ done # {})]
                  /\ UNCHANGED written
      BY <1>4 DEF BatchWriteItem
    <2>2. done \subseteq Items /\ unprocessed[c] \subseteq Items
      OBVIOUS
    <2>3. /\ table' \in SUBSET Items /\ written' \in [Calls -> SUBSET Items]
          /\ unprocessed' \in [Calls -> SUBSET Items]
      BY <2>1, <2>2
    <2>4. disturbed' \in [Calls -> BOOLEAN]
      BY <2>1
    <2>5. QED BY <1>4, <2>3, <2>4 DEF BatchWriteItem, walkVars
  <1>5. ASSUME NEW c \in Calls, GiveUp(c)
        PROVE  TypeOK'
    BY <1>5 DEF GiveUp, walkVars
  <1>6. ASSUME NEW c \in Calls, UpsertReturn(c)
        PROVE  TypeOK'
    BY <1>6 DEF UpsertReturn, walkVars, batchVars
  <1>7. ASSUME NEW c \in Calls, RootDone(c)
        PROVE  TypeOK'
    BY <1>7 DEF RootDone, batchVars
  <1>8. ASSUME NEW c \in Calls, OpenFolder(c)
        PROVE  TypeOK'
    BY <1>8 DEF OpenFolder, batchVars
  <1>9. ASSUME NEW c \in Calls, QueryPage(c)
        PROVE  TypeOK'
    <2>1. PICK p \in current[c], read \in SUBSET unread[c] :
            LET page == {r \in IF StaleReads THEN replica ELSE table :
                           r.path = p /\ <<r.name, r.dir>> \in read}
            IN  /\ requests' = [requests EXCEPT ![c] = page]
                /\ frontier' = [frontier EXCEPT ![c] = @ \cup childFolders(page)]
                /\ unread' = [unread EXCEPT ![c] = @ \ read]
      BY <1>9 DEF QueryPage
    <2> DEFINE page == {r \in IF StaleReads THEN replica ELSE table :
                           r.path = p /\ <<r.name, r.dir>> \in read}
    <2>2. page \subseteq Items /\ \A r \in page : r.name \in Segments
      OBVIOUS
    <2>3. childFolders(page) \subseteq Keys
      <3>1. ASSUME NEW r \in page PROVE KeyOf(r) \in Keys
        BY <2>2, KeyOfType
      <3> HIDE DEF page
      <3>2. QED BY <3>1 DEF childFolders
    <2> HIDE DEF page
    <2>4. /\ requests' = [requests EXCEPT ![c] = page]
          /\ frontier' = [frontier EXCEPT ![c] = @ \cup childFolders(page)]
          /\ unread' = [unread EXCEPT ![c] = @ \ read]
      BY <2>1 DEF page
    <2>5. QED BY <1>9, <2>2, <2>3, <2>4 DEF QueryPage
  <1>10. ASSUME NEW c \in Calls, QueryFails(c)
         PROVE  TypeOK'
    BY <1>10 DEF QueryFails, walkVars, batchVars
  <1>11. ASSUME NEW c \in Calls, PageDone(c)
         PROVE  TypeOK'
    <2>1. phase' \in [Calls -> {"idle"} \cup Writing \cup Deleting \cup Returned]
      BY <1>11 DEF PageDone
    <2>2. /\ frontier' = frontier \/ frontier' = [frontier EXCEPT ![c] = @ \ current[c]]
          /\ current' = current \/ current' = [current EXCEPT ![c] = {}]
      BY <1>11 DEF PageDone
    <2>4. frontier' \in [Calls -> SUBSET Keys]
      BY <2>2
    <2>5. current' \in [Calls -> SUBSET Keys]
      BY <2>2
    <2>6. QED BY <1>11, <2>1, <2>4, <2>5 DEF PageDone, batchVars
  <1>12. ASSUME NEW c \in Calls, DeleteReturn(c)
         PROVE  TypeOK'
    BY <1>12 DEF DeleteReturn, walkVars, batchVars
  <1>13. ASSUME NEW c \in Calls, Forget(c)
         PROVE  TypeOK'
    BY <1>13 DEF Forget, Keys
  <1>14. ASSUME NEW r \in table \cup replica, Replicate(r)
         PROVE  TypeOK'
    BY <1>14 DEF Replicate, walkVars, batchVars
  <1>15. CASE UNCHANGED vars
    BY <1>15 DEF vars, batchVars, walkVars
  <1>16. QED
    BY <1>1, <1>2, <1>3, <1>4, <1>5, <1>6, <1>7, <1>8, <1>9, <1>10, <1>11,
       <1>12, <1>13, <1>14, <1>15 DEF Next, Step, Reply, Crash

(* In every behaviour of the index the variables have their types.         *)
THEOREM IndexTypeCorrect == Spec => []TypeOK
  <1>1. Init => TypeOK
    BY DEF Init, TypeOK, Keys, Writing, Deleting, Returned
  <1>2. QED BY <1>1, TypeStep, PTL DEF Spec

-----------------------------------------------------------------------------
(***************************************************************************)
(* What confines a Delete: everything on its lists lies under its target.  *)
(* DeleteConfined alone is not inductive, it says nothing of the folders   *)
(* and rows a Delete has still to process.                                 *)
(***************************************************************************)
ListsConfined(c) ==
    /\ \A p \in frontier[c] \cup current[c] : Under(p, target[c].key)
    /\ \A r \in requests[c] \cup unprocessed[c] : Under(KeyOf(r), target[c].key)

ListsEmpty(c) ==
    frontier[c] = {} /\ current[c] = {} /\ requests[c] = {} /\ unprocessed[c] = {}

WalkInv ==
    \A c \in Calls :
        /\ phase[c] \in Deleting => ListsConfined(c)
        /\ phase[c] = "idle" => ListsEmpty(c)
        /\ phase[c] = "put" => frontier[c] = {} /\ current[c] = {}

(* A child of a folder is under whatever the folder is under.              *)
LEMMA UnderChild ==
    ASSUME NEW t \in Keys, NEW r \in Items, r.name \in Segments, Under(r.path, t)
    PROVE  Under(KeyOf(r), t)
  <1>1. r.path \in Keys
    BY DEF Items
  <1>2. /\ Len(Append(r.path, r.name)) = Len(r.path) + 1
        /\ \A i \in 1..Len(r.path) : Append(r.path, r.name)[i] = r.path[i]
    BY <1>1, AppendProperties DEF Keys
  <1>3. Len(t) \in Nat /\ Len(r.path) \in Nat
    BY <1>1 DEF Keys
  <1>4. QED BY <1>2, <1>3 DEF Under, KeyOf, Concat

(* The root item of a Delete is its target, or lies below it.              *)
LEMMA RootItemUnder ==
    ASSUME NEW t \in [key : Keys, slash : BOOLEAN]
    PROVE  Under(KeyOf(rootItem(t)), t.key)
  <1> DEFINE k == t.key
  <1>1. k \in Keys /\ Len(k) \in Nat /\ \A i \in 1..Len(k) : k[i] \in Segments
    BY DEF Keys
  <1>2. CASE k = <<>>
    <2>1. Len(k) = 0 /\ KeyOf(rootItem(t)) = Append(<<>>, <<".">>)
      BY <1>2 DEF rootItem, KeyOf, Concat
    <2>2. Len(Append(<<>>, <<".">>)) = 1
      OBVIOUS
    <2>3. QED BY <2>1, <2>2 DEF Under
  <1>3. CASE k # <<>> /\ t.slash
    <2>1. rootItem(t) \in Items /\ rootItem(t).path = k /\ rootItem(t).name = BaseKey(k)
      BY <1>3, RootItemType DEF rootItem
    <2>2. Under(k, k) /\ BaseKey(k) \in Segments
      BY <1>1, <1>3, SplitKey DEF Under
    <2>3. QED BY <1>1, <2>1, <2>2, UnderChild
  <1>4. CASE k # <<>> /\ ~t.slash
    <2> DEFINE d == PathWithoutKey(k)
    <2>1. KeyOf(rootItem(t)) = Append(d, BaseKey(k))
      BY <1>4 DEF rootItem, KeyOf, Concat
    <2>2. /\ d \in Seq(Segments) /\ BaseKey(k) \in Segments
          /\ Len(d) = Len(k) - 1
          /\ \A i \in 1..(Len(k) - 1) : d[i] = k[i]
      BY <1>1, <1>4, SplitKey DEF Keys
    <2> HIDE DEF d
    <2>3. /\ Len(Append(d, BaseKey(k))) = Len(d) + 1
          /\ \A i \in 1..Len(d) : Append(d, BaseKey(k))[i] = d[i]
          /\ Append(d, BaseKey(k))[Len(d) + 1] = BaseKey(k)
      BY <2>2, AppendProperties
    <2>4. ASSUME NEW i \in 1..Len(k)
          PROVE  Append(d, BaseKey(k))[i] = k[i]
      <3>1. CASE i = Len(k)
        BY <1>1, <2>2, <2>3, <3>1 DEF BaseKey
      <3>2. CASE i # Len(k)
        <4>1. i \in 1..(Len(k) - 1)
          BY <1>1, <3>2
        <4>2. QED BY <2>2, <2>3, <4>1
      <3>3. QED BY <3>1, <3>2
    <2>5. Len(Append(d, BaseKey(k))) = Len(k)
      BY <1>1, <2>2, <2>3
    <2>6. QED BY <1>1, <2>1, <2>4, <2>5 DEF Under
  <1>5. QED BY <1>2, <1>3, <1>4

(* No step of any call puts a row or a folder outside the target on the    *)
(* lists of a Delete.                                                      *)
LEMMA WalkStep == TypeOK /\ WalkInv /\ [Next]_vars => WalkInv'
  <1> SUFFICES ASSUME TypeOK, WalkInv, [Next]_vars PROVE WalkInv'
    OBVIOUS
  <1> USE DEF WalkInv, ListsConfined, ListsEmpty, Writing, Deleting, Returned
  <1>0. /\ phase \in [Calls -> {"idle"} \cup Writing \cup Deleting \cup Returned]
        /\ target \in [Calls -> [key : Keys, slash : BOOLEAN]]
        /\ requests \in [Calls -> SUBSET Items]
        /\ unprocessed \in [Calls -> SUBSET Items]
        /\ frontier \in [Calls -> SUBSET Keys]
        /\ current \in [Calls -> SUBSET Keys]
        /\ table \in SUBSET Items /\ replica \in SUBSET Items
        /\ unread \in [Calls -> SUBSET (Segments \X BOOLEAN)]
    BY DEF TypeOK
  <1>1. ASSUME NEW c \in Calls, NEW batch \in Batches, Upsert(c, batch)
        PROVE  WalkInv'
    BY <1>0, <1>1 DEF Upsert, walkVars
  <1>2. ASSUME NEW c \in Calls, NEW t \in Targets, Delete(c, t)
        PROVE  WalkInv'
    <2>1. t \in [key : Keys, slash : BOOLEAN]
      BY IndexAssumption
    <2>2. Under(KeyOf(rootItem(t)), t.key)
      BY <2>1, RootItemUnder
    <2>3. ListsConfined(c)'
      BY <1>0, <1>2, <2>2 DEF Delete, walkVars
    <2>4. ASSUME NEW d \in Calls, d # c
          PROVE  /\ phase'[d] = phase[d] /\ target'[d] = target[d]
                 /\ requests'[d] = requests[d] /\ unprocessed'[d] = unprocessed[d]
                 /\ frontier'[d] = frontier[d] /\ current'[d] = current[d]
      BY <1>0, <1>2, <2>4 DEF Delete, walkVars
    <2>5. phase'[c] = "root"
      BY <1>0, <1>2 DEF Delete
    <2>6. QED BY <2>3, <2>4, <2>5
  <1>3. ASSUME NEW c \in Calls, NextChunk(c)
        PROVE  WalkInv'
    BY <1>0, <1>3 DEF NextChunk, InBatch, walkVars
  <1>4. ASSUME NEW c \in Calls, BatchWriteItem(c)
        PROVE  WalkInv'
    <2>1. unprocessed'[c] \subseteq unprocessed[c]
      BY <1>0, <1>4 DEF BatchWriteItem
    <2>2. \A d \in Calls : d # c => unprocessed'[d] = unprocessed[d]
      BY <1>0, <1>4 DEF BatchWriteItem
    <2>3. /\ phase' = phase /\ target' = target /\ requests' = requests
          /\ frontier' = frontier /\ current' = current
      BY <1>4 DEF BatchWriteItem, walkVars
    <2>4. phase[c] # "idle"
      BY <1>4 DEF BatchWriteItem, InBatch
    <2>5. QED BY <2>1, <2>2, <2>3, <2>4
  <1>5. ASSUME NEW c \in Calls, GiveUp(c)
        PROVE  WalkInv'
    BY <1>0, <1>5 DEF GiveUp, walkVars
  <1>6. ASSUME NEW c \in Calls, UpsertReturn(c)
        PROVE  WalkInv'
    BY <1>0, <1>6 DEF UpsertReturn, walkVars, batchVars
  <1>7. ASSUME NEW c \in Calls, RootDone(c)
        PROVE  WalkInv'
    <2>1. Under(target[c].key, target[c].key)
      BY <1>0 DEF Under, Keys
    <2>2. CASE phase' = [phase EXCEPT ![c] = "error"] /\ UNCHANGED frontier
      BY <1>0, <1>7, <2>2 DEF RootDone, batchVars
    <2>3. CASE /\ phase' = [phase EXCEPT ![c] = "page"]
               /\ frontier' = [frontier EXCEPT ![c] = {target[c].key}]
      BY <1>0, <1>7, <2>1, <2>3 DEF RootDone, batchVars
    <2>4. QED BY <1>7, <2>2, <2>3 DEF RootDone
  <1>8. ASSUME NEW c \in Calls, OpenFolder(c)
        PROVE  WalkInv'
    BY <1>0, <1>8 DEF OpenFolder, batchVars
  <1>9. ASSUME NEW c \in Calls, QueryPage(c)
        PROVE  WalkInv'
    <2> DEFINE rows == IF StaleReads THEN replica ELSE table
               page(p, read) == {r \in rows : r.path = p /\ <<r.name, r.dir>> \in read}
    <2>1. PICK p \in current[c], read \in SUBSET unread[c] :
            /\ requests' = [requests EXCEPT ![c] = page(p, read)]
            /\ frontier' = [frontier EXCEPT ![c] = @ \cup childFolders(page(p, read))]
      BY <1>9 DEF QueryPage
    <2> DEFINE read_ == page(p, read)
    <2>2. Under(p, target[c].key) /\ target[c].key \in Keys
      BY <1>0, <1>9 DEF QueryPage
    <2>3. ASSUME NEW r \in read_
          PROVE  Under(KeyOf(r), target[c].key)
      <3>1. r \in Items /\ r.name \in Segments /\ r.path = p
        BY <1>0
      <3>2. QED BY <2>2, <3>1, UnderChild
    <2> HIDE DEF read_
    <2>4. \A f \in childFolders(read_) : Under(f, target[c].key)
      BY <2>3 DEF childFolders
    <2>5. /\ requests' = [requests EXCEPT ![c] = read_]
          /\ frontier' = [frontier EXCEPT ![c] = @ \cup childFolders(read_)]
      BY <2>1 DEF read_
    <2>6. QED BY <1>0, <1>9, <2>3, <2>4, <2>5 DEF QueryPage
  <1>10. ASSUME NEW c \in Calls, QueryFails(c)
         PROVE  WalkInv'
    BY <1>0, <1>10 DEF QueryFails, walkVars, batchVars
  <1>11. ASSUME NEW c \in Calls, PageDone(c)
         PROVE  WalkInv'
    <2>1. /\ phase[c] = "level" /\ phase'[c] \in {"error", "page"}
          /\ frontier'[c] \subseteq frontier[c] /\ current'[c] \subseteq current[c]
      BY <1>0, <1>11 DEF PageDone
    <2>2. \A d \in Calls : d # c => /\ phase'[d] = phase[d]
                                   /\ frontier'[d] = frontier[d]
                                   /\ current'[d] = current[d]
      BY <1>0, <1>11 DEF PageDone
    <2>3. target' = target /\ requests' = requests /\ unprocessed' = unprocessed
      BY <1>11 DEF PageDone, batchVars
    <2>4. QED BY <2>1, <2>2, <2>3
  <1>12. ASSUME NEW c \in Calls, DeleteReturn(c)
         PROVE  WalkInv'
    BY <1>0, <1>12 DEF DeleteReturn, walkVars, batchVars
  <1>13. ASSUME NEW c \in Calls, Forget(c)
         PROVE  WalkInv'
    BY <1>0, <1>13 DEF Forget
  <1>14. ASSUME NEW r \in table \cup replica, Replicate(r)
         PROVE  WalkInv'
    BY <1>14 DEF Replicate, walkVars, batchVars
  <1>15. CASE UNCHANGED vars
    BY <1>15 DEF vars, batchVars, walkVars
  <1>16. QED
    BY <1>1, <1>2, <1>3, <1>4, <1>5, <1>6, <1>7, <1>8, <1>9, <1>10, <1>11,
       <1>12, <1>13, <1>14, <1>15 DEF Next, Step, Reply, Crash

(***************************************************************************)
(* For every number of calls, every tree and every combination of lagging  *)
(* reads, failed requests and crashes, Delete only ever removes rows at or *)
(* under its own target.                                                   *)
(***************************************************************************)
THEOREM IndexDeleteConfined == Spec => DeleteConfined
  <1> DEFINE Confined ==
        \A r \in table \ table' :
          \E c \in Calls : phase[c] \in Deleting /\ Under(KeyOf(r), target[c].key)
  <1>1. Init => WalkInv
    BY DEF Init, WalkInv, ListsConfined, ListsEmpty, Deleting
  <1>2. ASSUME TypeOK, WalkInv, [Next]_vars
        PROVE  [Confined]_vars
    <2>1. ASSUME NEW c \in Calls, BatchWriteItem(c)
          PROVE  Confined
      <3>1. CASE phase[c] = "put"
        BY <2>1, <3>1 DEF BatchWriteItem
      <3>2. CASE phase[c] # "put"
        <4>1. phase[c] \in Deleting
          BY <2>1, <3>2 DEF BatchWriteItem, InBatch, Deleting
        <4>2. \A r \in table \ table' : r \in unprocessed[c]
          BY <2>1, <3>2 DEF BatchWriteItem
        <4>3. QED BY <1>2, <4>1, <4>2 DEF WalkInv, ListsConfined
      <3>3. QED BY <3>1, <3>2
    <2>2. ASSUME ~(\E c \in Calls : BatchWriteItem(c))
          PROVE  table' = table
      BY <1>2, <2>2 DEF Next, vars, Step, Upsert, Delete, NextChunk, GiveUp,
         UpsertReturn, RootDone, OpenFolder, QueryPage, QueryFails, PageDone,
         DeleteReturn, Reply, Crash, Forget, Replicate
    <2>3. QED BY <2>1, <2>2
  <1>3. QED BY <1>1, <1>2, WalkStep, IndexTypeCorrect, PTL DEF Spec, DeleteConfined
-----------------------------------------------------------------------------
(***************************************************************************)
(* What an Upsert reports.  Two markers of one batch may have the same key *)
(* in the map of requests (parentRecordKey joins a path and a name without *)
(* a separator), and then the second is neither put nor reported: what     *)
(* follows holds of batches in which that does not happen.                 *)
(***************************************************************************)
Unambiguous ==
    \A batch \in Batches :
        LET ks == [i \in DOMAIN batch |-> sanitize(batch[i])]
        IN  \A i, j \in DOMAIN ks : \A m \in Markers(ks[i]), n \in Markers(ks[j]) :
                parentRecordKey(m) = parentRecordKey(n) => m = n

\* What a call has yet to do, has given up or has done.
Sent(c) == requests[c] \cup unprocessed[c] \cup failed[c] \cup written[c]

(* Every row of a key in hand is on the way, given up or written.          *)
PutInv ==
    \A c \in Calls :
        /\ phase[c] \in {"put", "written"} =>
              \A k \in keys[c] : Leaf(k) \in Sent(c) /\ Markers(k) \subseteq Sent(c)
        /\ phase[c] = "written" => BatchDone(c)

(* What a call has put is there until a Delete disturbs it.                *)
HealInv ==
    \A c \in Calls :
        /\ phase[c] \in {"put", "written"} /\ ~disturbed[c] => written[c] \subseteq table
        /\ phase[c] \notin {"put", "written"} => written[c] = {}

LEMMA MarkersPut ==
    ASSUME Unambiguous, NEW batch \in Batches,
           NEW ks, ks = [i \in DOMAIN batch |-> sanitize(batch[i])],
           NEW i \in DOMAIN ks
    PROVE  Leaf(ks[i]) \in putRequests(ks) /\ Markers(ks[i]) \subseteq putRequests(ks)
  <1>1. batch \in Seq(Keys \ {<<>>}) /\ DOMAIN ks = DOMAIN batch
    BY IndexAssumption
  <1>2. DOMAIN ks = 1..Len(batch) /\ Len(batch) \in Nat
    BY <1>1
  <1>3. ASSUME NEW m \in Markers(ks[i]) PROVE m \in uniqueMarkers(ks)
    <2>1. ASSUME NEW j \in 1..(i - 1), NEW n \in Markers(ks[j]), parentRecordKey(n) = parentRecordKey(m)
          PROVE  n = m
      <3>1. j \in DOMAIN ks
        BY <1>2
      <3>2. QED BY <2>1, <3>1 DEF Unambiguous
    <2>2. QED BY <2>1 DEF uniqueMarkers
  <1>4. QED BY <1>3 DEF putRequests

\* A step that neither starts nor moves the batch of any call.
LEMMA PutStep == Unambiguous /\ TypeOK /\ PutInv /\ [Next]_vars => PutInv'
  <1> SUFFICES ASSUME Unambiguous, TypeOK, PutInv, [Next]_vars PROVE PutInv'
    OBVIOUS
  <1>0. /\ phase \in [Calls -> {"idle"} \cup Writing \cup Deleting \cup Returned]
        /\ keys \in [Calls -> SUBSET Keys]
        /\ requests \in [Calls -> SUBSET Items] /\ unprocessed \in [Calls -> SUBSET Items]
        /\ failed \in [Calls -> SUBSET Items] /\ written \in [Calls -> SUBSET Items]
    BY DEF TypeOK
  <1> USE DEF PutInv, Sent, BatchDone
  <1>1. ASSUME NEW c \in Calls, NEW batch \in Batches, Upsert(c, batch)
        PROVE  PutInv'
    <2> DEFINE ks == [i \in DOMAIN batch |-> sanitize(batch[i])]
    <2>1. \A i \in DOMAIN ks : Leaf(ks[i]) \in putRequests(ks) /\ Markers(ks[i]) \subseteq putRequests(ks)
      BY MarkersPut
    <2> HIDE DEF ks
    <2>2. /\ phase' = [phase EXCEPT ![c] = "put"]
          /\ keys' = [keys EXCEPT ![c] = {ks[i] : i \in DOMAIN ks}]
          /\ requests' = [requests EXCEPT ![c] = putRequests(ks)]
          /\ UNCHANGED <<unprocessed, failed, written>>
      BY <1>1 DEF Upsert, ks
    <2>3. phase'[c] = "put" /\ requests'[c] = putRequests(ks) /\ keys'[c] = {ks[i] : i \in DOMAIN ks}
      BY <1>0, <2>2
    <2>4. \A k \in keys'[c] : Leaf(k) \in requests'[c] /\ Markers(k) \subseteq requests'[c]
      BY <2>1, <2>3
    <2>5. \A d \in Calls \ {c} : phase'[d] = phase[d] /\ keys'[d] = keys[d] /\ requests'[d] = requests[d]
      BY <1>0, <2>2
    <2>6. QED BY <2>2, <2>3, <2>4, <2>5
  <1>2. ASSUME NEW c \in Calls, NEW t \in Targets, Delete(c, t)
        PROVE  PutInv'
    BY <1>0, <1>2 DEF Delete
  <1>3. ASSUME NEW c \in Calls, NextChunk(c)
        PROVE  PutInv'
    <2>1. PICK chunk \in SUBSET requests[c] :
            /\ unprocessed' = [unprocessed EXCEPT ![c] = chunk]
            /\ requests' = [requests EXCEPT ![c] = @ \ chunk]
      BY <1>3 DEF NextChunk
    <2>2. unprocessed[c] = {} /\ UNCHANGED <<phase, keys, failed, written>> /\ phase[c] # "written"
      BY <1>3 DEF NextChunk, InBatch
    <2>3. requests[c] \cup unprocessed[c] = requests'[c] \cup unprocessed'[c]
      BY <1>0, <2>1, <2>2
    <2>4. \A d \in Calls \ {c} : requests'[d] = requests[d] /\ unprocessed'[d] = unprocessed[d]
      BY <1>0, <2>1
    <2>5. QED BY <2>2, <2>3, <2>4
  <1>4. ASSUME NEW c \in Calls, BatchWriteItem(c)
        PROVE  PutInv'
    <2>1. UNCHANGED <<phase, keys, requests, failed>> /\ phase[c] # "written"
      BY <1>4 DEF BatchWriteItem, InBatch
    <2>2. \A d \in Calls \ {c} : written'[d] = written[d] /\ unprocessed'[d] = unprocessed[d]
      BY <1>0, <1>4 DEF BatchWriteItem
    <2>3. phase[c] = "put" => unprocessed[c] \cup written[c] \subseteq unprocessed'[c] \cup written'[c]
      BY <1>0, <1>4 DEF BatchWriteItem
    <2>4. QED BY <2>1, <2>2, <2>3
  <1>5. ASSUME NEW c \in Calls, GiveUp(c)
        PROVE  PutInv'
    <2>1. UNCHANGED <<phase, keys, requests, written>> /\ phase[c] # "written"
      BY <1>5 DEF GiveUp, InBatch
    <2>2. \A d \in Calls \ {c} : failed'[d] = failed[d] /\ unprocessed'[d] = unprocessed[d]
      BY <1>0, <1>5 DEF GiveUp
    <2>3. unprocessed[c] \cup failed[c] \subseteq unprocessed'[c] \cup failed'[c]
      BY <1>0, <1>5 DEF GiveUp
    <2>4. QED BY <2>1, <2>2, <2>3
  <1>6. ASSUME NEW c \in Calls, UpsertReturn(c)
        PROVE  PutInv'
    BY <1>0, <1>6 DEF UpsertReturn, batchVars
  <1>7. ASSUME NEW c \in Calls, RootDone(c) \/ OpenFolder(c) \/ QueryFails(c) \/ PageDone(c) \/ DeleteReturn(c)
        PROVE  PutInv'
    BY <1>0, <1>7 DEF RootDone, OpenFolder, QueryFails, PageDone, DeleteReturn, batchVars
  <1>8. ASSUME NEW c \in Calls, QueryPage(c)
        PROVE  PutInv'
    <2>1. /\ \A d \in Calls \ {c} : requests'[d] = requests[d] /\ phase'[d] = phase[d]
          /\ phase'[c] = "level" /\ UNCHANGED <<keys, unprocessed, failed, written>>
      BY <1>0, <1>8 DEF QueryPage
    <2>2. QED BY <2>1
  <1>9. ASSUME NEW c \in Calls, Forget(c)
        PROVE  PutInv'
    BY <1>0, <1>9 DEF Forget
  <1>10. ASSUME NEW r \in table \cup replica, Replicate(r)
         PROVE  PutInv'
    BY <1>10 DEF Replicate, batchVars
  <1>11. CASE UNCHANGED vars
    BY <1>11 DEF vars, batchVars
  <1>12. QED
    BY <1>1, <1>2, <1>3, <1>4, <1>5, <1>6, <1>7, <1>8, <1>9, <1>10, <1>11
       DEF Next, Step, Reply, Crash

(* Results are honest: what is reported Updated was put, and so was each   *)
(* marker above it, unless that is reported Failed (dynamodb.go, Upsert).  *)
THEOREM IndexResultsHonest == ASSUME Unambiguous PROVE Spec => []ResultsHonest
  <1>1. Init => PutInv
    BY DEF Init, PutInv
  <1>2. PutInv => ResultsHonest
    BY DEF PutInv, ResultsHonest, updatedKeys, Sent, BatchDone
  <1>3. TypeOK /\ PutInv /\ [Next]_vars => PutInv'
    BY PutStep
  <1>4. QED BY <1>1, <1>2, <1>3, IndexTypeCorrect, PTL DEF Spec

LEMMA HealStep == TypeOK /\ HealInv /\ [Next]_vars => HealInv'
  <1> SUFFICES ASSUME TypeOK, HealInv, [Next]_vars PROVE HealInv'
    OBVIOUS
  <1>0. /\ phase \in [Calls -> {"idle"} \cup Writing \cup Deleting \cup Returned]
        /\ unprocessed \in [Calls -> SUBSET Items] /\ written \in [Calls -> SUBSET Items]
        /\ disturbed \in [Calls -> BOOLEAN]
    BY DEF TypeOK
  <1> USE DEF HealInv
  <1>1. ASSUME NEW c \in Calls, NEW batch \in Batches, Upsert(c, batch)
        PROVE  HealInv'
    <2>1. phase' = [phase EXCEPT ![c] = "put"] /\ phase[c] = "idle" /\ UNCHANGED <<table, written, disturbed>>
      BY <1>1 DEF Upsert
    <2>2. QED BY <1>0, <2>1
  <1>2. ASSUME NEW c \in Calls, NEW t \in Targets, Delete(c, t)
        PROVE  HealInv'
    BY <1>0, <1>2 DEF Delete
  <1>3. ASSUME NEW c \in Calls, BatchWriteItem(c)
        PROVE  HealInv'
    <2>1. PICK done \in SUBSET unprocessed[c] :
             IF phase[c] = "put"
             THEN /\ table' = table \cup done
                  /\ written' = [written EXCEPT ![c] = @ \cup done]
                  /\ UNCHANGED disturbed
             ELSE /\ table' = table \ done
                  /\ disturbed' = [d \in Calls |->
                        disturbed[d] \/ (phase[d] \in {"put", "written"} /\ done # {})]
                  /\ UNCHANGED written
      BY <1>3 DEF BatchWriteItem
    <2>2. phase' = phase
      BY <1>3 DEF BatchWriteItem
    <2>3. CASE phase[c] = "put"
      <3>1. /\ written'[c] = written[c] \cup done /\ table' = table \cup done /\ disturbed' = disturbed
            /\ \A d \in Calls \ {c} : written'[d] = written[d]
        BY <1>0, <2>1, <2>3
      <3>2. QED BY <2>2, <2>3, <3>1
    <2>4. CASE phase[c] # "put"
      <3>1. /\ table' = table \ done /\ written' = written
            /\ \A d \in Calls : disturbed'[d] <=> disturbed[d] \/ (phase[d] \in {"put", "written"} /\ done # {})
        BY <2>1, <2>4
      <3>2. CASE done = {}
        BY <2>2, <3>1, <3>2
      <3>3. CASE done # {}
        BY <2>2, <3>1, <3>3
      <3>4. QED BY <3>2, <3>3
    <2>5. QED BY <2>3, <2>4
  <1>4. ASSUME NEW c \in Calls, NextChunk(c) \/ GiveUp(c) \/ UpsertReturn(c)
        PROVE  HealInv'
    BY <1>0, <1>4 DEF NextChunk, GiveUp, UpsertReturn
  <1>5. ASSUME NEW c \in Calls,
               RootDone(c) \/ OpenFolder(c) \/ QueryFails(c) \/ PageDone(c) \/ DeleteReturn(c) \/ QueryPage(c)
        PROVE  HealInv'
    BY <1>0, <1>5 DEF RootDone, OpenFolder, QueryFails, PageDone, DeleteReturn, QueryPage
  <1>6. ASSUME NEW c \in Calls, Forget(c)
        PROVE  HealInv'
    BY <1>0, <1>6 DEF Forget
  <1>7. ASSUME NEW r \in table \cup replica, Replicate(r)
        PROVE  HealInv'
    BY <1>7 DEF Replicate
  <1>8. CASE UNCHANGED vars
    BY <1>8 DEF vars
  <1>9. QED
    BY <1>1, <1>2, <1>3, <1>4, <1>5, <1>6, <1>7, <1>8 DEF Next, Step, Reply, Crash

(* An Upsert without failures that no Delete disturbs makes its keys       *)
(* browsable from the root, whatever earlier calls have left behind.       *)
THEOREM IndexUpsertHeals == ASSUME Unambiguous PROVE Spec => []UpsertHeals
  <1>1. Init => PutInv /\ HealInv
    BY DEF Init, PutInv, HealInv
  <1>2. TypeOK /\ PutInv /\ HealInv => UpsertHeals
    <2> SUFFICES ASSUME TypeOK, PutInv, HealInv, NEW c \in Calls,
                        phase[c] = "written", failed[c] = {}, ~disturbed[c], NEW k \in keys[c]
                 PROVE  Navigable(k)
      BY DEF UpsertHeals
    <2>1. Leaf(k) \in table /\ Markers(k) \subseteq table
      BY DEF PutInv, HealInv, Sent, BatchDone
    <2>2. Leaf(k).path = PathWithoutKey(k) /\ \A p : Row(p, TRUE).path = PathWithoutKey(p)
      BY DEF Leaf, Row
    <2>3. \A p \in Prefixes(k) : Row(p, TRUE) \in table
      BY <2>1 DEF Markers
    <2>4. QED BY <2>1, <2>2, <2>3 DEF Navigable, listLevel
  <1>3. TypeOK /\ PutInv /\ HealInv /\ [Next]_vars => (PutInv /\ HealInv)'
    BY PutStep, HealStep
  <1>4. QED BY <1>1, <1>2, <1>3, IndexTypeCorrect, PTL DEF Spec
-----------------------------------------------------------------------------
(***************************************************************************)
(* The walk of a Delete, when nothing fails, reads do not lag and Upserts  *)
(* do not overlap Deletes; the README lists what goes wrong otherwise.     *)
(***************************************************************************)
Calm == Failing = {} /\ ~StaleReads /\ ~Overlap /\ Unambiguous

LEMMA AncestorIs ==
    ASSUME NEW k \in Keys, NEW i \in 0..Len(k)
    PROVE  /\ SubSeq(k, 1, i) \in Keys /\ Len(SubSeq(k, 1, i)) = i
           /\ \A j \in 1..i : SubSeq(k, 1, i)[j] = k[j]
  <1>1. i \in Int /\ \A j \in 1..i : k[j] \in Segments
    BY DEF Keys
  <1>2. /\ SubSeq(k, 1, i) \in Seq(Segments)
        /\ Len(SubSeq(k, 1, i)) = IF 1 <= i THEN i - 1 + 1 ELSE 0
        /\ \A j \in 1..(i - 1 + 1) : SubSeq(k, 1, i)[j] = k[1 + j - 1]
    BY <1>1, SubSeqProperties
  <1>3. i \in Nat /\ i - 1 + 1 = i
    BY DEF Keys
  <1>4. \A j \in 1..i : 1 + j - 1 = j
    OBVIOUS
  <1>5. Len(SubSeq(k, 1, i)) = i
    BY <1>2, <1>3
  <1>6. QED BY <1>2, <1>3, <1>4, <1>5 DEF Keys

(* The marker of a folder lies in the folder above it.                     *)
LEMMA MarkerAbove ==
    ASSUME NEW k \in Keys, NEW i \in 1..Len(k)
    PROVE  Row(SubSeq(k, 1, i), TRUE).path = SubSeq(k, 1, i - 1)
  <1> DEFINE p == SubSeq(k, 1, i)
             q == SubSeq(k, 1, i - 1)
  <1>1. i \in Nat /\ Len(k) \in Nat /\ i \in 0..Len(k) /\ i - 1 \in 0..Len(k)
    BY DEF Keys
  <1>2. p \in Keys /\ Len(p) = i /\ \A j \in 1..i : p[j] = k[j]
    BY <1>1, AncestorIs
  <1>3. q \in Keys /\ Len(q) = i - 1 /\ \A j \in 1..(i - 1) : q[j] = k[j]
    BY <1>1, AncestorIs
  <1> HIDE DEF p, q
  <1>4. p # <<>>
    BY <1>1, <1>2
  <1>5. /\ PathWithoutKey(p) \in Keys /\ Len(PathWithoutKey(p)) = i - 1
        /\ \A j \in 1..(i - 1) : PathWithoutKey(p)[j] = p[j]
    BY <1>2, <1>4, SplitKey
  <1>6. \A j \in 1..(i - 1) : PathWithoutKey(p)[j] = q[j]
    BY <1>1, <1>2, <1>3, <1>5
  <1>7. PathWithoutKey(p) = q
    BY <1>3, <1>5, <1>6, SeqEqual DEF Keys
  <1>8. QED BY <1>7 DEF Row, p, q

(* A marker names its folder.                                              *)
LEMMA KeyOfRow ==
    ASSUME NEW k \in Keys, k # <<>>, NEW d
    PROVE  KeyOf(Row(k, d)) = k
  <1> DEFINE f == PathWithoutKey(k)
             b == BaseKey(k)
             n == Len(k) - 1
  <1>1. /\ f \in Seq(Segments) /\ b \in Segments /\ Len(f) = n
        /\ \A i \in 1..n : f[i] = k[i]
    BY SplitKey DEF Keys
  <1>2. n \in Nat /\ Len(k) = n + 1 /\ b = k[n + 1] /\ k \in Seq(Segments)
    BY DEF Keys, BaseKey
  <1> HIDE DEF f, b, n
  <1>3. /\ Append(f, b) \in Seq(Segments) /\ Len(Append(f, b)) = n + 1
        /\ \A i \in 1..n : Append(f, b)[i] = f[i]
        /\ Append(f, b)[n + 1] = b
    BY <1>1, AppendProperties
  <1>4. \A i \in 1..(n + 1) : Append(f, b)[i] = k[i]
    <2>1. \A i \in 1..(n + 1) : i \in 1..n \/ i = n + 1
      BY <1>2
    <2>2. QED BY <1>1, <1>2, <1>3, <2>1
  <1>5. Append(f, b) = k
    BY <1>2, <1>3, <1>4, SeqEqual
  <1>6. QED BY <1>5 DEF KeyOf, Concat, Row, f, b

\* The folders above a row: i segments of its path.
Ancestor(r, i) == SubSeq(r.path, 1, i)
Marker(r, i) == Row(Ancestor(r, i), TRUE)

LEMMA AncestorFacts ==
    ASSUME NEW r \in Items, NEW i \in 0..Len(r.path)
    PROVE  /\ Ancestor(r, i) \in Keys /\ Len(Ancestor(r, i)) = i
           /\ i > 0 => /\ Marker(r, i) \in Items /\ Marker(r, i).dir = TRUE
                       /\ Marker(r, i).path = Ancestor(r, i - 1)
                       /\ KeyOf(Marker(r, i)) = Ancestor(r, i)
  <1>1. r.path \in Keys /\ i \in Nat /\ Len(r.path) \in Nat
    BY DEF Items, Keys
  <1>2. Ancestor(r, i) \in Keys /\ Len(Ancestor(r, i)) = i
    BY <1>1, AncestorIs DEF Ancestor
  <1>3. ASSUME i > 0
        PROVE  /\ Marker(r, i) \in Items /\ Marker(r, i).dir = TRUE
               /\ Marker(r, i).path = Ancestor(r, i - 1)
               /\ KeyOf(Marker(r, i)) = Ancestor(r, i)
    <2>1. Ancestor(r, i) # <<>> /\ i \in 1..Len(r.path)
      BY <1>1, <1>2, <1>3
    <2>2. Marker(r, i).path = Ancestor(r, i - 1)
      BY <1>1, <2>1, MarkerAbove DEF Marker, Ancestor
    <2>3. Marker(r, i) \in Items /\ KeyOf(Marker(r, i)) = Ancestor(r, i)
      BY <1>2, <2>1, RowType, KeyOfRow DEF Marker
    <2>4. Marker(r, i).dir = TRUE
      BY DEF Marker, Row
    <2>5. QED BY <2>2, <2>3, <2>4
  <1>4. QED BY <1>2, <1>3

\* The requests of a batch that are still to be done.
Pending(c) == requests[c] \cup unprocessed[c]

(***************************************************************************)
(* Where calls are.  Rows that are put are named by a segment, unlike the  *)
(* root item of a Delete of everything.                                    *)
(***************************************************************************)
WorkInv ==
    /\ \A c \in Calls :
          /\ phase[c] # "error" /\ failed[c] = {}
          /\ phase[c] \in {"put", "written"} => \A d \in Calls : phase[d] \in {"idle", "put", "written"}
          /\ phase[c] \notin {"page", "level"} => frontier[c] = {} /\ current[c] = {}
          /\ phase[c] \notin {"put", "root", "level"} => requests[c] = {} /\ unprocessed[c] = {}
          /\ phase[c] = "put" => \A r \in Pending(c) : r.name \in Segments
    /\ \A r \in table : r.name \in Segments

(* The leaf of a key that is put has the markers above it in its batch.    *)
LEMMA PutTogether ==
    ASSUME Unambiguous, NEW batch \in Batches,
           NEW ks, ks = [i \in DOMAIN batch |-> sanitize(batch[i])],
           NEW r \in putRequests(ks)
    PROVE  /\ r.name \in Segments
           /\ ~r.dir => \A i \in 1..Len(r.path) : Marker(r, i) \in putRequests(ks)
  <1>1. batch \in Seq(Keys \ {<<>>}) /\ DOMAIN ks = DOMAIN batch
    BY IndexAssumption
  <1>2. \A i \in DOMAIN ks : ks[i] \in Keys /\ ks[i] # <<>>
    BY <1>1, SanitizeType
  <1>3. CASE r \in uniqueMarkers(ks)
    <2>1. PICK i \in DOMAIN ks : r \in Markers(ks[i])
      BY <1>3 DEF uniqueMarkers
    <2>2. PICK p \in Prefixes(ks[i]) : r = Row(p, TRUE)
      BY <2>1 DEF Markers
    <2>3. p \in Keys /\ p # <<>>
      BY <1>2, PrefixesAreKeys
    <2>4. r.name = BaseKey(p) /\ r.dir = TRUE
      BY <2>2 DEF Row
    <2>5. QED BY <2>3, <2>4, SplitKey
  <1>4. CASE \E i \in DOMAIN ks : r = Leaf(ks[i])
    <2>1. PICK i \in DOMAIN ks : r = Leaf(ks[i])
      BY <1>4
    <2> DEFINE k == ks[i]
    <2>2. k \in Keys /\ k # <<>> /\ Markers(k) \subseteq putRequests(ks)
      BY <1>2, MarkersPut
    <2>3. r.path = PathWithoutKey(k) /\ r.name = BaseKey(k)
      BY <2>1 DEF Leaf, Row
    <2> HIDE DEF k
    <2>4. /\ r.path \in Keys /\ r.name \in Segments /\ Len(r.path) = Len(k) - 1
          /\ \A j \in 1..(Len(k) - 1) : r.path[j] = k[j]
      BY <2>2, <2>3, SplitKey
    <2>5. ASSUME NEW j \in 1..Len(r.path)
          PROVE  Marker(r, j) \in putRequests(ks)
      <3>1. Len(k) \in Nat /\ j \in 1..(Len(k) - 1) /\ j \in 0..Len(k) /\ j \in 0..Len(r.path) /\ j \in Nat
        BY <2>2, <2>4 DEF Keys
      <3>2. SubSeq(k, 1, j) \in Keys /\ Len(SubSeq(k, 1, j)) = j /\ \A h \in 1..j : SubSeq(k, 1, j)[h] = k[h]
        BY <2>2, <3>1, AncestorIs
      <3>3. /\ SubSeq(r.path, 1, j) \in Keys /\ Len(SubSeq(r.path, 1, j)) = j
            /\ \A h \in 1..j : SubSeq(r.path, 1, j)[h] = r.path[h]
        BY <2>4, <3>1, AncestorIs
      <3>4. \A h \in 1..j : SubSeq(r.path, 1, j)[h] = SubSeq(k, 1, j)[h]
        BY <2>4, <3>1, <3>2, <3>3
      <3>5. SubSeq(r.path, 1, j) = SubSeq(k, 1, j)
        BY <3>2, <3>3, <3>4, SeqEqual DEF Keys
      <3>6. Marker(r, j) \in Markers(k)
        BY <3>1, <3>5 DEF Marker, Ancestor, Markers, Prefixes
      <3>7. QED BY <2>2, <3>6
    <2>6. QED BY <2>4, <2>5
  <1>5. QED BY <1>3, <1>4 DEF putRequests
(* What may happen when nothing fails and reads do not lag.                *)
LEMMA CalmSteps ==
    ASSUME Calm, TypeOK, [Next]_vars
    PROVE  \/ \E c \in Calls, batch \in Batches : Upsert(c, batch)
           \/ \E c \in Calls, t \in Targets : Delete(c, t)
           \/ \E c \in Calls : NextChunk(c)
           \/ \E c \in Calls : BatchWriteItem(c)
           \/ \E c \in Calls : UpsertReturn(c)
           \/ \E c \in Calls : RootDone(c)
           \/ \E c \in Calls : OpenFolder(c)
           \/ \E c \in Calls : QueryPage(c)
           \/ \E c \in Calls : PageDone(c)
           \/ \E c \in Calls : DeleteReturn(c)
           \/ \E c \in Calls : phase[c] \in Returned /\ Forget(c)
           \/ UNCHANGED vars
  BY DEF Next, Step, Reply, Crash, GiveUp, QueryFails, Replicate, Calm

(* An attempt does all that is left of its chunk.                          *)
LEMMA CalmWrite ==
    ASSUME Calm, TypeOK, NEW c \in Calls, BatchWriteItem(c)
    PROVE  /\ phase[c] \in {"put", "root", "level"}
           /\ unprocessed' = [unprocessed EXCEPT ![c] = {}]
           /\ table' = IF phase[c] = "put" THEN table \cup unprocessed[c] ELSE table \ unprocessed[c]
           /\ UNCHANGED <<replica, phase, keys, target, requests, failed, frontier, current, unread>>
  <1>1. PICK done \in SUBSET unprocessed[c], answered \in BOOLEAN :
          /\ done = unprocessed[c] /\ answered
          /\ unprocessed' = [unprocessed EXCEPT ![c] = IF answered THEN @ \ done ELSE @]
          /\ table' = IF phase[c] = "put" THEN table \cup done ELSE table \ done
    BY DEF BatchWriteItem, Calm
  <1>2. unprocessed' = [unprocessed EXCEPT ![c] = {}]
    BY <1>1
  <1>3. QED BY <1>1, <1>2 DEF BatchWriteItem, InBatch, walkVars

(* A page is a part of a folder.                                           *)
LEMMA CalmPage ==
    ASSUME Calm, TypeOK, NEW c \in Calls, QueryPage(c)
    PROVE  \E p \in current[c], read \in SUBSET unread[c] :
              LET page == {r \in table : r.path = p /\ <<r.name, r.dir>> \in read}
              IN  /\ requests' = [requests EXCEPT ![c] = page]
                  /\ frontier' = [frontier EXCEPT ![c] = @ \cup childFolders(page)]
                  /\ unread' = [unread EXCEPT ![c] = @ \ read]
                  /\ phase[c] = "page" /\ phase' = [phase EXCEPT ![c] = "level"]
                  /\ UNCHANGED <<table, target, unprocessed, failed, current>>
  BY DEF QueryPage, Calm

LEMMA WorkStep == Calm /\ TypeOK /\ WorkInv /\ [Next]_vars => WorkInv'
  <1> SUFFICES ASSUME Calm, TypeOK, WorkInv, [Next]_vars PROVE WorkInv'
    OBVIOUS
  <1>0. /\ phase \in [Calls -> {"idle"} \cup Writing \cup Deleting \cup Returned]
        /\ requests \in [Calls -> SUBSET Items] /\ unprocessed \in [Calls -> SUBSET Items]
        /\ failed \in [Calls -> SUBSET Items]
        /\ frontier \in [Calls -> SUBSET Keys] /\ current \in [Calls -> SUBSET Keys]
    BY DEF TypeOK
  <1>phases. {"idle"} \cup Writing \cup Deleting \cup Returned
               = {"idle", "put", "root", "page", "level", "written", "deleted", "error"}
    BY DEF Writing, Deleting, Returned
  <1> USE DEF WorkInv, Pending
  <1>1. ASSUME NEW c \in Calls, NEW batch \in Batches, Upsert(c, batch)
        PROVE  WorkInv'
    <2> DEFINE ks == [i \in DOMAIN batch |-> sanitize(batch[i])]
    <2>1. \A r \in putRequests(ks) : r.name \in Segments
      BY PutTogether DEF Calm
    <2> HIDE DEF ks
    <2>2. /\ phase[c] = "idle" /\ phase' = [phase EXCEPT ![c] = "put"]
          /\ requests' = [requests EXCEPT ![c] = putRequests(ks)]
          /\ UNCHANGED <<table, unprocessed, failed, frontier, current>>
      BY <1>1 DEF Upsert, ks, walkVars
    <2>3. \A d \in Calls : phase[d] \notin {"root", "page", "level", "deleted"}
      BY <1>1 DEF Upsert, InFlight, Deleting, Calm
    <2>4. \A d \in Calls : phase[d] \in {"idle", "put", "written"}
      BY <1>0, <1>phases, <2>3
    <2>5. /\ phase'[c] = "put" /\ requests'[c] = putRequests(ks) /\ unprocessed'[c] = {}
          /\ \A d \in Calls \ {c} : phase'[d] = phase[d] /\ requests'[d] = requests[d]
      BY <1>0, <2>2
    <2>6. QED BY <2>1, <2>2, <2>4, <2>5
  <1>2. ASSUME NEW c \in Calls, NEW t \in Targets, Delete(c, t)
        PROVE  WorkInv'
    <2>1. /\ phase[c] = "idle" /\ phase' = [phase EXCEPT ![c] = "root"]
          /\ requests' = [requests EXCEPT ![c] = {rootItem(t)}]
          /\ UNCHANGED <<table, unprocessed, failed, frontier, current>>
      BY <1>2 DEF Delete, walkVars
    <2>2. \A d \in Calls : phase[d] \notin {"put", "written"}
      BY <1>2 DEF Delete, InFlight, Writing, Calm
    <2>3. /\ phase'[c] = "root"
          /\ \A d \in Calls \ {c} : phase'[d] = phase[d] /\ requests'[d] = requests[d]
      BY <1>0, <2>1
    <2>4. QED BY <2>1, <2>2, <2>3
  <1>3. ASSUME NEW c \in Calls, NextChunk(c)
        PROVE  WorkInv'
    <2>1. PICK chunk \in SUBSET requests[c] :
            /\ unprocessed' = [unprocessed EXCEPT ![c] = chunk]
            /\ requests' = [requests EXCEPT ![c] = @ \ chunk]
      BY <1>3 DEF NextChunk
    <2>2. UNCHANGED <<table, phase, failed, frontier, current>> /\ phase[c] \in {"put", "root", "level"}
      BY <1>3 DEF NextChunk, InBatch, walkVars
    <2>3. /\ Pending(c)' \subseteq Pending(c)
          /\ \A d \in Calls \ {c} : requests'[d] = requests[d] /\ unprocessed'[d] = unprocessed[d]
      BY <1>0, <2>1
    <2>4. QED BY <2>2, <2>3
  <1>4. ASSUME NEW c \in Calls, BatchWriteItem(c)
        PROVE  WorkInv'
    <2>1. /\ phase[c] \in {"put", "root", "level"}
          /\ unprocessed' = [unprocessed EXCEPT ![c] = {}]
          /\ table' = IF phase[c] = "put" THEN table \cup unprocessed[c] ELSE table \ unprocessed[c]
          /\ UNCHANGED <<phase, requests, failed, frontier, current>>
      BY <1>4, CalmWrite
    <2>2. \A d \in Calls : unprocessed'[d] \subseteq unprocessed[d]
      BY <1>0, <2>1
    <2>3. \A r \in table' : r.name \in Segments
      BY <2>1
    <2>4. QED BY <2>1, <2>2, <2>3
  <1>5. ASSUME NEW c \in Calls, UpsertReturn(c)
        PROVE  WorkInv'
    <2>1. /\ phase[c] = "put" /\ phase' = [phase EXCEPT ![c] = "written"]
          /\ requests[c] = {} /\ unprocessed[c] = {}
          /\ UNCHANGED <<table, requests, unprocessed, failed, frontier, current>>
      BY <1>5 DEF UpsertReturn, BatchDone, batchVars, walkVars
    <2>2. QED BY <1>0, <2>1
  <1>6. ASSUME NEW c \in Calls, RootDone(c)
        PROVE  WorkInv'
    <2>1. /\ phase[c] = "root" /\ phase' = [phase EXCEPT ![c] = "page"]
          /\ requests[c] = {} /\ unprocessed[c] = {}
          /\ frontier' = [frontier EXCEPT ![c] = {target[c].key}]
          /\ UNCHANGED <<table, requests, unprocessed, failed, current>>
      BY <1>6 DEF RootDone, BatchDone, batchVars
    <2>2. QED BY <1>0, <2>1
  <1>7. ASSUME NEW c \in Calls, OpenFolder(c)
        PROVE  WorkInv'
    <2>1. PICK p : current' = [current EXCEPT ![c] = {p}]
      BY <1>7 DEF OpenFolder
    <2>2. phase[c] = "page" /\ UNCHANGED <<table, phase, requests, unprocessed, failed, frontier>>
      BY <1>7 DEF OpenFolder, batchVars
    <2>3. QED BY <1>0, <2>1, <2>2
  <1>8. ASSUME NEW c \in Calls, QueryPage(c)
        PROVE  WorkInv'
    <2>1. PICK page : 
            /\ requests' = [requests EXCEPT ![c] = page]
            /\ frontier' = [frontier EXCEPT ![c] = @ \cup childFolders(page)]
            /\ phase[c] = "page" /\ phase' = [phase EXCEPT ![c] = "level"]
            /\ UNCHANGED <<table, unprocessed, failed, current>>
      BY <1>8, CalmPage
    <2>2. phase'[c] = "level"
          /\ \A d \in Calls \ {c} : phase'[d] = phase[d] /\ requests'[d] = requests[d] /\ frontier'[d] = frontier[d]
      BY <1>0, <2>1
    <2>3. QED BY <2>1, <2>2
  <1>9. ASSUME NEW c \in Calls, PageDone(c)
        PROVE  WorkInv'
    <2>1. /\ phase[c] = "level" /\ phase' = [phase EXCEPT ![c] = "page"]
          /\ requests[c] = {} /\ unprocessed[c] = {}
          /\ UNCHANGED <<table, requests, unprocessed, failed>>
          /\ \A d \in Calls \ {c} : frontier'[d] = frontier[d] /\ current'[d] = current[d]
      BY <1>0, <1>9 DEF PageDone, BatchDone, batchVars
    <2>2. phase'[c] = "page" /\ \A d \in Calls \ {c} : phase'[d] = phase[d]
      BY <1>0, <2>1
    <2>3. QED BY <2>1, <2>2
  <1>10. ASSUME NEW c \in Calls, DeleteReturn(c)
         PROVE  WorkInv'
    <2>1. /\ phase[c] = "page" /\ phase' = [phase EXCEPT ![c] = "deleted"]
          /\ frontier[c] = {} /\ current[c] = {}
          /\ UNCHANGED <<table, requests, unprocessed, failed, frontier, current>>
      BY <1>10 DEF DeleteReturn, batchVars, walkVars
    <2>2. QED BY <1>0, <2>1
  <1>11. ASSUME NEW c \in Calls, Forget(c)
         PROVE  WorkInv'
    <2>1. /\ phase'[c] = "idle" /\ requests'[c] = {} /\ unprocessed'[c] = {} /\ failed'[c] = {}
          /\ frontier'[c] = {} /\ current'[c] = {} /\ table' = table
          /\ \A d \in Calls \ {c} :
                /\ phase'[d] = phase[d] /\ requests'[d] = requests[d] /\ unprocessed'[d] = unprocessed[d]
                /\ failed'[d] = failed[d] /\ frontier'[d] = frontier[d] /\ current'[d] = current[d]
      BY <1>0, <1>11 DEF Forget
    <2>2. QED BY <2>1
  <1>12. CASE UNCHANGED vars
    BY <1>12 DEF vars, batchVars, walkVars
  <1>13. QED
    BY <1>1, <1>2, <1>3, <1>4, <1>5, <1>6, <1>7, <1>8, <1>9, <1>10, <1>11, <1>12, CalmSteps
(***************************************************************************)
(* The tree.  A leaf is put in a batch that has its markers; the folder a  *)
(* Delete reads has only rows it has yet to read or to delete; the markers *)
(* it deletes name folders it has yet to visit; and of each leaf a marker  *)
(* that is missing is about to be put, or a folder there or further down   *)
(* is about to be visited.                                                 *)
(***************************************************************************)
PutTree ==
    \A c \in Calls : phase[c] = "put" =>
        \A r \in Pending(c) : ~r.dir =>
            \A i \in 1..Len(r.path) : Marker(r, i) \in Pending(c) \cup table

Folders ==
    \A c \in Calls :
        /\ \A p, q \in current[c] : p = q
        /\ \A p \in current[c], r \in table :
              r.path = p => <<r.name, r.dir>> \in unread[c] \/ r \in Pending(c)
        /\ phase[c] \in {"root", "level"} =>
              \A r \in Pending(c) : r.dir => KeyOf(r) \in frontier[c]

Awaited(r, i) ==
    \/ \E c \in Calls : phase[c] = "put" /\ Marker(r, i) \in Pending(c)
    \/ \E j \in i..Len(r.path) :
          Marker(r, j) \notin table /\ \E c \in Calls : Ancestor(r, j) \in frontier[c]

Owned ==
    \A r \in table : ~r.dir =>
        \A i \in 1..Len(r.path) : Marker(r, i) \notin table => Awaited(r, i)

LEMMA PutTreeStep == Calm /\ TypeOK /\ WorkInv /\ PutTree /\ [Next]_vars => PutTree'
  <1> SUFFICES ASSUME Calm, TypeOK, WorkInv, PutTree, [Next]_vars PROVE PutTree'
    OBVIOUS
  <1>0. /\ phase \in [Calls -> {"idle"} \cup Writing \cup Deleting \cup Returned]
        /\ requests \in [Calls -> SUBSET Items] /\ unprocessed \in [Calls -> SUBSET Items]
    BY DEF TypeOK
  <1>a. ASSUME NEW c \in Calls, table' = table, phase'[c] # "put",
               \A d \in Calls \ {c} : phase'[d] = phase[d] /\ requests'[d] = requests[d] /\ unprocessed'[d] = unprocessed[d]
        PROVE  PutTree'
    BY <1>a DEF PutTree, Pending, Marker, Ancestor, Row
  <1>b. ASSUME NEW c \in Calls, table' = table, phase' = phase, Pending(c)' = Pending(c),
               \A d \in Calls \ {c} : requests'[d] = requests[d] /\ unprocessed'[d] = unprocessed[d]
        PROVE  PutTree'
    BY <1>b DEF PutTree, Pending, Marker, Ancestor, Row
  <1>1. ASSUME NEW c \in Calls, NEW batch \in Batches, Upsert(c, batch)
        PROVE  PutTree'
    <2> DEFINE ks == [i \in DOMAIN batch |-> sanitize(batch[i])]
    <2>1. \A r \in putRequests(ks) : ~r.dir => \A i \in 1..Len(r.path) : Marker(r, i) \in putRequests(ks)
      BY PutTogether DEF Calm
    <2> HIDE DEF ks
    <2>2. /\ phase[c] = "idle" /\ phase' = [phase EXCEPT ![c] = "put"]
          /\ requests' = [requests EXCEPT ![c] = putRequests(ks)]
          /\ UNCHANGED <<table, unprocessed>>
      BY <1>1 DEF Upsert, ks, walkVars
    <2>3. /\ requests'[c] = putRequests(ks) /\ unprocessed'[c] = {}
          /\ \A d \in Calls \ {c} : phase'[d] = phase[d] /\ requests'[d] = requests[d]
      BY <1>0, <2>2 DEF WorkInv
    <2>4. Pending(c)' = putRequests(ks)
      BY <2>3 DEF Pending
    <2>5. \A d \in Calls \ {c} : Pending(d)' = Pending(d)
      BY <2>2, <2>3 DEF Pending
    <2> SUFFICES ASSUME NEW d \in Calls, phase'[d] = "put", NEW r \in Pending(d)', ~r.dir, NEW i \in 1..Len(r.path)
                 PROVE  Marker(r, i) \in Pending(d)' \cup table'
      BY DEF PutTree, Marker, Ancestor, Row
    <2>6. CASE d = c
      BY <2>1, <2>4, <2>6
    <2>7. CASE d # c
      BY <2>2, <2>3, <2>5, <2>7 DEF PutTree
    <2>8. QED BY <2>6, <2>7
  <1>2. ASSUME NEW c \in Calls, NEW t \in Targets, Delete(c, t)
        PROVE  PutTree'
    <2>1. /\ phase' = [phase EXCEPT ![c] = "root"] /\ requests' = [requests EXCEPT ![c] = {rootItem(t)}]
          /\ UNCHANGED <<table, unprocessed>>
      BY <1>2 DEF Delete, walkVars
    <2>2. QED BY <1>0, <1>a, <2>1
  <1>3. ASSUME NEW c \in Calls, NextChunk(c)
        PROVE  PutTree'
    <2>1. PICK chunk \in SUBSET requests[c] :
            /\ unprocessed' = [unprocessed EXCEPT ![c] = chunk]
            /\ requests' = [requests EXCEPT ![c] = @ \ chunk]
      BY <1>3 DEF NextChunk
    <2>2. UNCHANGED <<table, phase>> /\ unprocessed[c] = {}
      BY <1>3 DEF NextChunk
    <2>3. /\ Pending(c)' = Pending(c)
          /\ \A d \in Calls \ {c} : requests'[d] = requests[d] /\ unprocessed'[d] = unprocessed[d]
      BY <1>0, <2>1, <2>2 DEF Pending
    <2>4. QED BY <1>b, <2>2, <2>3
  <1>4. ASSUME NEW c \in Calls, BatchWriteItem(c)
        PROVE  PutTree'
    <2>1. /\ phase[c] \in {"put", "root", "level"}
          /\ unprocessed' = [unprocessed EXCEPT ![c] = {}]
          /\ table' = IF phase[c] = "put" THEN table \cup unprocessed[c] ELSE table \ unprocessed[c]
          /\ UNCHANGED <<phase, requests>>
      BY <1>4, CalmWrite
    <2>2. CASE phase[c] = "put"
      <3>1. /\ table \subseteq table' /\ Pending(c) \cup table \subseteq Pending(c)' \cup table' /\ Pending(c)' \subseteq Pending(c)
            /\ \A d \in Calls \ {c} : Pending(d)' = Pending(d)
        BY <1>0, <2>1, <2>2 DEF Pending
      <3> SUFFICES ASSUME NEW d \in Calls, phase[d] = "put", NEW r \in Pending(d)', ~r.dir, NEW i \in 1..Len(r.path)
                   PROVE  Marker(r, i) \in Pending(d)' \cup table'
        BY <2>1 DEF PutTree, Marker, Ancestor, Row
      <3>2. Marker(r, i) \in Pending(d) \cup table
        BY <3>1 DEF PutTree
      <3>3. QED BY <3>1, <3>2
    <2>3. CASE phase[c] # "put"
      <3>1. \A d \in Calls : phase'[d] # "put"
        BY <2>1, <2>3 DEF WorkInv
      <3>2. QED BY <3>1 DEF PutTree
    <2>4. QED BY <2>2, <2>3
  <1>5. ASSUME NEW c \in Calls, UpsertReturn(c) \/ DeleteReturn(c)
        PROVE  PutTree'
    <2>1. /\ phase' = [phase EXCEPT ![c] = "written"] \/ phase' = [phase EXCEPT ![c] = "deleted"]
          /\ UNCHANGED <<table, requests, unprocessed>>
      BY <1>5 DEF UpsertReturn, DeleteReturn, batchVars
    <2>2. QED BY <1>0, <1>a, <2>1
  <1>6. ASSUME NEW c \in Calls, RootDone(c) \/ PageDone(c)
        PROVE  PutTree'
    <2>1. phase' = [phase EXCEPT ![c] = "error"] \/ phase' = [phase EXCEPT ![c] = "page"]
      BY <1>6 DEF RootDone, PageDone
    <2>2. UNCHANGED <<table, requests, unprocessed>>
      BY <1>6 DEF RootDone, PageDone, batchVars
    <2>3. QED BY <1>0, <1>a, <2>1, <2>2
  <1>7. ASSUME NEW c \in Calls, OpenFolder(c)
        PROVE  PutTree'
    <2>1. UNCHANGED <<table, phase, requests, unprocessed>>
      BY <1>7 DEF OpenFolder, batchVars
    <2>2. QED BY <1>b, <2>1 DEF Pending
  <1>8. ASSUME NEW c \in Calls, QueryPage(c)
        PROVE  PutTree'
    <2>1. PICK page : 
            /\ requests' = [requests EXCEPT ![c] = page]
            /\ phase' = [phase EXCEPT ![c] = "level"] /\ UNCHANGED <<table, unprocessed>>
      BY <1>8, CalmPage
    <2>2. QED BY <1>0, <1>a, <2>1
  <1>9. ASSUME NEW c \in Calls, Forget(c)
        PROVE  PutTree'
    <2>1. /\ phase' = [phase EXCEPT ![c] = "idle"] /\ requests' = [requests EXCEPT ![c] = {}]
          /\ unprocessed' = [unprocessed EXCEPT ![c] = {}] /\ table' = table
      BY <1>9 DEF Forget
    <2>2. QED BY <1>0, <1>a, <2>1
  <1>10. CASE UNCHANGED vars
    BY <1>10 DEF vars, batchVars, PutTree, Pending, Marker, Ancestor, Row
  <1>11. QED
    BY <1>1, <1>2, <1>3, <1>4, <1>5, <1>6, <1>7, <1>8, <1>9, <1>10, CalmSteps

LEMMA FoldersStep == Calm /\ TypeOK /\ WorkInv /\ Folders /\ [Next]_vars => Folders'
  <1> SUFFICES ASSUME Calm, TypeOK, WorkInv, Folders, [Next]_vars PROVE Folders'
    OBVIOUS
  <1>0. /\ phase \in [Calls -> {"idle"} \cup Writing \cup Deleting \cup Returned]
        /\ requests \in [Calls -> SUBSET Items] /\ unprocessed \in [Calls -> SUBSET Items]
        /\ frontier \in [Calls -> SUBSET Keys] /\ current \in [Calls -> SUBSET Keys]
        /\ unread \in [Calls -> SUBSET (Segments \X BOOLEAN)] /\ table \subseteq Items
    BY DEF TypeOK
  \* A step of c that leaves the table alone.
  <1>a. ASSUME NEW c \in Calls, table' = table,
               \A d \in Calls \ {c} :
                  /\ phase'[d] = phase[d] /\ requests'[d] = requests[d] /\ unprocessed'[d] = unprocessed[d]
                  /\ frontier'[d] = frontier[d] /\ current'[d] = current[d] /\ unread'[d] = unread[d],
               \A p, q \in current'[c] : p = q,
               \A p \in current'[c], r \in table : r.path = p => <<r.name, r.dir>> \in unread'[c] \/ r \in Pending(c)',
               phase'[c] \in {"root", "level"} => \A r \in Pending(c)' : r.dir => KeyOf(r) \in frontier'[c]
        PROVE  Folders'
    BY <1>a DEF Folders, Pending, KeyOf, Concat
  <1>1. ASSUME NEW c \in Calls, NEW batch \in Batches, Upsert(c, batch)
        PROVE  Folders'
    <2>1. PICK ks :
          /\ phase[c] = "idle" /\ phase' = [phase EXCEPT ![c] = "put"]
          /\ requests' = [requests EXCEPT ![c] = putRequests(ks)]
          /\ UNCHANGED <<table, unprocessed, frontier, current, unread>>
      BY <1>1 DEF Upsert, walkVars
    <2>2. phase'[c] = "put" /\ current'[c] = {}
      BY <1>0, <2>1 DEF WorkInv
    <2>3. QED BY <1>0, <1>a, <2>1, <2>2
  <1>2. ASSUME NEW c \in Calls, NEW t \in Targets, Delete(c, t)
        PROVE  Folders'
    <2>1. /\ phase[c] = "idle" /\ phase' = [phase EXCEPT ![c] = "root"]
          /\ requests' = [requests EXCEPT ![c] = {rootItem(t)}]
          /\ UNCHANGED <<table, unprocessed, frontier, current, unread>>
      BY <1>2 DEF Delete, walkVars
    <2>2. current'[c] = {} /\ Pending(c)' = {rootItem(t)} /\ ~rootItem(t).dir
      BY <1>0, <2>1 DEF WorkInv, Pending, rootItem
    <2>3. QED BY <1>0, <1>a, <2>1, <2>2
  <1>3. ASSUME NEW c \in Calls, NextChunk(c)
        PROVE  Folders'
    <2>1. PICK chunk \in SUBSET requests[c] :
            /\ unprocessed' = [unprocessed EXCEPT ![c] = chunk]
            /\ requests' = [requests EXCEPT ![c] = @ \ chunk]
      BY <1>3 DEF NextChunk
    <2>2. UNCHANGED <<table, phase, frontier, current, unread>> /\ unprocessed[c] = {}
      BY <1>3 DEF NextChunk, walkVars
    <2>3. /\ Pending(c)' = Pending(c)
          /\ \A d \in Calls \ {c} : requests'[d] = requests[d] /\ unprocessed'[d] = unprocessed[d]
      BY <1>0, <2>1, <2>2 DEF Pending
    <2>4. QED BY <1>a, <2>2, <2>3 DEF Folders
  <1>4. ASSUME NEW c \in Calls, BatchWriteItem(c)
        PROVE  Folders'
    <2>1. /\ phase[c] \in {"put", "root", "level"}
          /\ unprocessed' = [unprocessed EXCEPT ![c] = {}]
          /\ table' = IF phase[c] = "put" THEN table \cup unprocessed[c] ELSE table \ unprocessed[c]
          /\ UNCHANGED <<phase, requests, frontier, current, unread>>
      BY <1>4, CalmWrite
    <2>2. /\ Pending(c)' \subseteq Pending(c) /\ Pending(c) \ Pending(c)' \subseteq unprocessed[c]
          /\ \A d \in Calls \ {c} : Pending(d)' = Pending(d)
      BY <1>0, <2>1 DEF Pending
    <2>3. ASSUME NEW d \in Calls, NEW p \in current'[d], NEW r \in table', r.path = p
          PROVE  <<r.name, r.dir>> \in unread'[d] \/ r \in Pending(d)'
      <3>1. phase[c] # "put"
        BY <2>1 DEF WorkInv
      <3>2. r \in table /\ r \notin unprocessed[c]
        BY <2>1, <3>1
      <3>3. <<r.name, r.dir>> \in unread[d] \/ r \in Pending(d)
        BY <2>1, <2>3, <3>2 DEF Folders
      <3>4. QED BY <2>1, <2>2, <3>2, <3>3
    <2>4. ASSUME NEW d \in Calls, phase'[d] \in {"root", "level"}, NEW r \in Pending(d)', r.dir
          PROVE  KeyOf(r) \in frontier'[d]
      <3>1. r \in Pending(d)
        BY <2>2
      <3>2. QED BY <2>1, <2>4, <3>1 DEF Folders
    <2>5. \A d \in Calls : \A p, q \in current'[d] : p = q
      BY <2>1 DEF Folders
    <2>6. QED BY <2>3, <2>4, <2>5 DEF Folders, KeyOf, Concat
  <1>5. ASSUME NEW c \in Calls, UpsertReturn(c) \/ DeleteReturn(c)
        PROVE  Folders'
    <2>1. /\ phase' = [phase EXCEPT ![c] = "written"] \/ phase' = [phase EXCEPT ![c] = "deleted"]
          /\ UNCHANGED <<table, requests, unprocessed, frontier, current, unread>>
      BY <1>5 DEF UpsertReturn, DeleteReturn, batchVars, walkVars
    <2>2. phase'[c] \notin {"root", "level"} /\ Pending(c)' = Pending(c)
      BY <1>0, <2>1 DEF Pending
    <2>3. QED BY <1>0, <1>a, <2>1, <2>2 DEF Folders
  <1>6. ASSUME NEW c \in Calls, RootDone(c) \/ PageDone(c)
        PROVE  Folders'
    <2>1. phase' = [phase EXCEPT ![c] = "page"] /\ UNCHANGED <<table, requests, unprocessed, unread>>
      BY <1>6 DEF RootDone, PageDone, batchVars, WorkInv
    <2>2. /\ current'[c] \subseteq current[c]
          /\ \A d \in Calls \ {c} : frontier'[d] = frontier[d] /\ current'[d] = current[d]
      BY <1>0, <1>6 DEF RootDone, PageDone
    <2>3. phase'[c] = "page" /\ Pending(c)' = Pending(c)
      BY <1>0, <2>1 DEF Pending
    <2>4. \A p, q \in current'[c] : p = q
      BY <2>2 DEF Folders
    <2>5. \A p \in current'[c], r \in table : r.path = p => <<r.name, r.dir>> \in unread'[c] \/ r \in Pending(c)'
      BY <2>1, <2>2, <2>3 DEF Folders
    <2>6. QED BY <1>0, <1>a, <2>1, <2>2, <2>3, <2>4, <2>5
  <1>7. ASSUME NEW c \in Calls, OpenFolder(c)
        PROVE  Folders'
    <2>1. PICK p : current' = [current EXCEPT ![c] = {p}]
      BY <1>7 DEF OpenFolder
    <2>2. /\ UNCHANGED <<table, phase, requests, unprocessed, frontier>> /\ phase[c] = "page"
          /\ unread' = [unread EXCEPT ![c] = Segments \X BOOLEAN]
      BY <1>7 DEF OpenFolder, batchVars
    <2>3. \A r \in table : <<r.name, r.dir>> \in unread'[c]
      BY <1>0, <2>2 DEF WorkInv, Items
    <2>4. phase'[c] = "page"
      BY <2>2
    <2>5. QED BY <1>0, <1>a, <2>1, <2>2, <2>3, <2>4
  <1>8. ASSUME NEW c \in Calls, QueryPage(c)
        PROVE  Folders'
    <2> DEFINE page(p, read) == {r \in table : r.path = p /\ <<r.name, r.dir>> \in read}
    <2>1. PICK p \in current[c], read \in SUBSET unread[c] :
              /\ requests' = [requests EXCEPT ![c] = page(p, read)]
              /\ frontier' = [frontier EXCEPT ![c] = @ \cup childFolders(page(p, read))]
              /\ unread' = [unread EXCEPT ![c] = @ \ read]
              /\ phase[c] = "page" /\ phase' = [phase EXCEPT ![c] = "level"]
              /\ UNCHANGED <<table, unprocessed, current>>
      BY <1>8, CalmPage
    <2> DEFINE rows == page(p, read)
    <2>2. current[c] = {p}
      BY <2>1 DEF Folders
    <2>3. \A r \in table : r.path = p => <<r.name, r.dir>> \in unread[c] \ read \/ r \in rows
      BY <2>1, <2>2 DEF Folders, Pending, WorkInv
    <2> HIDE DEF rows
    <2>4. requests'[c] = rows /\ unprocessed'[c] = {} /\ frontier'[c] = frontier[c] \cup childFolders(rows)
          /\ unread'[c] = unread[c] \ read
      BY <1>0, <2>1 DEF rows, WorkInv
    <2>5. Pending(c)' = rows
      BY <2>4 DEF Pending
    <2>6. \A r \in rows : r.dir => KeyOf(r) \in childFolders(rows)
      BY DEF childFolders
    <2>7. QED BY <1>0, <1>a, <2>1, <2>2, <2>3, <2>4, <2>5, <2>6
  <1>9. ASSUME NEW c \in Calls, Forget(c)
        PROVE  Folders'
    <2>1. /\ phase'[c] = "idle" /\ current'[c] = {} /\ table' = table
          /\ \A d \in Calls \ {c} :
                  /\ phase'[d] = phase[d] /\ requests'[d] = requests[d] /\ unprocessed'[d] = unprocessed[d]
                  /\ frontier'[d] = frontier[d] /\ current'[d] = current[d] /\ unread'[d] = unread[d]
      BY <1>0, <1>9 DEF Forget
    <2>2. QED BY <1>a, <2>1
  <1>10. CASE UNCHANGED vars
    BY <1>10 DEF vars, batchVars, walkVars, Folders, Pending, KeyOf, Concat
  <1>11. QED
    BY <1>1, <1>2, <1>3, <1>4, <1>5, <1>6, <1>7, <1>8, <1>9, <1>10, CalmSteps
LEMMA WholePath ==
    ASSUME NEW r \in Items
    PROVE  Ancestor(r, Len(r.path)) = r.path
  <1>1. r.path \in Keys /\ Len(r.path) \in 0..Len(r.path)
    BY DEF Items, Keys
  <1>2. /\ Ancestor(r, Len(r.path)) \in Keys /\ Len(Ancestor(r, Len(r.path))) = Len(r.path)
        /\ \A j \in 1..Len(r.path) : Ancestor(r, Len(r.path))[j] = r.path[j]
    BY <1>1, AncestorIs DEF Ancestor
  <1>3. QED BY <1>1, <1>2, SeqEqual DEF Keys

(* A folder that has been read to its end is empty: what lies below it     *)
(* lies in a folder whose marker is gone.                                  *)
LEMMA NextFolder ==
    ASSUME TypeOK, Folders, NEW c \in Calls, BatchDone(c), unread[c] = {},
           NEW r \in table, NEW j \in 0..Len(r.path), Ancestor(r, j) \in current[c]
    PROVE  j + 1 \in 1..Len(r.path) /\ Marker(r, j + 1) \notin table
  <1>1. r \in Items /\ Len(r.path) \in Nat /\ j \in Nat
    BY DEF TypeOK, Items, Keys
  <1>2. \A x \in table : x.path \notin current[c]
    BY DEF Folders, Pending, BatchDone
  <1>3. j # Len(r.path)
    BY <1>1, <1>2, WholePath
  <1>4. PICK h \in 0..Len(r.path) : h = j + 1 /\ h - 1 = j /\ h > 0 /\ h \in 1..Len(r.path)
    BY <1>1, <1>3
  <1>5. Marker(r, h).path = Ancestor(r, h - 1)
    BY <1>1, <1>4, AncestorFacts
  <1>6. QED BY <1>2, <1>4, <1>5

LEMMA OwnedStep == Calm /\ TypeOK /\ WorkInv /\ PutTree /\ Folders /\ Owned /\ [Next]_vars => Owned'
  <1> SUFFICES ASSUME Calm, TypeOK, WorkInv, PutTree, Folders, Owned, [Next]_vars PROVE Owned'
    OBVIOUS
  <1>0. /\ phase \in [Calls -> {"idle"} \cup Writing \cup Deleting \cup Returned]
        /\ requests \in [Calls -> SUBSET Items] /\ unprocessed \in [Calls -> SUBSET Items]
        /\ frontier \in [Calls -> SUBSET Keys] /\ current \in [Calls -> SUBSET Keys]
        /\ table \subseteq Items
    BY DEF TypeOK
  \* A step that only adds to what is awaited.
  <1>a. ASSUME table' = table, \A d \in Calls : frontier[d] \subseteq frontier'[d],
               \A d \in Calls : phase[d] = "put" /\ Pending(d) # {} => phase'[d] = "put" /\ Pending(d)' = Pending(d)
        PROVE  Owned'
    <2> SUFFICES ASSUME NEW r \in table, ~r.dir, NEW i \in 1..Len(r.path), Marker(r, i) \notin table
                 PROVE  Awaited(r, i)'
      BY <1>a DEF Owned, Marker, Ancestor, Row
    <2>1. Awaited(r, i)
      BY DEF Owned
    <2>2. QED BY <1>a, <2>1 DEF Awaited, Marker, Ancestor, Row
  <1>1. ASSUME NEW c \in Calls, NEW batch \in Batches, Upsert(c, batch)
        PROVE  Owned'
    <2>1. PICK ks :
          /\ phase[c] = "idle" /\ phase' = [phase EXCEPT ![c] = "put"]
          /\ requests' = [requests EXCEPT ![c] = putRequests(ks)]
          /\ UNCHANGED <<table, unprocessed, frontier>>
      BY <1>1 DEF Upsert, walkVars
    <2>2. QED BY <1>0, <1>a, <2>1 DEF Pending
  <1>2. ASSUME NEW c \in Calls, NEW t \in Targets, Delete(c, t)
        PROVE  Owned'
    <2>1. /\ phase[c] = "idle" /\ phase' = [phase EXCEPT ![c] = "root"]
          /\ requests' = [requests EXCEPT ![c] = {rootItem(t)}]
          /\ UNCHANGED <<table, unprocessed, frontier>>
      BY <1>2 DEF Delete, walkVars
    <2>2. QED BY <1>0, <1>a, <2>1 DEF Pending
  <1>3. ASSUME NEW c \in Calls, NextChunk(c)
        PROVE  Owned'
    <2>1. PICK chunk \in SUBSET requests[c] :
            /\ unprocessed' = [unprocessed EXCEPT ![c] = chunk]
            /\ requests' = [requests EXCEPT ![c] = @ \ chunk]
      BY <1>3 DEF NextChunk
    <2>2. UNCHANGED <<table, phase, frontier>> /\ unprocessed[c] = {}
      BY <1>3 DEF NextChunk, walkVars
    <2>3. \A d \in Calls : Pending(d)' = Pending(d)
      BY <1>0, <2>1, <2>2 DEF Pending
    <2>4. QED BY <1>a, <2>2, <2>3
  <1>4. ASSUME NEW c \in Calls, BatchWriteItem(c)
        PROVE  Owned'
    <2>1. /\ phase[c] \in {"put", "root", "level"}
          /\ unprocessed' = [unprocessed EXCEPT ![c] = {}]
          /\ table' = IF phase[c] = "put" THEN table \cup unprocessed[c] ELSE table \ unprocessed[c]
          /\ UNCHANGED <<phase, requests, frontier>>
      BY <1>4, CalmWrite
    <2>2. /\ Pending(c)' = requests[c] /\ \A d \in Calls \ {c} : Pending(d)' = Pending(d)
      BY <1>0, <2>1 DEF Pending
    <2> SUFFICES ASSUME NEW r \in table', ~r.dir, NEW i \in 1..Len(r.path), Marker(r, i) \notin table'
                 PROVE  Awaited(r, i)'
      BY DEF Owned, Marker, Ancestor, Row
    <2>3. CASE phase[c] = "put"
      <3>1. \A d \in Calls : frontier[d] = {}
        BY <2>3 DEF WorkInv
      <3>2. Marker(r, i) \notin table /\ Marker(r, i) \notin unprocessed[c]
        BY <2>1, <2>3
      <3>3. \E d \in Calls : phase[d] = "put" /\ Marker(r, i) \in Pending(d)
        <4>1. CASE r \in table
          BY <3>1, <3>2, <4>1 DEF Owned, Awaited
        <4>2. CASE r \in unprocessed[c]
          BY <2>3, <3>2, <4>2 DEF PutTree, Pending
        <4>3. QED BY <2>1, <2>3, <4>1, <4>2
      <3>4. PICK d \in Calls : phase[d] = "put" /\ Marker(r, i) \in Pending(d)
        BY <3>3
      <3>5. phase'[d] = "put" /\ Marker(r, i) \in Pending(d)'
        BY <2>1, <2>2, <3>2, <3>4 DEF Pending
      <3>6. QED BY <3>5 DEF Awaited, Marker, Ancestor, Row
    <2>4. CASE phase[c] # "put"
      <3>1. r \in table /\ r \in Items /\ i \in 0..Len(r.path) /\ i > 0 /\ i \in i..Len(r.path)
        BY <1>0, <2>1, <2>4 DEF Items, Keys
      <3>2. CASE Marker(r, i) \notin table
        <4>1. PICK j \in i..Len(r.path) : Marker(r, j) \notin table /\ \E d \in Calls : Ancestor(r, j) \in frontier[d]
          <5>1. \A d \in Calls : phase[d] # "put"
            BY <2>1, <2>4 DEF WorkInv
          <5>2. QED BY <3>1, <3>2, <5>1 DEF Owned, Awaited
        <4>2. Marker(r, j) \notin table'
          BY <2>1, <2>4, <4>1
        <4>3. QED BY <2>1, <4>1, <4>2 DEF Awaited, Marker, Ancestor, Row
      <3>3. CASE Marker(r, i) \in table
        <4>1. Marker(r, i) \in Pending(c) /\ phase[c] \in {"root", "level"}
          BY <2>1, <2>4, <3>3 DEF Pending
        <4>2. Marker(r, i).dir /\ KeyOf(Marker(r, i)) = Ancestor(r, i)
          BY <3>1, AncestorFacts
        <4>3. Ancestor(r, i) \in frontier[c]
          BY <4>1, <4>2 DEF Folders
        <4>4. QED BY <2>1, <3>1, <4>3 DEF Awaited, Marker, Ancestor, Row
      <3>4. QED BY <3>2, <3>3
    <2>5. QED BY <2>3, <2>4
  <1>5. ASSUME NEW c \in Calls, UpsertReturn(c) \/ DeleteReturn(c)
        PROVE  Owned'
    <2>1. /\ \/ phase' = [phase EXCEPT ![c] = "written"] /\ requests[c] = {} /\ unprocessed[c] = {}
             \/ phase' = [phase EXCEPT ![c] = "deleted"] /\ phase[c] = "page"
          /\ UNCHANGED <<table, requests, unprocessed, frontier>>
      BY <1>5 DEF UpsertReturn, DeleteReturn, BatchDone, batchVars, walkVars
    <2>2. QED BY <1>0, <1>a, <2>1 DEF Pending
  <1>6. ASSUME NEW c \in Calls, RootDone(c)
        PROVE  Owned'
    <2>1. /\ phase[c] = "root" /\ phase' = [phase EXCEPT ![c] = "page"]
          /\ UNCHANGED <<table, requests, unprocessed>>
          /\ frontier' = [frontier EXCEPT ![c] = {target[c].key}]
      BY <1>6 DEF RootDone, batchVars, WorkInv
    <2>2. frontier[c] = {}
      BY <2>1 DEF WorkInv
    <2>3. QED BY <1>0, <1>a, <2>1, <2>2 DEF Pending
  <1>7. ASSUME NEW c \in Calls, OpenFolder(c)
        PROVE  Owned'
    <2>1. UNCHANGED <<table, phase, requests, unprocessed, frontier>>
      BY <1>7 DEF OpenFolder, batchVars
    <2>2. QED BY <1>a, <2>1 DEF Pending
  <1>8. ASSUME NEW c \in Calls, QueryPage(c)
        PROVE  Owned'
    <2>1. PICK page :
              /\ requests' = [requests EXCEPT ![c] = page]
              /\ frontier' = [frontier EXCEPT ![c] = @ \cup childFolders(page)]
              /\ phase[c] = "page" /\ phase' = [phase EXCEPT ![c] = "level"]
              /\ UNCHANGED <<table, unprocessed>>
      BY <1>8, CalmPage
    <2>2. QED BY <1>0, <1>a, <2>1 DEF Pending
  <1>9. ASSUME NEW c \in Calls, PageDone(c)
        PROVE  Owned'
    <2>1. /\ phase[c] = "level" /\ phase' = [phase EXCEPT ![c] = "page"]
          /\ UNCHANGED <<table, requests, unprocessed>> /\ BatchDone(c)
          /\ \/ UNCHANGED frontier
             \/ unread[c] = {} /\ frontier' = [frontier EXCEPT ![c] = @ \ current[c]]
      BY <1>9 DEF PageDone, batchVars, WorkInv
    <2>2. CASE UNCHANGED frontier
      BY <1>0, <1>a, <2>1, <2>2 DEF Pending
    <2>3. CASE unread[c] = {} /\ frontier' = [frontier EXCEPT ![c] = @ \ current[c]]
      <3>1. \A d \in Calls : \A p : p \in frontier[d] /\ p \notin current[c] => p \in frontier'[d]
        BY <1>0, <2>3
      <3>2. \A d \in Calls : phase[d] # "put"
        BY <2>1 DEF WorkInv
      <3> SUFFICES ASSUME NEW r \in table, ~r.dir, NEW i \in 1..Len(r.path), Marker(r, i) \notin table
                   PROVE  Awaited(r, i)'
        BY <2>1 DEF Owned, Marker, Ancestor, Row
      <3>3. PICK j \in i..Len(r.path) : Marker(r, j) \notin table /\ \E d \in Calls : Ancestor(r, j) \in frontier[d]
        BY <3>2 DEF Owned, Awaited
      <3>4. r \in Items /\ Len(r.path) \in Nat /\ i \in Nat /\ j \in Nat /\ j \in 0..Len(r.path) /\ j \in 1..Len(r.path)
        BY <1>0, <3>3 DEF Items, Keys
      <3>5. CASE Ancestor(r, j) \notin current[c]
        BY <2>1, <3>1, <3>3, <3>5 DEF Awaited, Marker, Ancestor, Row
      <3>6. CASE Ancestor(r, j) \in current[c]
        <4>1. j + 1 \in 1..Len(r.path) /\ Marker(r, j + 1) \notin table
          BY <2>1, <2>3, <3>4, <3>6, NextFolder
        <4>2. PICK h \in (j + 1)..Len(r.path) :
                 Marker(r, h) \notin table /\ \E d \in Calls : Ancestor(r, h) \in frontier[d]
          BY <3>2, <4>1 DEF Owned, Awaited
        <4>3. h \in 0..Len(r.path) /\ h # j /\ h \in i..Len(r.path)
          BY <3>3, <3>4, <4>2
        <4>4. Ancestor(r, h) # Ancestor(r, j)
          <5>1. Len(Ancestor(r, h)) = h
            BY <3>4, <4>3, AncestorFacts
          <5>2. Len(Ancestor(r, j)) = j
            BY <3>4, AncestorFacts
          <5>3. QED BY <4>3, <5>1, <5>2
        <4>5. Ancestor(r, h) \notin current[c]
          BY <3>6, <4>4 DEF Folders
        <4>6. QED BY <2>1, <3>1, <4>2, <4>3, <4>5 DEF Awaited, Marker, Ancestor, Row
      <3>7. QED BY <3>5, <3>6
    <2>4. QED BY <2>1, <2>2, <2>3
  <1>10. ASSUME NEW c \in Calls, phase[c] \in Returned, Forget(c)
         PROVE  Owned'
    <2>1. /\ phase'[c] = "idle" /\ table' = table /\ phase[c] # "put"
          /\ \A d \in Calls \ {c} :
                  /\ phase'[d] = phase[d] /\ requests'[d] = requests[d] /\ unprocessed'[d] = unprocessed[d]
                  /\ frontier'[d] = frontier[d]
      BY <1>0, <1>10 DEF Forget, Returned
    <2>2. frontier[c] = {}
      BY <1>10 DEF WorkInv, Returned
    <2>3. QED BY <1>a, <2>1, <2>2 DEF Pending
  <1>11. CASE UNCHANGED vars
    BY <1>a, <1>11 DEF vars, batchVars, walkVars, Pending
  <1>12. QED
    BY <1>1, <1>2, <1>3, <1>4, <1>5, <1>6, <1>7, <1>8, <1>9, <1>10, <1>11, CalmSteps

TreeInv == TypeOK /\ WorkInv /\ PutTree /\ Folders /\ Owned

LEMMA TreeInit == Init => TreeInv
  <1>1. Init => TypeOK
    BY DEF Init, TypeOK, Keys, Writing, Deleting, Returned
  <1>2. Init => WorkInv /\ PutTree /\ Folders /\ Owned
    BY DEF Init, WorkInv, PutTree, Folders, Owned
  <1>3. QED BY <1>1, <1>2 DEF TreeInv

LEMMA TreeStep == Calm /\ TreeInv /\ [Next]_vars => TreeInv'
  BY TypeStep, WorkStep, PutTreeStep, FoldersStep, OwnedStep DEF TreeInv

(* While a subtree is taken apart no entry is lost track of: the folder    *)
(* below its deepest missing marker is still to be visited, or the marker  *)
(* is about to be put (dynamodb.go:422).                                   *)
THEOREM IndexOrphansOwned == ASSUME Calm PROVE Spec => []OrphansAreOwned
  <1>1. TreeInv => OrphansAreOwned
    <2> SUFFICES ASSUME TreeInv, NEW r \in table, ~r.dir, NEW i \in 1..Len(r.path), Marker(r, i) \notin table,
                        \A j \in (i + 1)..Len(r.path) : Marker(r, j) \in table
                 PROVE  \E c \in Calls :
                          \/ Ancestor(r, i) \in frontier[c]
                          \/ Marker(r, i) \in requests[c] \cup unprocessed[c] /\ phase[c] = "put"
      BY DEF OrphansAreOwned, Marker, Ancestor
    <2>1. Awaited(r, i)
      BY DEF TreeInv, Owned
    <2>2. ASSUME NEW j \in i..Len(r.path), Marker(r, j) \notin table PROVE j = i
      <3>1. r.path \in Keys
        BY DEF TreeInv, TypeOK, Items
      <3>2. Len(r.path) \in Nat
        BY <3>1 DEF Keys
      <3>3. j = i \/ j \in (i + 1)..Len(r.path)
        BY <3>2
      <3>4. QED BY <2>2, <3>3
    <2>3. QED BY <2>1, <2>2 DEF Awaited, Pending
  <1>2. TreeInv /\ [Next]_vars => TreeInv'
    BY TreeStep
  <1>3. QED BY <1>1, <1>2, TreeInit, PTL DEF Spec
(***************************************************************************)
(* What a Delete has done.  Its root item is gone after the first batch,   *)
(* and each leaf still under its target lies in or below a folder that it  *)
(* has yet to visit or whose marker is gone.                               *)
(***************************************************************************)
RootGone(c) ==
    /\ phase[c] = "root" => rootItem(target[c]) \in Pending(c) \/ rootItem(target[c]) \notin table
    /\ phase[c] \in {"page", "level", "deleted"} => rootItem(target[c]) \notin table

Ahead(c, r, i) ==
    \/ Ancestor(r, i) \in frontier[c]
    \/ i > Len(target[c].key) /\ Marker(r, i) \notin table

Reached(c) ==
    phase[c] \in {"page", "level", "deleted"} =>
        \A r \in table : ~r.dir /\ Under(r.path, target[c].key) =>
            \E i \in Len(target[c].key)..Len(r.path) : Ahead(c, r, i)

DeleteInv == \A c \in Calls : RootGone(c) /\ Reached(c)

LEMMA DeleteStep == Calm /\ TypeOK /\ WorkInv /\ Folders /\ DeleteInv /\ [Next]_vars => DeleteInv'
  <1> SUFFICES ASSUME Calm, TypeOK, WorkInv, Folders, DeleteInv, [Next]_vars PROVE DeleteInv'
    OBVIOUS
  <1>0. /\ phase \in [Calls -> {"idle"} \cup Writing \cup Deleting \cup Returned]
        /\ target \in [Calls -> [key : Keys, slash : BOOLEAN]]
        /\ requests \in [Calls -> SUBSET Items] /\ unprocessed \in [Calls -> SUBSET Items]
        /\ frontier \in [Calls -> SUBSET Keys] /\ current \in [Calls -> SUBSET Keys]
        /\ table \subseteq Items
    BY DEF TypeOK
  \* Nothing of d's walk changes but that rows may be gone.
  <1>a. ASSUME NEW d \in Calls, phase'[d] = phase[d], target'[d] = target[d],
               phase[d] = "root" => Pending(d) \subseteq Pending(d)' \cup (table \ table'),
               frontier[d] \subseteq frontier'[d],
               table' \subseteq table \/ phase[d] \notin {"root", "page", "level", "deleted"}
        PROVE  RootGone(d)' /\ Reached(d)'
    <2>1. RootGone(d)'
      BY <1>a DEF DeleteInv, RootGone, rootItem
    <2>2. Reached(d)'
      <3> SUFFICES ASSUME phase[d] \in {"page", "level", "deleted"},
                          NEW r \in table', ~r.dir, Under(r.path, target[d].key)
                   PROVE  \E i \in Len(target[d].key)..Len(r.path) : Ahead(d, r, i)'
        BY <1>a DEF Reached, Under
      <3>1. PICK i \in Len(target[d].key)..Len(r.path) : Ahead(d, r, i)
        BY <1>a DEF DeleteInv, Reached
      <3>2. Ahead(d, r, i)'
        BY <1>a, <3>1 DEF Ahead, Marker, Ancestor, Row
      <3>3. QED BY <3>2
    <2>3. QED BY <2>1, <2>2
  \* A step of c alone.
  <1>b. ASSUME NEW c \in Calls, table' = table,
               \A d \in Calls \ {c} :
                  /\ phase'[d] = phase[d] /\ target'[d] = target[d] /\ requests'[d] = requests[d]
                  /\ unprocessed'[d] = unprocessed[d] /\ frontier'[d] = frontier[d],
               RootGone(c)' /\ Reached(c)'
        PROVE  DeleteInv'
    <2>1. ASSUME NEW d \in Calls, d # c PROVE RootGone(d)' /\ Reached(d)'
      BY <1>a, <1>b, <2>1 DEF Pending
    <2>2. QED BY <1>b, <2>1 DEF DeleteInv
  <1>1. ASSUME NEW c \in Calls, NEW batch \in Batches, Upsert(c, batch)
        PROVE  DeleteInv'
    <2>1. PICK ks :
          /\ phase[c] = "idle" /\ phase' = [phase EXCEPT ![c] = "put"]
          /\ requests' = [requests EXCEPT ![c] = putRequests(ks)]
          /\ UNCHANGED <<table, target, unprocessed, frontier>>
      BY <1>1 DEF Upsert, walkVars
    <2>2. phase'[c] = "put"
      BY <1>0, <2>1
    <2>3. RootGone(c)' /\ Reached(c)'
      BY <2>2 DEF RootGone, Reached
    <2>4. QED BY <1>0, <1>b, <2>1, <2>3
  <1>2. ASSUME NEW c \in Calls, NEW t \in Targets, Delete(c, t)
        PROVE  DeleteInv'
    <2>1. /\ phase[c] = "idle" /\ phase' = [phase EXCEPT ![c] = "root"]
          /\ target' = [target EXCEPT ![c] = t]
          /\ requests' = [requests EXCEPT ![c] = {rootItem(t)}]
          /\ UNCHANGED <<table, unprocessed, frontier>>
      BY <1>2 DEF Delete, walkVars
    <2>2. phase'[c] = "root" /\ target'[c] = t /\ requests'[c] = {rootItem(t)}
      BY <1>0, <2>1
    <2>3. RootGone(c)' /\ Reached(c)'
      BY <2>2 DEF RootGone, Reached, Pending, rootItem
    <2>4. QED BY <1>0, <1>b, <2>1, <2>3
  <1>3. ASSUME NEW c \in Calls, NextChunk(c)
        PROVE  DeleteInv'
    <2>1. PICK chunk \in SUBSET requests[c] :
            /\ unprocessed' = [unprocessed EXCEPT ![c] = chunk]
            /\ requests' = [requests EXCEPT ![c] = @ \ chunk]
      BY <1>3 DEF NextChunk
    <2>2. UNCHANGED <<table, phase, target, frontier>> /\ unprocessed[c] = {}
      BY <1>3 DEF NextChunk, walkVars
    <2>3. \A d \in Calls : Pending(d)' = Pending(d)
      BY <1>0, <2>1, <2>2 DEF Pending
    <2>4. QED BY <1>a, <2>2, <2>3 DEF DeleteInv
  <1>4. ASSUME NEW c \in Calls, BatchWriteItem(c)
        PROVE  DeleteInv'
    <2>1. /\ phase[c] \in {"put", "root", "level"}
          /\ unprocessed' = [unprocessed EXCEPT ![c] = {}]
          /\ table' = IF phase[c] = "put" THEN table \cup unprocessed[c] ELSE table \ unprocessed[c]
          /\ UNCHANGED <<phase, target, requests, frontier>>
      BY <1>4, CalmWrite
    <2>2. /\ Pending(c)' = requests[c] /\ \A d \in Calls \ {c} : Pending(d)' = Pending(d)
      BY <1>0, <2>1 DEF Pending
    <2>3. CASE phase[c] = "put"
      <3>1. \A d \in Calls : phase[d] \notin {"root", "page", "level", "deleted"}
        BY <2>3 DEF WorkInv
      <3>2. QED BY <1>a, <2>1, <3>1 DEF DeleteInv
    <2>4. CASE phase[c] # "put"
      <3>1. table' = table \ unprocessed[c]
        BY <2>1, <2>4
      <3>2. CASE phase[c] # "root"
        BY <1>a, <2>1, <2>2, <3>1, <3>2 DEF DeleteInv
      <3>3. CASE phase[c] = "root"
        <4>1. ASSUME NEW d \in Calls, d # c PROVE RootGone(d)' /\ Reached(d)'
          BY <1>a, <2>1, <2>2, <3>1, <4>1
        <4>2. RootGone(c)'
          BY <2>1, <2>2, <3>1, <3>3 DEF DeleteInv, RootGone, Pending, rootItem
        <4>3. Reached(c)'
          BY <2>1, <3>3 DEF Reached
        <4>4. QED BY <4>1, <4>2, <4>3 DEF DeleteInv
      <3>4. QED BY <3>2, <3>3
    <2>5. QED BY <2>3, <2>4
  <1>5. ASSUME NEW c \in Calls, UpsertReturn(c)
        PROVE  DeleteInv'
    <2>1. phase' = [phase EXCEPT ![c] = "written"] /\ UNCHANGED <<table, target, requests, unprocessed, frontier>>
      BY <1>5 DEF UpsertReturn, batchVars, walkVars
    <2>2. phase'[c] = "written"
      BY <1>0, <2>1
    <2>3. RootGone(c)' /\ Reached(c)'
      BY <2>2 DEF RootGone, Reached
    <2>4. QED BY <1>0, <1>b, <2>1, <2>3
  <1>6. ASSUME NEW c \in Calls, RootDone(c)
        PROVE  DeleteInv'
    <2>1. /\ phase[c] = "root" /\ phase' = [phase EXCEPT ![c] = "page"]
          /\ UNCHANGED <<table, target, requests, unprocessed>> /\ BatchDone(c)
          /\ frontier' = [frontier EXCEPT ![c] = {target[c].key}]
      BY <1>6 DEF RootDone, batchVars, WorkInv
    <2>2. phase'[c] = "page" /\ frontier'[c] = {target[c].key}
      BY <1>0, <2>1
    <2>3. RootGone(c)'
      BY <2>1, <2>2 DEF DeleteInv, RootGone, Pending, BatchDone, rootItem
    <2> DEFINE t == target[c].key
    <2>4. ASSUME NEW r \in table, Under(r.path, t)
          PROVE  Len(t) \in Len(t)..Len(r.path) /\ Ancestor(r, Len(t)) = t
      <3>1. t \in Keys /\ r.path \in Keys
        BY <1>0 DEF Items
      <3> HIDE DEF t
      <3>2. Len(t) \in 0..Len(r.path) /\ Len(t) \in Len(t)..Len(r.path)
        BY <2>4, <3>1 DEF Under, Keys
      <3>3. /\ Ancestor(r, Len(t)) \in Keys /\ Len(Ancestor(r, Len(t))) = Len(t)
            /\ \A j \in 1..Len(t) : Ancestor(r, Len(t))[j] = r.path[j]
        BY <3>1, <3>2, AncestorIs DEF Ancestor
      <3>4. \A j \in 1..Len(t) : Ancestor(r, Len(t))[j] = t[j]
        BY <2>4, <3>3 DEF Under
      <3>5. QED BY <3>1, <3>2, <3>3, <3>4, SeqEqual DEF Keys
    <2>5. Reached(c)'
      <3> SUFFICES ASSUME NEW r \in table, ~r.dir, Under(r.path, t)
                   PROVE  \E i \in Len(t)..Len(r.path) : Ahead(c, r, i)'
        BY <2>1 DEF Reached, Under
      <3>1. PICK n \in Len(t)..Len(r.path) : Ancestor(r, n) = t
        BY <2>4
      <3>2. Ancestor(r, n) \in frontier'[c]
        BY <2>2, <3>1
      <3>3. Ahead(c, r, n)'
        BY <3>2 DEF Ahead, Ancestor
      <3>4. QED BY <3>3
    <2>6. QED BY <1>0, <1>b, <2>1, <2>3, <2>5
  <1>7. ASSUME NEW c \in Calls, OpenFolder(c)
        PROVE  DeleteInv'
    <2>1. UNCHANGED <<table, phase, target, requests, unprocessed, frontier>>
      BY <1>7 DEF OpenFolder, batchVars
    <2>2. QED BY <1>a, <2>1 DEF DeleteInv, Pending
  <1>8. ASSUME NEW c \in Calls, QueryPage(c)
        PROVE  DeleteInv'
    <2>1. PICK page :
              /\ requests' = [requests EXCEPT ![c] = page]
              /\ frontier' = [frontier EXCEPT ![c] = @ \cup childFolders(page)]
              /\ phase[c] = "page" /\ phase' = [phase EXCEPT ![c] = "level"]
              /\ UNCHANGED <<table, target, unprocessed>>
      BY <1>8, CalmPage
    <2>2. phase'[c] = "level" /\ frontier[c] \subseteq frontier'[c]
      BY <1>0, <2>1
    <2>3. RootGone(c)'
      BY <2>1, <2>2 DEF DeleteInv, RootGone, rootItem
    <2>4. Reached(c)'
      BY <2>1, <2>2 DEF DeleteInv, Reached, Ahead, Under, Marker, Ancestor, Row
    <2>5. QED BY <1>0, <1>b, <2>1, <2>3, <2>4
  <1>9. ASSUME NEW c \in Calls, PageDone(c)
        PROVE  DeleteInv'
    <2>1. /\ phase[c] = "level" /\ phase' = [phase EXCEPT ![c] = "page"]
          /\ UNCHANGED <<table, target, requests, unprocessed>> /\ BatchDone(c)
          /\ \/ UNCHANGED frontier
             \/ unread[c] = {} /\ frontier' = [frontier EXCEPT ![c] = @ \ current[c]]
      BY <1>9 DEF PageDone, batchVars, WorkInv
    <2>2. phase'[c] = "page" /\ \A d \in Calls \ {c} : frontier'[d] = frontier[d]
      BY <1>0, <2>1
    <2>3. RootGone(c)'
      BY <2>1, <2>2 DEF DeleteInv, RootGone, rootItem
    <2>4. Reached(c)'
      <3> SUFFICES ASSUME NEW r \in table, ~r.dir, Under(r.path, target[c].key)
                   PROVE  \E i \in Len(target[c].key)..Len(r.path) : Ahead(c, r, i)'
        BY <2>1 DEF Reached, Under
      <3>1. PICK i \in Len(target[c].key)..Len(r.path) : Ahead(c, r, i)
        BY <2>1 DEF DeleteInv, Reached
      <3>2. CASE Ahead(c, r, i)'
        BY <3>1, <3>2
      <3>3. CASE ~Ahead(c, r, i)'
        <4>1. Ancestor(r, i) \in frontier[c] /\ Ancestor(r, i) \notin frontier'[c]
          BY <2>1, <3>1, <3>3 DEF Ahead, Marker, Ancestor, Row
        <4>2. unread[c] = {} /\ Ancestor(r, i) \in current[c]
          BY <1>0, <2>1, <4>1
        <4>3. target[c].key \in Keys /\ r.path \in Keys
          BY <1>0 DEF Items
        <4>4. Len(target[c].key) \in Nat /\ Len(r.path) \in Nat /\ i \in Nat /\ i \in 0..Len(r.path)
          BY <3>1, <4>3 DEF Keys
        <4>5. i + 1 \in 1..Len(r.path) /\ Marker(r, i + 1) \notin table
          BY <2>1, <4>2, <4>4, NextFolder
        <4>6. PICK h \in Len(target[c].key)..Len(r.path) : h = i + 1 /\ h > Len(target[c].key)
          BY <3>1, <4>4, <4>5
        <4>7. Ahead(c, r, h)'
          BY <2>1, <4>5, <4>6 DEF Ahead, Marker, Ancestor, Row
        <4>8. QED BY <4>7
      <3>4. QED BY <3>2, <3>3
    <2>5. QED BY <1>0, <1>b, <2>1, <2>2, <2>3, <2>4
  <1>10. ASSUME NEW c \in Calls, DeleteReturn(c)
         PROVE  DeleteInv'
    <2>1. /\ phase[c] = "page" /\ phase' = [phase EXCEPT ![c] = "deleted"]
          /\ UNCHANGED <<table, target, requests, unprocessed, frontier>>
      BY <1>10 DEF DeleteReturn, batchVars, walkVars
    <2>2. phase'[c] = "deleted"
      BY <1>0, <2>1
    <2>3. RootGone(c)'
      BY <2>1, <2>2 DEF DeleteInv, RootGone, rootItem
    <2>4. Reached(c)'
      BY <2>1, <2>2 DEF DeleteInv, Reached, Ahead, Under, Marker, Ancestor, Row
    <2>5. QED BY <1>0, <1>b, <2>1, <2>3, <2>4
  <1>11. ASSUME NEW c \in Calls, Forget(c)
         PROVE  DeleteInv'
    <2>1. /\ phase'[c] = "idle" /\ table' = table
          /\ \A d \in Calls \ {c} :
                  /\ phase'[d] = phase[d] /\ target'[d] = target[d] /\ requests'[d] = requests[d]
                  /\ unprocessed'[d] = unprocessed[d] /\ frontier'[d] = frontier[d]
      BY <1>0, <1>11 DEF Forget
    <2>2. RootGone(c)' /\ Reached(c)'
      BY <2>1 DEF RootGone, Reached
    <2>3. QED BY <1>b, <2>1, <2>2
  <1>12. CASE UNCHANGED vars
    BY <1>a, <1>12 DEF vars, batchVars, walkVars, DeleteInv, Pending
  <1>13. QED
    BY <1>1, <1>2, <1>3, <1>4, <1>5, <1>6, <1>7, <1>8, <1>9, <1>10, <1>11, <1>12, CalmSteps

(* "Delete removes the target item and its entire subtree": once the       *)
(* Deletes in flight have returned, no entry is left at a target or under  *)
(* it, however many run over one tree at a time (dynamodb.go:422).         *)
THEOREM IndexDeleteRemoves == ASSUME Calm PROVE Spec => []DeleteRemovesSubtree
  <1>1. Init => TreeInv /\ DeleteInv
    BY TreeInit DEF Init, DeleteInv, RootGone, Reached
  <1>2. TreeInv /\ DeleteInv /\ [Next]_vars => TreeInv' /\ DeleteInv'
    BY TreeStep, DeleteStep DEF TreeInv
  <1>3. TreeInv /\ DeleteInv => DeleteRemovesSubtree
    <2> SUFFICES ASSUME TreeInv, DeleteInv, \A d \in Calls : phase[d] \in {"idle", "deleted"},
                        NEW c \in Calls, phase[c] = "deleted"
                 PROVE  listLeaves(target[c].key) = {} /\ (target[c].slash \/ ~Retrieve(target[c].key))
      BY DEF DeleteRemovesSubtree
    <2>1. \A d \in Calls : frontier[d] = {} /\ phase[d] # "put"
      BY DEF TreeInv, WorkInv
    <2>2. ASSUME NEW r \in listLeaves(target[c].key) PROVE FALSE
      <3>1. r \in table /\ ~r.dir /\ Under(r.path, target[c].key)
        BY DEF listLeaves
      <3>2. PICK i \in Len(target[c].key)..Len(r.path) : i > Len(target[c].key) /\ Marker(r, i) \notin table
        BY <2>1, <3>1 DEF DeleteInv, Reached, Ahead
      <3>3. target[c].key \in Keys /\ r.path \in Keys
        BY <3>1 DEF TreeInv, TypeOK, Items
      <3>4. Len(target[c].key) \in Nat /\ Len(r.path) \in Nat
        BY <3>3 DEF Keys
      <3>5. i \in 1..Len(r.path)
        BY <3>2, <3>4
      <3>6. QED BY <2>1, <3>1, <3>2, <3>5 DEF TreeInv, Owned, Awaited
    <2>3. ASSUME ~target[c].slash, Retrieve(target[c].key) PROVE FALSE
      BY <2>3 DEF Retrieve, DeleteInv, RootGone, rootItem, Leaf, Row
    <2>4. QED BY <2>2, <2>3
  <1>4. QED BY <1>1, <1>2, <1>3, PTL DEF Spec
=============================================================================
