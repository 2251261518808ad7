---------------------------- MODULE Views_proofs ----------------------------
(* Proofs about what readers are shown, for every set of keys, templates   *)
(* and batches, whatever is written and whatever fails meanwhile.          *)
EXTENDS Views, FiniteSetTheorems, WellFoundedInduction, TLAPS

\* What of an entry may be in a row, and in a record.
IsRow(row) == \E e \in given : row = Row(e)
IsRecord(r) == \E e \in given :
    /\ e.key = r.key /\ r.value = Row(e).value /\ r.secure = Row(e).secure
    /\ e \in written \/ misfiled(e)

\* Entries with their backends.
Routed == [key : {e.key : e \in Entries}, value : Values, secure : BOOLEAN, backend : Backends]

\* What is stored comes from entries that were written, although Upserts are
\* done in part and recorded later.
StoreInv ==
    /\ given \subseteq Routed /\ written \subseteq given
    /\ table \in [Names -> Rows \cup {NoRow, Marker}]
    /\ \A k \in Names : table[k] \notin {NoRow, Marker} => IsRow(table[k])
    /\ \A r \in records : IsRecord(r)
    /\ \A t \in tasks : \A r \in t : IsRecord(r)

(* The row of an entry is a row, and shows its value only if it is routed  *)
(* to the index (gateway.go, Upsert; ssm.go:195).                          *)
LEMMA RowHides ==
    ASSUME NEW e \in Routed
    PROVE  /\ Row(e) \in Rows /\ Row(e) # NoRow /\ Row(e) # Marker
           /\ Row(e).value \in Values => ~external(e) /\ Row(e).value = e.value
  <1>1. e.value \in Values /\ e.secure \in BOOLEAN
    BY DEF Routed
  <1>2. {"address", "none", "empty"} \cap Values = {}
    <2>1. {"address", "none", "cut", "empty"} \cap Values = {}
      BY ViewsAssumption
    <2>2. QED BY <2>1
  <1>3. PICK s \in BOOLEAN : s = (e.secure \/ e.backend = "parameterstore_secure")
    OBVIOUS
  <1>4. CASE external(e)
    <2>1. Row(e) = [value |-> "address", secure |-> s]
      BY <1>3, <1>4 DEF Row
    <2>2. QED BY <1>2, <2>1 DEF Rows, NoRow, Marker
  <1>5. CASE ~external(e)
    <2>1. Row(e) = [value |-> e.value, secure |-> s]
      BY <1>3, <1>5 DEF Row
    <2>2. QED BY <1>1, <1>2, <1>5, <2>1 DEF Rows, NoRow, Marker
  <1>6. QED BY <1>4, <1>5

(* Entries of a batch keep what they are given, whatever they are routed to. *)
LEMMA BatchRouted ==
    ASSUME NEW b \in SUBSET Entries, NEW R \in Routings
    PROVE  resolveBackend(b, R) \subseteq Routed
  <1> SUFFICES ASSUME NEW d \in resolveBackend(b, R) PROVE d \in Routed
    OBVIOUS
  <1>1. PICK e \in b : d = [key |-> e.key, value |-> e.value, secure |-> e.secure, backend |-> R[e]]
    BY DEF resolveBackend
  <1>2. e \in Entries /\ R[e] \in Backends /\ e.value \in Values /\ e.secure \in BOOLEAN
    BY ViewsAssumption
  <1>3. QED BY <1>1, <1>2 DEF Routed

(* What is recorded of an entry is what its row has, never the mask        *)
(* (recorder.go:134).                                                      *)
LEMMA RecordIsRow ==
    ASSUME NEW es, NEW done, NEW r \in registerChanges(es, done)
    PROVE  \E e \in es : /\ r = record(e) /\ (e \in done \/ misfiled(e))
                         /\ r.key = e.key /\ r.value = Row(e).value /\ r.secure = Row(e).secure
  <1>1. PICK e \in registered(es, done) : r = record(e)
    BY DEF registerChanges
  <1>2. e \in es /\ (e \in done \/ misfiled(e))
    BY DEF registered
  <1>3. r.key = e.key /\ r.value = Row(e).value /\ r.secure = Row(e).secure
    BY <1>1 DEF record, shown
  <1>4. QED BY <1>1, <1>2, <1>3

LEMMA StoreInit == Init => StoreInv
  <1> SUFFICES ASSUME Init PROVE StoreInv
    OBVIOUS
  <1>1. PICK R \in Routings : written = resolveBackend(Old, R)
    BY DEF Init
  <1>2. given = written /\ tasks = {} /\ table = [k \in Names |-> NoRow]
    BY DEF Init
  <1>3. given \subseteq Routed
    BY <1>1, <1>2, BatchRouted, ViewsAssumption
  <1>4. ASSUME NEW r \in records PROVE IsRecord(r)
    <2>1. PICK s \in {record(e) : e \in registered(written, written)} :
               r = [key |-> s.key, value |-> s.value, secure |-> s.secure, at |-> 0]
      BY DEF Init
    <2>2. s \in registerChanges(written, written)
      BY DEF registerChanges
    <2>3. PICK e \in written : s.key = e.key /\ s.value = Row(e).value /\ s.secure = Row(e).secure
      BY <2>2, RecordIsRow
    <2>4. r.key = e.key /\ r.value = Row(e).value /\ r.secure = Row(e).secure
      BY <2>1, <2>3
    <2>5. QED BY <1>2, <2>4 DEF IsRecord
  <1>5. QED BY <1>2, <1>3, <1>4 DEF StoreInv

LEMMA IsRowGrows ==
    ASSUME given \subseteq given', NEW row, IsRow(row)
    PROVE  IsRow(row)'
  BY DEF IsRow

LEMMA IsRecordGrows ==
    ASSUME given \subseteq given', written \subseteq written', NEW r, IsRecord(r)
    PROVE  IsRecord(r)'
  BY DEF IsRecord

\* What an Upsert does with a batch, once it is routed.
Stores(es, done, rows, marks) ==
    /\ es \subseteq Routed /\ done \subseteq es /\ rows \subseteq done
    /\ table' = put(rows, marks)
    /\ had' = IF job = NoJob THEN had ELSE [k \in Names |-> had[k] \cup {table'[k]}]
    /\ given' = given \cup es /\ written' = written \cup done
    /\ tasks' = tasks \cup ({registerChanges(es, done)} \ {{}})
    /\ UNCHANGED <<records, readVars>>

LEMMA UpsertPuts ==
    ASSUME NEW b \in Batches, Upsert(b)
    PROVE  \E es, done, rows, marks : Stores(es, done, rows, marks)
  <1>1. PICK R \in Routings : LET es == resolveBackend(b, R) IN
           \E done \in SUBSET es : \E rows \in SUBSET done, marks \in SUBSET markers(es, done) :
              /\ Change(put(rows, marks))
              /\ given' = given \cup es /\ written' = written \cup done
              /\ tasks' = tasks \cup ({registerChanges(es, done)} \ {{}})
    BY DEF Upsert
  <1>2. PICK es : es = resolveBackend(b, R)
    OBVIOUS
  <1>3. PICK done \in SUBSET es : \E rows \in SUBSET done, marks \in SUBSET markers(es, done) :
              /\ Change(put(rows, marks))
              /\ given' = given \cup es /\ written' = written \cup done
              /\ tasks' = tasks \cup ({registerChanges(es, done)} \ {{}})
    BY <1>1, <1>2
  <1>4. PICK rows \in SUBSET done, marks \in SUBSET markers(es, done) :
              /\ Change(put(rows, marks))
              /\ given' = given \cup es /\ written' = written \cup done
              /\ tasks' = tasks \cup ({registerChanges(es, done)} \ {{}})
    BY <1>3
  <1>5. b \in SUBSET Entries
    BY DEF Entries
  <1>6. es \subseteq Routed
    BY <1>2, <1>5, BatchRouted
  <1>7. UNCHANGED <<records, readVars>>
    BY DEF Upsert
  <1>8. QED BY <1>4, <1>6, <1>7 DEF Stores, Change

LEMMA UpsertStores ==
    ASSUME StoreInv, NEW b \in Batches, Upsert(b)
    PROVE  StoreInv'
  <1>1. PICK es, done, rows, marks : Stores(es, done, rows, marks)
    BY UpsertPuts
  <1>2. /\ given' = given \cup es /\ written' = written \cup done /\ table' = put(rows, marks)
        /\ es \subseteq Routed /\ done \subseteq es /\ rows \subseteq done
    BY <1>1 DEF Stores
  <1>3. given' \subseteq Routed /\ written' \subseteq given'
    BY <1>2 DEF StoreInv
  <1>4. ASSUME NEW k \in Names
        PROVE  table'[k] = table[k] \/ table'[k] = Marker \/ \E e \in rows : table'[k] = Row(e)
    BY <1>2 DEF put
  <1>5. table' \in [Names -> Rows \cup {NoRow, Marker}]
    <2>1. ASSUME NEW k \in Names PROVE table'[k] \in Rows \cup {NoRow, Marker}
      <3>1. table[k] \in Rows \cup {NoRow, Marker}
        BY DEF StoreInv
      <3>2. \A e \in rows : Row(e) \in Rows
        BY <1>2, RowHides
      <3>3. QED BY <1>4, <3>1, <3>2
    <2>2. QED BY <1>2, <2>1 DEF put
  <1>6. ASSUME NEW k \in Names, table'[k] \notin {NoRow, Marker} PROVE IsRow(table[k])'
    <2>1. CASE table'[k] = table[k]
      <3>1. IsRow(table[k])
        BY <1>6, <2>1 DEF StoreInv
      <3>2. PICK e \in given : table[k] = Row(e)
        BY <3>1 DEF IsRow
      <3>3. QED BY <1>2, <2>1, <3>2 DEF IsRow
    <2>2. CASE \E e \in rows : table'[k] = Row(e)
      BY <1>2, <2>2 DEF IsRow
    <2>3. QED BY <1>4, <1>6, <2>1, <2>2
  <1>7. ASSUME NEW t \in tasks', NEW r \in t PROVE IsRecord(r)'
    <2>1. CASE t \in tasks
      BY <1>2, <2>1, IsRecordGrows DEF StoreInv
    <2>2. CASE t = registerChanges(es, done)
      <3>1. PICK e \in es : /\ r = record(e) /\ (e \in done \/ misfiled(e))
                            /\ r.key = e.key /\ r.value = Row(e).value /\ r.secure = Row(e).secure
        BY <2>2, RecordIsRow
      <3>2. e \in given' /\ (e \in written' \/ misfiled(e))
        BY <1>2, <3>1
      <3>3. QED BY <3>1, <3>2 DEF IsRecord
    <2>3. QED BY <1>1, <2>1, <2>2 DEF Stores
  <1>8. \A r \in records' : IsRecord(r)'
    BY <1>1, <1>2, IsRecordGrows DEF Stores, StoreInv
  <1>9. QED BY <1>3, <1>5, <1>6, <1>7, <1>8 DEF StoreInv

LEMMA RecordStores ==
    ASSUME StoreInv, NEW t \in tasks, CreateBatch(t)
    PROVE  StoreInv'
  <1>1. UNCHANGED <<table, given, written>> /\ tasks' = tasks \ {t}
    BY DEF CreateBatch
  <1>2. PICK kept \in SUBSET t :
            records' = records \cup
              {[key |-> r.key, value |-> r.value, secure |-> r.secure, at |-> clock] : r \in kept}
    BY DEF CreateBatch
  <1>3. ASSUME NEW r \in records' PROVE IsRecord(r)'
    <2>1. CASE r \in records
      BY <1>1, <2>1, IsRecordGrows DEF StoreInv
    <2>2. CASE r \notin records
      <3>1. PICK s \in kept : r = [key |-> s.key, value |-> s.value, secure |-> s.secure, at |-> clock]
        BY <1>2, <2>2
      <3>2. IsRecord(s)
        BY DEF StoreInv
      <3>3. r.key = s.key /\ r.value = s.value /\ r.secure = s.secure
        BY <3>1
      <3>4. QED BY <1>1, <3>2, <3>3 DEF IsRecord
    <2>3. QED BY <2>1, <2>2
  <1>4. \A u \in tasks' : \A r \in u : IsRecord(r)'
    BY <1>1, IsRecordGrows DEF StoreInv
  <1>5. QED BY <1>1, <1>3, <1>4 DEF StoreInv, IsRow

(* Whatever else happens leaves what is stored alone.                      *)
LEMMA ReadersStoreNothing ==
    ASSUME [Next]_vars
    PROVE  \/ \E b \in Batches : Upsert(b)
           \/ \E k \in Names : Delete(k)
           \/ \E t \in tasks : CreateBatch(t)
           \/ UNCHANGED storeVars
  BY DEF Next, vars, Build, RetrieveBoxFails, BatchGet, BatchGetFails, BuildDone, Export,
         ListPage, ListFails, ExportDone, History, HistoryPage, HistoryFails, HistoryDone,
         Return, Begin, Reply

LEMMA StoreNext == StoreInv /\ [Next]_vars => StoreInv'
  <1> SUFFICES ASSUME StoreInv, [Next]_vars PROVE StoreInv'
    OBVIOUS
  <1>1. ASSUME NEW k \in Names, Delete(k) PROVE StoreInv'
    <2>1. table' = [table EXCEPT ![k] = NoRow] /\ UNCHANGED <<tasks, records, given, written>>
      BY <1>1 DEF Delete, Change
    <2>2. QED BY <2>1 DEF StoreInv, IsRow, IsRecord
  <1>2. CASE UNCHANGED storeVars
    BY <1>2 DEF storeVars, StoreInv, IsRow, IsRecord
  <1>3. QED BY <1>1, <1>2, UpsertStores, RecordStores, ReadersStoreNothing

(* Each record of the history is of an entry that was sent to its backend, *)
(* as it was given, and shows what its row had; and of one that was        *)
(* written, unless it failed in the index and is spelled otherwise than    *)
(* its key (recorder.go:111, dynamodb.go:210, 262).                        *)
THEOREM RecordsHonest == Spec => []HistoryHonest
  <1>1. StoreInv => HistoryHonest
    BY DEF StoreInv, IsRecord, HistoryHonest
  <1>2. QED BY <1>1, StoreInit, StoreNext, PTL DEF Spec
-----------------------------------------------------------------------------
\* What had[k] may have.
RowsHad == \A k \in Names : \A row \in had[k] : row \in {NoRow, Marker} \/ IsRow(row)

\* A reader sees what keys had since its request began.
RequestInv ==
    /\ job = NoJob => answer = NoAnswer /\ got = Nothing /\ toRead = {}
    /\ job # NoJob =>
          /\ job.do \in {"build", "export", "history"}
          /\ RowsHad
          /\ \A k \in Names : table[k] \in had[k]
    /\ job.do \in {"build", "export"} =>
          DOMAIN got \subseteq Names /\ \A k \in DOMAIN got : got[k] \in had[k] \ {NoRow}
    /\ job.do = "build" => DOMAIN got \subseteq Keys

\* What it answers is made of that.
AnswerInv ==
    /\ job.do = "build" /\ answer.status = "ok" => answer.content = Replace
    /\ job.do = "export" =>
          /\ toRead \subseteq Level /\ DOMAIN got \subseteq Level \ Locks
          /\ job.format \in Formats => \A k \in (Level \ Locks) \ toRead : k \in DOMAIN got \/ NoRow \in had[k]
          /\ answer.status = "none" => job.format \in Formats
          /\ answer.status = "ok" => answer.content = exported /\ toRead = {} /\ job.format \in Formats
          /\ answer.status = "bad request" /\ job.format \in Formats =>
                toRead # {} \/ DOMAIN got = {}

ReadInv == RequestInv /\ AnswerInv

LEMMA ReadInit == Init => ReadInv
  BY DEF Init, ReadInv, RequestInv, AnswerInv, NoJob, NoAnswer, Nothing

(* While entries change, what has been read stays what keys had.           *)
LEMMA WritersLeaveReader ==
    ASSUME StoreInv, StoreInv', ReadInv, UNCHANGED readVars, given \subseteq given',
           \/ UNCHANGED <<table, had>>
           \/ had' = IF job = NoJob THEN had ELSE [k \in Names |-> had[k] \cup {table'[k]}]
    PROVE  ReadInv'
  <1>1. UNCHANGED <<job, body, toRead, got, answer>>
    BY DEF readVars
  <1>2. ASSUME job # NoJob
        PROVE  \A k \in Names : had[k] \subseteq had'[k] /\ table'[k] \in had'[k]
    BY <1>2 DEF ReadInv, RequestInv
  <1>3. ASSUME job # NoJob PROVE RowsHad'
    <2>1. SUFFICES ASSUME NEW k \in Names, NEW row \in had'[k] PROVE row \in {NoRow, Marker} \/ IsRow(row)'
      BY DEF RowsHad, IsRow
    <2>2. row \in had[k] \/ row = table'[k]
      BY <1>3
    <2>3. CASE row \in had[k]
      <3>1. row \in {NoRow, Marker} \/ IsRow(row)
        BY <1>3, <2>3 DEF ReadInv, RequestInv, RowsHad
      <3>2. QED BY <3>1 DEF IsRow
    <2>4. CASE row = table'[k]
      BY <2>4 DEF StoreInv, IsRow
    <2>5. QED BY <2>2, <2>3, <2>4
  <1>4. job.do # "none" => job # NoJob
    BY DEF NoJob
  <1>5. RequestInv'
    BY <1>1, <1>2, <1>3, <1>4 DEF ReadInv, RequestInv, Nothing
  <1>6. AnswerInv'
    <2>1. Replace' = Replace /\ exported' = exported
      BY <1>1 DEF Replace, exported
    <2>2. job.do = "export" => \A k \in Level : NoRow \in had[k] => NoRow \in had'[k]
      BY <1>2, <1>4, ViewsAssumption
    <2>3. QED BY <1>1, <2>1, <2>2 DEF ReadInv, AnswerInv
  <1>7. QED BY <1>5, <1>6 DEF ReadInv

(* A request begins with the rows of this moment.                          *)
LEMMA BeginReads ==
    ASSUME StoreInv, ReadInv, NEW what, Begin(what), what.do \in {"build", "export", "history"},
           what.do \in {"build", "export"} => DOMAIN got' = {}
    PROVE  RequestInv'
  <1>1. job' = what /\ had' = [k \in Names |-> {table[k]}] /\ UNCHANGED <<table, given>>
    BY DEF Begin, storeVars
  <1>2. job' # NoJob
    BY <1>1 DEF NoJob
  <1>3. RowsHad'
    BY <1>1 DEF RowsHad, StoreInv, IsRow
  <1>4. QED BY <1>1, <1>2, <1>3 DEF RequestInv

(* A reader goes on: it reads one more row, or answers.                    *)
LEMMA ReaderGoesOn ==
    ASSUME ReadInv, job # NoJob, UNCHANGED <<job, storeVars, seenVars>>,
           job.do \in {"build", "export"} =>
               \/ UNCHANGED got
               \/ \E k \in Names : /\ table[k] # NoRow /\ (job.do = "build" => k \in Keys)
                                  /\ got' = [l \in DOMAIN got \cup {k} |-> IF l = k THEN table[k] ELSE got[l]]
    PROVE  RequestInv'
  <1>1. UNCHANGED <<table, given, had>>
    BY DEF storeVars, seenVars
  <1>2. RowsHad' /\ \A k \in Names : table'[k] \in had'[k]
    BY <1>1 DEF ReadInv, RequestInv, RowsHad, IsRow
  <1>3. ASSUME job.do \in {"build", "export"}
        PROVE  /\ DOMAIN got' \subseteq Names /\ \A k \in DOMAIN got' : got'[k] \in had[k] \ {NoRow}
               /\ job.do = "build" => DOMAIN got' \subseteq Keys
    <2>1. /\ DOMAIN got \subseteq Names /\ \A k \in DOMAIN got : got[k] \in had[k] \ {NoRow}
          /\ job.do = "build" => DOMAIN got \subseteq Keys
      BY <1>3 DEF ReadInv, RequestInv
    <2>2. CASE UNCHANGED got
      BY <2>1, <2>2
    <2>3. CASE ~UNCHANGED got
      <3>1. PICK k \in Names : /\ table[k] # NoRow /\ (job.do = "build" => k \in Keys)
                              /\ got' = [l \in DOMAIN got \cup {k} |-> IF l = k THEN table[k] ELSE got[l]]
        BY <1>3, <2>3
      <3>2. table[k] \in had[k]
        BY DEF ReadInv, RequestInv
      <3>3. QED BY <2>1, <3>1, <3>2
    <2>4. QED BY <2>2, <2>3
  <1>4. QED BY <1>1, <1>2, <1>3 DEF ReadInv, RequestInv

LEMMA OpenJob == ASSUME NEW kind \in {"build", "export", "history"}, Open(kind)
                 PROVE  job # NoJob /\ job.do = kind /\ answer.status = "none"
  BY DEF Open, NoJob, NoAnswer

LEMMA BuildReads ==
    ASSUME StoreInv, ReadInv,
           \/ \E t \in Templates, a \in Arguments, s \in BOOLEAN : Build(t, a, s) \/ RetrieveBoxFails(t, a, s)
           \/ \E g \in toRead : BatchGet(g)
           \/ BatchGetFails \/ BuildDone
    PROVE  ReadInv'
  <1>1. ASSUME NEW t \in Templates, NEW a \in Arguments, NEW s \in BOOLEAN, Build(t, a, s) \/ RetrieveBoxFails(t, a, s)
        PROVE  ReadInv'
    <2> DEFINE what == [do |-> "build", template |-> t, args |-> a, strict |-> s]
    <2>1. Begin(what) /\ what.do = "build"
      BY <1>1 DEF Build, RetrieveBoxFails
    <2>2. job = NoJob /\ job' = what
      BY <2>1 DEF Begin
    <2>3. DOMAIN got' = {} /\ answer'.status # "ok"
      <3>1. answer = NoAnswer /\ got = Nothing /\ DOMAIN Nothing = {}
        BY <2>2 DEF ReadInv, RequestInv, Nothing
      <3>2. CASE Build(t, a, s)
        BY <3>1, <3>2 DEF Build, NoAnswer
      <3>3. CASE RetrieveBoxFails(t, a, s)
        <4>1. answer' = [status |-> resolveErrorStatus("template not found"), content |-> <<>>] /\ got' = got
          BY <3>3 DEF RetrieveBoxFails
        <4>2. answer'.status = "not found"
          BY <4>1 DEF resolveErrorStatus
        <4>3. QED BY <3>1, <4>1, <4>2
      <3>4. QED BY <1>1, <3>2, <3>3
    <2> HIDE DEF what
    <2>4. RequestInv'
      BY <2>1, <2>3, BeginReads
    <2>5. QED BY <2>1, <2>2, <2>3, <2>4 DEF ReadInv, AnswerInv
  <1>2. ASSUME NEW g \in toRead, BatchGet(g) PROVE ReadInv'
    <2>1. job # NoJob /\ job.do = "build" /\ answer.status = "none"
      BY <1>2, OpenJob DEF BatchGet
    <2>2. UNCHANGED <<job, body, answer, storeVars, seenVars>>
      BY <1>2 DEF BatchGet
    <2>3. \/ UNCHANGED got
          \/ \E k \in Keys : table[k] # NoRow /\
                 got' = [l \in DOMAIN got \cup {k} |-> IF l = k THEN table[k] ELSE got[l]]
      <3>1. got' = IF clean(g) \in Keys /\ table[clean(g)] # NoRow
                   THEN [k \in DOMAIN got \cup {clean(g)} |->
                           IF k = clean(g) THEN table[k] ELSE got[k]]
                   ELSE got
        BY <1>2 DEF BatchGet
      <3>2. PICK k : k = clean(g)
        OBVIOUS
      <3>3. got' = IF k \in Keys /\ table[k] # NoRow
                   THEN [l \in DOMAIN got \cup {k} |-> IF l = k THEN table[l] ELSE got[l]]
                   ELSE got
        BY <3>1, <3>2
      <3>4. [l \in DOMAIN got \cup {k} |-> IF l = k THEN table[l] ELSE got[l]]
            = [l \in DOMAIN got \cup {k} |-> IF l = k THEN table[k] ELSE got[l]]
        OBVIOUS
      <3>5. QED BY <3>3, <3>4
    <2>4. RequestInv'
      BY <2>1, <2>2, <2>3, ReaderGoesOn DEF Names
    <2>5. QED BY <2>1, <2>2, <2>4 DEF ReadInv, AnswerInv
  <1>3. ASSUME BatchGetFails \/ BuildDone PROVE ReadInv'
    <2>1. job # NoJob /\ job.do = "build"
      BY <1>3, OpenJob DEF BatchGetFails, BuildDone
    <2>2. UNCHANGED <<job, body, toRead, got, storeVars, seenVars>>
      BY <1>3 DEF BatchGetFails, BuildDone, Reply
    <2>3. answer'.status = "ok" => answer'.content = Replace
      <3>1. ASSUME NEW err \in {"failed to retrieve", "missing variables", "invalid syntax"},
                   Reply(resolveErrorStatus(err), <<>>)
            PROVE  answer'.status # "ok"
        <4>1. answer'.status = resolveErrorStatus(err)
          BY <3>1 DEF Reply
        <4>2. QED BY <4>1 DEF resolveErrorStatus
      <3>2. ASSUME Reply("ok", Replace) PROVE answer'.content = Replace
        BY <3>2 DEF Reply
      <3>3. QED BY <1>3, <3>1, <3>2 DEF BatchGetFails, BuildDone
    <2>4. Replace' = Replace
      BY <2>2 DEF Replace
    <2>5. RequestInv'
      BY <2>1, <2>2, ReaderGoesOn
    <2>6. QED BY <2>1, <2>2, <2>3, <2>4, <2>5 DEF ReadInv, AnswerInv
  <1>4. QED BY <1>1, <1>2, <1>3

LEMMA ExportReads ==
    ASSUME StoreInv, ReadInv,
           \/ \E f \in Formats \cup {"xml"} : Export(f)
           \/ \E k \in Names : ListPage(k)
           \/ ListFails \/ ExportDone
    PROVE  ReadInv'
  <1>0. "xml" \notin Formats
    BY DEF Formats
  <1>1. ASSUME NEW f \in Formats \cup {"xml"}, Export(f) PROVE ReadInv'
    <2> DEFINE what == [do |-> "export", format |-> f]
    <2>1. Begin(what) /\ what.do = "export" /\ what.format = f
      BY <1>1 DEF Export
    <2>2. job = NoJob /\ job' = what
      BY <2>1 DEF Begin
    <2>3. toRead = {} /\ answer = NoAnswer
      BY <2>2 DEF ReadInv, RequestInv
    <2>4. DOMAIN got' = {}
      BY <1>1 DEF Export, Nothing
    <2>5. \/ f \in Formats /\ toRead' = Level /\ answer' = NoAnswer
          \/ f \notin Formats /\ toRead' = {} /\ answer' = [status |-> "bad request", content |-> {}]
      BY <1>1, <2>3 DEF Export
    <2> HIDE DEF what
    <2>6. RequestInv'
      BY <2>1, <2>4, BeginReads
    <2>7. AnswerInv'
      <3>1. job'.do = "export" /\ job'.format = f /\ DOMAIN got' \subseteq Level \ Locks
        BY <2>1, <2>2, <2>4
      <3>2. CASE f \in Formats /\ toRead' = Level /\ answer' = NoAnswer
        BY <3>1, <3>2 DEF AnswerInv, NoAnswer
      <3>3. CASE f \notin Formats /\ toRead' = {} /\ answer' = [status |-> "bad request", content |-> {}]
        BY <3>1, <3>3 DEF AnswerInv
      <3>4. QED BY <2>5, <3>2, <3>3
    <2>8. QED BY <2>6, <2>7 DEF ReadInv
  <1>2. ASSUME NEW k \in Names, ListPage(k) PROVE ReadInv'
    <2>1. job # NoJob /\ job.do = "export" /\ answer.status = "none"
      BY <1>2, OpenJob DEF ListPage
    <2>2. UNCHANGED <<job, body, answer, storeVars, seenVars>> /\ toRead' = toRead \ {k} /\ k \in toRead
      BY <1>2 DEF ListPage
    <2>3. got' = IF table[k] = NoRow \/ k \in Locks THEN got
                 ELSE [l \in DOMAIN got \cup {k} |-> IF l = k THEN table[k] ELSE got[l]]
      BY <1>2 DEF ListPage
    <2>4. RequestInv'
      BY <2>1, <2>2, <2>3, ReaderGoesOn
    <2>5. /\ toRead \subseteq Level /\ DOMAIN got \subseteq Level \ Locks
          /\ job.format \in Formats => \A l \in (Level \ Locks) \ toRead : l \in DOMAIN got \/ NoRow \in had[l]
      BY <2>1 DEF ReadInv, AnswerInv
    <2>6. DOMAIN got' = IF table[k] = NoRow \/ k \in Locks THEN DOMAIN got ELSE DOMAIN got \cup {k}
      BY <2>3
    <2>7. table[k] \in had[k] /\ had' = had
      BY <2>1, <2>2 DEF ReadInv, RequestInv, seenVars
    <2>8. AnswerInv'
      <3>1. job' = job /\ answer' = answer
        BY <2>2
      <3>2. toRead' \subseteq Level /\ DOMAIN got' \subseteq Level \ Locks
        BY <2>2, <2>5, <2>6
      <3>3. ASSUME job.format \in Formats, NEW l \in (Level \ Locks) \ toRead'
            PROVE  l \in DOMAIN got' \/ NoRow \in had'[l]
        BY <2>2, <2>5, <2>6, <2>7, <3>3
      <3>4. job.format \in Formats
        BY <2>1 DEF ReadInv, AnswerInv
      <3>5. QED BY <2>1, <3>1, <3>2, <3>3, <3>4 DEF AnswerInv
    <2>9. QED BY <2>4, <2>8 DEF ReadInv
  <1>3. ASSUME ListFails \/ ExportDone PROVE ReadInv'
    <2>1. job # NoJob /\ job.do = "export" /\ answer.status = "none"
      BY <1>3, OpenJob DEF ListFails, ExportDone
    <2>2. UNCHANGED <<job, body, toRead, got, storeVars, seenVars>>
      BY <1>3 DEF ListFails, ExportDone, Reply
    <2>3. RequestInv'
      BY <2>1, <2>2, ReaderGoesOn
    <2>4. \/ toRead # {} /\ answer'.status = "bad request"
          \/ toRead = {} /\ got = Nothing /\ answer'.status = "bad request"
          \/ toRead = {} /\ got # Nothing /\ answer'.status = "ok" /\ answer'.content = exported
      <3>1. CASE ListFails
        BY <3>1 DEF ListFails, Reply
      <3>2. CASE ExportDone /\ got = Nothing
        <4>1. Reply("bad request", {}) /\ toRead = {}
          BY <3>2 DEF ExportDone
        <4>2. answer' = [status |-> "bad request", content |-> {}]
          BY <4>1 DEF Reply
        <4>3. QED BY <3>2, <4>1, <4>2
      <3>3. CASE ExportDone /\ got # Nothing
        <4>1. Reply("ok", exported) /\ toRead = {}
          BY <3>3 DEF ExportDone
        <4>2. answer' = [status |-> "ok", content |-> exported]
          BY <4>1 DEF Reply
        <4>3. QED BY <3>3, <4>1, <4>2
      <3>4. QED BY <1>3, <3>1, <3>2, <3>3
    <2>5. exported' = exported /\ had' = had
      BY <2>2 DEF exported, seenVars
    <2>6. AnswerInv'
      BY <2>1, <2>2, <2>4, <2>5 DEF ReadInv, AnswerInv, Nothing
    <2>7. QED BY <2>3, <2>6 DEF ReadInv
  <1>4. QED BY <1>1, <1>2, <1>3

LEMMA HistoryReads ==
    ASSUME StoreInv, ReadInv,
           \/ \E e \in Entries, from, to \in TimeParams : History(e.key, from, to)
           \/ \E n \in 1..Limit : HistoryPage(n)
           \/ HistoryFails \/ HistoryDone
    PROVE  ReadInv'
  <1>1. ASSUME NEW e \in Entries, NEW from \in TimeParams, NEW to \in TimeParams,
               History(e.key, from, to)
        PROVE  ReadInv'
    <2> DEFINE what == [do |-> "history", key |-> e.key,
                        since |-> parseTimeParam(from), to |-> parseTimeParam(to)]
    <2>1. Begin(what) /\ what.do = "history"
      BY <1>1 DEF History
    <2>2. job' = what
      BY <2>1 DEF Begin
    <2> HIDE DEF what
    <2>3. RequestInv'
      BY <2>1, BeginReads
    <2>4. QED BY <2>1, <2>2, <2>3 DEF ReadInv, AnswerInv
  <1>2. ASSUME (\E n \in 1..Limit : HistoryPage(n)) \/ HistoryFails \/ HistoryDone PROVE ReadInv'
    <2>1. job # NoJob /\ job.do = "history"
      BY <1>2, OpenJob DEF HistoryPage, HistoryFails, HistoryDone
    <2>2. UNCHANGED <<job, storeVars, seenVars>>
      BY <1>2 DEF HistoryPage, HistoryFails, HistoryDone, Reply
    <2>3. RequestInv'
      BY <2>1, <2>2, ReaderGoesOn
    <2>4. QED BY <2>1, <2>2, <2>3 DEF ReadInv, AnswerInv
  <1>3. QED BY <1>1, <1>2

LEMMA ReadNext == StoreInv /\ ReadInv /\ [Next]_vars => ReadInv'
  <1> SUFFICES ASSUME StoreInv, ReadInv, [Next]_vars PROVE ReadInv'
    OBVIOUS
  <1>0. StoreInv'
    BY StoreNext
  <1>1. ASSUME NEW b \in Batches, Upsert(b) PROVE ReadInv'
    <2>1. UNCHANGED readVars /\ given \subseteq given'
      BY <1>1 DEF Upsert
    <2>2. PICK new : Change(new)
      BY <1>1 DEF Upsert
    <2>3. had' = IF job = NoJob THEN had ELSE [k \in Names |-> had[k] \cup {table'[k]}]
      BY <2>2 DEF Change
    <2>4. QED BY <1>0, <2>1, <2>3, WritersLeaveReader
  <1>2. ASSUME NEW k \in Names, Delete(k) PROVE ReadInv'
    <2>1. UNCHANGED readVars /\ given \subseteq given'
      BY <1>2 DEF Delete
    <2>2. had' = IF job = NoJob THEN had ELSE [l \in Names |-> had[l] \cup {table'[l]}]
      BY <1>2 DEF Delete, Change
    <2>3. QED BY <1>0, <2>1, <2>2, WritersLeaveReader
  <1>3. ASSUME NEW t \in tasks, CreateBatch(t) PROVE ReadInv'
    BY <1>0, <1>3, WritersLeaveReader DEF CreateBatch, seenVars
  <1>4. CASE UNCHANGED vars
    BY <1>0, <1>4, WritersLeaveReader DEF vars, storeVars, seenVars
  <1>5. CASE Return
    <2>1. job' = NoJob /\ toRead' = {} /\ got' = Nothing /\ answer' = NoAnswer
      BY <1>5 DEF Return
    <2>2. QED BY <2>1 DEF ReadInv, RequestInv, AnswerInv, NoJob
  <1>6. QED
    BY <1>1, <1>2, <1>3, <1>4, <1>5, BuildReads, ExportReads, HistoryReads DEF Next

LEMMA ReadAlways == Spec => [](StoreInv /\ ReadInv)
  <1>1. Init => StoreInv /\ ReadInv
    BY StoreInit, ReadInit
  <1>2. StoreInv /\ ReadInv /\ [Next]_vars => (StoreInv /\ ReadInv)'
    BY StoreNext, ReadNext
  <1>3. QED BY <1>1, <1>2, PTL DEF Spec

-----------------------------------------------------------------------------
\* The values that were routed to the index.
OpenValues == {e.value : e \in {d \in given : ~external(d)}}

LEMMA RowsOpen ==
    ASSUME StoreInv, NEW row, IsRow(row), row.value \in Values
    PROVE  row.value \in OpenValues
  <1>1. PICK e \in given : row = Row(e)
    BY DEF IsRow
  <1>2. ~external(e) /\ row.value = e.value
    BY <1>1, RowHides DEF StoreInv
  <1>3. QED BY <1>1, <1>2 DEF OpenValues

(* Nobody is shown a value that was only ever sent to the Parameter Store: *)
(* not in a row, a template, an export or a record, whatever fails or      *)
(* changes while it is read (ssm.go:195, recorder.go:134).                 *)
THEOREM NoSecretShown == Spec => []SecretsHidden
  <1>1. ASSUME StoreInv, ReadInv PROVE SecretsHidden
    <2>0. "none" \notin Values /\ "cut" \notin Values /\ "empty" \notin Values
      <3>1. {"address", "none", "cut", "empty"} \cap Values = {}
        BY ViewsAssumption
      <3>2. QED BY <3>1
    <2>7. NoRow.value = "none" /\ Marker.value = "empty"
      BY DEF NoRow, Marker
    <2>1. ASSUME NEW k \in Names, table[k].value \in Values PROVE table[k].value \in OpenValues
      <3>1. table[k] \notin {NoRow, Marker}
        BY <2>0, <2>7, <2>1
      <3>2. QED BY <1>1, <2>1, <3>1, RowsOpen DEF StoreInv
    <2>2. ASSUME NEW r \in records \cup UNION tasks, r.value \in Values PROVE r.value \in OpenValues
      <3>1. IsRecord(r)
        BY <1>1 DEF StoreInv
      <3>2. PICK e \in given : r.value = Row(e).value
        BY <3>1 DEF IsRecord
      <3>3. IsRow(Row(e))
        BY DEF IsRow
      <3>4. QED BY <1>1, <2>2, <3>2, <3>3, RowsOpen
    <2>3. ASSUME job.do \in {"build", "export"}, NEW k \in DOMAIN got, got[k].value \in Values
          PROVE  got[k].value \in OpenValues
      <3>1. job # NoJob
        BY <2>3 DEF NoJob
      <3>2. k \in Names /\ got[k] \in had[k] /\ got[k] # NoRow
        BY <1>1, <2>3 DEF ReadInv, RequestInv
      <3>3. IsRow(got[k])
        BY <1>1, <2>0, <2>3, <2>7, <3>1, <3>2 DEF ReadInv, RequestInv, RowsHad
      <3>4. QED BY <1>1, <2>3, <3>3, RowsOpen
    <2>4. ASSUME Done("build", "ok"), NEW i \in DOMAIN body, body[i].var, answer.content[i][1] \in Values
          PROVE  answer.content[i][1] \in OpenValues
      <3>1. answer.content[i] = IF body[i].words \in DOMAIN got
                                THEN <<Transform(got[body[i].words].value)>> ELSE <<"empty">>
        BY <1>1, <2>4 DEF ReadInv, AnswerInv, Done, Replace
      <3>2. body[i].words \in DOMAIN got
        <4>1. CASE body[i].words \notin DOMAIN got
          <5>1. answer.content[i] = <<"empty">>
            BY <3>1, <4>1
          <5>2. answer.content[i][1] = "empty"
            <6>1. \A x : <<x>>[1] = x
              OBVIOUS
            <6>2. QED BY <5>1, <6>1
          <5>3. QED BY <2>0, <2>4, <5>2
        <4>2. QED BY <4>1
      <3>3. answer.content[i][1] = Transform(got[body[i].words].value)
        BY <3>1, <3>2
      <3>4. Transform(got[body[i].words].value) \in {"cut", got[body[i].words].value}
        BY DEF Transform
      <3>5. answer.content[i][1] = got[body[i].words].value
        BY <2>0, <2>4, <3>3, <3>4
      <3>6. QED BY <2>3, <2>4, <3>2, <3>5 DEF Done
    <2>5. ASSUME Done("export", "ok"), NEW l \in answer.content, l.value \in Values
          PROVE  l.value \in OpenValues
      <3>1. answer.content = exported
        BY <1>1, <2>5 DEF ReadInv, AnswerInv, Done
      <3>2. PICK k \in DOMAIN got : l = line(job.format, k, got[k])
        BY <3>1 DEF exported
      <3>3. l.value = got[k].value
        BY <1>1, <2>5, <3>2 DEF ReadInv, AnswerInv, Done, Formats, line, jsonLine, dotenvLine, ecsLine
      <3>4. QED BY <2>3, <2>5, <3>2, <3>3 DEF Done
    <2>8. QED BY <2>1, <2>2, <2>4, <2>5 DEF SecretsHidden, OpenValues
  <1>2. QED BY <1>1, ReadAlways, PTL

(* An export has each entry and folder of its level as it was at some      *)
(* moment since it was asked for, and nothing else, no locks; when the     *)
(* whole level was read, it is refused only if each was absent for a       *)
(* moment (generator.go:46, dynamodb.go:345).                              *)
THEOREM ExportsHonest == Spec => []ExportHonest
  <1>1. ASSUME ReadInv PROVE ExportHonest
    <2>1. ASSUME Done("export", "ok"), NEW k \in Level \ Locks
          PROVE  NoRow \in had[k] \/ \E row \in had[k] : line(job.format, k, row) \in answer.content
      <3>1. answer.content = exported /\ (k \in DOMAIN got \/ NoRow \in had[k])
        BY <1>1, <2>1 DEF ReadInv, AnswerInv, Done
      <3>2. CASE k \in DOMAIN got
        <4>1. got[k] \in had[k]
          BY <1>1, <2>1, <3>2 DEF ReadInv, RequestInv, Done
        <4>2. QED BY <3>1, <3>2, <4>1 DEF exported
      <3>3. QED BY <3>1, <3>2
    <2>2. ASSUME Done("export", "ok"), NEW l \in answer.content
          PROVE  \E k \in Level \ Locks : \E row \in had[k] \ {NoRow} : l = line(job.format, k, row)
      <3>1. answer.content = exported /\ DOMAIN got \subseteq Level \ Locks
        BY <1>1, <2>2 DEF ReadInv, AnswerInv, Done
      <3>2. PICK k \in DOMAIN got : l = line(job.format, k, got[k])
        BY <3>1 DEF exported
      <3>3. got[k] \in had[k] \ {NoRow}
        BY <1>1, <2>2 DEF ReadInv, RequestInv, Done
      <3>4. QED BY <3>1, <3>2, <3>3
    <2>3. ASSUME Done("export", "bad request"), job.format \in Formats, toRead = {}
          PROVE  \A k \in Level \ Locks : NoRow \in had[k]
      BY <1>1, <2>3 DEF ReadInv, AnswerInv, Done
    <2>4. QED BY <2>1, <2>2, <2>3 DEF ExportHonest
  <1>2. QED BY <1>1, ReadAlways, PTL

-----------------------------------------------------------------------------
(* A set of numbers that is not empty has a least one.                     *)
LEMMA LeastNumber ==
    ASSUME NEW S \in SUBSET Nat, S # {}
    PROVE  \E x \in S : \A y \in S : x <= y
  <1> DEFINE R == OpToRel(<, Nat)
  <1>1. IsWellFoundedOn(R, Nat)
    BY NatLessThanWellFounded
  <1>2. \A x, y \in Nat : <<x, y>> \in R <=> x < y
    BY DEF OpToRel
  <1> HIDE DEF R
  <1>3. PICK x \in S : \A y \in S : ~(<<y, x>> \in R)
    BY <1>1, WFMin
  <1>4. \A y \in S : ~(y < x)
    BY <1>2, <1>3
  <1>5. \A y \in S : x <= y
    BY <1>4
  <1>6. QED BY <1>5

(* SelectInSeq finds an element that is in a set if the sequence has one.  *)
LEMMA FirstFound ==
    ASSUME NEW X, NEW order \in Seq(X), NEW N,
           NEW i, i = SelectInSeq(order, LAMBDA n : n \in N)
    PROVE  \/ i = 0 /\ \A j \in 1..Len(order) : order[j] \notin N
           \/ i \in 1..Len(order) /\ order[i] \in N
  <1> DEFINE I == {j \in 1..Len(order) : order[j] \in N}
  <1>1. i = IF I # {} THEN CHOOSE x \in I : \A y \in I : x <= y ELSE 0
    BY DEF SelectInSeq, Min
  <1>2. CASE I = {}
    <2>1. i = 0
      BY <1>1, <1>2
    <2>2. QED BY <1>2, <2>1
  <1>3. CASE I # {}
    <2>1. I \in SUBSET Nat
      OBVIOUS
    <2> HIDE DEF I
    <2>2. \E x \in I : \A y \in I : x <= y
      BY <1>3, <2>1, LeastNumber
    <2>3. i \in I
      BY <1>1, <1>3, <2>2
    <2>4. QED BY <2>3 DEF I
  <1>4. QED BY <1>2, <1>3

\* The names that a build knows.
Known(args) == DOMAIN BuiltIn \cup DOMAIN args

(* Every order of the names that the Replacer may be given has each of     *)
(* them (renderer.go:103).                                                 *)
LEMMA OrdersComplete ==
    ASSUME NEW args \in Arguments, NEW order \in Orders(args)
    PROVE  /\ order \in Seq(Known(args))
           /\ \A n \in Known(args) : \E i \in 1..Len(order) : order[i] = n
  <1>1. IsFiniteSet(DOMAIN args) /\ DOMAIN BuiltIn = {":service", ":stage", ":template"}
    BY ViewsAssumption
  <1>2. PICK size \in Nat : size = Cardinality(DOMAIN args)
    BY <1>1, FS_CardinalityType
  <1>3. PICK s \in SetToSeqs(DOMAIN args) : order = <<":service", ":stage", ":template">> \o s
    BY DEF Orders
  <1>4. s \in [1..size -> DOMAIN args] /\ \A i, j \in 1..size : i # j => s[i] # s[j]
    BY <1>2, <1>3 DEF SetToSeqs
  <1>5. ASSUME NEW n \in DOMAIN args PROVE \E i \in 1..size : s[i] = n
    <2>1. s \in Injection(1..size, DOMAIN args)
      BY <1>4 DEF Injection, IsInjective
    <2>2. Cardinality(1..size) = size
      BY FS_Interval
    <2>3. s \in Surjection(1..size, DOMAIN args)
      BY <1>1, <1>2, <2>1, <2>2, FS_Injection
    <2>4. QED BY <1>5, <2>3 DEF Surjection
  <1>6. s \in Seq(Known(args)) /\ Len(s) = size
    BY <1>4 DEF Known
  <1>7. <<":service", ":stage", ":template">> \in Seq(Known(args))
    BY <1>1 DEF Known
  <1>8. /\ order \in Seq(Known(args)) /\ Len(order) = 3 + size
        /\ order[1] = ":service" /\ order[2] = ":stage" /\ order[3] = ":template"
        /\ \A i \in 1..size : order[3 + i] = s[i]
    BY <1>3, <1>6, <1>7
  <1>9. ASSUME NEW n \in Known(args) PROVE \E i \in 1..Len(order) : order[i] = n
    <2>1. CASE n \in DOMAIN args
      <3>1. PICK i \in 1..size : s[i] = n
        BY <1>5, <2>1
      <3>2. order[3 + i] = n /\ 3 + i \in 1..Len(order)
        BY <1>8, <3>1
      <3>3. QED BY <3>2
    <2>2. CASE n \in DOMAIN BuiltIn
      <3>1. n = order[1] \/ n = order[2] \/ n = order[3]
        BY <1>1, <1>8, <2>2
      <3>2. 1 \in 1..Len(order) /\ 2 \in 1..Len(order) /\ 3 \in 1..Len(order)
        BY <1>8
      <3>3. QED BY <3>1, <3>2
    <2>3. QED BY <1>9, <2>1, <2>2 DEF Known
  <1>10. QED BY <1>8, <1>9

\* What a word of a template stands for.
Meant(args, w) == IF w \in Known(args) THEN valueOf(args, w) ELSE w

(* A word that begins with no name but itself is replaced by what it       *)
(* stands for, in whatever order the Replacer goes by.                     *)
LEMMA WordReplaced ==
    ASSUME NEW args \in Arguments, NEW order \in Orders(args), NEW w,
           w \in Placeholders => Begins[w] \cap Known(args) \subseteq {w}
    PROVE  replaced(w, args, order) = Meant(args, w)
  <1>0. /\ \A v \in Placeholders : v \in Begins[v]
        /\ Known(args) \subseteq Placeholders
    BY ViewsAssumption DEF Known
  <1>1. CASE w \notin Placeholders
    BY <1>0, <1>1 DEF replaced, Meant
  <1>2. CASE w \in Placeholders
    <2>1. PICK i : i = SelectInSeq(order, LAMBDA n : n \in Begins[w])
      OBVIOUS
    <2>2. replaced(w, args, order) =
              IF i = 0 THEN w ELSE IF order[i] = w THEN valueOf(args, w) ELSE "mangled"
      BY <1>2, <2>1 DEF replaced
    <2>3. /\ order \in Seq(Known(args))
          /\ \A n \in Known(args) : \E j \in 1..Len(order) : order[j] = n
      BY OrdersComplete
    <2>4. \/ i = 0 /\ \A j \in 1..Len(order) : order[j] \notin Begins[w]
          \/ i \in 1..Len(order) /\ order[i] \in Begins[w]
      BY <2>1, <2>3, FirstFound
    <2>5. CASE i = 0
      <3>1. w \notin Known(args)
        BY <1>0, <1>2, <2>3, <2>4, <2>5
      <3>2. QED BY <2>2, <2>5, <3>1 DEF Meant
    <2>6. CASE i # 0
      <3>1. i \in 1..Len(order) /\ order[i] \in Begins[w]
        BY <2>4, <2>6
      <3>2. order[i] \in Known(args)
        BY <2>3, <3>1
      <3>3. order[i] = w
        BY <1>2, <3>1, <3>2
      <3>4. QED BY <2>2, <2>6, <3>2, <3>3 DEF Meant
    <2>7. QED BY <2>5, <2>6
  <1>3. QED BY <1>1, <1>2

-----------------------------------------------------------------------------
\* A build: its body is its template with the arguments in place; of the
\* variables of that, each is still to be read, has been read, or was absent.
Absent(g) == g \notin Keys \/ NoRow \in had[g]

BuildInv ==
    job.do = "build" /\ answer.status # "not found" =>
        /\ job.args \in Arguments /\ job.strict \in BOOLEAN
        /\ \E order \in Orders(job.args) : body = VarsBuilder(job.template, job.args, order)
        /\ \A g \in GetKeys(body) \ toRead : g \in DOMAIN got \/ Absent(g)
        /\ answer.status = "ok" => toRead = {} /\ (job.strict => GetMissingVars = {})
        /\ answer.status = "bad request" => toRead = {} /\ (GetMissingVars # {} \/ invalid)

LEMMA BuildInit == Init => BuildInv
  <1>1. Init => job.do # "build"
    BY DEF Init, NoJob
  <1>2. QED BY <1>1 DEF BuildInv

(* Steps that are no part of a build leave what it has.                    *)
LEMMA BuildLeft ==
    ASSUME ReadInv, BuildInv, UNCHANGED <<job, body, toRead, got, answer>>,
           \/ UNCHANGED had
           \/ had' = IF job = NoJob THEN had ELSE [k \in Names |-> had[k] \cup {table'[k]}]
    PROVE  BuildInv'
  <1>1. ASSUME NEW g, Absent(g) PROVE Absent(g)'
    BY <1>1 DEF Absent, Names
  <1>2. /\ GetKeys(body)' = GetKeys(body) /\ GetMissingVars' = GetMissingVars
        /\ invalid' = invalid
    BY DEF GetMissingVars, invalid, Replace
  <1>3. QED BY <1>1, <1>2 DEF BuildInv

LEMMA NotBuilding == ASSUME job'.do # "build" PROVE BuildInv'
  BY DEF BuildInv

LEMMA BuildBegins ==
    ASSUME ReadInv, NEW t \in Templates, NEW a \in Arguments, NEW s \in BOOLEAN,
           Build(t, a, s) \/ RetrieveBoxFails(t, a, s)
    PROVE  BuildInv'
  <1> DEFINE what == [do |-> "build", template |-> t, args |-> a, strict |-> s]
  <1>1. job = NoJob /\ job' = what
    BY DEF Build, RetrieveBoxFails, Begin
  <1>2. what.template = t /\ what.args = a /\ what.strict = s
    OBVIOUS
  <1> HIDE DEF what
  <1>3. CASE Build(t, a, s)
    <2>1. PICK order \in Orders(a) : body' = VarsBuilder(t, a, order)
      BY <1>3 DEF Build
    <2>2. toRead' = GetKeys(body') /\ answer' = NoAnswer
      BY <1>1, <1>3 DEF Build, ReadInv, RequestInv
    <2>3. answer'.status = "none"
      BY <2>2 DEF NoAnswer
    <2>4. QED BY <1>1, <1>2, <2>1, <2>2, <2>3 DEF BuildInv
  <1>4. CASE RetrieveBoxFails(t, a, s)
    <2>1. answer'.status = resolveErrorStatus("template not found")
      BY <1>4 DEF RetrieveBoxFails
    <2>2. answer'.status = "not found"
      BY <2>1 DEF resolveErrorStatus
    <2>3. QED BY <2>2 DEF BuildInv
  <1>5. QED BY <1>3, <1>4

(* A variable that is found under no key was absent when it was read: it   *)
(* is spelled otherwise than its key, or the key had no row.               *)
LEMMA BuildReadsOn ==
    ASSUME ReadInv, BuildInv, NEW g \in toRead, BatchGet(g)
    PROVE  BuildInv'
  <1>1. job # NoJob /\ job.do = "build" /\ answer.status = "none"
    BY OpenJob DEF BatchGet
  <1>2. UNCHANGED <<job, body, answer, table, had>> /\ toRead' = toRead \ {g}
    BY DEF BatchGet, storeVars, seenVars
  <1>3. PICK k : k = clean(g)
    OBVIOUS
  <1>4. got' = IF k \in Keys /\ table[k] # NoRow
               THEN [l \in DOMAIN got \cup {k} |-> IF l = k THEN table[l] ELSE got[l]]
               ELSE got
    <2>1. got' = IF clean(g) \in Keys /\ table[clean(g)] # NoRow
                 THEN [l \in DOMAIN got \cup {clean(g)} |->
                         IF l = clean(g) THEN table[l] ELSE got[l]]
                 ELSE got
      BY DEF BatchGet
    <2>2. QED BY <1>3, <2>1
  <1>5. DOMAIN got' = IF k \in Keys /\ table[k] # NoRow THEN DOMAIN got \cup {k} ELSE DOMAIN got
    BY <1>4
  <1>6. g \in DOMAIN got' \/ Absent(g)'
    <2>1. CASE g \notin Keys
      BY <2>1 DEF Absent
    <2>2. CASE g \in Keys
      <3>1. k = g
        BY <1>3, <2>2, KeysAssumption
      <3>2. table[k] \in had[k]
        BY <1>1, <2>2, <3>1 DEF ReadInv, RequestInv, Names
      <3>3. QED BY <1>2, <1>5, <2>2, <3>1, <3>2 DEF Absent
    <2>3. QED BY <2>1, <2>2
  <1>7. ASSUME NEW h \in GetKeys(body) \ toRead' PROVE h \in DOMAIN got' \/ Absent(h)'
    <2>1. CASE h = g
      BY <1>6, <2>1
    <2>2. CASE h # g
      <3>1. h \in DOMAIN got \/ Absent(h)
        BY <1>1, <1>2, <1>7, <2>2 DEF BuildInv
      <3>2. QED BY <1>2, <1>5, <3>1 DEF Absent
    <2>3. QED BY <2>1, <2>2
  <1>8. QED BY <1>1, <1>2, <1>7 DEF BuildInv

LEMMA BuildAnswers ==
    ASSUME ReadInv, BuildInv, BatchGetFails \/ BuildDone
    PROVE  BuildInv'
  <1>1. job # NoJob /\ job.do = "build" /\ answer.status = "none"
    BY OpenJob DEF BatchGetFails, BuildDone
  <1>2. UNCHANGED <<job, body, toRead, got, had>>
    BY DEF BatchGetFails, BuildDone, Reply, seenVars
  <1>3. GetKeys(body)' = GetKeys(body) /\ GetMissingVars' = GetMissingVars /\ invalid' = invalid
    BY <1>2 DEF GetMissingVars, invalid, Replace
  <1>4. ASSUME NEW status, NEW content, Reply(status, content) PROVE answer'.status = status
    BY <1>4 DEF Reply
  <1>5. /\ resolveErrorStatus("failed to retrieve") = "error"
        /\ resolveErrorStatus("missing variables") = "bad request"
        /\ resolveErrorStatus("invalid syntax") = "bad request"
    BY DEF resolveErrorStatus
  <1>6. \/ answer'.status = "error"
        \/ answer'.status = "bad request" /\ toRead = {} /\ (GetMissingVars # {} \/ invalid)
        \/ answer'.status = "ok" /\ toRead = {} /\ (~job.strict \/ GetMissingVars = {})
    <2>1. CASE BatchGetFails
      BY <1>4, <1>5, <2>1 DEF BatchGetFails
    <2>2. CASE BuildDone
      BY <1>4, <1>5, <2>2 DEF BuildDone
    <2>3. QED BY <2>1, <2>2
  <1>7. ASSUME NEW g \in GetKeys(body) \ toRead PROVE g \in DOMAIN got \/ Absent(g)'
    BY <1>1, <1>2, <1>7 DEF BuildInv, Absent
  <1>8. QED BY <1>1, <1>2, <1>3, <1>6, <1>7 DEF BuildInv

LEMMA BuildNext == StoreInv /\ ReadInv /\ BuildInv /\ [Next]_vars => BuildInv'
  <1> SUFFICES ASSUME StoreInv, ReadInv, BuildInv, [Next]_vars PROVE BuildInv'
    OBVIOUS
  <1>1. ASSUME NEW b \in Batches, Upsert(b) PROVE BuildInv'
    <2>1. UNCHANGED <<job, body, toRead, got, answer>>
      BY <1>1 DEF Upsert, readVars
    <2>2. PICK new : Change(new)
      BY <1>1 DEF Upsert
    <2>3. had' = IF job = NoJob THEN had ELSE [k \in Names |-> had[k] \cup {table'[k]}]
      BY <2>2 DEF Change
    <2>4. QED BY <2>1, <2>3, BuildLeft
  <1>2. ASSUME NEW k \in Names, Delete(k) PROVE BuildInv'
    <2>1. had' = IF job = NoJob THEN had ELSE [l \in Names |-> had[l] \cup {table'[l]}]
      BY <1>2 DEF Delete, Change
    <2>2. QED BY <1>2, <2>1, BuildLeft DEF Delete, readVars
  <1>3. ASSUME NEW t \in tasks, CreateBatch(t) PROVE BuildInv'
    BY <1>3, BuildLeft DEF CreateBatch, readVars, seenVars
  <1>4. CASE UNCHANGED vars
    BY <1>4, BuildLeft DEF vars, readVars, seenVars
  <1>5. CASE Return
    <2>1. job' = NoJob
      BY <1>5 DEF Return
    <2>2. NoJob.do = "none"
      BY DEF NoJob
    <2>3. job'.do # "build"
      BY <2>1, <2>2
    <2>4. QED BY <2>3, NotBuilding
  <1>6. ASSUME \/ \E f \in Formats \cup {"xml"} : Export(f)
               \/ \E e \in Entries, from, to \in TimeParams : History(e.key, from, to)
        PROVE  BuildInv'
    <2>1. ASSUME NEW what, Begin(what), what.do # "build" PROVE BuildInv'
      BY <2>1, NotBuilding DEF Begin
    <2>2. CASE \E f \in Formats \cup {"xml"} : Export(f)
      BY <2>1, <2>2 DEF Export
    <2>3. CASE \E e \in Entries, from, to \in TimeParams : History(e.key, from, to)
      BY <2>1, <2>3 DEF History
    <2>4. QED BY <1>6, <2>2, <2>3
  <1>7. ASSUME \/ \E k \in Names : ListPage(k)
               \/ ListFails \/ ExportDone
               \/ \E n \in 1..Limit : HistoryPage(n)
               \/ HistoryFails \/ HistoryDone
        PROVE  BuildInv'
    <2>1. job.do \in {"export", "history"} /\ job' = job
      BY <1>7 DEF ListPage, ListFails, ExportDone, HistoryPage, HistoryFails, HistoryDone, Open, Reply
    <2>2. QED BY <2>1, NotBuilding
  <1>8. QED
    BY <1>1, <1>2, <1>3, <1>4, <1>5, <1>6, <1>7, BuildBegins, BuildReadsOn, BuildAnswers DEF Next

\* The words of an item of a template with its arguments in place.
MeantWords(item) == [j \in DOMAIN item.words |-> Meant(job.args, item.words[j])]

\* The exemption: no placeholder begins with the name of another argument.
Clear(t) == \A i \in DOMAIN t : \A j \in DOMAIN t[i].words :
    t[i].words[j] \in Placeholders => Begins[t[i].words[j]] \cap Known(job.args) \subseteq {t[i].words[j]}

LEMMA BodyMeant ==
    ASSUME BuildInv, job.do = "build", answer.status # "not found", Clear(job.template)
    PROVE  /\ DOMAIN body = DOMAIN job.template
           /\ \A i \in DOMAIN body : /\ body[i].var = job.template[i].var
                                     /\ body[i].words = MeantWords(job.template[i])
  <1>1. PICK order \in Orders(job.args) : body = VarsBuilder(job.template, job.args, order)
    BY DEF BuildInv
  <1>2. DOMAIN body = DOMAIN job.template
    BY <1>1 DEF VarsBuilder
  <1>3. ASSUME NEW i \in DOMAIN body
        PROVE  body[i].var = job.template[i].var /\ body[i].words = MeantWords(job.template[i])
    <2> DEFINE v == job.template[i].var
               w == [j \in DOMAIN job.template[i].words |->
                        replaced(job.template[i].words[j], job.args, order)]
    <2>1. body[i] = [var |-> v, words |-> w]
      BY <1>1, <1>3 DEF VarsBuilder
    <2>2. ASSUME NEW j \in DOMAIN job.template[i].words
          PROVE  replaced(job.template[i].words[j], job.args, order) = Meant(job.args, job.template[i].words[j])
      <3>1. job.args \in Arguments
        BY DEF BuildInv
      <3>2. PICK word : word = job.template[i].words[j]
        OBVIOUS
      <3>3. word \in Placeholders => Begins[word] \cap Known(job.args) \subseteq {word}
        BY <1>2, <3>2 DEF Clear
      <3>4. QED BY <1>1, <3>1, <3>2, <3>3, WordReplaced
    <2>3. w = [j \in DOMAIN job.template[i].words |-> Meant(job.args, job.template[i].words[j])]
      BY <2>2
    <2>4. body[i].var = v /\ body[i].words = w
      <3>1. PICK item, x, y : item = body[i] /\ x = v /\ y = w
        OBVIOUS
      <3>2. item = [var |-> x, words |-> y]
        BY <2>1, <3>1
      <3>3. item.var = x /\ item.words = y
        BY <3>2
      <3>4. QED BY <3>1, <3>3
    <2>5. QED BY <2>3, <2>4 DEF MeantWords
  <1>4. QED BY <1>2, <1>3

(* A row that is read is not cut short, but its value may be when it is    *)
(* put in a template (json_strategy.go:18).                                *)
LEMMA ReadRow ==
    ASSUME StoreInv, ReadInv, job.do = "build", NEW g \in DOMAIN got
    PROVE  /\ g \in Keys /\ got[g] \in had[g] \ {NoRow}
           /\ \/ Transform(got[g].value) = got[g].value /\ got[g].value # "cut"
              \/ Transform(got[g].value) = "cut" /\ got[g].value \in Quoted
  <1>1. job # NoJob /\ g \in Keys /\ got[g] \in had[g] \ {NoRow}
    BY DEF ReadInv, RequestInv, NoJob
  <1>2. got[g] = Marker \/ IsRow(got[g])
    BY <1>1 DEF ReadInv, RequestInv, RowsHad, Names
  <1>3. got[g].value \in Values \cup {"address", "empty"}
    <2>1. CASE got[g] = Marker
      BY <2>1 DEF Marker
    <2>2. CASE IsRow(got[g])
      BY <2>2, RowHides DEF IsRow, StoreInv, Rows
    <2>3. QED BY <1>2, <2>1, <2>2
  <1>4. "cut" \notin Values
    <2>1. {"address", "none", "cut", "empty"} \cap Values = {}
      BY ViewsAssumption
    <2>2. QED BY <2>1
  <1>5. got[g].value # "cut"
    BY <1>3, <1>4
  <1>6. QED BY <1>1, <1>5 DEF Transform

LEMMA CutIsNotEmpty == <<"cut">> # <<"empty">>
  <1>1. \A x, y : <<x>> = <<y>> => x = y
    OBVIOUS
  <1>2. QED BY <1>1

(* What a build answers is its template with every placeholder replaced by *)
(* its argument, in whatever order, and every variable by a value its entry *)
(* had meanwhile; a strict build leaves none open and is refused only for  *)
(* one that had no value for a moment or lost a quote (renderer.go:53).    *)
THEOREM BuildsFilled == Spec => []BuildFilled
  <1>1. ASSUME StoreInv, ReadInv, BuildInv PROVE BuildFilled
    <2> DEFINE names == DOMAIN BuiltIn \cup DOMAIN job.args
               word(w) == IF w \in names THEN valueOf(job.args, w) ELSE w
               words(item) == [j \in DOMAIN item.words |-> word(item.words[j])]
               absent(g) == g \notin Keys \/ NoRow \in had[g]
               filled(item, out) ==
                   IF ~item.var THEN out = words(item)
                   ELSE \/ ~job.strict /\ absent(words(item)) /\ out = <<"empty">>
                        \/ /\ words(item) \in Keys
                           /\ \E row \in had[words(item)] \ {NoRow} :
                                 out = <<row.value>> \/ (out = <<"cut">> /\ row.value \in Quoted)
               t == job.template
    <2>1. \A item : words(item) = MeantWords(item)
      BY DEF MeantWords, Meant, Known
    <2>2. \A g : absent(g) <=> Absent(g)
      BY DEF Absent
    <2>3. ASSUME Done("build", "ok"), Clear(t), NEW i \in DOMAIN t
          PROVE  DOMAIN answer.content = DOMAIN t /\ filled(t[i], answer.content[i])
      <3>1. answer.content = Replace /\ job.do = "build" /\ answer.status = "ok"
        BY <1>1, <2>3 DEF Done, ReadInv, AnswerInv
      <3>2. /\ DOMAIN body = DOMAIN t /\ body[i].var = t[i].var
            /\ body[i].words = words(t[i])
        BY <1>1, <2>1, <2>3, <3>1, BodyMeant
      <3>3. PICK g : g = body[i].words
        OBVIOUS
      <3>4. answer.content[i] = IF ~body[i].var THEN g
                                ELSE IF g \in DOMAIN got THEN <<Transform(got[g].value)>> ELSE <<"empty">>
        <4>1. i \in DOMAIN body
          BY <2>3, <3>2
        <4>2. Replace[i] = IF ~body[i].var THEN body[i].words
                           ELSE IF body[i].words \in DOMAIN got
                                THEN <<Transform(got[body[i].words].value)>>
                           ELSE <<"empty">>
          BY <4>1 DEF Replace
        <4>3. QED BY <3>1, <3>3, <4>2
      <3>5. DOMAIN answer.content = DOMAIN t
        BY <3>1, <3>2 DEF Replace
      <3>6. CASE ~t[i].var
        BY <3>2, <3>3, <3>4, <3>5, <3>6
      <3>7. CASE t[i].var /\ g \in DOMAIN got
        <4>1. answer.content[i] = <<Transform(got[g].value)>>
          BY <3>2, <3>4, <3>7
        <4>2. /\ g \in Keys /\ got[g] \in had[g] \ {NoRow}
              /\ \/ Transform(got[g].value) = got[g].value
                 \/ Transform(got[g].value) = "cut" /\ got[g].value \in Quoted
          BY <1>1, <3>1, <3>7, ReadRow
        <4>3. \E row \in had[g] \ {NoRow} :
                  \/ answer.content[i] = <<row.value>>
                  \/ answer.content[i] = <<"cut">> /\ row.value \in Quoted
          BY <4>1, <4>2
        <4>4. QED BY <3>2, <3>3, <3>5, <3>7, <4>2, <4>3
      <3>8. CASE t[i].var /\ g \notin DOMAIN got
        <4>1. answer.content[i] = <<"empty">>
          BY <3>2, <3>4, <3>8
        <4>2. g \in GetKeys(body)
          BY <2>3, <3>2, <3>3, <3>8 DEF GetKeys
        <4>3. toRead = {} /\ (job.strict => GetMissingVars = {})
          BY <1>1, <3>1 DEF BuildInv
        <4>4. ~job.strict
          BY <3>8, <4>2, <4>3 DEF GetMissingVars
        <4>5. Absent(g)
          BY <1>1, <3>1, <3>8, <4>2, <4>3 DEF BuildInv
        <4>6. QED BY <2>2, <3>2, <3>3, <3>5, <3>8, <4>1, <4>4, <4>5
      <3>9. QED BY <3>6, <3>7, <3>8
    <2>4. ASSUME Done("build", "ok"), Clear(t) PROVE DOMAIN answer.content = DOMAIN t
      BY <1>1, <2>4, BodyMeant DEF Done, ReadInv, AnswerInv, Replace
    <2>5. ASSUME Done("build", "bad request"), Clear(t)
          PROVE  \E i \in DOMAIN t : t[i].var /\
                    (absent(words(t[i])) \/ \E row \in had[words(t[i])] : row.value \in Quoted)
      <3>1. job.do = "build" /\ answer.status = "bad request"
        BY <2>5 DEF Done
      <3>2. toRead = {} /\ (GetMissingVars # {} \/ invalid)
        BY <1>1, <3>1 DEF BuildInv
      <3>3. /\ DOMAIN body = DOMAIN t
            /\ \A i \in DOMAIN body : body[i].var = t[i].var /\ body[i].words = words(t[i])
        BY <1>1, <2>1, <2>5, <3>1, BodyMeant
      <3>4. CASE GetMissingVars # {}
        <4>1. PICK g \in GetKeys(body) : g \notin DOMAIN got
          BY <3>4 DEF GetMissingVars
        <4>2. PICK i \in DOMAIN body : body[i].var /\ body[i].words = g
          BY <4>1 DEF GetKeys
        <4>3. Absent(g)
          BY <1>1, <3>1, <3>2, <4>1 DEF BuildInv
        <4>4. QED BY <2>2, <3>3, <4>2, <4>3
      <3>5. CASE invalid
        <4>1. PICK i \in DOMAIN body : body[i].var /\ Replace[i] = <<"cut">>
          BY <3>5 DEF invalid
        <4>2. PICK g : g = body[i].words
          OBVIOUS
        <4>3. Replace[i] = IF g \in DOMAIN got THEN <<Transform(got[g].value)>> ELSE <<"empty">>
          BY <4>1, <4>2 DEF Replace
        <4>4. g \in DOMAIN got
          BY <4>1, <4>3, CutIsNotEmpty
        <4>5. Transform(got[g].value) = "cut"
          <5>1. \A x, y : <<x>> = <<y>> => x = y
            OBVIOUS
          <5>2. QED BY <4>1, <4>3, <4>4, <5>1
        <4>6. got[g] \in had[g] /\ got[g].value \in Quoted
          BY <1>1, <3>1, <4>4, <4>5, ReadRow
        <4>7. QED BY <3>3, <4>1, <4>2, <4>6
      <3>6. QED BY <3>2, <3>4, <3>5
    <2>6. QED
      BY <2>3, <2>4, <2>5 DEF BuildFilled, Clear, Known
  <1>2. Init => StoreInv /\ ReadInv /\ BuildInv
    BY StoreInit, ReadInit, BuildInit
  <1>3. StoreInv /\ ReadInv /\ BuildInv /\ [Next]_vars => (StoreInv /\ ReadInv /\ BuildInv)'
    BY StoreNext, ReadNext, BuildNext
  <1>4. QED BY <1>1, <1>2, <1>3, PTL DEF Spec
-----------------------------------------------------------------------------
(* Times and their texts.  The next lemmas are about rank, the order of    *)
(* the texts, in which a time on the second comes last of its second.      *)

LEMMA Positive == Second \in Nat \ {0} /\ Limit \in Nat \ {0}
  <1>1. {Limit, Second} \subseteq Nat \ {0}
    BY ViewsAssumption
  <1>2. QED BY <1>1

(* Multiples of a second keep their distance.                              *)
LEMMA Multiples ==
    ASSUME NEW a \in Nat, NEW b \in Nat
    PROVE  a * Second \in Nat /\ (a < b => a * Second + Second <= b * Second)
  <1>1. Second \in Nat \ {0}
    BY ViewsAssumption
  <1>2. QED BY <1>1, SMTT(20)

(* A time is a second and a part of it.                                    *)
LEMMA SecondAndPart ==
    ASSUME NEW t \in Nat
    PROVE  /\ t \div Second \in Nat /\ t % Second \in Nat /\ t % Second < Second
           /\ t = (t \div Second) * Second + (t % Second)
  <1>1. Second \in Nat \ {0}
    BY ViewsAssumption
  <1>2. QED BY <1>1, SMTT(20)

LEMMA WholeSecond ==
    ASSUME NEW q \in Nat
    PROVE  (q * Second) % Second = 0 /\ (q * Second) \div Second = q
  <1>1. Second \in Nat \ {0}
    BY ViewsAssumption
  <1>2. QED BY <1>1, SMTT(20)

(* The text of a time stays within its second.                             *)
LEMMA RankInSecond ==
    ASSUME NEW t \in Nat
    PROVE  /\ rank(t) \in Nat
           /\ (t \div Second) * Second <= rank(t)
           /\ rank(t) <= (t \div Second) * Second + Second - 1
  <1>1. Second \in Nat \ {0}
    BY ViewsAssumption
  <1>2. PICK q \in Nat : q = (t \div Second) * Second
    BY SecondAndPart, Multiples
  <1>3. PICK p \in Nat : p = t % Second /\ p < Second
    BY SecondAndPart
  <1>4. rank(t) = q + (IF p = 0 THEN Second - 1 ELSE p - 1)
    BY <1>2, <1>3 DEF rank
  <1>5. QED BY <1>1, <1>2, <1>3, <1>4

LEMMA BoundInSecond ==
    ASSUME NEW t \in Nat
    PROVE  bound(t) \in Nat /\ bound(t) = (t \div Second) * Second + Second - 1
  <1>1. Second \in Nat \ {0}
    BY ViewsAssumption
  <1>2. PICK q \in Nat : q = t \div Second
    BY SecondAndPart
  <1>3. bound(t) = rank(q * Second)
    BY <1>2 DEF bound
  <1>4. (q * Second) % Second = 0 /\ (q * Second) \div Second = q
    BY WholeSecond
  <1>5. rank(q * Second) = q * Second + (Second - 1)
    BY <1>4 DEF rank
  <1>6. q * Second \in Nat
    BY Multiples
  <1>7. QED BY <1>1, <1>2, <1>3, <1>5, <1>6

(* Texts are in order of time, to the second, and no two times have one.   *)
LEMMA RankOrders ==
    ASSUME NEW t \in Nat, NEW u \in Nat, rank(t) <= rank(u)
    PROVE  t \div Second <= u \div Second
  <1>1. PICK a \in Nat, b \in Nat : a = t \div Second /\ b = u \div Second
    BY SecondAndPart
  <1>2. a * Second \in Nat /\ b * Second \in Nat /\ (b < a => b * Second + Second <= a * Second)
    BY Multiples
  <1>3. a * Second <= rank(t) /\ rank(u) <= b * Second + Second - 1 /\ rank(t) \in Nat /\ rank(u) \in Nat
    BY <1>1, RankInSecond
  <1>4. Second \in Nat \ {0}
    BY ViewsAssumption
  <1>5. ~(b < a)
    BY <1>2, <1>3, <1>4
  <1>6. QED BY <1>1, <1>5

LEMMA RankNames ==
    ASSUME NEW t \in Nat, NEW u \in Nat, rank(t) = rank(u)
    PROVE  t = u
  <1>1. PICK a \in Nat, b \in Nat : a = t \div Second /\ b = u \div Second
    BY SecondAndPart
  <1>2. rank(t) \in Nat /\ rank(u) \in Nat
    BY RankInSecond
  <1>3. a <= b /\ b <= a
    BY <1>1, <1>2, RankOrders
  <1>4. PICK q \in Nat : q = a * Second
    BY Multiples
  <1>5. PICK p \in Nat : p = t % Second /\ p < Second
    BY SecondAndPart
  <1>6. PICK o \in Nat : o = u % Second /\ o < Second
    BY SecondAndPart
  <1>7. t = q + p /\ u = q + o
    <2>1. t = a * Second + p /\ u = b * Second + o
      BY <1>1, <1>5, <1>6, SecondAndPart
    <2>2. a = b
      BY <1>3
    <2>3. QED BY <1>4, <2>1, <2>2
  <1>8. /\ rank(t) = q + (IF p = 0 THEN Second - 1 ELSE p - 1)
        /\ rank(u) = q + (IF o = 0 THEN Second - 1 ELSE o - 1)
    <2>1. a = b
      BY <1>3
    <2>2. QED BY <1>1, <1>4, <1>5, <1>6, <2>1 DEF rank
  <1>9. Second \in Nat \ {0}
    BY ViewsAssumption
  <1>10. QED BY <1>4, <1>5, <1>6, <1>7, <1>8, <1>9

(* Bounds are kept to the second.                                          *)
LEMMA BoundsKept ==
    ASSUME NEW b \in Nat, NEW t \in Nat
    PROVE  /\ bound(b) <= rank(t) => b \div Second <= t \div Second
           /\ rank(t) <= bound(b) => t \div Second <= b \div Second
           /\ b \div Second < t \div Second => bound(b) <= rank(t)
           /\ t \div Second <= b \div Second => rank(t) <= bound(b)
  <1>1. PICK c \in Nat, d \in Nat : c = b \div Second /\ d = t \div Second
    BY SecondAndPart
  <1>2. /\ c * Second \in Nat /\ d * Second \in Nat
        /\ c < d => c * Second + Second <= d * Second
        /\ d < c => d * Second + Second <= c * Second
    BY Multiples
  <1>3. rank(t) \in Nat /\ d * Second <= rank(t) /\ rank(t) <= d * Second + Second - 1
    BY <1>1, RankInSecond
  <1>4. bound(b) \in Nat /\ bound(b) = c * Second + Second - 1
    BY <1>1, BoundInSecond
  <1>5. Second \in Nat \ {0}
    BY ViewsAssumption
  <1>6. PICK x \in Nat, y \in Nat : x = c * Second /\ y = d * Second
    BY <1>2
  <1>7. c = d => x = y
    BY <1>6
  <1>8. c < d \/ d < c \/ c = d
    OBVIOUS
  <1>9. QED BY <1>1, <1>2, <1>3, <1>4, <1>5, <1>6, <1>7, <1>8
-----------------------------------------------------------------------------
\* What a history may have, and what it has.
Sought(r) == r.key = job.key /\ bound(job.since) <= rank(r.at) /\ rank(r.at) <= bound(job.to)
Listed(r) == \E i \in 1..Len(got) : got[i].at = r.at

\* Records are stamped by the clock, and stay.
Stamped == clock \in Nat /\ before \subseteq records /\ \A r \in records : r.at \in Nat

\* A history has the newest of what is sought, in order; what it lacks of
\* the records there were comes after its last one.
ListInv ==
    /\ job.since \in Nat /\ job.to \in Nat
    /\ got \in Seq(records) /\ Len(got) <= Limit
    /\ \A i \in 1..Len(got) : Sought(got[i])
    /\ \A i, j \in 1..Len(got) : i < j => got[i] # got[j] /\ rank(got[j].at) <= rank(got[i].at)
    /\ \A r \in before : Sought(r) => Listed(r) \/ got = <<>> \/ rank(r.at) < rank(got[Len(got)].at)
    /\ answer.status = "ok" =>
          answer.content = got /\ (Len(got) = Limit \/ \A r \in before : Sought(r) => Listed(r))

HistoryInv == Stamped /\ (job.do = "history" => ListInv)

LEMMA HistoryInit == Init => HistoryInv
  <1> SUFFICES ASSUME Init PROVE HistoryInv
    OBVIOUS
  <1>1. clock \in Nat
    BY ViewsAssumption DEF Init
  <1>2. \A r \in records : r.at = 0
    BY DEF Init
  <1>3. before = {} /\ job.do # "history"
    BY DEF Init, NoJob
  <1>4. QED BY <1>1, <1>2, <1>3 DEF HistoryInv, Stamped

(* A request begins with nothing listed.                                   *)
LEMMA HistoryBegins ==
    ASSUME HistoryInv, NEW e \in Entries, NEW from \in TimeParams, NEW to \in TimeParams, History(e.key, from, to)
    PROVE  HistoryInv'
  <1>1. /\ job' = [do |-> "history", key |-> e.key, since |-> parseTimeParam(from), to |-> parseTimeParam(to)]
        /\ before' = records /\ got' = <<>> /\ UNCHANGED <<records, clock>>
        /\ answer' = IF "malformed" \in {from.form, to.form}
                     THEN [status |-> "bad request", content |-> <<>>] ELSE NoAnswer
    BY DEF History, Begin, storeVars
  <1>2. answer'.status # "ok"
    BY <1>1 DEF NoAnswer
  <1>3. ASSUME NEW p \in TimeParams PROVE parseTimeParam(p) \in Nat
    <2>1. p \in [form : {"absolute", "ago", "malformed"}, n : Nat]
      BY ViewsAssumption
    <2>2. clock \in Nat
      BY DEF HistoryInv, Stamped
    <2>3. CASE p.form = "absolute"
      BY <2>1, <2>3 DEF parseTimeParam
    <2>4. CASE p.form = "malformed"
      BY <2>1, <2>4 DEF parseTimeParam
    <2>5. CASE p.form = "ago" /\ p.n <= clock
      BY <2>1, <2>2, <2>5 DEF parseTimeParam
    <2>6. CASE p.form = "ago" /\ p.n > clock
      BY <2>1, <2>2, <2>6 DEF parseTimeParam
    <2>7. QED BY <2>1, <2>2, <2>3, <2>4, <2>5, <2>6
  <1>4. job'.since \in Nat /\ job'.to \in Nat
    BY <1>1, <1>3
  <1>5. Limit \in Nat /\ 0 <= Limit
    BY Positive
  <1>6. got' = <<>> /\ <<>> \in Seq(records') /\ Len(<<>>) = 0
    <2>1. \A S : <<>> \in Seq(S) /\ Len(<<>>) = 0
      OBVIOUS
    <2>2. QED BY <1>1, <2>1
  <1>7. ListInv'
    <2>1. \A i : i \notin 1..0
      OBVIOUS
    <2>2. QED BY <1>2, <1>4, <1>5, <1>6, <2>1 DEF ListInv
  <1>8. QED BY <1>1, <1>7 DEF HistoryInv, Stamped

(* Records are only added while a history is read.                         *)
LEMMA HistoryStays ==
    ASSUME HistoryInv, UNCHANGED <<job, got, answer, before>>, clock' \in Nat,
           records \subseteq records', \A r \in records' \ records : r.at \in Nat
    PROVE  HistoryInv'
  <1>1. Stamped'
    BY DEF HistoryInv, Stamped
  <1>2. ASSUME job.do = "history" PROVE ListInv'
    <2>1. ListInv
      BY <1>2 DEF HistoryInv
    <2>2. got' \in Seq(records')
      <3>1. got \in Seq(records)
        BY <2>1 DEF ListInv
      <3>2. QED BY <3>1
    <2>3. QED BY <2>1, <2>2 DEF ListInv, Sought, Listed
  <1>3. QED BY <1>1, <1>2 DEF HistoryInv

(* A page comes after what is listed, and leaves nothing that is newer.    *)
LEMMA PageListed ==
    ASSUME HistoryInv, NEW n \in 1..Limit, HistoryPage(n)
    PROVE  HistoryInv'
  <1>1. job.do = "history" /\ answer.status = "none" /\ Len(got) < Limit
    BY OpenJob DEF HistoryPage
  <1>2. UNCHANGED <<job, answer, records, clock, before>>
    BY DEF HistoryPage, storeVars, seenVars
  <1>3. PICK page \in Injection(1..n, pending) :
            /\ newest(page, pending)
            /\ got' = SubSeq(got \o page, 1, IF Len(got \o page) > Limit THEN Limit ELSE Len(got \o page))
    BY DEF HistoryPage
  <1>4. /\ page \in [1..n -> pending]
        /\ \A i, j \in 1..n : page[i] = page[j] => i = j
    BY <1>3 DEF Injection, IsInjective
  <1>5. ListInv /\ Stamped
    BY <1>1 DEF HistoryInv
  <1>6. got \in Seq(records) /\ Limit \in Nat /\ n \in Nat /\ n >= 1
    <2>1. Limit \in Nat
      BY Positive
    <2>2. QED BY <1>5, <2>1 DEF ListInv
  <1>7. pending \subseteq records
    BY DEF pending
  <1>8. page \in Seq(records) /\ Len(page) = n
    BY <1>4, <1>6, <1>7
  <1>9. PICK g \in Nat : g = Len(got) /\ g < Limit
    BY <1>1, <1>6
  <1>10. PICK all \in Seq(records) : all = got \o page /\ Len(all) = g + n
    <2>1. Len(got \o page) = g + n
      BY <1>6, <1>8, <1>9
    <2>2. got \o page \in Seq(records)
      BY <1>6, <1>8
    <2>3. QED BY <2>1, <2>2
  <1>11. PICK m \in Nat : m = IF Len(all) > Limit THEN Limit ELSE Len(all)
    BY <1>6, <1>10
  <1>12. g < m /\ m <= Limit /\ m <= g + n
    BY <1>6, <1>9, <1>10, <1>11
  <1>13. got' = SubSeq(all, 1, m)
    BY <1>3, <1>10, <1>11
  <1>14. got' \in Seq(records) /\ Len(got') = m /\ \A i \in 1..m : got'[i] = all[i]
    BY <1>10, <1>12, <1>13
  <1>15. \A i \in 1..m : got'[i] = IF i <= g THEN got[i] ELSE page[i - g]
    BY <1>6, <1>8, <1>9, <1>10, <1>12, <1>14
  <1>16. ASSUME NEW i \in 1..m, i > g
         PROVE  got'[i] \in pending /\ \E k \in 1..n : k = i - g /\ got'[i] = page[k]
    <2>1. PICK k \in 1..n : k = i - g
      BY <1>6, <1>9, <1>12, <1>16
    <2>2. got'[i] = page[k]
      BY <1>9, <1>12, <1>15, <1>16, <2>1
    <2>3. QED BY <1>4, <2>1, <2>2
  <1>17. ASSUME NEW r \in pending
         PROVE  Sought(r) /\ r \in records /\ r.at \in Nat
    BY <1>5, <1>17 DEF pending, Sought, Stamped
  <1>18. ASSUME NEW i \in 1..m PROVE Sought(got'[i]) /\ got'[i].at \in Nat
    <2>1. CASE i <= g
      <3>1. i \in 1..Len(got) /\ got'[i] = got[i]
        BY <1>9, <1>12, <1>15, <2>1
      <3>2. got[i] \in records
        BY <1>6, <3>1
      <3>3. QED BY <1>5, <3>1, <3>2 DEF ListInv, Stamped
    <2>2. CASE i > g
      BY <1>16, <1>17, <2>2
    <2>3. QED BY <1>9, <1>12, <2>1, <2>2
  <1>19. ASSUME NEW i \in 1..m, NEW j \in 1..m, i < j
         PROVE  got'[i] # got'[j] /\ rank(got'[j].at) <= rank(got'[i].at)
    <2>1. CASE j <= g
      <3>1. i \in 1..Len(got) /\ j \in 1..Len(got) /\ got'[i] = got[i] /\ got'[j] = got[j]
        BY <1>9, <1>12, <1>15, <1>19, <2>1
      <3>2. QED BY <1>5, <1>19, <3>1 DEF ListInv
    <2>2. CASE i <= g /\ j > g
      <3>1. i \in 1..Len(got) /\ g \in 1..Len(got) /\ got'[i] = got[i]
        BY <1>9, <1>12, <1>15, <2>2
      <3>2. got'[j] \in pending /\ got # <<>>
        BY <1>16, <2>2, <3>1
      <3>3. rank(got'[j].at) < rank(got[g].at)
        BY <1>9, <3>2 DEF pending
      <3>4. i = g \/ i < g
        BY <1>9, <2>2
      <3>5. rank(got[g].at) <= rank(got[i].at)
        <4>0. got[g] \in records
          BY <1>6, <3>1
        <4>1. rank(got[g].at) \in Nat
          BY <1>5, <4>0, RankInSecond DEF Stamped
        <4>2. CASE i = g
          BY <4>1, <4>2
        <4>3. CASE i < g
          BY <1>5, <3>1, <4>3 DEF ListInv
        <4>4. QED BY <3>4, <4>2, <4>3
      <3>6. /\ rank(got'[j].at) \in Nat /\ rank(got[g].at) \in Nat /\ rank(got[i].at) \in Nat
        <4>1. got[g] \in records /\ got[i] \in records
          BY <1>6, <3>1
        <4>2. got'[j].at \in Nat /\ got[g].at \in Nat /\ got[i].at \in Nat
          BY <1>5, <1>18, <4>1 DEF Stamped
        <4>3. QED BY <4>2, RankInSecond
      <3>7. PICK x \in Nat, y \in Nat, z \in Nat :
                x = rank(got'[j].at) /\ y = rank(got[g].at) /\ z = rank(got[i].at)
        BY <3>6
      <3>8. x < y /\ y <= z
        BY <3>3, <3>5, <3>7
      <3>9. x <= z /\ x # z
        BY <3>8
      <3>10. got'[j] # got[i]
        BY <3>7, <3>9
      <3>11. QED BY <3>1, <3>7, <3>9, <3>10
    <2>3. CASE i > g
      <3>1. PICK k \in 1..n : k = i - g /\ got'[i] = page[k]
        BY <1>16, <2>3
      <3>2. PICK l \in 1..n : l = j - g /\ got'[j] = page[l]
        <4>1. j > g
          BY <1>9, <1>12, <1>19, <2>3
        <4>2. QED BY <1>16, <4>1
      <3>3. k < l
        BY <1>9, <1>12, <1>19, <3>1, <3>2
      <3>4. page[l] \notin {page[h] : h \in 1..k}
        BY <1>4, <1>6, <3>3
      <3>5. page[l] \in pending
        BY <1>4
      <3>6. rank(page[l].at) <= rank(page[k].at)
        BY <1>3, <1>4, <3>4, <3>5 DEF newest
      <3>7. page[k] # page[l]
        BY <1>4, <3>3
      <3>8. QED BY <3>1, <3>2, <3>6, <3>7
    <2>4. QED BY <1>9, <1>12, <2>1, <2>2, <2>3
  <1>20. ASSUME NEW r \in before, Sought(r)
         PROVE  Listed(r)' \/ rank(r.at) < rank(got'[m].at)
    <2>1. r \in records /\ r.at \in Nat
      BY <1>5 DEF Stamped
    <2>2. CASE Listed(r)
      <3>1. PICK i \in 1..Len(got) : got[i].at = r.at
        BY <2>2 DEF Listed
      <3>2. i \in 1..m /\ got'[i] = got[i]
        BY <1>9, <1>12, <1>15, <3>1
      <3>3. QED BY <1>14, <3>1, <3>2 DEF Listed
    <2>3. CASE ~Listed(r)
      <3>1. r \in pending
        BY <1>5, <1>20, <2>1, <2>3 DEF ListInv, Sought, pending
      <3>2. PICK k \in 1..n : k = m - g /\ got'[m] = page[k]
        BY <1>9, <1>12, <1>16
      <3>3. CASE r \in {page[h] : h \in 1..k}
        <4>1. PICK h \in 1..k : r = page[h]
          BY <3>3
        <4>2. PICK i \in 1..m : i = g + h
          BY <1>9, <1>12, <3>2
        <4>3. i > g /\ i - g = h
          BY <1>9, <4>2
        <4>4. got'[i] = r
          BY <1>16, <4>1, <4>3
        <4>5. QED BY <1>14, <4>4 DEF Listed
      <3>4. CASE r \notin {page[h] : h \in 1..k}
        <4>1. rank(r.at) <= rank(got'[m].at)
          BY <1>3, <1>4, <3>1, <3>2, <3>4 DEF newest
        <4>2. m \in 1..m
          BY <1>9, <1>12
        <4>3. got'[m].at \in Nat
          BY <1>18, <4>2
        <4>4. rank(r.at) \in Nat /\ rank(got'[m].at) \in Nat
          BY <2>1, <4>3, RankInSecond
        <4>5. CASE rank(r.at) = rank(got'[m].at)
          <5>1. r.at = got'[m].at
            BY <2>1, <4>3, <4>5, RankNames
          <5>2. QED BY <1>14, <4>2, <5>1 DEF Listed
        <4>6. CASE rank(r.at) # rank(got'[m].at)
          BY <4>1, <4>4, <4>6
        <4>7. QED BY <4>5, <4>6
      <3>5. QED BY <3>3, <3>4
    <2>4. QED BY <2>2, <2>3
  <1>21. \A r : Sought(r)' <=> Sought(r)
    BY <1>2 DEF Sought
  <1>22. ListInv'
    <2>1. answer'.status # "ok"
      BY <1>1, <1>2
    <2>2. \A i \in 1..Len(got') : Sought(got[i])'
      BY <1>2, <1>14, <1>18 DEF Sought
    <2>3. got' \in Seq(records') /\ Len(got') <= Limit /\ job'.since \in Nat /\ job'.to \in Nat
      BY <1>2, <1>5, <1>12, <1>14 DEF ListInv
    <2>4. \A i, j \in 1..Len(got') : i < j => got'[i] # got'[j] /\ rank(got'[j].at) <= rank(got'[i].at)
      BY <1>14, <1>19
    <2>5. \A r \in before' : Sought(r)' => Listed(r)' \/ rank(r.at) < rank(got'[Len(got')].at)
      BY <1>2, <1>14, <1>20, <1>21
    <2>6. QED BY <2>1, <2>2, <2>3, <2>4, <2>5 DEF ListInv
  <1>23. QED BY <1>2, <1>5, <1>22 DEF HistoryInv, Stamped

(* It answers when it is full or has everything.                           *)
LEMMA HistoryAnswers ==
    ASSUME HistoryInv, HistoryFails \/ HistoryDone
    PROVE  HistoryInv'
  <1>1. job.do = "history"
    BY OpenJob DEF HistoryFails, HistoryDone
  <1>2. UNCHANGED <<job, got, records, clock, before>>
    BY DEF HistoryFails, HistoryDone, Reply, storeVars, seenVars
  <1>3. ListInv
    BY <1>1 DEF HistoryInv
  <1>4. answer'.status = "ok" => answer'.content = got' /\ (Len(got) = Limit \/ \A r \in before : Sought(r) => Listed(r))
    <2>1. CASE HistoryFails
      BY <2>1 DEF HistoryFails, Reply
    <2>2. CASE HistoryDone
      <3>1. answer' = [status |-> "ok", content |-> got] /\ (Len(got) >= Limit \/ pending = {})
        BY <2>2 DEF HistoryDone, Reply
      <3>2. CASE Len(got) >= Limit
        <4>0. got \in Seq(records) /\ Len(got) <= Limit
          BY <1>3 DEF ListInv
        <4>1. Len(got) \in Nat /\ Limit \in Nat
          BY <4>0, Positive
        <4>2. QED BY <1>2, <3>1, <3>2, <4>0, <4>1
      <3>3. CASE pending = {}
        <4>1. ASSUME NEW r \in before, Sought(r) PROVE Listed(r)
          <5>1. r \in records /\ r \notin pending
            BY <3>3 DEF HistoryInv, Stamped
          <5>2. got # <<>> /\ ~(rank(r.at) < rank(got[Len(got)].at))
            BY <4>1, <5>1 DEF pending, Sought
          <5>3. QED BY <1>3, <4>1, <5>2 DEF ListInv
        <4>2. QED BY <1>2, <3>1, <4>1
      <3>4. QED BY <3>1, <3>2, <3>3
    <2>3. QED BY <2>1, <2>2
  <1>5. ListInv'
    BY <1>2, <1>3, <1>4 DEF ListInv, Sought, Listed
  <1>6. QED BY <1>2, <1>5 DEF HistoryInv, Stamped

(* Other requests have no history.                                         *)
LEMMA NoHistory ==
    ASSUME HistoryInv, UNCHANGED <<records, clock>>, before' \subseteq records, job'.do # "history"
    PROVE  HistoryInv'
  BY DEF HistoryInv, Stamped

LEMMA HistoryNext == HistoryInv /\ [Next]_vars => HistoryInv'
  <1> SUFFICES ASSUME HistoryInv, [Next]_vars PROVE HistoryInv'
    OBVIOUS
  <1>0. before \subseteq records /\ clock \in Nat
    BY DEF HistoryInv, Stamped
  <1>1. ASSUME NEW b \in Batches, Upsert(b) PROVE HistoryInv'
    <2>1. UNCHANGED <<records, clock, job, got, answer, before>>
      BY <1>1 DEF Upsert, readVars
    <2>2. QED BY <1>0, <2>1, HistoryStays
  <1>2. ASSUME NEW k \in Names, Delete(k) PROVE HistoryInv'
    <2>1. UNCHANGED <<records, clock, job, got, answer, before>>
      BY <1>2 DEF Delete, readVars
    <2>2. QED BY <1>0, <2>1, HistoryStays
  <1>3. ASSUME NEW t \in tasks, CreateBatch(t) PROVE HistoryInv'
    <2>1. UNCHANGED <<job, got, answer, before>> /\ clock' = clock + 1
      BY <1>3 DEF CreateBatch, readVars, seenVars
    <2>2. PICK kept \in SUBSET t : records' = records \cup
              {[key |-> r.key, value |-> r.value, secure |-> r.secure, at |-> clock] : r \in kept}
      BY <1>3 DEF CreateBatch
    <2>3. \A r \in records' \ records : r.at \in Nat
      BY <1>0, <2>2
    <2>4. QED BY <1>0, <2>1, <2>2, <2>3, HistoryStays
  <1>4. ASSUME NEW t \in Templates, NEW a \in Arguments, NEW s \in BOOLEAN, Build(t, a, s) \/ RetrieveBoxFails(t, a, s)
        PROVE  HistoryInv'
    <2>1. Begin([do |-> "build", template |-> t, args |-> a, strict |-> s])
      BY <1>4 DEF Build, RetrieveBoxFails
    <2>2. UNCHANGED <<records, clock>> /\ before' = records /\ job'.do = "build"
      BY <2>1 DEF Begin, storeVars
    <2>3. QED BY <2>2, NoHistory
  <1>5. ASSUME NEW f \in Formats \cup {"xml"}, Export(f) PROVE HistoryInv'
    <2>1. UNCHANGED <<records, clock>> /\ before' = records /\ job'.do = "export"
      BY <1>5 DEF Export, Begin, storeVars
    <2>2. QED BY <2>1, NoHistory
  <1>6. ASSUME \/ \E k \in Names : ListPage(k)
               \/ \E g \in toRead : BatchGet(g)
               \/ BatchGetFails \/ BuildDone \/ ListFails \/ ExportDone
        PROVE  HistoryInv'
    <2>1. job.do # "history"
      BY <1>6 DEF ListPage, BatchGet, BatchGetFails, BuildDone, ListFails, ExportDone, Open
    <2>2. UNCHANGED <<job, records, clock, before>>
      BY <1>6 DEF ListPage, BatchGet, BatchGetFails, BuildDone, ListFails, ExportDone, Reply, storeVars, seenVars
    <2>3. QED BY <1>0, <2>1, <2>2, NoHistory
  <1>7. CASE Return
    <2>1. UNCHANGED <<records, clock>> /\ before' = {} /\ job'.do # "history"
      BY <1>7 DEF Return, storeVars, NoJob
    <2>2. QED BY <2>1, NoHistory
  <1>8. CASE UNCHANGED vars
    <2>1. UNCHANGED <<records, clock, job, got, answer, before>>
      BY <1>8 DEF vars, storeVars, readVars, seenVars
    <2>2. QED BY <1>0, <2>1, HistoryStays
  <1>9. QED
    BY <1>1, <1>2, <1>3, <1>4, <1>5, <1>6, <1>7, <1>8, HistoryBegins, PageListed, HistoryAnswers DEF Next

(* A history is in order of time and within its bounds, to the second, and *)
(* of the records there were when it was asked for it leaves out only what *)
(* is older than a full answer, page by page and while records are added   *)
(* (tracking/store/dynamodb.go:76).                                        *)
THEOREM NewestListed == Spec => []HistoryNewest
  <1>1. ASSUME HistoryInv PROVE HistoryNewest
    <2> SUFFICES ASSUME Done("history", "ok") PROVE HistoryNewest
      BY DEF HistoryNewest
    <2>1. ListInv /\ Stamped /\ answer.content = got /\ answer.status = "ok"
      BY <1>1 DEF Done, HistoryInv, ListInv
    <2>2. got \in Seq(records) /\ DOMAIN got = 1..Len(got) /\ Len(got) \in Nat
      BY <2>1 DEF ListInv
    <2>3. job.since \in Nat /\ job.to \in Nat
      BY <2>1 DEF ListInv
    <2>4. ASSUME NEW i \in 1..Len(got) PROVE got[i].at \in Nat
      BY <2>1, <2>2 DEF Stamped
    <2>5. ASSUME NEW i \in 1..Len(got)
          PROVE  /\ got[i].key = job.key
                 /\ job.since \div Second <= got[i].at \div Second
                 /\ got[i].at \div Second <= job.to \div Second
      <3>1. Sought(got[i])
        BY <2>1 DEF ListInv
      <3>2. QED BY <2>3, <2>4, <3>1, BoundsKept DEF Sought
    <2>6. ASSUME NEW i \in 1..Len(got), NEW j \in 1..(i - 1)
          PROVE  got[i] # got[j] /\ got[i].at \div Second <= got[j].at \div Second
      <3>1. j \in 1..Len(got) /\ j < i
        BY <2>2
      <3>2. got[j] # got[i] /\ rank(got[i].at) <= rank(got[j].at)
        BY <2>1, <3>1 DEF ListInv
      <3>3. QED BY <2>4, <3>1, <3>2, RankOrders
    <2>7. ASSUME NEW r \in before, r.key = job.key,
                 job.since \div Second < r.at \div Second, r.at \div Second <= job.to \div Second,
                 r.at \notin {got[i].at : i \in DOMAIN got}
          PROVE  Len(got) = Limit /\ \A t \in {got[i].at : i \in DOMAIN got} : r.at \div Second <= t \div Second
      <3>1. r.at \in Nat
        BY <2>1 DEF Stamped
      <3>2. Sought(r)
        BY <2>3, <2>7, <3>1, BoundsKept DEF Sought
      <3>3. ~Listed(r)
        BY <2>2, <2>7 DEF Listed
      <3>4. Len(got) = Limit
        BY <2>1, <3>2, <3>3 DEF ListInv
      <3>5. got # <<>> /\ Len(got) \in 1..Len(got)
        <4>1. Limit \in Nat \ {0}
          BY Positive
        <4>2. Len(got) # 0
          BY <3>4, <4>1
        <4>3. QED BY <2>2, <4>2
      <3>6. rank(r.at) < rank(got[Len(got)].at)
        BY <2>1, <3>2, <3>3, <3>5 DEF ListInv
      <3>7. ASSUME NEW i \in 1..Len(got) PROVE r.at \div Second <= got[i].at \div Second
        <4>1. /\ rank(r.at) \in Nat /\ rank(got[i].at) \in Nat /\ rank(got[Len(got)].at) \in Nat
          BY <2>4, <3>1, <3>5, RankInSecond
        <4>2. i = Len(got) \/ i < Len(got)
          <5>1. Len(got) \in Nat
            BY <2>2
          <5>2. QED BY <5>1
        <4>3. rank(got[Len(got)].at) <= rank(got[i].at)
          <5>1. CASE i = Len(got)
            BY <4>1, <5>1
          <5>2. CASE i < Len(got)
            BY <2>1, <3>5, <5>2 DEF ListInv
          <5>3. QED BY <4>2, <5>1, <5>2
        <4>4. rank(r.at) <= rank(got[i].at)
          BY <3>6, <4>1, <4>3
        <4>5. QED BY <2>4, <3>1, <4>4, RankOrders
      <3>8. QED BY <2>2, <3>4, <3>7
    <2>8. Len(got) <= Limit
      BY <2>1 DEF ListInv
    <2>9. QED BY <2>1, <2>2, <2>5, <2>6, <2>7, <2>8 DEF HistoryNewest
  <1>2. QED BY <1>1, HistoryInit, HistoryNext, PTL DEF Spec
=============================================================================
