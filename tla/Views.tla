-------------------------------- MODULE Views --------------------------------
(***************************************************************************)
(* What readers are shown of entries and templates that change meanwhile:  *)
(* templates that are built (internal/box: Renderer, Processor, the        *)
(* SchemaStrategy of a format), exports of a level (internal/export) and   *)
(* the history of a key (internal/tracking and its store).                 *)
(*                                                                         *)
(* How an entry gets into the stores is the matter of Gateway and          *)
(* EntryIndex; here it is one step per batch, which may fail in part.      *)
(* Readers share nothing, so there is one, and it has one request at a     *)
(* time.  A text is a sequence of items, an item a sequence of words; the  *)
(* words of a key are its segments, and an item may be a variable.         *)
(***************************************************************************)
EXTENDS Naturals, Sequences, FiniteSets, SequencesExt

CONSTANTS
    Lower,       \* words that ToLower changes, and what it makes of them
    Keys,        \* the keys entries have in the index
    Folder,      \* of words that are folders: the word with a slash
    Level,       \* the names an export may find: keys, and folders
    Locks,       \* those of which the last word begins with _
    Upper,       \* of each word: ToUpper, with / - . and blanks made _
    Routings,    \* of each entry: the backend, by the prefixes of some time
    Values,      \* what entries are given
    Quoted,      \* values that end in a quote
    Batches,     \* what is upserted: sets of [key, value, secure]
    Templates,   \* bodies: sequences of items [var, words]
    Format,      \* of the template: json, yaml or text
    BuiltIn,     \* what :service, :stage and :template stand for
    Arguments,   \* what a build may be given: functions of names
    Begins,      \* of each placeholder: the names its text begins with
    TimeParams,  \* what "from" and "to" of a history may say: [form, n]
    Limit,       \* of a history
    Old,         \* entries that were written, recorded and deleted long ago
    Second,      \* ticks of the clock in a second
    MaxTime,     \* bound of the clock
    MaxUpserts,  \* bound: Upserts
    Failing      \* what may fail: "row", "track", "list", "get"

Backends == {"dynamodb", "parameterstore", "parameterstore_secure"}
Rows == [value : Values \cup {"address"}, secure : BOOLEAN]
NoRow == [value |-> "none", secure |-> FALSE]
Marker == [value |-> "empty", secure |-> FALSE]
Entries == UNION Batches

\* The folders a key is in, by the names of their markers.
Parents(k) ==
    {Append(SubSeq(k, 1, i - 1), Folder[k[i]]) : i \in {j \in 1..(Len(k) - 1) : k[j] \in DOMAIN Folder}}

Names == Keys \cup UNION {Parents(k) : k \in Keys}
Placeholders == DOMAIN Begins

ASSUME ViewsAssumption ==
    /\ Level \subseteq Names /\ Locks \subseteq Level
    /\ \A k \in Level : k[Len(k)] \in DOMAIN Upper
    /\ Quoted \subseteq Values /\ {"address", "none", "cut", "empty"} \cap Values = {}
    /\ \A e \in Entries : e.value \in Values /\ e.secure \in BOOLEAN
    /\ \A b \in Batches : \A d, e \in b : d.key = e.key => d = e
    /\ Old \subseteq Entries /\ Routings \subseteq [Entries -> Backends] /\ Routings # {}
    /\ Format \in {"json", "yaml", "text"}
    /\ \A w \in Placeholders : w \in Begins[w]
    /\ DOMAIN BuiltIn = {":service", ":stage", ":template"} /\ DOMAIN BuiltIn \subseteq Placeholders
    /\ \A a \in Arguments : IsFiniteSet(DOMAIN a) /\ DOMAIN a \subseteq Placeholders
    /\ TimeParams \subseteq [form : {"absolute", "ago", "malformed"}, n : Nat]
    /\ {Limit, Second} \subseteq Nat \ {0} /\ MaxTime \in Nat /\ MaxUpserts \in Nat
    /\ Failing \subseteq {"row", "track", "list", "get"}

VARIABLES
    table,     \* the index: a row of each key, or NoRow
    tasks,     \* what Recorder goroutines are about to record
    records,   \* the tracking table
    clock,
    upserts,   \* number of Upserts
    job,       \* what the reader has asked for
    body,      \* the template a build has, with its arguments in place
    toRead,    \* keys still to be read
    got,       \* what has been read: rows of keys, or a list of records
    answer,
    \* History:
    given,     \* entries that were sent to their backends
    written,   \* those that were written
    had,       \* of each name: the rows it has had since the request began
    before     \* the records there were then

storeVars == <<table, tasks, records, clock, upserts, given, written>>
readVars == <<job, body, toRead, got, answer>>
seenVars == <<had, before>>
vars == <<storeVars, readVars, seenVars>>

NoJob == [do |-> "none"]
NoAnswer == [status |-> "none", content |-> <<>>]
Nothing == [k \in {} |-> NoRow]

-----------------------------------------------------------------------------
(* Keys.  Upsert sanitizes and cleans them, RetrieveMany only cleans them. *)
sanitize(g) == [i \in DOMAIN g |-> IF g[i] \in DOMAIN Lower THEN Lower[g[i]] ELSE g[i]]
clean(g) == SelectSeq(g, LAMBDA w : w # ".")

\* The keys of the index have been cleaned when they were written.
ASSUME KeysAssumption == \A k \in Keys : clean(k) = k

(* Writers.                                                                *)

\* The entries of a batch with the backends they are routed to.  One whose
\* backend is not found fails, as if it were not in the batch.
resolveBackend(b, R) ==
    {[key |-> e.key, value |-> e.value, secure |-> e.secure, backend |-> R[e]] : e \in b}

\* The entry goes to a parameter, and its row has the address of that.  With no
\* configuration of its prefix, or one that says so, a secure entry does not.
external(e) == e.backend # "dynamodb"

\* What Upsert makes of an entry, and the Output of its result: its row.
Row(e) == [value  |-> IF external(e) THEN "address" ELSE e.value,
           secure |-> e.secure \/ e.backend = "parameterstore_secure"]

nameOf(e) == clean(sanitize(e.key))

\* The folders of what goes to the index: all that is routed there, and what is
\* done of the rest.
markers(es, done) ==
    UNION {Parents(nameOf(e)) : e \in {d \in es : ~external(d)} \cup done}

\* A result is named by the key as given when a parameter was written, and by
\* the sanitized key when not.
resultKey(e) == IF external(e) THEN e.key ELSE sanitize(e.key)

\* Mutant: what is recorded is the entry as it was given.
shownGiven(e) == e.value

\* Every result without an error has an Output: its value, not the mask.
shown(e) == Row(e).value

\* A failure in the index is filed under the cleaned key; the result of an
\* entry that is spelled otherwise stays.
misfiled(e) == ~external(e) /\ clean(e.key) # e.key

\* What is recorded: what is found under its own key, and has no error.
registered(es, done) == {e \in es : resultKey(e) = e.key /\ (e \in done \/ misfiled(e))}

record(e) == [key |-> e.key, value |-> shown(e), secure |-> Row(e).secure]

Init ==
    /\ table = [k \in Names |-> NoRow]
    /\ tasks = {} /\ clock = Second /\ upserts = 0
    /\ \E R \in Routings : written = resolveBackend(Old, R)
    /\ given = written
    /\ records = {[key |-> r.key, value |-> r.value, secure |-> r.secure, at |-> 0] :
                      r \in {record(e) : e \in registered(written, written)}}
    /\ job = NoJob /\ body = <<>> /\ toRead = {} /\ got = Nothing /\ answer = NoAnswer
    /\ had = [k \in Names |-> {}] /\ before = {}

Change(new) ==
    /\ table' = new
    /\ had' = IF job = NoJob THEN had ELSE [k \in Names |-> had[k] \cup {new[k]}]

\* Mutant: entries that failed are recorded too.
registerAll(es, done) == {record(e) : e \in es}

\* Recorder.registerChanges of a batch of which some is done.
registerChanges(es, done) == {record(e) : e \in registered(es, done)}

\* Rows and markers that are put.
put(rows, marks) ==
    [k \in Names |->
        IF \E e \in rows : nameOf(e) = k THEN Row(CHOOSE e \in rows : nameOf(e) = k)
        ELSE IF k \in marks THEN Marker ELSE table[k]]

\* A parameter that is written counts, though its row may fail.
Upsert(b) ==
    /\ upserts < MaxUpserts /\ upserts' = upserts + 1
    /\ \E R \in Routings : LET es == resolveBackend(b, R) IN
       \E done \in SUBSET es : \E rows \in SUBSET done, marks \in SUBSET markers(es, done) :
          /\ {e \in done : ~external(e)} \subseteq rows
          /\ "row" \in Failing \/ (rows = es /\ marks = markers(es, done))
          /\ Change(put(rows, marks))
          /\ given' = given \cup es /\ written' = written \cup done
          /\ tasks' = tasks \cup ({registerChanges(es, done)} \ {{}})
    /\ UNCHANGED <<records, clock, readVars, before>>

\* Nothing is recorded of a Delete.
Delete(k) ==
    /\ table[k] # NoRow
    /\ Change([table EXCEPT ![k] = NoRow])
    /\ UNCHANGED <<tasks, records, clock, upserts, given, written, readVars, before>>

\* CreateBatch, some time later: stamped now, and written in part when requests
\* fail or the five seconds are over.
CreateBatch(t) ==
    /\ t \in tasks /\ clock < MaxTime
    /\ tasks' = tasks \ {t} /\ clock' = clock + 1
    /\ \E kept \in IF "track" \in Failing THEN SUBSET t ELSE {t} :
          records' = records \cup
              {[key |-> r.key, value |-> r.value, secure |-> r.secure, at |-> clock] : r \in kept}
    /\ UNCHANGED <<table, upserts, given, written, readVars, seenVars>>

-----------------------------------------------------------------------------
(* Requests.                                                               *)
Begin(what) ==
    /\ job = NoJob /\ job' = what
    /\ had' = [k \in Names |-> {table[k]}] /\ before' = records
    /\ UNCHANGED storeVars

Reply(status, content) ==
    /\ answer' = [status |-> status, content |-> content]
    /\ UNCHANGED <<job, body, toRead, got, storeVars, seenVars>>

Open(kind) == job.do = kind /\ answer = NoAnswer

Return ==
    /\ answer # NoAnswer
    /\ job' = NoJob /\ body' = <<>> /\ toRead' = {} /\ got' = Nothing /\ answer' = NoAnswer
    /\ had' = [k \in Names |-> {}] /\ before' = {}
    /\ UNCHANGED storeVars

-----------------------------------------------------------------------------
(* Renderer.BuildBox.                                                      *)

\* Names in the order of the Replacer: the built-in ones, and then the
\* arguments as they come out of a map.
Orders(args) == {<<":service", ":stage", ":template">> \o s : s \in SetToSeqs(DOMAIN args)}

valueOf(args, n) == IF n \in DOMAIN BuiltIn THEN BuiltIn[n] ELSE args[n]

\* The first name that the text begins with is replaced.
replaced(w, args, order) ==
    LET i == SelectInSeq(order, LAMBDA n : n \in Begins[w])
    IN  IF w \notin Placeholders THEN w
        ELSE IF i = 0 THEN w
        ELSE IF order[i] = w THEN valueOf(args, w) ELSE "mangled"

VarsBuilder(t, args, order) ==
    [i \in DOMAIN t |->
        [var   |-> t[i].var,
         words |-> [j \in DOMAIN t[i].words |-> replaced(t[i].words[j], args, order)]]]

\* The variables of a text, as they are spelled.
GetKeys(t) == {t[i].words : i \in {j \in DOMAIN t : t[j].var}}

\* The template is read once, first of all: it may be any.
Build(t, args, strict) ==
    /\ Begin([do |-> "build", template |-> t, args |-> args, strict |-> strict])
    /\ \E order \in Orders(args) : body' = VarsBuilder(t, args, order)
    /\ toRead' = GetKeys(body') /\ got' = Nothing /\ UNCHANGED answer

resolveErrorStatus(err) ==
    CASE err \in {"missing variables", "invalid syntax"} -> "bad request"
      [] err = "template not found"                     -> "not found"
      [] OTHER                                          -> "error"

\* Every error of RetrieveBox counts as a template that is not found.
RetrieveBoxFails(t, args, strict) ==
    /\ Begin([do |-> "build", template |-> t, args |-> args, strict |-> strict])
    /\ answer' = [status |-> resolveErrorStatus("template not found"), content |-> <<>>]
    /\ UNCHANGED <<body, toRead, got>>

\* RetrieveMany goes by the text of a key.  A request that names one item twice
\* is refused; its items are not read at one moment.
duplicates(gs) == \E g, h \in gs : g # h /\ clean(g) = clean(h)

BatchGet(g) ==
    /\ Open("build") /\ g \in toRead /\ ~duplicates(GetKeys(body))
    /\ toRead' = toRead \ {g}
    /\ got' = IF clean(g) \in Keys /\ table[clean(g)] # NoRow
              THEN [k \in DOMAIN got \cup {clean(g)} |->
                      IF k = clean(g) THEN table[k] ELSE got[k]]
              ELSE got
    /\ UNCHANGED <<job, body, answer, storeVars, seenVars>>

BatchGetFails ==
    /\ Open("build") /\ toRead # {} /\ (duplicates(GetKeys(body)) \/ "get" \in Failing)
    /\ Reply(resolveErrorStatus("failed to retrieve"), <<>>)

\* JSONStrategy trims quotes also where the escaped value ends in one.
Transform(v) == IF Format = "json" /\ v \in Quoted THEN "cut" ELSE v

\* Mutant: a variable is missing only if no spelling of its key is found.
GetMissingVarsLoose == {g \in GetKeys(body) : clean(g) \notin DOMAIN got}

\* Rows are found under their keys, variables are looked up as spelled.
GetMissingVars == {g \in GetKeys(body) : g \notin DOMAIN got}

Replace ==
    [i \in DOMAIN body |->
        IF ~body[i].var THEN body[i].words
        ELSE IF body[i].words \in DOMAIN got THEN <<Transform(got[body[i].words].value)>>
        ELSE <<"empty">>]

\* A text with a value cut short may parse or not.
invalid == \E i \in DOMAIN body : body[i].var /\ Replace[i] = <<"cut">>

BuildDone ==
    /\ Open("build") /\ toRead = {}
    /\ \/ /\ job.strict /\ GetMissingVars # {}
          /\ Reply(resolveErrorStatus("missing variables"), <<>>)
       \/ /\ job.strict /\ GetMissingVars = {} /\ invalid
          /\ Reply(resolveErrorStatus("invalid syntax"), <<>>)
       \/ /\ ~job.strict \/ GetMissingVars = {}
          /\ Reply("ok", Replace)

-----------------------------------------------------------------------------
(* Generator.Export of a level.                                            *)
Formats == {"json", "yaml", "dotenv", "ecs"}

\* A format that is not known is refused before anything is read.
Export(format) ==
    /\ Begin([do |-> "export", format |-> format])
    /\ IF format \in Formats
       THEN toRead' = Level /\ UNCHANGED answer
       ELSE answer' = [status |-> "bad request", content |-> {}] /\ UNCHANGED toRead
    /\ got' = Nothing /\ UNCHANGED body

\* A page of the Query: entries, and the markers of folders, but no locks.
ListPage(k) ==
    /\ Open("export") /\ k \in toRead
    /\ toRead' = toRead \ {k}
    /\ got' = IF table[k] = NoRow \/ k \in Locks THEN got
              ELSE [l \in DOMAIN got \cup {k} |-> IF l = k THEN table[k] ELSE got[l]]
    /\ UNCHANGED <<job, body, answer, storeVars, seenVars>>

\* Where a line of the file goes, and what it says.
jsonLine(k, row) == [in |-> "list", name |-> k, value |-> row.value]

\* ShortKey is the last segment, of a folder with its slash.
ConvertToEnvVarName(k) == Upper[k[Len(k)]]

dotenvLine(k, row) == [in |-> "list", name |-> ConvertToEnvVarName(k), value |-> row.value]

ecsLine(k, row) ==
    [in    |-> IF row.secure THEN "secrets" ELSE "environment",
     name  |-> ConvertToEnvVarName(k),
     value |-> row.value]

line(format, k, row) ==
    CASE format \in {"json", "yaml"} -> jsonLine(k, row)
      [] format = "dotenv"           -> dotenvLine(k, row)
      [] format = "ecs"              -> ecsLine(k, row)

exported == {line(job.format, k, got[k]) : k \in DOMAIN got}

\* Mutant: the pages read so far are exported.
ListFailsPartial ==
    /\ Open("export") /\ toRead # {} /\ "list" \in Failing
    /\ Reply("ok", exported)

\* The handler makes 400 of every error.
ListFails ==
    /\ Open("export") /\ toRead # {} /\ "list" \in Failing
    /\ Reply("bad request", {})

\* A folder counts as an entry.
ExportDone ==
    /\ Open("export") /\ toRead = {}
    /\ IF got = Nothing THEN Reply("bad request", {}) ELSE Reply("ok", exported)

-----------------------------------------------------------------------------
(* History.  A record is found by the text of its time, in which a time on *)
(* the second has no fraction: ".5Z" comes before "Z".                     *)
rank(t) == (t \div Second) * Second + (IF t % Second = 0 THEN Second - 1 ELSE (t % Second) - 1)

\* Bounds are given to the second.
bound(t) == rank((t \div Second) * Second)

\* A time, or how long ago it was.
parseTimeParam(p) ==
    CASE p.form = "absolute"                -> p.n
      [] p.form = "ago" /\ p.n <= clock     -> clock - p.n
      [] p.form = "ago" /\ p.n > clock      -> 0
      [] p.form = "malformed"               -> 0

History(g, from, to) ==
    /\ Begin([do |-> "history", key |-> g, since |-> parseTimeParam(from), to |-> parseTimeParam(to)])
    /\ got' = <<>> /\ UNCHANGED <<body, toRead>>
    /\ answer' = IF "malformed" \in {from.form, to.form}
                 THEN [status |-> "bad request", content |-> <<>>] ELSE NoAnswer

\* A Query between a time and an earlier one is refused.
inOrder == bound(job.since) <= bound(job.to)

\* What the Query has still to return.
pending ==
    {r \in records :
        /\ r.key = job.key
        /\ bound(job.since) <= rank(r.at) /\ rank(r.at) <= bound(job.to)
        /\ got = <<>> \/ rank(r.at) < rank(got[Len(got)].at)}

\* Mutant: the oldest come first.
newestLast(page, S) ==
    \A i \in DOMAIN page : \A r \in S \ {page[j] : j \in 1..i} : rank(r.at) >= rank(page[i].at)

\* What is left of S after a page comes after it.
newest(page, S) ==
    \A i \in DOMAIN page : \A r \in S \ {page[j] : j \in 1..i} : rank(r.at) <= rank(page[i].at)

\* A page of the Query, of any length up to the limit.
HistoryPage(n) ==
    /\ Open("history") /\ inOrder /\ Len(got) < Limit
    /\ \E page \in Injection(1..n, pending) :
          /\ newest(page, pending)
          /\ LET all == got \o page
             IN  got' = SubSeq(all, 1, IF Len(all) > Limit THEN Limit ELSE Len(all))
    /\ UNCHANGED <<job, body, toRead, answer, storeVars, seenVars>>

HistoryFails ==
    /\ Open("history") /\ ("get" \in Failing \/ ~inOrder)
    /\ Reply("error", <<>>)

HistoryDone ==
    /\ Open("history") /\ inOrder /\ (Len(got) >= Limit \/ pending = {})
    /\ Reply("ok", got)

Next ==
    \/ \E b \in Batches : Upsert(b)
    \/ \E k \in Names : Delete(k) \/ ListPage(k)
    \/ \E t \in tasks : CreateBatch(t)
    \/ \E t \in Templates, a \in Arguments, s \in BOOLEAN : Build(t, a, s) \/ RetrieveBoxFails(t, a, s)
    \/ \E g \in toRead : BatchGet(g)
    \/ BatchGetFails \/ BuildDone
    \/ \E f \in Formats \cup {"xml"} : Export(f)
    \/ ListFails \/ ExportDone
    \/ \E e \in Entries, from, to \in TimeParams : History(e.key, from, to)
    \/ \E n \in 1..Limit : HistoryPage(n)
    \/ HistoryFails \/ HistoryDone
    \/ Return

Spec == Init /\ [][Next]_vars

-----------------------------------------------------------------------------
Statuses == {"none", "ok", "bad request", "not found", "error"}

(* Every variable holds a value of its kind, and a history is no longer    *)
(* than its limit.                                                         *)
TypeOK ==
    /\ table \in [Names -> Rows \cup {NoRow, Marker}]
    /\ \A r \in records : r.value \in Values \cup {"address"} /\ r.secure \in BOOLEAN /\ r.at < clock
    /\ clock \in 0..MaxTime /\ upserts \in 0..MaxUpserts
    /\ job.do \in {"none", "build", "export", "history"} /\ answer.status \in Statuses
    /\ \A t \in tasks : t # {} /\ \A r \in t : r.value \in Values \cup {"address"}
    /\ written \subseteq given /\ had \in [Names -> SUBSET (Rows \cup {NoRow, Marker})]
    /\ \A e \in given : e.value \in Values /\ e.backend \in Backends
    /\ before \subseteq records
    /\ job.do = "history" => Len(got) <= Limit
    /\ job.do \in {"build", "export"} => \A k \in DOMAIN got : k \in Names /\ got[k] \in Rows \cup {Marker}

Done(kind, status) == job.do = kind /\ answer.status = status

(***************************************************************************)
(* A value that was only ever sent to the Parameter Store is shown to      *)
(* nobody: it is in no row, and so in no export and no template, and in no *)
(* record of the history, whatever fails (ssm.go:195, recorder.go:134).    *)
(* Not covered: a secure value that is routed to the index, for want of a  *)
(* configuration of its prefix or by one; it is shown like any other.      *)
(***************************************************************************)
SecretsHidden ==
    LET open == {e.value : e \in {d \in given : ~external(d)}}
    IN  /\ \A k \in Names : table[k].value \in Values => table[k].value \in open
        /\ \A r \in records \cup UNION tasks : r.value \in Values => r.value \in open
        /\ Done("build", "ok") =>
              \A i \in DOMAIN body : body[i].var /\ answer.content[i][1] \in Values =>
                  answer.content[i][1] \in open
        /\ Done("export", "ok") =>
              \A l \in answer.content : l.value \in Values => l.value \in open

(***************************************************************************)
(* Each record is of an entry that was sent to its backend, as it was      *)
(* given, and shows what its row has: its value or its address; and of one *)
(* that was written, whoever failed beside it.  But a failed entry of the  *)
(* index that is spelled otherwise than its key is in the history all the  *)
(* same (recorder.go:111, dynamodb.go:210, 262).                           *)
(***************************************************************************)
HistoryHonest ==
    \A r \in records : \E e \in given :
        /\ e.key = r.key /\ r.value = Row(e).value /\ r.secure = Row(e).secure
        /\ e \in written \/ misfiled(e)

(***************************************************************************)
(* A history is in order of time, to the second, and within its bounds, to *)
(* the second; and of the records there were when it was asked for, in the *)
(* seconds after its start and not after its end, it leaves out only what  *)
(* is older than a full answer, no longer than its limit                   *)
(* (tracking/store/dynamodb.go:76).                                        *)
(***************************************************************************)
HistoryNewest ==
    Done("history", "ok") =>
        LET a == answer.content
            sec(t) == t \div Second
            shownAt == {a[i].at : i \in DOMAIN a}
        IN  /\ Len(a) <= Limit
            /\ \A i \in DOMAIN a :
                  /\ a[i].key = job.key /\ sec(job.since) <= sec(a[i].at) /\ sec(a[i].at) <= sec(job.to)
                  /\ \A j \in 1..(i - 1) : a[i] # a[j] /\ sec(a[i].at) <= sec(a[j].at)
            /\ \A r \in before :
                  r.key = job.key /\ sec(job.since) < sec(r.at) /\ sec(r.at) <= sec(job.to) /\ r.at \notin shownAt
                  => Len(a) = Limit /\ \A t \in shownAt : sec(r.at) <= sec(t)

(***************************************************************************)
(* An export has each entry and each folder of its level as it was at some *)
(* moment since it was asked for, folders as lines with no value, in ECS   *)
(* task definitions as a secret only what was written as one, and nothing  *)
(* else, no locks; when the whole level was read, it is refused for want   *)
(* of entries only if each of them was absent for a moment                 *)
(* (generator.go:46, dynamodb.go:345).                                     *)
(***************************************************************************)
ExportHonest ==
    /\ Done("export", "ok") =>
          /\ \A k \in Level \ Locks :
                NoRow \in had[k] \/ \E row \in had[k] : line(job.format, k, row) \in answer.content
          /\ \A l \in answer.content :
                \E k \in Level \ Locks : \E row \in had[k] \ {NoRow} : l = line(job.format, k, row)
    /\ Done("export", "bad request") /\ job.format \in Formats /\ toRead = {} =>
          \A k \in Level \ Locks : NoRow \in had[k]

(***************************************************************************)
(* What a build answers is the template with every                         *)
(* placeholder replaced by its argument and every variable by a value its  *)
(* entry had, since the build began; a strict build leaves no variable     *)
(* open, and refuses only if one is spelled otherwise than its key or had  *)
(* no value for a moment.  Not covered: placeholders that begin with the   *)
(* name of another argument, and values that end in a quote                *)
(* (renderer.go:53, 103).                                                  *)
(***************************************************************************)
BuildFilled ==
    LET names == DOMAIN BuiltIn \cup DOMAIN job.args
        clear(t) == \A i \in DOMAIN t : \A j \in DOMAIN t[i].words :
            t[i].words[j] \in Placeholders => Begins[t[i].words[j]] \cap names \subseteq {t[i].words[j]}
        word(w) == IF w \in names THEN valueOf(job.args, w) ELSE w
        words(item) == [j \in DOMAIN item.words |-> word(item.words[j])]
        absent(g) == g \notin Keys \/ NoRow \in had[g]
        filled(item, out) ==
            IF ~item.var THEN out = words(item)
            ELSE \/ ~job.strict /\ absent(words(item)) /\ out = <<"empty">>
                 \/ /\ words(item) \in Keys
                    /\ \E row \in had[words(item)] \ {NoRow} :
                          out = <<row.value>> \/ (out = <<"cut">> /\ row.value \in Quoted)
        t == job.template
    IN  /\ Done("build", "ok") /\ clear(t) =>
              /\ DOMAIN answer.content = DOMAIN t
              /\ \A i \in DOMAIN t : filled(t[i], answer.content[i])
        /\ Done("build", "bad request") /\ clear(t) => \E i \in DOMAIN t : t[i].var /\
              (absent(words(t[i])) \/ \E row \in had[words(t[i])] : row.value \in Quoted)
=============================================================================
