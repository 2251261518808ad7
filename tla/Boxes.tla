-------------------------------- MODULE Boxes --------------------------------
(***************************************************************************)
(* Templates of one service (internal/box): their validation against the   *)
(* CUE specs (store/spec: SpecRegistry, CueEngine, FSStore), the two       *)
(* stores they are kept in (store/s3.go: an object in S3, a record per     *)
(* stage in DynamoDB).                                                     *)
(*                                                                         *)
(* A spec file is known by its number of edits.  A template body is a      *)
(* value; its hash is itself.  Calls of UpsertBox, ValidateTemplate and    *)
(* ResolveSpec run together with Reloads, which read the files one by one  *)
(* and replace the registry under its lock.                                *)
(***************************************************************************)
EXTENDS Naturals, Sequences

CONSTANTS
    Calls,       \* HTTP requests that may be in flight together
    Reloads,     \* requests to reload the specs
    Ids,         \* spec files, each with an ID of its own
    Stages, Names, Bodies,
    Extension,   \* of each name, in lower case
    WellFormed,  \* bodies that parse
    Matches,     \* of each spec: the names its patterns match
    File,        \* of each spec its successive contents: [kind, accepts]
    Boxes,       \* what UpsertBox is given: sets of templates, one per stage
    MaxUpserts,  \* bound: calls of UpsertBox
    Failing      \* what fails: "object" and "record"

NoSpec == [id |-> "none", edit |-> 0]
Templates == [stage : Stages, name : Names, body : Bodies]
Kinds == {"good", "broken", "noschema"}

ASSUME BoxesAssumption ==
    /\ Extension \in [Names -> STRING]
    /\ WellFormed \subseteq Bodies
    /\ Matches \in [Ids -> SUBSET Names] /\ "none" \notin Ids \cup Names \cup Bodies
    /\ File \in [Ids -> Seq([kind : Kinds, accepts : SUBSET Bodies]) \ {<<>>}]
    /\ \A b \in Boxes : b \subseteq Templates /\ \A s, t \in b : s.stage = t.stage => s = t
    /\ MaxUpserts \in Nat
    /\ Failing \subseteq {"object", "record"}

VARIABLES
    disk,      \* the edit of each spec file
    specs,     \* the registry: the edit it has of each spec, 0 for none
    cache,     \* CueEngine.cache: the edit whose schema is compiled, 0 for none
    schemas,   \* CueEngine.schemaJSON likewise
    loaded,    \* of each Reload: what it has read so far
    toRead,    \* of each Reload: the files it has still to read
    loading,   \* Reloads under way
    objects,   \* S3: the body stored under each path, or "none"
    records,   \* DynamoDB: what is recorded for each stage
    phase,     \* of each call: idle, next, resolved, put, record or export
    todo,      \* UpsertBox: templates still to be handled
    now,       \* the template in hand
    def,       \* the spec it is checked against
    verdicts,  \* UpsertBox: what it will report for each path
    upserts,   \* number of UpsertBox calls
    \* History:
    raced,     \* specs swapped while a call held their last edit
    begun,     \* of each Reload: the edits on disk when it began
    overtaken, \* Reloads that saw another one install meanwhile
    past       \* of each path: all bodies it has had

specVars == <<disk, specs, cache, schemas, raced>>
reloadVars == <<loaded, toRead, loading, begun, overtaken>>
storeVars == <<objects, records, past>>
callVars == <<phase, todo, now, def, verdicts, upserts>>
vars == <<specVars, reloadVars, storeVars, callVars>>

-----------------------------------------------------------------------------
Paths == Stages \X Names
Path(t) == <<t.stage, t.name>>
NoTemplate == [stage |-> "none", name |-> "none", body |-> "none"]
NoRecord == [name |-> "none", hash |-> "none"]
NoVerdicts == [p \in Paths |-> "none"]
Unread == [i \in Ids |-> 0]

Init ==
    /\ disk = [i \in Ids |-> 1] /\ specs = Unread
    /\ cache = Unread /\ schemas = Unread
    /\ loaded = [r \in Reloads |-> Unread] /\ toRead = [r \in Reloads |-> {}]
    /\ loading = {}
    /\ objects = [p \in Paths |-> "none"] /\ records = [s \in Stages |-> NoRecord]
    /\ phase = [c \in Calls |-> "idle"]
    /\ todo = [c \in Calls |-> {}]
    /\ now = [c \in Calls |-> NoTemplate] /\ def = [c \in Calls |-> NoSpec]
    /\ verdicts = [c \in Calls |-> NoVerdicts]
    /\ upserts = 0
    /\ raced = {} /\ overtaken = {} /\ begun = [r \in Reloads |-> Unread]
    /\ past = [p \in Paths |-> {}]

-----------------------------------------------------------------------------
(* How a template is parsed.                                               *)

ExtensionMap ==
    [json |-> {".json"}, yaml |-> {".yaml", ".yml"}, dotenv |-> {".env"}, cfg |-> {".cfg", ".conf"},
     ini |-> {".ini"}, xml |-> {".xml"}, txt |-> {".txt", ".text"}]

\* NewStrategyResolver: the types that have a strategy.
Register == {"json", "yaml", "txt"}

\* StrategyResolver.Resolve, and TXT for what has no strategy.
Format ==
    [n \in Names |->
        IF \E s \in Register : Extension[n] \in ExtensionMap[s]
        THEN CHOOSE s \in Register : Extension[n] \in ExtensionMap[s] ELSE "txt"]

-----------------------------------------------------------------------------
(* Spec files and their Reload.                                            *)

\* Somebody edits a spec file.
Edit(i) ==
    /\ disk[i] < Len(File[i])
    /\ disk' = [disk EXCEPT ![i] = @ + 1]
    /\ UNCHANGED <<specs, cache, schemas, raced, reloadVars, storeVars, callVars>>

Reload(r) ==
    /\ r \notin loading
    /\ loading' = loading \cup {r}
    /\ toRead' = [toRead EXCEPT ![r] = Ids]
    /\ begun' = [begun EXCEPT ![r] = disk]
    /\ overtaken' = overtaken \ {r}
    /\ UNCHANGED <<loaded, specVars, storeVars, callVars>>

\* FSStore.LoadAll: a file that does not compile, or has no #Meta, is skipped
\* with a warning.
usable(i, n) == File[i][n].kind # "broken"

LoadFile(r, i) ==
    /\ i \in toRead[r]
    /\ toRead' = [toRead EXCEPT ![r] = @ \ {i}]
    /\ loaded' = [loaded EXCEPT ![r][i] = IF usable(i, disk[i]) THEN disk[i] ELSE 0]
    /\ UNCHANGED <<loading, begun, overtaken, specVars, storeVars, callVars>>

\* Mutant: the JSON schemas rendered so far are kept.
InvalidatePart == cache' = Unread /\ UNCHANGED schemas

\* engine.InvalidateCache.
InvalidateCache == cache' = Unread /\ schemas' = Unread

\* Definitions that calls have resolved and not yet used.
held(i) == {def[c].edit : c \in {d \in Calls : phase[d] \in {"resolved", "export"} /\ def[d].id = i}}

\* Mutant: a Reload only adds to the registry.
replacementAdds(new) == [i \in Ids |-> IF new[i] = 0 THEN specs[i] ELSE new[i]]

replacement(new) == new

\* Everything is replaced under the lock.
Install(r) ==
    /\ r \in loading /\ toRead[r] = {}
    /\ specs' = replacement(loaded[r])
    /\ InvalidateCache
    /\ raced' = {j \in Ids : held(j) \ {specs'[j]} # {}}
    /\ loading' = loading \ {r}
    /\ loaded' = [loaded EXCEPT ![r] = Unread]
    /\ overtaken' = (overtaken \cup loading) \ {r}
    /\ begun' = [begun EXCEPT ![r] = Unread]
    /\ UNCHANGED <<toRead, disk, storeVars, callVars>>

\* Resolve goes through a map of patterns in any order.
Resolve(name) ==
    LET found == {i \in Ids : specs[i] # 0 /\ name \in Matches[i]}
    IN  IF found = {} THEN {NoSpec} ELSE {[id |-> i, edit |-> specs[i]] : i \in found}

-----------------------------------------------------------------------------
(* UpsertBox: per template Process and Resolve, then the engine, then the  *)
(* object, then the record.  ValidateTemplate ends where the object would  *)
(* be written.                                                             *)

UpsertBox(c, bx) ==
    /\ phase[c] = "idle" /\ upserts < MaxUpserts
    /\ upserts' = upserts + 1
    /\ phase' = [phase EXCEPT ![c] = "next"]
    /\ todo' = [todo EXCEPT ![c] = bx]
    /\ UNCHANGED <<now, def, verdicts, specVars, reloadVars, storeVars>>

\* StrategyResolver.Process: only JSON and YAML are parsed.
syntaxOk(t) == Format[t.name] = "txt" \/ t.body \in WellFormed

\* The template in hand is finished, with a verdict.
Finish(c, verdict) ==
    /\ verdicts' = [verdicts EXCEPT ![c][Path(now'[c])] = verdict]
    /\ phase' = [phase EXCEPT ![c] = "next"]

\* ValidateByFilename: without a spec everything is valid.
lookUp(c, d) == IF d = NoSpec THEN "put" ELSE "resolved"

Process(c, t) ==
    /\ phase[c] = "next" /\ t \in todo[c]
    /\ todo' = [todo EXCEPT ![c] = @ \ {t}]
    /\ now' = [now EXCEPT ![c] = t]
    /\ IF ~syntaxOk(t)
       THEN Finish(c, "syntax") /\ UNCHANGED def
       ELSE /\ \E d \in Resolve(t.name) :
                  /\ def' = [def EXCEPT ![c] = d]
                  /\ phase' = [phase EXCEPT ![c] = lookUp(c, d)]
            /\ UNCHANGED verdicts
    /\ UNCHANGED <<upserts, specVars, reloadVars, storeVars>>

\* getOrCompile: what is cached under the ID, and else the definition in hand,
\* which is then cached.
compiled(c) == IF cache[def[c].id] # 0 THEN cache[def[c].id] ELSE def[c].edit

\* CueEngine.Validate by an edit of a spec: JSON and YAML only.
check(i, n, t) ==
    IF File[i][n].kind = "noschema" \/ Format[t.name] = "txt" THEN "internal"
    ELSE IF t.body \in File[i][n].accepts THEN "valid" ELSE "schema"

Validate(c) ==
    LET i == def[c].id
        n == compiled(c)
        verdict == check(i, n, now[c])
    IN  /\ phase[c] = "resolved"
        /\ cache' = [cache EXCEPT ![i] = IF File[i][n].kind = "good" THEN n ELSE @]
        /\ IF verdict = "valid"
           THEN phase' = [phase EXCEPT ![c] = "put"] /\ UNCHANGED <<verdicts, now>>
           ELSE UNCHANGED now /\ Finish(c, verdict)
        /\ UNCHANGED <<todo, def, upserts, disk, specs, schemas, raced, reloadVars, storeVars>>

\* ValidateTemplate and a refused UpsertBox differ in nothing that is kept.
ValidateOnly(c) ==
    /\ phase[c] = "put" /\ UNCHANGED now /\ Finish(c, "checked")
    /\ UNCHANGED <<todo, def, upserts, specVars, reloadVars, storeVars>>

\* Mutant: the error of PutObject is only logged.
PutObjectLogs(c) ==
    /\ phase[c] = "put"
    /\ phase' = [phase EXCEPT ![c] = "record"]
    /\ \/ /\ objects' = [objects EXCEPT ![Path(now[c])] = now[c].body]
          /\ past' = [past EXCEPT ![Path(now[c])] = @ \cup {now[c].body}]
       \/ "object" \in Failing /\ UNCHANGED <<objects, past>>
    /\ UNCHANGED <<todo, now, def, verdicts, upserts, records, specVars, reloadVars>>

\* An error of PutObject ends the template, with the verdict of the engine.
PutObject(c) ==
    LET p == Path(now[c])
    IN  /\ phase[c] = "put"
        /\ \/ /\ phase' = [phase EXCEPT ![c] = "record"]
              /\ objects' = [objects EXCEPT ![p] = now[c].body]
              /\ past' = [past EXCEPT ![p] = @ \cup {now[c].body}]
              /\ UNCHANGED <<now, verdicts>>
           \/ /\ "object" \in Failing
              /\ UNCHANGED <<now, objects, past>> /\ Finish(c, "valid")
        /\ UNCHANGED <<todo, def, upserts, records, specVars, reloadVars>>

\* An error of PutItem is only logged.
PutRecord(c) ==
    LET t == now[c]
    IN  /\ phase[c] = "record"
        /\ UNCHANGED now /\ Finish(c, "valid")
        /\ \/ records' = [records EXCEPT ![t.stage] = [name |-> t.name, hash |-> t.body]]
           \/ "record" \in Failing /\ UNCHANGED records
        /\ UNCHANGED <<todo, def, upserts, objects, past, specVars, reloadVars>>

UpsertReturn(c) ==
    /\ phase[c] = "next" /\ todo[c] = {}
    /\ phase' = [phase EXCEPT ![c] = "idle"]
    /\ verdicts' = [verdicts EXCEPT ![c] = NoVerdicts]
    /\ now' = [now EXCEPT ![c] = NoTemplate] /\ def' = [def EXCEPT ![c] = NoSpec]
    /\ UNCHANGED <<todo, upserts, specVars, reloadVars, storeVars>>

-----------------------------------------------------------------------------
(* ResolveSpec: the registry, and then the JSON schema of the engine.      *)
ResolveSpec(c, name) ==
    /\ phase[c] = "idle"
    /\ \E d \in Resolve(name) \ {NoSpec} : def' = [def EXCEPT ![c] = d]
    /\ phase' = [phase EXCEPT ![c] = "export"]
    /\ UNCHANGED <<todo, now, verdicts, upserts, specVars, reloadVars, storeVars>>

ExportJSONSchema(c) ==
    LET i == def[c].id
    IN  /\ phase[c] = "export"
        /\ schemas' = [schemas EXCEPT ![i] =
              IF @ = 0 /\ File[i][def[c].edit].kind = "good" THEN def[c].edit ELSE @]
        /\ phase' = [phase EXCEPT ![c] = "idle"]
        /\ def' = [def EXCEPT ![c] = NoSpec]
        /\ UNCHANGED <<todo, now, verdicts, upserts, disk, specs, cache, raced, reloadVars,
                       storeVars>>

\* What the other handlers read.
BoxExists(p) == objects[p] # "none"
RetrieveBox(p) == objects[p]
List == {s \in Stages : records[s] # NoRecord}
Detail(s) == records[s]

Next ==
    \/ \E i \in Ids : Edit(i)
    \/ \E r \in Reloads : Reload(r) \/ (\E i \in Ids : LoadFile(r, i)) \/ Install(r)
    \/ \E c \in Calls : \E bx \in Boxes : UpsertBox(c, bx)
    \/ \E c \in Calls : \E t \in todo[c] : Process(c, t)
    \/ \E c \in Calls : Validate(c) \/ ValidateOnly(c) \/ PutObject(c) \/ PutRecord(c) \/ UpsertReturn(c)
    \/ \E c \in Calls : (\E n \in Names : ResolveSpec(c, n)) \/ ExportJSONSchema(c)

Spec == Init /\ [][Next]_vars

-----------------------------------------------------------------------------
Verdicts == {"none", "syntax", "schema", "internal", "checked", "valid"}

(* Every variable holds a value of its kind, and a call that is about to    *)
(* ask the engine has a spec to ask it about.                              *)
TypeOK ==
    /\ \A i \in Ids :
          /\ disk[i] \in 1..Len(File[i])
          /\ {specs[i], cache[i], schemas[i]} \cup {loaded[r][i] : r \in Reloads} \subseteq 0..disk[i]
    /\ toRead \in [Reloads -> SUBSET Ids] /\ loading \subseteq Reloads
    /\ objects \in [Paths -> Bodies \cup {"none"}]
    /\ records \in [Stages -> [name : Names, hash : Bodies] \cup {NoRecord}]
    /\ phase \in [Calls -> {"idle", "next", "resolved", "put", "record", "export"}]
    /\ todo \in [Calls -> SUBSET Templates]
    /\ now \in [Calls -> Templates \cup {NoTemplate}]
    /\ def \in [Calls -> [id : Ids, edit : Nat \ {0}] \cup {NoSpec}]
    /\ verdicts \in [Calls -> [Paths -> Verdicts]]
    /\ upserts \in 0..MaxUpserts
    /\ \A c \in Calls :
          /\ phase[c] = "idle" => def[c] = NoSpec /\ todo[c] = {}
          /\ phase[c] \in {"resolved", "export"} => def[c] # NoSpec /\ def[c].edit \in 1..disk[def[c].id]
    /\ raced \subseteq Ids /\ overtaken \subseteq Reloads
    /\ past \in [Paths -> SUBSET Bodies]

(***************************************************************************)
(* What the engine has compiled or rendered for a spec is the edit that    *)
(* the registry has, so a template is judged by the spec that its answer   *)
(* names (registry.go:135, Meta).  Only a call that has resolved a spec    *)
(* when a Reload replaces it may bring the replaced edit back into the     *)
(* cache, where it stays until the next Reload (cue_engine.go:155).        *)
(***************************************************************************)
SchemasCurrent ==
    \A i \in Ids \ raced : {cache[i], schemas[i]} \subseteq {0, specs[i]}

(***************************************************************************)
(* After a Reload the registry has of every file an edit that was on disk  *)
(* while the Reload ran, and drops a spec only if its file did not compile *)
(* then; and it never goes back to an older edit, unless another Reload    *)
(* was installed meanwhile (registry.go:34, LoadAll outside the lock).     *)
(***************************************************************************)
ReloadForward ==
    [][\A r \in loading, i \in Ids : r \notin loading' =>
          LET seen == {IF usable(i, n) THEN n ELSE 0 : n \in begun[r][i]..disk[i]}
          IN  /\ specs'[i] \in seen
              /\ r \in overtaken \/ specs'[i] = 0 \/ specs'[i] >= specs[i]]_vars

(***************************************************************************)
(* What List and Detail show can be retrieved and built: the object is     *)
(* there, the recorded hash is that of a body it has had, and that body    *)
(* parses (s3.go, UpsertBox).                                              *)
(***************************************************************************)
RecordsStored ==
    \A s \in List :
        LET p == <<s, Detail(s).name>>
        IN  /\ BoxExists(p) /\ Detail(s).hash \in past[p]
            /\ Format[Detail(s).name] # "txt" => RetrieveBox(p) \in WellFormed
=============================================================================
