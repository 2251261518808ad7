---------------------------- MODULE Boxes_proofs ----------------------------
(* Proofs about templates and their specs, for every set of calls, reloads, *)
(* files, names and bodies, and whichever store fails.                      *)
EXTENDS Boxes, TLAPS

-----------------------------------------------------------------------------
(* What is listed can be built.                                            *)

StoreTypes ==
    /\ phase \in [Calls -> {"idle", "next", "resolved", "put", "record", "export"}]
    /\ todo \in [Calls -> SUBSET Templates]
    /\ now \in [Calls -> Templates \cup {NoTemplate}]
    /\ objects \in [Paths -> Bodies \cup {"none"}]
    /\ past \in [Paths -> SUBSET Bodies]
    /\ records \in [Stages -> [name : Names, hash : Bodies] \cup {NoRecord}]

\* A call that is past Process has a template in hand, and one that parses.
InHand ==
    \A c \in Calls : phase[c] \in {"resolved", "put", "record"} =>
        now[c] \in Templates /\ syntaxOk(now[c])

\* Before the record is written its object is.
ObjectFirst ==
    \A c \in Calls : phase[c] = "record" =>
        BoxExists(Path(now[c])) /\ now[c].body \in past[Path(now[c])]

ObjectsParse ==
    \A s \in Stages, n \in Names :
        BoxExists(<<s, n>>) /\ Format[n] # "txt" => RetrieveBox(<<s, n>>) \in WellFormed

Recorded ==
    \A s \in Stages : records[s] # NoRecord =>
        BoxExists(<<s, records[s].name>>) /\ records[s].hash \in past[<<s, records[s].name>>]

StoreInv == StoreTypes /\ InHand /\ ObjectFirst /\ ObjectsParse /\ Recorded

LEMMA StoreInit == Init => StoreInv
  BY DEF Init, StoreInv, StoreTypes, InHand, ObjectFirst, ObjectsParse, Recorded, BoxExists,
         RetrieveBox, Paths, NoTemplate, NoRecord

(* What a template in hand needs of the store is not lost by a step that    *)
(* leaves the stores alone and moves no call to them without Process.       *)
LEMMA StoresAlone ==
    ASSUME StoreInv, UNCHANGED storeVars, NEW c \in Calls,
           todo' \in [Calls -> SUBSET Templates],
           now' \in [Calls -> Templates \cup {NoTemplate}],
           phase' \in [Calls -> {"idle", "next", "resolved", "put", "record", "export"}],
           \A d \in Calls \ {c} : phase'[d] = phase[d] /\ now'[d] = now[d],
           phase'[c] # "record",
           phase'[c] \in {"resolved", "put"} => now'[c] \in Templates /\ syntaxOk(now'[c])
    PROVE  StoreInv'
  <1>1. StoreTypes'
    BY DEF StoreInv, StoreTypes, storeVars
  <1>2. InHand'
    BY DEF StoreInv, InHand, syntaxOk
  <1>3. ObjectFirst'
    BY DEF StoreInv, ObjectFirst, storeVars, BoxExists, Path
  <1>4. ObjectsParse' /\ Recorded'
    BY DEF StoreInv, ObjectsParse, Recorded, storeVars, BoxExists, RetrieveBox
  <1>5. QED BY <1>1, <1>2, <1>3, <1>4 DEF StoreInv

(* Steps of reloads and edits touch nothing of the stores nor of the calls. *)
LEMMA StoreElsewhere ==
    ASSUME StoreInv, UNCHANGED <<storeVars, phase, todo, now>>
    PROVE  StoreInv'
  BY DEF StoreInv, StoreTypes, InHand, ObjectFirst, ObjectsParse, Recorded, storeVars, BoxExists,
         RetrieveBox, Path, syntaxOk

LEMMA StoreNext == StoreInv /\ [Next]_vars => StoreInv'
  <1> SUFFICES ASSUME StoreInv, [Next]_vars PROVE StoreInv'
    OBVIOUS
  <1> USE DEF StoreInv, StoreTypes
  <1>1. ASSUME NEW i \in Ids, Edit(i) PROVE StoreInv'
    BY <1>1, StoreElsewhere DEF Edit, callVars
  <1>2. ASSUME NEW r \in Reloads, Reload(r) PROVE StoreInv'
    BY <1>2, StoreElsewhere DEF Reload, callVars
  <1>3. ASSUME NEW r \in Reloads, NEW i \in Ids, LoadFile(r, i) PROVE StoreInv'
    BY <1>3, StoreElsewhere DEF LoadFile, callVars
  <1>4. ASSUME NEW r \in Reloads, Install(r) PROVE StoreInv'
    BY <1>4, StoreElsewhere DEF Install, callVars
  <1>5. ASSUME NEW c \in Calls, NEW bx \in Boxes, UpsertBox(c, bx) PROVE StoreInv'
    <2>1. bx \subseteq Templates
      BY BoxesAssumption
    <2>2. QED BY <1>5, <2>1, StoresAlone DEF UpsertBox
  <1>6. ASSUME NEW c \in Calls, NEW t \in todo[c], Process(c, t) PROVE StoreInv'
    <2>1. t \in Templates
      OBVIOUS
    <2>2. /\ todo' = [todo EXCEPT ![c] = @ \ {t}] /\ now' = [now EXCEPT ![c] = t]
          /\ UNCHANGED storeVars
      BY <1>6 DEF Process
    <2>3. CASE ~syntaxOk(t)
      BY <1>6, <2>1, <2>2, <2>3, StoresAlone DEF Process, Finish
    <2>4. CASE syntaxOk(t)
      <3>1. PICK d \in Resolve(t.name) : phase' = [phase EXCEPT ![c] = lookUp(c, d)]
        BY <1>6, <2>4 DEF Process
      <3>2. lookUp(c, d) \in {"put", "resolved"}
        BY DEF lookUp
      <3>3. QED BY <2>1, <2>2, <2>4, <3>1, <3>2, StoresAlone
    <2>5. QED BY <2>3, <2>4
  <1>7. ASSUME NEW c \in Calls, Validate(c) PROVE StoreInv'
    <2>1. phase[c] = "resolved" /\ UNCHANGED <<now, todo, storeVars>>
      BY <1>7 DEF Validate
    <2>2. phase' = [phase EXCEPT ![c] = "put"] \/ phase' = [phase EXCEPT ![c] = "next"]
      BY <1>7 DEF Validate, Finish
    <2>3. now[c] \in Templates /\ syntaxOk(now[c])
      BY <2>1 DEF InHand
    <2>4. QED BY <2>1, <2>2, <2>3, StoresAlone
  <1>8. ASSUME NEW c \in Calls, ValidateOnly(c) PROVE StoreInv'
    BY <1>8, StoresAlone DEF ValidateOnly, Finish
  <1>9. ASSUME NEW c \in Calls, PutObject(c) PROVE StoreInv'
    <2>1. phase[c] = "put" /\ UNCHANGED <<now, todo, records>>
      BY <1>9 DEF PutObject
    <2>2. now[c] \in Templates /\ syntaxOk(now[c])
      BY <2>1 DEF InHand
    <2>3. CASE UNCHANGED <<objects, past>> /\ Finish(c, "valid")
      BY <2>1, <2>3, StoresAlone DEF Finish, storeVars
    <2>4. CASE /\ phase' = [phase EXCEPT ![c] = "record"]
               /\ objects' = [objects EXCEPT ![Path(now[c])] = now[c].body]
               /\ past' = [past EXCEPT ![Path(now[c])] = @ \cup {now[c].body}]
      <3>1. Path(now[c]) \in Paths /\ now[c].body \in Bodies /\ now[c].body # "none"
        BY <2>2, BoxesAssumption DEF Path, Paths, Templates
      <3>2. StoreTypes'
        BY <2>1, <2>4, <3>1
      <3>3. InHand'
        BY <2>1, <2>2, <2>4 DEF InHand, syntaxOk
      <3>4. \A p \in Paths : /\ BoxExists(p) => objects'[p] # "none"
                             /\ past[p] \subseteq past'[p]
        BY <2>4, <3>1 DEF BoxExists
      <3>5. ObjectFirst'
        <4>1. ASSUME NEW d \in Calls, phase'[d] = "record"
              PROVE  objects'[Path(now'[d])] # "none" /\ now'[d].body \in past'[Path(now'[d])]
          <5>1. CASE d = c
            BY <2>1, <2>4, <3>1, <5>1 DEF BoxExists
          <5>2. CASE d # c
            <6>1. phase[d] = "record" /\ now'[d] = now[d] /\ now[d] \in Templates
              BY <2>1, <2>4, <4>1, <5>2 DEF InHand
            <6>2. Path(now[d]) \in Paths
              BY <6>1 DEF Path, Paths, Templates
            <6>3. QED BY <3>4, <6>1, <6>2 DEF ObjectFirst, BoxExists
          <5>3. QED BY <5>1, <5>2
        <4>2. QED BY <4>1 DEF ObjectFirst, BoxExists, Path
      <3>6. ObjectsParse'
        BY <2>2, <2>4, <3>1 DEF ObjectsParse, BoxExists, RetrieveBox, Path, Paths, syntaxOk, Templates
      <3>7. Recorded'
        <4>1. ASSUME NEW s \in Stages, records[s] # NoRecord
              PROVE  objects'[<<s, records[s].name>>] # "none" /\ records[s].hash \in past'[<<s, records[s].name>>]
          <5>1. <<s, records[s].name>> \in Paths
            BY <4>1 DEF Paths
          <5>2. QED BY <3>4, <4>1, <5>1 DEF Recorded, BoxExists
        <4>2. QED BY <2>1, <4>1 DEF Recorded, BoxExists
      <3>8. QED BY <3>2, <3>3, <3>5, <3>6, <3>7
    <2>5. QED BY <1>9, <2>3, <2>4 DEF PutObject
  <1>10. ASSUME NEW c \in Calls, PutRecord(c) PROVE StoreInv'
    <2>1. /\ phase[c] = "record" /\ UNCHANGED <<now, todo, objects, past>>
          /\ phase' = [phase EXCEPT ![c] = "next"]
      BY <1>10 DEF PutRecord, Finish
    <2>2. now[c] \in Templates /\ BoxExists(Path(now[c])) /\ now[c].body \in past[Path(now[c])]
      BY <2>1 DEF InHand, ObjectFirst
    <2>3. CASE UNCHANGED records
      BY <2>1, <2>3, StoresAlone DEF storeVars
    <2>4. CASE records' = [records EXCEPT ![now[c].stage] = [name |-> now[c].name, hash |-> now[c].body]]
      <3>1. StoreTypes' /\ InHand' /\ ObjectFirst' /\ ObjectsParse'
        BY <2>1, <2>2, <2>4
           DEF Templates, InHand, ObjectFirst, ObjectsParse, BoxExists, RetrieveBox, Path, syntaxOk
      <3>2. Recorded'
        BY <2>1, <2>2, <2>4 DEF Recorded, BoxExists, Path, Templates
      <3>3. QED BY <3>1, <3>2
    <2>5. QED BY <1>10, <2>3, <2>4 DEF PutRecord
  <1>11. ASSUME NEW c \in Calls, UpsertReturn(c) PROVE StoreInv'
    BY <1>11, StoresAlone DEF UpsertReturn
  <1>12. ASSUME NEW c \in Calls, NEW n \in Names, ResolveSpec(c, n) PROVE StoreInv'
    BY <1>12, StoresAlone DEF ResolveSpec
  <1>13. ASSUME NEW c \in Calls, ExportJSONSchema(c) PROVE StoreInv'
    BY <1>13, StoresAlone DEF ExportJSONSchema
  <1>14. CASE UNCHANGED vars
    BY <1>14, StoreElsewhere DEF vars, callVars
  <1>15. QED
    BY <1>1, <1>2, <1>3, <1>4, <1>5, <1>6, <1>7, <1>8, <1>9, <1>10, <1>11, <1>12, <1>13, <1>14 DEF Next

(* Every listed template has its object, a hash that is of a body it has    *)
(* had, and an object that parses (s3.go, UpsertBox).                       *)
THEOREM BoxesRecordsStored == Spec => []RecordsStored
  <1>1. StoreInv => RecordsStored
    <2>1. SUFFICES ASSUME StoreInv, NEW s \in List
                   PROVE  LET p == <<s, Detail(s).name>>
                          IN  /\ BoxExists(p) /\ Detail(s).hash \in past[p]
                              /\ Format[Detail(s).name] # "txt" => RetrieveBox(p) \in WellFormed
      BY DEF RecordsStored
    <2>2. s \in Stages /\ records[s] # NoRecord /\ records[s].name \in Names
      BY <2>1 DEF List, StoreInv, StoreTypes
    <2>3. QED BY <2>1, <2>2 DEF StoreInv, Recorded, ObjectsParse, Detail
  <1>2. QED BY <1>1, StoreInit, StoreNext, PTL DEF Spec

-----------------------------------------------------------------------------
(* Schemas and reloads.                                                    *)

SpecTypes ==
    /\ disk \in [Ids -> Nat] /\ specs \in [Ids -> Nat]
    /\ cache \in [Ids -> Nat] /\ schemas \in [Ids -> Nat]
    /\ loaded \in [Reloads -> [Ids -> Nat]] /\ begun \in [Reloads -> [Ids -> Nat]]
    /\ toRead \in [Reloads -> SUBSET Ids]
    /\ loading \subseteq Reloads /\ overtaken \subseteq Reloads
    /\ def \in [Calls -> [id : Ids, edit : Nat \ {0}] \cup {NoSpec}]
    /\ phase \in [Calls -> {"idle", "next", "resolved", "put", "record", "export"}]

\* A definition that a call holds is the one in the registry, if no Reload
\* has replaced it since.
HeldCurrent ==
    \A c \in Calls : phase[c] \in {"resolved", "export"} =>
        /\ def[c] # NoSpec
        /\ def[c].id \notin raced => def[c].edit = specs[def[c].id]

\* What a Reload that began with edit b of a file may have read of it.
Readable(i, b) == {IF usable(i, n) THEN n ELSE 0 : n \in b..disk[i]}

\* A Reload under way has read what was on disk since it began, and then the
\* registry was no newer, unless another one has been installed.
Reading ==
    /\ \A i \in Ids : specs[i] <= disk[i]
    /\ \A r \in loading, i \in Ids :
          /\ begun[r][i] <= disk[i]
          /\ i \notin toRead[r] => loaded[r][i] \in Readable(i, begun[r][i])
          /\ r \notin overtaken => specs[i] <= begun[r][i]

SpecInv == SpecTypes /\ HeldCurrent /\ SchemasCurrent /\ Reading

LEMMA SpecInit == Init => SpecInv
  BY DEF Init, SpecInv, SpecTypes, HeldCurrent, SchemasCurrent, Reading, Unread, NoSpec

(* A step of a call that leaves the registry and the reloads alone, and     *)
(* puts into the caches only what it holds.                                *)
LEMMA CallsKeepSpecs ==
    ASSUME SpecInv, UNCHANGED <<disk, specs, raced, reloadVars>>, NEW c \in Calls,
           def' \in [Calls -> [id : Ids, edit : Nat \ {0}] \cup {NoSpec}],
           phase' \in [Calls -> {"idle", "next", "resolved", "put", "record", "export"}],
           \A d \in Calls \ {c} : def'[d] = def[d] /\ phase'[d] = phase[d],
           phase'[c] \in {"resolved", "export"} =>
               def'[c] # NoSpec /\ def'[c].edit = specs[def'[c].id],
           cache' \in [Ids -> Nat], schemas' \in [Ids -> Nat],
           \A i \in Ids \ raced : {cache'[i], schemas'[i]} \subseteq {0, specs[i]}
    PROVE  SpecInv'
  <1>1. SpecTypes'
    BY DEF SpecInv, SpecTypes, reloadVars
  <1>2. HeldCurrent' /\ SchemasCurrent'
    BY DEF SpecInv, HeldCurrent, SchemasCurrent
  <1>3. Reading'
    BY DEF SpecInv, Reading, Readable, reloadVars
  <1>4. QED BY <1>1, <1>2, <1>3 DEF SpecInv

(* Of the calls only what they hold matters here.                          *)
LEMMA SpecsAlone ==
    ASSUME SpecInv, UNCHANGED <<disk, specs, raced, cache, schemas, reloadVars>>, NEW c \in Calls,
           def' = def \/ def' = [def EXCEPT ![c] = NoSpec],
           phase' \in [Calls -> {"idle", "next", "resolved", "put", "record", "export"}],
           \A d \in Calls \ {c} : phase'[d] = phase[d],
           phase'[c] \notin {"resolved", "export"}
    PROVE  SpecInv'
  <1>1. def' \in [Calls -> [id : Ids, edit : Nat \ {0}] \cup {NoSpec}]
    BY DEF SpecInv, SpecTypes
  <1>2. \A d \in Calls \ {c} : def'[d] = def[d]
    BY DEF SpecInv, SpecTypes
  <1>3. /\ cache' \in [Ids -> Nat] /\ schemas' \in [Ids -> Nat]
        /\ \A i \in Ids \ raced : {cache'[i], schemas'[i]} \subseteq {0, specs[i]}
    BY DEF SpecInv, SpecTypes, SchemasCurrent
  <1>4. QED BY <1>1, <1>2, <1>3, CallsKeepSpecs

LEMMA ResolveType ==
    ASSUME SpecTypes, NEW n \in Names, NEW d \in Resolve(n)
    PROVE  d = NoSpec \/ (d \in [id : Ids, edit : Nat \ {0}] /\ d # NoSpec /\ d.edit = specs[d.id])
  <1>1. CASE d = NoSpec
    BY <1>1
  <1>2. CASE d # NoSpec
    <2>1. PICK i \in Ids : specs[i] # 0 /\ d = [id |-> i, edit |-> specs[i]]
      BY <1>2 DEF Resolve
    <2>2. QED BY <1>2, <2>1 DEF SpecTypes
  <1>3. QED BY <1>1, <1>2

LEMMA SpecNext == StoreInv /\ SpecInv /\ [Next]_vars => SpecInv'
  <1> SUFFICES ASSUME StoreInv, SpecInv, [Next]_vars PROVE SpecInv'
    OBVIOUS
  <1> USE DEF SpecInv, SpecTypes
  <1>1. ASSUME NEW i \in Ids, Edit(i) PROVE SpecInv'
    <2>1. /\ disk' = [disk EXCEPT ![i] = @ + 1]
          /\ UNCHANGED <<specs, cache, schemas, raced, loaded, begun, toRead, loading, overtaken, def, phase>>
      BY <1>1 DEF Edit, reloadVars, callVars
    <2>2. SpecTypes' /\ HeldCurrent' /\ SchemasCurrent'
      BY <2>1 DEF HeldCurrent, SchemasCurrent
    <2>3. \A j \in Ids : disk[j] <= disk'[j]
      BY <2>1
    <2>4. \A r \in loading, j \in Ids :
              /\ begun[r][j] \in Nat /\ loaded[r][j] \in Nat
              /\ Readable(j, begun[r][j]) \subseteq Readable(j, begun[r][j])'
      BY <2>1, <2>3 DEF Readable, usable
    <2>5. \A j \in Ids : specs[j] <= disk'[j]
      BY <2>1 DEF Reading
    <2>6. \A r \in loading, j \in Ids :
              /\ begun[r][j] <= disk'[j]
              /\ j \notin toRead[r] => loaded[r][j] \in Readable(j, begun[r][j])'
              /\ r \notin overtaken => specs[j] <= begun[r][j]
      <3>1. \A r \in loading, j \in Ids : begun[r][j] <= disk'[j]
        BY <2>1 DEF Reading
      <3>2. QED BY <3>1, <2>4 DEF Reading
    <2>7. Reading'
      BY <2>1, <2>5, <2>6 DEF Reading
    <2>8. QED BY <2>2, <2>7
  <1>2. ASSUME NEW r \in Reloads, Reload(r) PROVE SpecInv'
    <2>1. /\ r \notin loading /\ loading' = loading \cup {r}
          /\ toRead' = [toRead EXCEPT ![r] = Ids] /\ begun' = [begun EXCEPT ![r] = disk]
          /\ overtaken' = overtaken \ {r}
          /\ UNCHANGED <<disk, specs, cache, schemas, raced, loaded, def, phase>>
      BY <1>2 DEF Reload, specVars, callVars
    <2>2. SpecTypes' /\ HeldCurrent' /\ SchemasCurrent'
      BY <2>1 DEF HeldCurrent, SchemasCurrent
    <2>3. ASSUME NEW q \in loading', NEW i \in Ids
          PROVE  /\ begun'[q][i] <= disk[i]
                 /\ i \notin toRead'[q] => loaded[q][i] \in Readable(i, begun[q][i]) /\ q # r
                 /\ q \notin overtaken' => specs[i] <= begun'[q][i]
      <3>1. CASE q = r
        <4>1. begun'[q][i] = disk[i] /\ toRead'[q] = Ids
          BY <2>1, <3>1
        <4>2. specs[i] <= disk[i] /\ disk[i] \in Nat
          BY DEF Reading
        <4>3. QED BY <4>1, <4>2
      <3>2. CASE q # r
        <4>1. q \in loading /\ begun'[q] = begun[q] /\ toRead'[q] = toRead[q]
          BY <2>1, <2>3, <3>2
        <4>2. q \notin overtaken' => q \notin overtaken
          BY <2>1, <3>2
        <4>3. QED BY <3>2, <4>1, <4>2 DEF Reading
      <3>3. QED BY <3>1, <3>2
    <2>4. \A q \in Reloads \ {r} : begun'[q] = begun[q]
      BY <2>1
    <2>5. Reading'
      BY <2>1, <2>3, <2>4 DEF Reading, Readable
    <2>6. QED BY <2>2, <2>5
  <1>3. ASSUME NEW r \in Reloads, NEW i \in Ids, LoadFile(r, i) PROVE SpecInv'
    <2>1. /\ toRead' = [toRead EXCEPT ![r] = @ \ {i}]
          /\ loaded' = [loaded EXCEPT ![r][i] = IF usable(i, disk[i]) THEN disk[i] ELSE 0]
          /\ UNCHANGED <<disk, specs, cache, schemas, raced, begun, loading, overtaken, def, phase>>
      BY <1>3 DEF LoadFile, specVars, callVars
    <2>2. SpecTypes' /\ HeldCurrent' /\ SchemasCurrent'
      BY <2>1 DEF HeldCurrent, SchemasCurrent
    <2>3. ASSUME NEW q \in loading, NEW j \in Ids, j \notin toRead'[q]
          PROVE  loaded'[q][j] \in Readable(j, begun[q][j])
      <3>1. CASE q = r /\ j = i
        <4>1. begun[q][j] \in Nat /\ disk[j] \in Nat /\ begun[q][j] <= disk[j]
          BY DEF Reading
        <4>2. disk[j] \in begun[q][j]..disk[j]
          BY <4>1
        <4>3. loaded'[q][j] = IF usable(j, disk[j]) THEN disk[j] ELSE 0
          BY <2>1, <3>1
        <4>4. QED BY <4>2, <4>3 DEF Readable
      <3>2. CASE q # r \/ j # i
        <4>1. j \notin toRead[q] /\ loaded'[q][j] = loaded[q][j]
          BY <2>1, <2>3, <3>2
        <4>2. QED BY <4>1 DEF Reading
      <3>3. QED BY <3>1, <3>2
    <2>4. Reading'
      BY <2>1, <2>3 DEF Reading, Readable
    <2>5. QED BY <2>2, <2>4
  <1>4. ASSUME NEW r \in Reloads, Install(r) PROVE SpecInv'
    <2>1. /\ r \in loading /\ toRead[r] = {} /\ specs' = loaded[r]
          /\ cache' = Unread /\ schemas' = Unread
          /\ raced' = {j \in Ids : held(j) \ {specs'[j]} # {}}
          /\ loading' = loading \ {r} /\ loaded' = [loaded EXCEPT ![r] = Unread]
          /\ overtaken' = (overtaken \cup loading) \ {r}
          /\ begun' = [begun EXCEPT ![r] = Unread]
          /\ UNCHANGED <<disk, toRead, def, phase>>
      BY <1>4 DEF Install, InvalidateCache, replacement, callVars
    <2>2. SpecTypes'
      BY <2>1 DEF Unread
    <2>3. SchemasCurrent'
      BY <2>1 DEF SchemasCurrent, Unread
    <2>4. ASSUME NEW c \in Calls, phase[c] \in {"resolved", "export"}
          PROVE  def[c] # NoSpec /\ (def[c].id \notin raced' => def[c].edit = specs'[def[c].id])
      <3>1. def[c] # NoSpec /\ def[c].id \in Ids
        BY <2>4 DEF HeldCurrent
      <3>2. def[c].edit \in held(def[c].id)
        BY <2>4 DEF held
      <3>3. QED BY <2>1, <3>1, <3>2
    <2>5. HeldCurrent'
      BY <2>1, <2>4 DEF HeldCurrent
    <2>6. Reading'
      <3>1. ASSUME NEW i \in Ids PROVE specs'[i] <= disk[i]
        <4>1. loaded[r][i] \in Readable(i, begun[r][i])
          BY <2>1 DEF Reading
        <4>2. begun[r][i] \in Nat /\ disk[i] \in Nat
          OBVIOUS
        <4>3. QED BY <2>1, <4>1, <4>2 DEF Readable
      <3>2. QED BY <2>1, <3>1 DEF Reading, Readable
    <2>7. QED BY <2>2, <2>3, <2>5, <2>6
  <1>5. ASSUME NEW c \in Calls, NEW bx \in Boxes, UpsertBox(c, bx) PROVE SpecInv'
    BY <1>5, SpecsAlone DEF UpsertBox, specVars
  <1>6. ASSUME NEW c \in Calls, NEW t \in todo[c], Process(c, t) PROVE SpecInv'
    <2>1. /\ t.name \in Names
          /\ UNCHANGED <<disk, specs, raced, cache, schemas, reloadVars>>
      BY <1>6 DEF Process, specVars, StoreInv, StoreTypes, Templates
    <2>2. CASE ~syntaxOk(t)
      BY <1>6, <2>1, <2>2, SpecsAlone DEF Process, Finish
    <2>3. CASE syntaxOk(t)
      <3>1. PICK d \in Resolve(t.name) : /\ def' = [def EXCEPT ![c] = d]
                                         /\ phase' = [phase EXCEPT ![c] = lookUp(c, d)]
        BY <1>6, <2>3 DEF Process
      <3>2. d = NoSpec \/ (d \in [id : Ids, edit : Nat \ {0}] /\ d # NoSpec /\ d.edit = specs[d.id])
        BY <2>1, ResolveType
      <3>3. lookUp(c, d) = IF d = NoSpec THEN "put" ELSE "resolved"
        BY DEF lookUp
      <3>4. \A i \in Ids \ raced : {cache'[i], schemas'[i]} \subseteq {0, specs[i]}
        BY <2>1 DEF SchemasCurrent
      <3>5. QED BY <2>1, <3>1, <3>2, <3>3, <3>4, CallsKeepSpecs
    <2>4. QED BY <2>2, <2>3
  <1>7. ASSUME NEW c \in Calls, Validate(c) PROVE SpecInv'
    <2> DEFINE i == def[c].id
               n == compiled(c)
    <2>1. /\ phase[c] = "resolved"
          /\ cache' = [cache EXCEPT ![i] = IF File[i][n].kind = "good" THEN n ELSE @]
          /\ phase' = [phase EXCEPT ![c] = "put"] \/ phase' = [phase EXCEPT ![c] = "next"]
          /\ UNCHANGED <<def, disk, specs, raced, schemas, reloadVars>>
      BY <1>7 DEF Validate, Finish
    <2>2. def[c] # NoSpec /\ i \in Ids /\ def[c].edit \in Nat
      BY <2>1 DEF HeldCurrent
    <2>3. n \in Nat /\ (i \notin raced => n = specs[i])
      BY <2>1, <2>2 DEF compiled, HeldCurrent, SchemasCurrent
    <2>4. \A j \in Ids \ raced : {cache'[j], schemas'[j]} \subseteq {0, specs[j]}
      <3> HIDE DEF n
      <3>1. QED BY <2>1, <2>2, <2>3 DEF SchemasCurrent
    <2>5. cache' \in [Ids -> Nat]
      <3> HIDE DEF n
      <3>1. QED BY <2>1, <2>3
    <2>6. /\ phase' \in [Calls -> {"idle", "next", "resolved", "put", "record", "export"}]
          /\ phase'[c] \notin {"resolved", "export"}
          /\ \A d \in Calls \ {c} : phase'[d] = phase[d]
      BY <2>1
    <2>7. UNCHANGED <<disk, specs, raced, reloadVars, def>> /\ schemas' \in [Ids -> Nat]
      BY <2>1
    <2> HIDE DEF i, n
    <2>8. QED BY <2>4, <2>5, <2>6, <2>7, CallsKeepSpecs
  <1>8. ASSUME NEW c \in Calls, ValidateOnly(c) PROVE SpecInv'
    BY <1>8, SpecsAlone DEF ValidateOnly, Finish, specVars
  <1>9. ASSUME NEW c \in Calls, PutObject(c) PROVE SpecInv'
    <2>1. phase' = [phase EXCEPT ![c] = "record"] \/ phase' = [phase EXCEPT ![c] = "next"]
      BY <1>9 DEF PutObject, Finish
    <2>2. UNCHANGED <<def, disk, specs, raced, cache, schemas, reloadVars>>
      BY <1>9 DEF PutObject, specVars
    <2>3. QED BY <2>1, <2>2, SpecsAlone
  <1>10. ASSUME NEW c \in Calls, PutRecord(c) PROVE SpecInv'
    BY <1>10, SpecsAlone DEF PutRecord, Finish, specVars
  <1>11. ASSUME NEW c \in Calls, UpsertReturn(c) PROVE SpecInv'
    BY <1>11, SpecsAlone DEF UpsertReturn, specVars
  <1>12. ASSUME NEW c \in Calls, NEW n \in Names, ResolveSpec(c, n) PROVE SpecInv'
    <2>1. PICK d \in Resolve(n) \ {NoSpec} : def' = [def EXCEPT ![c] = d]
      BY <1>12 DEF ResolveSpec
    <2>2. /\ phase' = [phase EXCEPT ![c] = "export"]
          /\ UNCHANGED <<disk, specs, raced, cache, schemas, reloadVars>>
      BY <1>12 DEF ResolveSpec, specVars
    <2>3. d \in [id : Ids, edit : Nat \ {0}] /\ d.edit = specs[d.id]
      BY ResolveType
    <2>4. \A i \in Ids \ raced : {cache'[i], schemas'[i]} \subseteq {0, specs[i]}
      BY <2>2 DEF SchemasCurrent
    <2>5. QED BY <2>1, <2>2, <2>3, <2>4, CallsKeepSpecs
  <1>13. ASSUME NEW c \in Calls, ExportJSONSchema(c) PROVE SpecInv'
    <2> DEFINE i == def[c].id
    <2>1. /\ phase[c] = "export"
          /\ schemas' = [schemas EXCEPT ![i] =
                IF @ = 0 /\ File[i][def[c].edit].kind = "good" THEN def[c].edit ELSE @]
          /\ phase' = [phase EXCEPT ![c] = "idle"] /\ def' = [def EXCEPT ![c] = NoSpec]
          /\ UNCHANGED <<disk, specs, raced, cache, reloadVars>>
      BY <1>13 DEF ExportJSONSchema
    <2>2. def[c] # NoSpec /\ i \in Ids /\ def[c].edit \in Nat
      BY <2>1 DEF HeldCurrent
    <2>3. i \notin raced => def[c].edit = specs[i]
      BY <2>1 DEF HeldCurrent
    <2>4. \A j \in Ids \ raced : {cache'[j], schemas'[j]} \subseteq {0, specs[j]}
      BY <2>1, <2>2, <2>3 DEF SchemasCurrent
    <2>5. schemas' \in [Ids -> Nat]
      BY <2>1, <2>2
    <2>6. QED BY <2>1, <2>4, <2>5, CallsKeepSpecs
  <1>14. CASE UNCHANGED vars
    BY <1>14 DEF vars, specVars, reloadVars, callVars, HeldCurrent, SchemasCurrent, Reading, Readable
  <1>15. QED
    BY <1>1, <1>2, <1>3, <1>4, <1>5, <1>6, <1>7, <1>8, <1>9, <1>10, <1>11, <1>12, <1>13, <1>14 DEF Next

(* Compiled and rendered schemas are of the edit that is served, but for    *)
(* specs that a Reload has replaced under a call (cue_engine.go:155).       *)
THEOREM BoxesSchemasCurrent == Spec => []SchemasCurrent
  <1>1. StoreInv /\ SpecInv => SchemasCurrent
    BY DEF SpecInv
  <1>2. QED BY <1>1, StoreInit, SpecInit, StoreNext, SpecNext, PTL DEF Spec

(* A Reload installs what was on disk while it ran, and nothing older than  *)
(* what it found unless it was overtaken (registry.go:34).                  *)
THEOREM BoxesReloadForward == Spec => ReloadForward
  <1> DEFINE Forward ==
        \A r \in loading, i \in Ids : r \notin loading' =>
            LET seen == {IF usable(i, n) THEN n ELSE 0 : n \in begun[r][i]..disk[i]}
            IN  /\ specs'[i] \in seen
                /\ r \in overtaken \/ specs'[i] = 0 \/ specs'[i] >= specs[i]
  <1>1. SpecInv /\ [Next]_vars => [Forward]_vars
    <2> SUFFICES ASSUME SpecInv, Next, NEW r \in loading, NEW i \in Ids, r \notin loading'
                 PROVE  /\ specs'[i] \in Readable(i, begun[r][i])
                        /\ r \in overtaken \/ specs'[i] = 0 \/ specs'[i] >= specs[i]
      BY DEF Readable
    <2>1. PICK q \in Reloads : Install(q)
      BY DEF Next, Edit, Reload, LoadFile, UpsertBox, Process, Validate, ValidateOnly, PutObject, PutRecord,
             UpsertReturn, ResolveSpec, ExportJSONSchema, reloadVars
    <2>2. q = r /\ toRead[r] = {} /\ specs' = loaded[r]
      BY <2>1 DEF Install, replacement
    <2>3. loaded[r][i] \in Readable(i, begun[r][i])
      BY <2>2 DEF SpecInv, Reading
    <2>4. r \in Reloads /\ begun[r][i] \in Nat /\ disk[i] \in Nat /\ specs[i] \in Nat
      BY DEF SpecInv, SpecTypes
    <2>5. CASE r \notin overtaken
      <3>1. specs[i] <= begun[r][i]
        BY <2>5 DEF SpecInv, Reading
      <3>2. QED BY <2>2, <2>3, <2>4, <3>1 DEF Readable
    <2>6. QED BY <2>2, <2>3, <2>5
  <1>2. [][Forward]_vars <=> ReloadForward
    BY DEF ReloadForward
  <1>3. QED BY <1>1, <1>2, StoreInit, SpecInit, StoreNext, SpecNext, PTL DEF Spec
=============================================================================
