------------------------------- MODULE Routes -------------------------------
(***************************************************************************)
(* The routing table as operators: how nbox-cli makes it (commands/        *)
(* prefix.go), what a config may say (prefix/prefix.go), and which config  *)
(* a key gets (prefix/store/index.go, prefix/handler.go).                  *)
(*                                                                         *)
(* A text is the sequence of what is between its slashes: "/a/b" is        *)
(* <<"", "a", "b">>.  Words have one character.                            *)
(***************************************************************************)
EXTENDS Naturals, Sequences, FiniteSets, SequencesExt

CONSTANTS
    Orders,    \* bounded inputs: commands of nbox-cli
    Paths      \* bounded inputs: what a request's parameter "v" may say

\* AllBackendTypes.
Backends == {"dynamodb", "parameterstore", "parameterstore_secure"}

ASSUME RoutesAssumption ==
    /\ \A o \in Orders :
          /\ o.verb \in {"upsert", "rm"} /\ o.prefix \in Seq(STRING)
          /\ o.answer \in {"force", "not a terminal", "yes", "no"}
    /\ \A v \in Paths : v \in Seq(STRING) /\ v # <<>>

NoConfig == [prefix |-> <<>>, default |-> "", secure |-> "", allowed |-> {}]

\* strings.Trim(text, "/").
Trim(text) ==
    LET word(w) == w # ""
        n == SelectInSeq(text, word)
    IN  IF n = 0 THEN <<>> ELSE SubSeq(text, n, SelectLastInSeq(text, word))

\* The length of a text: its words, and the slashes between them.
Length(p) == Cardinality({i \in DOMAIN p : p[i] # ""}) + Len(p) - 1

-----------------------------------------------------------------------------
(* The key of a request.  Two parts of the code clean a path: the          *)
(* middleware that runs before the policy is asked, and the Parameter      *)
(* Store, which names its parameters by the clean path.                    *)

\* path.Clean of "/" + text, without the "/" in front: word by word.
enter(done, w) ==
    CASE w \in {"", "."} -> done
      [] w = ".." -> IF done = <<>> THEN <<>> ELSE Front(done)
      [] OTHER -> Append(done, w)

Clean(text) ==
    LET done[i \in 0..Len(text)] == IF i = 0 THEN <<>> ELSE enter(done[i - 1], text[i])
    IN  done[Len(text)]

cleanKey(v) ==
    LET c == Clean(v)
    IN  IF c = <<>> THEN <<"">> ELSE IF Last(v) = "" THEN Append(c, "") ELSE c

\* The middleware: the handlers and the policy see what it made of "v".
CanonicalizeKey(v) ==
    IF v = <<"">> \/ cleanKey(v) = v THEN v ELSE cleanKey(v)

\* The name of the parameter.
NormalizeKey(key) == LET c == Clean(key) IN IF c = <<>> THEN <<"", "">> ELSE <<"">> \o c

-----------------------------------------------------------------------------
(* What nbox-cli does to the table, a function from IDs to configs.        *)

IsValid(backend) == backend \in Backends

Validate(c) == IsValid(c.default) /\ (c.secure # "" => IsValid(c.secure)) /\ \A b \in c.allowed : IsValid(b)

\* What is used is allowed.
NormalizeAllowed(c) == [c EXCEPT !.allowed = (@ \cup {c.default, c.secure}) \ {""}]

\* Flags that are not given leave what there is.
changedOverrides(o, c) ==
    [c EXCEPT !.default = IF o.default = "same" THEN @ ELSE o.default,
              !.secure = IF o.secure = "same" THEN @ ELSE o.secure,
              !.allowed = IF o.allowed = {"same"} THEN @ ELSE o.allowed]

buildPrefixConfig(id, cur, o) ==
    LET base == IF cur = NoConfig THEN [NoConfig EXCEPT !.default = "dynamodb"] ELSE cur
    IN  changedOverrides(o, [base EXCEPT !.prefix = id])

\* DynamoDB has no item without an ID.
prefixUpsert(t, o) ==
    LET id == Trim(o.prefix)
        c == buildPrefixConfig(id, IF id \in DOMAIN t THEN t[id] ELSE NoConfig, o)
    IN  IF id = <<>> \/ ~Validate(c) THEN t
        ELSE [i \in DOMAIN t \cup {id} |-> IF i = id THEN NormalizeAllowed(c) ELSE t[i]]

\* Without a terminal to ask, only --force will do.
confirmDelete(o) == o.answer \in {"force", "yes"}

prefixRm(t, o) == IF confirmDelete(o) THEN Restrict(t, DOMAIN t \ {Trim(o.prefix)}) ELSE t

execute(t, o) == IF o.verb = "upsert" THEN prefixUpsert(t, o) ELSE prefixRm(t, o)

written(orders) ==
    LET table[i \in 0..Len(orders)] == IF i = 0 THEN <<>> ELSE execute(table[i - 1], orders[i])
    IN  table[Len(orders)]

prefixList(t) == SetToSeq({t[id] : id \in DOMAIN t})

-----------------------------------------------------------------------------
(* The index of a snapshot.                                                *)

\* Of configs with one prefix, whatever its slashes, the last is kept.
ParseIndex(configs) ==
    [p \in {Trim(configs[i].prefix) : i \in DOMAIN configs} |->
        configs[SelectLastInSeq(configs, LAMBDA c : Trim(c.prefix) = p)]]

\* The longer text wins, slashes included; of two as long the first, in which
\* "/" comes before a word.
precedes(p, q) ==
    \/ Length(p) > Length(q)
    \/ Length(p) = Length(q) /\ \E i \in DOMAIN p \cap DOMAIN q :
          p[i] = "" /\ q[i] # "" /\ \A j \in 1..(i - 1) : p[j] = q[j]

candidates(index, key) ==
    LET clean == Trim(key)
    IN  {index[p] : p \in {SubSeq(clean, 1, n) : n \in DOMAIN clean} \cap DOMAIN index}

\* Mutant: the shortest is taken.
ByPrefixShortest(index, key) ==
    LET found == candidates(index, key)
        best == {c \in found : \A d \in found \ {c} : precedes(d.prefix, c.prefix)}
    IN  IF best = {} THEN NoConfig ELSE CHOOSE c \in best : TRUE

ByPrefix(index, key) ==
    LET found == candidates(index, key)
        best == {c \in found : \A d \in found \ {c} : precedes(c.prefix, d.prefix)}
    IN  IF best = {} THEN NoConfig ELSE CHOOSE c \in best : TRUE

\* GET /api/prefix/resolve: also a key without any config is a bad request.
Resolved(index, key) ==
    LET c == ByPrefix(index, key) IN IF c = NoConfig THEN "bad request" ELSE c.prefix

-----------------------------------------------------------------------------
Histories == UNION {[1..n -> Orders] : n \in 0..3}

(***************************************************************************)
(* Whatever commands ran, however slashes are put around prefixes, and     *)
(* however a request says its key (slashes, ".", ".."): the handlers get   *)
(* a key that names the same parameter as what came, and that has the      *)
(* config of the longest path of the table the parameter is at or below,   *)
(* and none if there is no such path; that config is the one in the table, *)
(* names backends that exist, and allows what it uses (canonicalize.go:44, *)
(* index.go:35, prefix.go:58-96).                                          *)
(***************************************************************************)
Resolves(h, v) ==
    LET t == written(h)
        index == ParseIndex(prefixList(t))
        key == CanonicalizeKey(v)
        name == NormalizeKey(key)
        above == {p \in DOMAIN t : IsPrefix(p, Trim(name))}
        c == ByPrefix(index, key)
    IN  /\ name = NormalizeKey(v)
        /\ IF above = {} THEN Resolved(index, key) = "bad request"
           ELSE /\ Resolved(index, key) \in above /\ c = t[c.prefix]
                /\ \A p \in above : Len(p) <= Len(c.prefix)
                /\ c.default \in c.allowed /\ c.secure \in c.allowed \cup {""} /\ c.allowed \subseteq Backends

Specific == \A h \in Histories, v \in Paths : Resolves(h, v)
=============================================================================
