------------------------------ MODULE MCViews -------------------------------
(* Instances of Views for TLC.                                             *)
EXTENDS Views

db  == <<"dev", "db">>
dot == <<"dev", ".", "db">>
sub == <<"dev", "sub", "key">>
SUB == <<"dev", "SUB", "key">>
lock == <<"dev", "_lock">>

MCLower == [w \in {"DB", "SUB"} |-> IF w = "DB" THEN "db" ELSE "sub"]
MCFolder == [w \in {"sub"} |-> "sub/"]
MCUpper == [w \in {"db", "key", "_lock", "sub/"} |->
    CASE w = "db" -> "DB" [] w = "key" -> "KEY" [] w = "_lock" -> "_LOCK" [] w = "sub/" -> "SUB_"]

Put(k, v, s) == [key |-> k, value |-> v, secure |-> s]

\* An entry, an entry in a folder and a lock: the level has the folder.
MCKeys == {db, sub, lock}
MCLevel == {db, Append(<<"dev">>, "sub/"), lock}
MCLocks == {lock}
MCBatches == {{Put(dot, "q", FALSE), Put(lock, "v", FALSE)}, {Put(SUB, "s", TRUE)}}
MCOld == {Put(lock, "v", FALSE)}

\* Everything goes to the index, or only locks do.
MCRoutings ==
    {[e \in Entries |-> "dynamodb"],
     [e \in Entries |-> IF e.key \in MCLocks THEN "dynamodb" ELSE "parameterstore_secure"]}

Text(w) == [var |-> FALSE, words |-> w]
Var(w) == [var |-> TRUE, words |-> w]
\* ":ab" begins with the name of another argument.
MCBegins == [w \in {":service", ":stage", ":template", ":a", ":ab"} |-> IF w = ":ab" THEN {":a", ":ab"} ELSE {w}]
MCBuiltIn == [n \in {":service", ":stage", ":template"} |-> IF n = ":stage" THEN "dev" ELSE n]
MCTemplates == {<<Text(<<":ab">>), Var(<<":stage", "db">>), Var(sub)>>,
                <<Var(<<"dev", ":a">>), Var(dot)>>,
                <<Text(<<":stage">>), Var(dot)>>}
MCArguments == {[n \in {":a"} |-> "DB"], [n \in {":a", ":ab"} |-> "db"]}

Time(form, n) == [form |-> form, n |-> n]
MCTimeParams == {Time("ago", 0), Time("ago", 2), Time("absolute", 2), Time("malformed", 0)}
=============================================================================
