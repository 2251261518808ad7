------------------------------ MODULE MCAccess ------------------------------
(* Instances of Access for TLC: one role with a secret, and a user; a      *)
(* second role may be generated.                                           *)
EXTENDS Access

Items == {"r1", "r2", "u1"}
KindOf == [i \in Items |-> IF i = "u1" THEN "basic_auth" ELSE "app_role"]
Active(s) == [secrets |-> {s}, status |-> "active"]
First == [i \in Items |-> IF i = "r2" THEN Absent ELSE Active("s1")]

Cmd(v, i, f, t) == [verb |-> v, id |-> i, field |-> f, to |-> t]
CommandSet ==
    {Cmd("rotate", "r1", "secret", "s2"), Cmd("rm", "r1", "none", "none"),
     Cmd("generate", "r2", "secret", "s2"), Cmd("upsert", "u1", "status", "disabled")}

Part(id, status, secrets, expired, from) ==
    [id |-> id, status |-> status, secrets |-> secrets, expired |-> expired, from |-> from, roles |-> {"reader"}]
Role == <<"iam", "role", "r1">>
Parts ==
    {Part(<<"r1">>, "", {"s1"}, {}, {}), Part(<<"r1">>, "disabled", {"s1", "s2"}, {}, {}),
     Part(<<"r1">>, "active", {"s1", "s2"}, {"s1"}, {"net"}), Part(<<"r2">>, "active", {"s2"}, {}, {}),
     Part(<<>>, "active", {"s1"}, {}, {}), Part(<<"r1">>, "corrupt", {}, {}, {}),
     Part(Role, "", {}, {}, {}), Part(Role, "disabled", {}, {}, {})}
Payloads == UNION {[1..n -> Parts] : n \in 0..2}

Hosts == {<<"sts", "amazonaws", "com">>, <<"*", "amazonaws", "com">>, <<"*", "api", "aws">>}
Ask(scheme, id, secret) ==
    [scheme |-> scheme, id |-> id, secret |-> secret, ip |-> "elsewhere", host |-> <<"none">>, reply |-> "ok", bad |-> {}]
AskAWS(id, host, reply) == [Ask("aws-sts", id, "none") EXCEPT !.host = host, !.reply = reply]
Session == <<"sts", "assumed-role", "r1", "session">>
Asks ==
    {Ask(s, <<"r1">>, x) : s \in {"approle", "basic", "other"}, x \in {"s1", "s2"}}
    \cup {[Ask("approle", <<"r1">>, x) EXCEPT !.ip = "net"] : x \in {"s1", "s2"}}
    \cup {[Ask("approle", <<"r1">>, "s1") EXCEPT !.bad = {b}] : b \in {"base64", "json", "fields"}}
    \cup {AskAWS(Session, h, "ok") : h \in
            {<<"sts", "us", "amazonaws", "com">>, <<"x", "sts", "amazonaws", "com">>, <<"sts", "amazonaws", "com">>, <<"amazonaws", "com">>,
             <<"evil", "com">>, <<"amazonaws", "com", "evil">>}}
    \cup {AskAWS(Session, <<"sts", "amazonaws", "com">>, a) : a \in Replies}
    \cup {AskAWS(a, <<"sts", "amazonaws", "com">>, "ok") : a \in {Role, Append(Role, "i-1"), <<"iam", "user", "r1">>}}

Logins == [c \in {"a"} |-> [id |-> "r1", secret |-> "s1"]]
=============================================================================
