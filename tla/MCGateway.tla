----------------------------- MODULE MCGateway -----------------------------
(* Instances of Gateway for TLC.                                           *)
EXTENDS Gateway

app == <<"app">>
key == <<"app", "key">>
MCKeys == {app, key}

Plain(k) == [key |-> k, secure |-> FALSE]
Secure(k) == [key |-> k, secure |-> TRUE]
MCBatches == {{Plain(key)}, {Secure(app), Secure(key)}}

Put(prefix, d, s) ==
    [verb |-> "upsert", prefix |-> prefix, default |-> d, secure |-> s, allowed |-> {"same"}, answer |-> "no"]
Rm(prefix, answer) ==
    [verb |-> "rm", prefix |-> prefix, default |-> "same", secure |-> "same", allowed |-> {"same"}, answer |-> answer]

\* Everything in the Parameter Store; or only the secrets below a prefix
\* longer than another, which has no place for any.
toSSM == Put(<<"", "app", "">>, "parameterstore", "parameterstore_secure")
toRows == Put(app, "same", "same")
secrets == Put(<<"", "app", "key">>, "same", "parameterstore_secure")
MCTables == {ParseIndex(prefixList(written(h))) : h \in {<<toSSM>>, <<toRows, secrets>>}}

MCOrders ==
    {toSSM, toRows, secrets, Put(<<"", "">>, "same", "same"), Put(<<"app", "">>, "dynamodb", "disk"),
     [Put(app, "same", "dynamodb") EXCEPT !.allowed = {}]}
    \cup {Rm(app, a) : a \in {"force", "yes", "no", "not a terminal"}}
MCPaths == {app, key, <<"", "app", "key", "">>, <<"app", "key", "x">>, <<"appx">>, <<"x">>, <<"", "">>, <<"">>,
            <<"x", "..", "app", ".", "key">>, <<"..", "app", "", "key", "..", "">>, <<"app", "..", "x">>, <<"app", "..">>}

CallSymmetry == Permutations(Calls)
=============================================================================
