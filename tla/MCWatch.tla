------------------------------ MODULE MCWatch ------------------------------
(* Instances of Watch for TLC.  Characters are strings; "p/" is the vault. *)
EXTENDS Watch

MCLower == [c \in {"a", "A", "b", "p", "/"} |-> IF c = "A" THEN "a" ELSE c]
MCVault == <<"p", "/">>

ab == <<"a", "/", "b">>
pb == <<"p", "/", "b">>
aa == <<"a", "a", "/", "b">>

PlainKeys == {ab, aa}
VaultKeys == {pb}

AllTypes == {}
EntryTypes == {[text |-> <<"nbox", "entry">>, star |-> TRUE]}

Ask(ps, types, pub) == [prefixes |-> ps, types |-> types, pub |-> pub]

\* "a" filters deltas of a/b and aa/b, but scopes the snapshot to a/b.
PlainRequests == {Ask(<< <<"a">> >>, AllTypes, FALSE),
                  Ask(<< <<"a", "/">>, <<"a", "a", "/">> >>, EntryTypes, FALSE)}
VaultRequests == {Ask(<<MCVault>>, AllTypes, TRUE)}
=============================================================================
