---------------------------- MODULE MCEntryIndex ----------------------------
(* Instances of EntryIndex for TLC.  Letters are strings.                  *)
EXTENDS EntryIndex, TLC

a  == <<"a">>
b  == <<"b">>
A  == <<"A">>

MCSegments == {a, b, A}
MCLower == [s \in MCSegments |-> IF s = A THEN a ELSE s]

\* A shallow key and a deep one below the same folder, in mixed case.
MCBatches == {<< <<a, a>> >>, << <<A, b, b>> >>}
MCTargets == {[key |-> <<a>>, slash |-> FALSE], [key |-> <<a, b>>, slash |-> TRUE]}

\* Three levels below the target of a Delete, and a sibling subtree.
TreeSegments == {a, b}
TreeLower == [s \in TreeSegments |-> s]
TreeBatches == {<< <<a, a, a>>, <<a, a, b, a>> >>, << <<a, b>>, <<b, a>> >>}
TreeTargets == {[key |-> <<a>>, slash |-> FALSE], [key |-> <<a, a>>, slash |-> TRUE]}

\* Small enough for the liveness graph.
LiveBatches == {<< <<a, b, b>> >>}
LiveTargets == {[key |-> <<a>>, slash |-> FALSE]}

CallSymmetry == Permutations(Calls)
=============================================================================
