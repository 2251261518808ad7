------------------------------ MODULE MCBoxes -------------------------------
(* Instances of Boxes for TLC.                                             *)
EXTENDS Boxes, TLC

CONSTANTS prod, dev, task, env, spec

MCNames == {task, env}
MCExtension == task :> ".json" @@ env :> ".env"
MCBodies == {"a", "b", "{"}

\* The spec of both is edited twice, the first time so that it does not
\* compile.
MCMatches == spec :> {task, env}
Content(kind, accepts) == [kind |-> kind, accepts |-> accepts]
MCFile == spec :> <<Content("good", {"a"}), Content("broken", {}), Content("good", {"b"})>>

Put(s, n, b) == [stage |-> s, name |-> n, body |-> b]
MCBoxes == {{Put(prod, task, "a")}, {Put(prod, task, "b")},
            {Put(dev, task, "{"), Put(prod, env, "{")}}

ReloadSymmetry == Permutations(Reloads)
CallSymmetry == Permutations(Calls)
Symmetry == ReloadSymmetry \cup CallSymmetry
=============================================================================
