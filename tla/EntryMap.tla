------------------------------ MODULE EntryMap ------------------------------
(***************************************************************************)
(* What the entry API promises: a map from keys to values.                 *)
(*                                                                         *)
(* A call wants some keys to have a value (the number of an Upsert stands  *)
(* for what it brings each of its keys; a Delete wants NoValue).  Each of  *)
(* these changes takes effect at some instant while the call is open, and  *)
(* maybe again, for the requests of a call are repeated when their answers *)
(* are lost.  When the call returns, every change it reports done has      *)
(* taken effect, or a change of the same key that was under way has (it    *)
(* counts as overwritten at once), and will not take effect again.  A      *)
(* change it does not report done may take effect, then or later, or       *)
(* never.  Nothing else changes the map.                                   *)
(***************************************************************************)
CONSTANTS Calls, Keys, Values, NoValue

VARIABLES
    entries,   \* the map
    pending,   \* changes that may take effect
    owed,      \* those that must, before their call may report them done
    reported   \* what the call that has just returned reports done

vars == <<entries, pending, owed, reported>>

Init ==
    /\ entries = [k \in Keys |-> NoValue]
    /\ pending = {} /\ owed = {} /\ reported = {}

Begin(c) ==
    \E ks \in SUBSET Keys, v \in Values :
        LET wanted == [call : {c}, key : ks, value : {v}]
        IN  /\ pending' = pending \cup wanted
            /\ owed' = owed \cup wanted
            /\ reported' = {}
            /\ UNCHANGED entries

Take ==
    \E S \in SUBSET pending :
        /\ \A x, y \in S : x.key = y.key => x.value = y.value
        /\ entries' = [k \in Keys |->
              IF \E x \in S : x.key = k
              THEN (CHOOSE x \in S : x.key = k).value ELSE entries[k]]
        /\ owed' = {x \in owed : \A y \in S : y.key # x.key}
        /\ reported' = {}
        /\ UNCHANGED pending

\* The call reports done and nothing else; late is what may still take effect.
Return(c) ==
    \E done \in SUBSET Keys, late \in SUBSET {x \in pending : x.call = c} :
        /\ \A x \in owed : x.call = c => x.key \notin done
        /\ \A x \in late : x.key \notin done
        /\ pending' = {x \in pending : x.call # c} \cup late
        /\ owed' = {x \in owed : x.call # c}
        /\ reported' = [call : {c}, key : done]
        /\ UNCHANGED entries

Next == Take \/ \E c \in Calls : Begin(c) \/ Return(c)

Spec == Init /\ [][Next]_vars
=============================================================================
