------------------------------- MODULE StatePop -------------------------------
(***************************************************************************)
(* What the OAuth state store promises about one state value: it is saved  *)
(* once, and pop returns and deletes it in one step, so that one callback  *)
(* at most gets the connection that the state stands for.  A pop that      *)
(* loses its connection returns nothing, and may or may not have deleted.  *)
(***************************************************************************)
CONSTANT Callback      \* the callbacks that carry the state

VARIABLES key,         \* the key: unsaved, saved or gone
          result       \* what pop returned to each callback: the value, or
                       \* None, called lost when a failed connection made it

vars == <<key, result>>

Init == key = "unsaved" /\ result = [c \in Callback |-> "none"]

Save == key = "unsaved" /\ key' = "saved" /\ UNCHANGED result

Take(c) ==
  /\ key = "saved" /\ key' = "gone"
  /\ result' = [result EXCEPT ![c] = "value"]

Miss(c) ==
  /\ key = "gone" /\ UNCHANGED key
  /\ result' = [result EXCEPT ![c] = "missing"]

Lose(c) ==
  /\ key # "unsaved" /\ key' \in {key, "gone"}
  /\ result' = [result EXCEPT ![c] = "lost"]

(* The time to live ends, or the state is deleted for a callback that will *)
(* not hear of it.                                                         *)
Drop == key = "saved" /\ key' = "gone" /\ UNCHANGED result

Next == Save \/ Drop \/ \E c \in Callback : result[c] = "none" /\ (Take(c) \/ Miss(c) \/ Lose(c))

Spec == Init /\ [][Next]_vars
================================================================================
