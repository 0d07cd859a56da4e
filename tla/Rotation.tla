------------------------------- MODULE Rotation -------------------------------
(***************************************************************************)
(* What the token manager promises about a chain of rotating refresh       *)
(* tokens.  The sets of a chain are numbered in the order the provider     *)
(* issues them, and only the last one can still be refreshed.  The manager *)
(* never has more than one set that the provider issued and the store does *)
(* not hold, and what the store holds only moves forward.                  *)
(***************************************************************************)
EXTENDS Integers

VARIABLES head,      \* the last token set that the provider issued
          saved      \* the token set in the store

vars == <<head, saved>>

Init == head \in {0, 1} /\ saved = head

(* The provider rotates the set that is in the store.                      *)
Rotate == saved = head /\ head' = head + 1 /\ UNCHANGED saved

(* The set that was issued replaces its predecessor in the store.          *)
Save == saved + 1 = head /\ saved' = head /\ UNCHANGED head

Next == Rotate \/ Save

Spec == Init /\ [][Next]_vars
===============================================================================
