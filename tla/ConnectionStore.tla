---------------------------- MODULE ConnectionStore ----------------------------
(***************************************************************************)
(* What the writers of a connection, together, promise about its entry in  *)
(* the token store.  The provider numbers the sets that it issues.  Each   *)
(* is stored once or never: what was deleted or replaced does not return,  *)
(* and a writer that stores late can only store a set that is new to the   *)
(* store.  Which of two new sets comes last is not promised.               *)
(*                                                                         *)
(* XeroConnection and MSConnection implement this module.                  *)
(***************************************************************************)
EXTENDS Integers

VARIABLES stored,    \* the token set in the store, or NoToken
          issued,    \* the last set that the provider issued
          due        \* the sets that were issued and wait to be stored

vars == <<stored, issued, due>>

NoToken == 0

Init == stored \in {NoToken, 1} /\ issued = stored /\ due = {}

(* A set is issued; the answer that carries it may be lost.                *)
Issue ==
  /\ issued' = issued + 1
  /\ due' \in {due, due \cup {issued'}}
  /\ UNCHANGED stored

(* A set that waited is stored.                                            *)
Put(g) ==
  /\ g \in due
  /\ stored' = g
  /\ due' = due \ {g}
  /\ UNCHANGED issued

(* The connection is deleted; a set that waits still waits.                *)
Delete == stored' = NoToken /\ UNCHANGED <<issued, due>>

(* The request dies that was to store a set.                               *)
Lose(g) == g \in due /\ due' = due \ {g} /\ UNCHANGED <<stored, issued>>

Next == Issue \/ Delete \/ \E g \in due : Put(g) \/ Lose(g)

Spec == Init /\ [][Next]_vars
================================================================================
