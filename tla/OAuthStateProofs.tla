---------------------------- MODULE OAuthStateProofs ----------------------------
(***************************************************************************)
(* Proofs about OAuthState, for any number of callbacks that carry one     *)
(* state and may die or lose their connection at any command.              *)
(*                                                                         *)
(* The key only moves from unsaved to saved to gone, so a callback that    *)
(* has read the value finds its connection clean at EXEC exactly when the  *)
(* key is still the one that it read.                                      *)
(***************************************************************************)
EXTENDS OAuthState, TLAPS

(* Flags are raised when the key goes, never while it is saved.            *)
FlagsMeanGone == dirty # {} => key = "gone"

(* A callback that has read the value is flagged when the key has gone.    *)
ReadersAreFlagged ==
  \A c \in Callback : pc[c] = "exec" => key # "unsaved" /\ (key = "gone" => c \in dirty)

(* Nobody pops a state before it was saved.                                *)
PopsAreLate == \A c \in Callback : pc[c] # "idle" => key # "unsaved"

(* Only a pop that has returned has a result, and a value consumes the key.*)
ValuesConsume ==
  \A c \in Callback : /\ pc[c] # "done" => result[c] = "none"
                      /\ result[c] = "value" => key = "gone"

IInv ==
  /\ TypeOK /\ FlagsMeanGone /\ ReadersAreFlagged /\ PopsAreLate /\ ValuesConsume
  /\ ConsumedOnce

LEMMA InitInv == Init => IInv
  BY DEF Init, IInv, TypeOK, FlagsMeanGone, ReadersAreFlagged, PopsAreLate, ValuesConsume,
     ConsumedOnce, Watching

LEMMA NextInv == IInv /\ [Next]_vars => IInv'
<1> SUFFICES ASSUME IInv, [Next]_vars PROVE IInv'
  OBVIOUS
<1> USE DEF IInv, TypeOK, FlagsMeanGone, ReadersAreFlagged, PopsAreLate, ValuesConsume,
            ConsumedOnce, Watching, Return, Delete, Unwatch
<1>1. CASE Save
  <2>1. \A c \in Callback : pc[c] = "idle"
    BY <1>1 DEF Save
  <2> QED
    BY <1>1, <2>1 DEF Save
<1>2. CASE Expire
  BY <1>2 DEF Expire
<1>3. ASSUME NEW c \in Callback, Watch(c) PROVE IInv'
  BY <1>3 DEF Watch
<1>4. ASSUME NEW c \in Callback, Get(c) PROVE IInv'
  BY <1>4 DEF Get
<1>5. ASSUME NEW c \in Callback, Exec(c) PROVE IInv'
  BY <1>5 DEF Exec
<1>6. ASSUME NEW c \in Callback, Crash(c) PROVE IInv'
  BY <1>6 DEF Crash
<1>7. ASSUME NEW c \in Callback, LoseConnection(c) PROVE IInv'
  BY <1>7 DEF LoseConnection
<1>8. CASE UNCHANGED vars
  BY <1>8 DEF vars
<1> QED
  BY <1>1, <1>2, <1>3, <1>4, <1>5, <1>6, <1>7, <1>8 DEF Next, Step

(* The inductive invariant holds in every reachable state.                 *)
THEOREM Invariance == Spec => []IInv
  BY InitInv, NextInv, PTL DEF Spec

(* Every reachable state of the store and its callers has the declared     *)
(* types.                                                                  *)
THEOREM TypeCorrectness == Spec => []TypeOK
<1>1. IInv => TypeOK
  BY DEF IInv
<1> QED
  BY <1>1, Invariance, PTL

(* However many callbacks carry a state, one at most gets its connection.  *)
THEOREM StatesAreConsumedOnce == Spec => []ConsumedOnce
<1>1. IInv => ConsumedOnce
  BY DEF IInv
<1> QED
  BY <1>1, Invariance, PTL

(* Every command of the adapter is a step of the abstract pop or a stutter.*)
LEMMA StepsRefine == IInv /\ [Next]_vars => [Atomic!Next]_Atomic!vars
<1> SUFFICES ASSUME IInv, [Next]_vars PROVE [Atomic!Next]_Atomic!vars
  OBVIOUS
<1> USE DEF Atomic!Next, Atomic!vars, Atomic!Save, Atomic!Take, Atomic!Miss, Atomic!Lose, Atomic!Drop,
            Return, Delete
<1>1. CASE Save
  BY <1>1 DEF Save
<1>2. CASE Expire
  BY <1>2 DEF Expire
<1>3. ASSUME NEW c \in Callback, Watch(c) PROVE UNCHANGED Atomic!vars
  BY <1>3 DEF Watch
<1>4. ASSUME NEW c \in Callback, Get(c) PROVE [Atomic!Next]_Atomic!vars
  BY <1>4 DEF Get, IInv, TypeOK, PopsAreLate, ValuesConsume
<1>5. ASSUME NEW c \in Callback, Exec(c) PROVE [Atomic!Next]_Atomic!vars
  BY <1>5 DEF Exec, IInv, TypeOK, FlagsMeanGone, ReadersAreFlagged, ValuesConsume
<1>6. ASSUME NEW c \in Callback, Crash(c) PROVE Atomic!Drop \/ UNCHANGED Atomic!vars
  BY <1>6 DEF Crash, IInv, TypeOK, ReadersAreFlagged
<1>7. ASSUME NEW c \in Callback, LoseConnection(c) PROVE Atomic!Lose(c) /\ result[c] = "none"
  BY <1>7 DEF LoseConnection, IInv, TypeOK, PopsAreLate, ValuesConsume
<1>8. CASE UNCHANGED vars
  BY <1>8 DEF vars
<1> QED
  BY <1>1, <1>2, <1>3, <1>4, <1>5, <1>6, <1>7, <1>8 DEF Next, Step

(* WATCH, GET, MULTI, DEL, EXEC implement one atomic pop of the state.     *)
THEOREM Implementation == Spec => PopContract
<1>1. Init => Atomic!Init
  BY DEF Init, Atomic!Init
<1> QED
  BY <1>1, StepsRefine, Invariance, PTL DEF Spec, PopContract, Atomic!Spec
=================================================================================
