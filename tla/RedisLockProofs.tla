--------------------------- MODULE RedisLockProofs ---------------------------
(***************************************************************************)
(* Proofs about RedisLock, for any number of contexts.                     *)
(*                                                                         *)
(* MutualExclusion is not inductive: what makes a release harmless is that *)
(* a context about to EXEC on a clean connection still owns the key, and   *)
(* that a flagged context does not.                                        *)
(***************************************************************************)
EXTENDS RedisLock, TLAPS

(* A context about to EXEC, whose connection is clean, owns the key.       *)
CleanOwns == \A c \in Context : pc[c] = "exec" /\ c \notin dirty => lock = c

(* A flagged context does not own the key, and never will again.           *)
DirtyLost == \A c \in dirty : lock # c

IInv == TypeOK /\ LeaseHonoured /\ CleanOwns /\ DirtyLost

(* What a release does to the key, given the invariant.                    *)
LEMMA ReleaseIsSafe ==
  ASSUME IInv, NEW c \in Context, pc[c] = "exec", DeleteUnlessDirty(c)
  PROVE  /\ lock' = IF lock = c THEN NoOwner ELSE lock
         /\ dirty' = (IF lock = c THEN dirty \cup Watching ELSE dirty) \ {c}
  BY NoOwnerAssumption DEF IInv, CleanOwns, DirtyLost, DeleteUnlessDirty, Touch, Unwatch

(* The inductive invariant holds in every reachable state.                 *)
THEOREM Invariance == Spec => []IInv
<1>1. Init => IInv
  BY NoOwnerAssumption DEF Init, IInv, TypeOK, LeaseHonoured, CleanOwns, DirtyLost, Inside, Watching
<1>2. IInv /\ [Next]_vars => IInv'
  <2> SUFFICES ASSUME IInv, [Next]_vars PROVE IInv'
    OBVIOUS
  <2> USE NoOwnerAssumption DEF IInv, TypeOK, LeaseHonoured, CleanOwns, DirtyLost, Inside, Watching
  <2>1. CASE Expire
    BY <2>1 DEF Expire
  <2>2. ASSUME NEW c \in Context, Enter(c) PROVE IInv'
    BY <2>2 DEF Enter, Touch
  <2>3. ASSUME NEW c \in Context, ExitRefused(c) PROVE IInv'
    BY <2>3 DEF ExitRefused
  <2>4. ASSUME NEW c \in Context, Watch(c) PROVE IInv'
    BY <2>4 DEF Watch
  <2>5. ASSUME NEW c \in Context, ReadOwner(c) PROVE IInv'
    BY <2>5 DEF ReadOwner, Unwatch
  <2>6. ASSUME NEW c \in Context, Exec(c) PROVE IInv'
    BY <2>6, ReleaseIsSafe DEF Exec
  <2>7. ASSUME NEW c \in Context, Crash(c) PROVE IInv'
    BY <2>7 DEF Crash, Unwatch
  <2>8. ASSUME NEW c \in Context, LoseSetReply(c) PROVE IInv'
    BY <2>8 DEF LoseSetReply, Touch
  <2>9. ASSUME NEW c \in Context, CrashInExec(c) PROVE IInv'
    BY <2>9, ReleaseIsSafe DEF CrashInExec
  <2>10. ASSUME NEW c \in Context, LoseConnection(c) PROVE IInv'
    BY <2>10 DEF LoseConnection, Unwatch
  <2>11. CASE UNCHANGED vars
    BY <2>11 DEF vars
  <2> QED
    BY <2>1, <2>2, <2>3, <2>4, <2>5, <2>6, <2>7, <2>8, <2>9, <2>10, <2>11 DEF Next, Step, Fault
<1> QED
  BY <1>1, <1>2, PTL DEF Spec

(* Every reachable state of the lock and its contexts has the declared     *)
(* types.                                                                  *)
THEOREM TypeCorrectness == Spec => []TypeOK
<1>1. IInv => TypeOK
  BY DEF IInv
<1> QED
  BY <1>1, Invariance, PTL

(* Until its time to live ends, the key of a context inside its block is   *)
(* in Redis: no interleaving of releases takes it away.                    *)
THEOREM LeaseIsHonoured == Spec => []LeaseHonoured
<1>1. IInv => LeaseHonoured
  BY DEF IInv
<1> QED
  BY <1>1, Invariance, PTL

(* Two contexts are inside the lock together only if one has outlived its  *)
(* lease.                                                                  *)
THEOREM Exclusion == Spec => []MutualExclusion
<1>1. IInv => MutualExclusion
  BY DEF IInv, LeaseHonoured, MutualExclusion
<1> QED
  BY <1>1, Invariance, PTL

(* The WATCH / GET / MULTI / EXEC adapter implements the lease of the port.*)
THEOREM Implementation == Spec => LeaseContract
<1> DEFINE body == {c \in Context : pc[c] \in Inside}
<1>1. Init => Lease!Init
  BY DEF Init, Lease!Init, Inside
<1>2. IInv /\ [Next]_vars => [Lease!Next]_<<lock, body>>
  <2> SUFFICES ASSUME IInv, [Next]_vars PROVE [Lease!Next]_<<lock, body>>
    OBVIOUS
  <2> USE DEF IInv, TypeOK, Inside
  <2>1. CASE Expire
    BY <2>1 DEF Expire, Lease!Next, Lease!Expire
  <2>2. ASSUME NEW c \in Context, Enter(c) PROVE [Lease!Next]_<<lock, body>>
    <3>1. CASE lock = NoOwner
      <4>1. c \notin body /\ body' = body \cup {c} /\ lock' = c
        BY <2>2, <3>1 DEF Enter
      <4> QED
        BY <3>1, <4>1 DEF Lease!Next, Lease!Enter
    <3>2. CASE lock # NoOwner
      <4>1. UNCHANGED <<lock, body>>
        BY <2>2, <3>2 DEF Enter
      <4> QED
        BY <4>1
    <3> QED
      BY <3>1, <3>2
  <2>3. ASSUME NEW c \in Context, ExitRefused(c) \/ Watch(c) PROVE UNCHANGED <<lock, body>>
    BY <2>3 DEF ExitRefused, Watch
  <2>4. ASSUME NEW c \in Context, ReadOwner(c) PROVE [Lease!Next]_<<lock, body>>
    <3>1. CASE lock = c
      BY <2>4, <3>1 DEF ReadOwner
    <3>2. CASE lock # c
      <4>1. c \in body /\ body' = body \ {c} /\ lock' = lock
        BY <2>4, <3>2 DEF ReadOwner
      <4> QED
        BY <3>2, <4>1 DEF Lease!Next, Lease!Leave
    <3> QED
      BY <3>1, <3>2
  <2>5. ASSUME NEW c \in Context, Exec(c) \/ CrashInExec(c) PROVE [Lease!Next]_<<lock, body>>
    <3>1. c \in body /\ body' = body \ {c}
      BY <2>5 DEF Exec, CrashInExec
    <3>2. lock' = IF lock = c THEN NoOwner ELSE lock
      BY <2>5, ReleaseIsSafe DEF Exec, CrashInExec
    <3> QED
      BY <3>1, <3>2 DEF Lease!Next, Lease!Leave
  <2>6. ASSUME NEW c \in Context, Crash(c) \/ LoseConnection(c) PROVE [Lease!Next]_<<lock, body>>
    <3>1. c \in body /\ body' = body \ {c} /\ lock' = lock
      BY <2>6 DEF Crash, LoseConnection
    <3> QED
      BY <3>1 DEF Lease!Next, Lease!Abandon
  <2>7. ASSUME NEW c \in Context, LoseSetReply(c) PROVE [Lease!Next]_<<lock, body>>
    <3>1. c \notin body /\ body' = body /\ lock = NoOwner /\ lock' = c
      BY <2>7 DEF LoseSetReply
    <3> QED
      BY <3>1 DEF Lease!Next, Lease!Orphan
  <2>8. CASE UNCHANGED vars
    BY <2>8 DEF vars
  <2> QED
    BY <2>1, <2>2, <2>3, <2>4, <2>5, <2>6, <2>7, <2>8 DEF Next, Step, Fault
<1> QED
  BY <1>1, <1>2, Invariance, PTL DEF Spec, LeaseContract, Lease!Spec, Lease!vars
==============================================================================
