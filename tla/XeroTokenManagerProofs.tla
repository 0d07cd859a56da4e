------------------------ MODULE XeroTokenManagerProofs ------------------------
(***************************************************************************)
(* Proofs about XeroTokenManager, for any number of requests, attempts and *)
(* token sets.                                                             *)
(*                                                                         *)
(* ChainInv holds under every fault: the provider accepts only the last    *)
(* set it issued, so a set that is refreshed was still the stored one, and *)
(* the store is at most one set behind.  LockInv adds what the lock gives  *)
(* when no lease lapses and no task dies: the set refreshed is current.    *)
(***************************************************************************)
EXTENDS XeroTokenManager, TLAPS

(* The provider accepts the refresh token of the last set only.            *)
SingleChain == live = {issued} \ {NoToken}

(* The set being refreshed was read from the store.                        *)
LoadedWasStored == \A r \in Request : pc[r] = "refresh" => token[r] \in 1..stored

(* An unsaved set is the last one that was issued.                         *)
UnsavedIsLast == \A r \in Request : pc[r] = "store" => token[r] = issued

(* A request that has not ended has no outcome yet.                        *)
Undecided == \A r \in Request : outcome[r] # "none" => pc[r] \in {"leave", "done"}

(* A key cannot leave a request that is between acquisition and release.   *)
OwnerInside == NoLapse => \A r \in Request : pc[r] \in Inside => lock = r

ChainInv ==
  /\ TypeOK /\ SingleChain /\ LoadedWasStored /\ UnsavedIsLast
  /\ Undecided /\ SingleWriter /\ ReturnedIsPersisted

LockInv == OwnerInside /\ NoSpentRefresh /\ ConnectionSurvives

IInv == ChainInv /\ LockInv

LEMMA InitInv == TMInit => IInv
  BY NoOwnerAssumption, RetriesAssumption
     DEF TMInit, IInv, ChainInv, LockInv, TypeOK, SingleChain, LoadedWasStored,
         UnsavedIsLast, Undecided, SingleWriter, ReturnedIsPersisted, OwnerInside,
         NoSpentRefresh, ConnectionSurvives, Inside, Outcomes, NoToken

(* A rotation issues the successor of the stored set.                      *)
LEMMA RotationIsNext ==
  ASSUME ChainInv, NEW r \in Request, pc[r] = "refresh", Rotate(token[r])
  PROVE  /\ token[r] = issued /\ stored = issued
         /\ issued' = issued + 1 /\ live' = {issued + 1} /\ stale' = stale
  BY DEF ChainInv, TypeOK, SingleChain, LoadedWasStored, Rotate, NoToken

LEMMA ChainStep == ChainInv /\ [Next]_tmvars => ChainInv'
<1> SUFFICES ASSUME ChainInv, [Next]_tmvars PROVE ChainInv'
  OBVIOUS
<1> USE NoOwnerAssumption, RetriesAssumption
    DEF ChainInv, TypeOK, SingleChain, LoadedWasStored, UnsavedIsLast, Undecided,
        SingleWriter, ReturnedIsPersisted, Inside, Outcomes, NoToken, Usable,
        Goto, Hold, End, Suffer, provider, local
<1>1. CASE Age
  BY <1>1 DEF Age
<1>2. CASE Expire
  BY <1>2 DEF Expire
<1>3. ASSUME NEW r \in Request, Load(r) PROVE ChainInv'
  BY <1>3 DEF Load
<1>4. ASSUME NEW r \in Request, Acquire(r) PROVE ChainInv'
  BY <1>4 DEF Acquire
<1>5. ASSUME NEW r \in Request, Recheck(r) PROVE ChainInv'
  BY <1>5 DEF Recheck
<1>6. ASSUME NEW r \in Request, Refresh(r) PROVE ChainInv'
  <2>1. CASE Rotate(token[r]) /\ Hold(r, issued') /\ Goto(r, "store") /\ UNCHANGED outcome
    BY <1>6, <2>1, RotationIsNext DEF Refresh
  <2>2. CASE End(r, "leave", "expired") /\ UNCHANGED <<provider, token>>
    BY <1>6, <2>2 DEF Refresh
  <2> QED
    BY <1>6, <2>1, <2>2 DEF Refresh
<1>7. ASSUME NEW r \in Request, RefreshFails(r) PROVE ChainInv'
  <2>1. CASE UNCHANGED <<provider, happened>>
    BY <1>7, <2>1 DEF RefreshFails
  <2>2. CASE Rotate(token[r])
    BY <1>7, <2>2, RotationIsNext DEF RefreshFails
  <2> QED
    BY <1>7, <2>1, <2>2 DEF RefreshFails
<1>8. ASSUME NEW r \in Request, Store(r) PROVE ChainInv'
  BY <1>8 DEF Store
<1>9. ASSUME NEW r \in Request, Leave(r) PROVE ChainInv'
  BY <1>9 DEF Leave
<1>10. ASSUME NEW r \in Request, Reread(r) PROVE ChainInv'
  BY <1>10 DEF Reread
<1>11. ASSUME NEW r \in Request, Again(r) \/ Crash(r) PROVE ChainInv'
  BY <1>11 DEF Again, Crash, Reset
<1>12. CASE UNCHANGED tmvars
  BY <1>12 DEF tmvars
<1> QED
  BY <1>1, <1>2, <1>3, <1>4, <1>5, <1>6, <1>7, <1>8, <1>9, <1>10, <1>11, <1>12
     DEF Next, TMStep, Resume

LEMMA LockStep == IInv /\ [Next]_tmvars => LockInv'
<1> SUFFICES ASSUME IInv, [Next]_tmvars PROVE LockInv'
  OBVIOUS
<1> USE NoOwnerAssumption
    DEF IInv, LockInv, ChainInv, TypeOK, OwnerInside, NoSpentRefresh, ConnectionSurvives,
        NoLapse, Reliable, Inside, NoToken, Usable, Goto, Hold, End, Suffer, provider, local
<1>1. CASE Age
  BY <1>1 DEF Age
<1>2. CASE Expire
  BY <1>2 DEF Expire
<1>3. ASSUME NEW r \in Request, Load(r) PROVE LockInv'
  BY <1>3 DEF Load
<1>4. ASSUME NEW r \in Request, Acquire(r) PROVE LockInv'
  BY <1>4 DEF Acquire
<1>5. ASSUME NEW r \in Request, Recheck(r) PROVE LockInv'
  BY <1>5 DEF Recheck
<1>6. ASSUME NEW r \in Request, Refresh(r) PROVE LockInv'
  <2>1. CASE Rotate(token[r]) /\ Hold(r, issued') /\ Goto(r, "store") /\ UNCHANGED outcome
    BY <1>6, <2>1, RotationIsNext DEF Refresh
  <2>2. CASE token[r] \notin live /\ End(r, "leave", "expired") /\ UNCHANGED <<provider, token>>
    BY <1>6, <2>2 DEF Refresh
  <2> QED
    BY <1>6, <2>1, <2>2 DEF Refresh
<1>7. ASSUME NEW r \in Request, RefreshFails(r) PROVE LockInv'
  BY <1>7 DEF RefreshFails
<1>8. ASSUME NEW r \in Request, Store(r) PROVE LockInv'
  BY <1>8 DEF Store, SingleChain, UnsavedIsLast, SingleWriter
<1>9. ASSUME NEW r \in Request, Leave(r) PROVE LockInv'
  BY <1>9 DEF Leave
<1>10. ASSUME NEW r \in Request, Reread(r) PROVE LockInv'
  BY <1>10 DEF Reread
<1>11. ASSUME NEW r \in Request, Again(r) \/ Crash(r) PROVE LockInv'
  BY <1>11 DEF Again, Crash, Reset
<1>12. CASE UNCHANGED tmvars
  BY <1>12 DEF tmvars
<1> QED
  BY <1>1, <1>2, <1>3, <1>4, <1>5, <1>6, <1>7, <1>8, <1>9, <1>10, <1>11, <1>12
     DEF Next, TMStep, Resume

(* The inductive invariant holds in every reachable state.                 *)
THEOREM Invariance == Spec => []IInv
<1>1. IInv /\ [Next]_tmvars => IInv'
  BY ChainStep, LockStep DEF IInv
<1> QED
  BY InitInv, <1>1, PTL DEF Spec

(* Every reachable state of the token manager has the declared types.      *)
THEOREM TypeCorrectness == Spec => []TypeOK
<1>1. IInv => TypeOK
  BY DEF IInv, ChainInv
<1> QED
  BY <1>1, Invariance, PTL

(* Only one request at a time is between the double check and the release, *)
(* unless a lease lapses.                                                  *)
THEOREM RefreshersExclude == Spec => []OneRefresher
<1>1. IInv => OneRefresher
  BY DEF IInv, LockInv, OwnerInside, OneRefresher
<1> QED
  BY <1>1, Invariance, PTL

(* No request presents a refresh token that another one spent, when no     *)
(* lease lapses, no task dies and no reply is lost.                        *)
THEOREM RefreshTokensAreUnspent == Spec => []NoSpentRefresh
<1>1. IInv => NoSpentRefresh
  BY DEF IInv, LockInv
<1> QED
  BY <1>1, Invariance, PTL

(* Under the same condition, concurrency never costs the connection.       *)
THEOREM ConnectionIsKept == Spec => []ConnectionSurvives
<1>1. IInv => ConnectionSurvives
  BY DEF IInv, LockInv
<1> QED
  BY <1>1, Invariance, PTL

(* Under every fault, writes to the store never overtake one another.      *)
THEOREM WritersExclude == Spec => []SingleWriter
<1>1. IInv => SingleWriter
  BY DEF IInv, ChainInv
<1> QED
  BY <1>1, Invariance, PTL

(* Under every fault, a caller only ever gets a persisted token set.       *)
THEOREM ResultsArePersisted == Spec => []ReturnedIsPersisted
<1>1. IInv => ReturnedIsPersisted
  BY DEF IInv, ChainInv
<1> QED
  BY <1>1, Invariance, PTL

(* Under every fault, the store follows the chain of the provider one set  *)
(* at a time.                                                              *)
THEOREM FollowsRotation == Spec => RotationContract
<1>1. TMInit => Chain!Init
  BY DEF TMInit, Chain!Init, NoToken
<1>2. ChainInv /\ [Next]_tmvars => [Chain!Next]_<<issued, stored>>
  <2> SUFFICES ASSUME ChainInv, [Next]_tmvars PROVE [Chain!Next]_<<issued, stored>>
    OBVIOUS
  <2> USE DEF provider, local
  <2>1. CASE Age \/ Expire \/ UNCHANGED tmvars
    BY <2>1 DEF Age, Expire, tmvars
  <2>2. ASSUME NEW r \in Request,
               \/ Load(r) \/ Acquire(r) \/ Recheck(r) \/ Leave(r) \/ Reread(r)
               \/ Again(r) \/ Crash(r)
        PROVE UNCHANGED <<issued, stored>>
    BY <2>2 DEF Load, Acquire, Recheck, Leave, Reread, Again, Crash
  <2>3. ASSUME NEW r \in Request, Refresh(r) \/ RefreshFails(r)
        PROVE [Chain!Next]_<<issued, stored>>
    <3>1. pc[r] = "refresh" /\ UNCHANGED stored
      BY <2>3 DEF Refresh, RefreshFails
    <3>2. CASE Rotate(token[r])
      BY <3>1, <3>2, RotationIsNext DEF Chain!Next, Chain!Rotate
    <3>3. CASE UNCHANGED <<provider, happened>>
      BY <3>1, <3>3
    <3> QED
      BY <2>3, <3>2, <3>3 DEF Refresh, RefreshFails
  <2>4. ASSUME NEW r \in Request, Store(r) PROVE [Chain!Next]_<<issued, stored>>
    <3>1. stored + 1 = issued /\ stored' = issued /\ UNCHANGED issued
      BY <2>4 DEF Store, ChainInv, SingleWriter, UnsavedIsLast
    <3> QED
      BY <3>1 DEF Chain!Next, Chain!Save
  <2> QED
    BY <2>1, <2>2, <2>3, <2>4 DEF Next, TMStep, Resume
<1>3. IInv => ChainInv
  BY DEF IInv
<1> QED
  BY <1>1, <1>2, <1>3, Invariance, PTL DEF Spec, RotationContract, Chain!Spec, Chain!vars

(* The manager and its lock behave as a lease, whatever lapses or dies.    *)
THEOREM FollowsLease == Spec => LeaseContract
<1> DEFINE body == {r \in Request : pc[r] \in Inside}
<1>1. TMInit => Lease!Init
  BY DEF TMInit, Lease!Init, Inside
<1>2. TypeOK /\ [Next]_tmvars => [Lease!Next]_<<lock, body>>
  <2> SUFFICES ASSUME TypeOK, [Next]_tmvars PROVE [Lease!Next]_<<lock, body>>
    OBVIOUS
  <2> USE DEF TypeOK, Inside, Goto, Hold, End
  <2>1. CASE Age \/ UNCHANGED tmvars
    BY <2>1 DEF Age, local, tmvars
  <2>2. CASE Expire
    BY <2>2 DEF Expire, local, Lease!Next, Lease!Expire
  <2>3. ASSUME NEW r \in Request, Load(r) \/ Reread(r) \/ Again(r) PROVE UNCHANGED <<lock, body>>
    BY <2>3 DEF Load, Reread, Again, Reset
  <2>4. ASSUME NEW r \in Request, Acquire(r) PROVE [Lease!Next]_<<lock, body>>
    <3>1. CASE lock = NoOwner
      <4>1. r \notin body /\ lock' = r /\ body' = body \cup {r}
        BY <2>4, <3>1 DEF Acquire
      <4> QED
        BY <3>1, <4>1 DEF Lease!Next, Lease!Enter
    <3>2. CASE lock # NoOwner
      BY <2>4, <3>2 DEF Acquire
    <3> QED
      BY <3>1, <3>2
  <2>5. ASSUME NEW r \in Request, Recheck(r) \/ Refresh(r) \/ RefreshFails(r) \/ Store(r)
        PROVE UNCHANGED <<lock, body>>
    BY <2>5 DEF Recheck, Refresh, RefreshFails, Store
  <2>6. ASSUME NEW r \in Request, Leave(r) PROVE [Lease!Next]_<<lock, body>>
    <3>1. r \in body /\ body' = body \ {r}
      BY <2>6 DEF Leave
    <3> QED
      BY <2>6, <3>1 DEF Leave, Lease!Next, Lease!Leave, Lease!Abandon
  <2>7. ASSUME NEW r \in Request, Crash(r) PROVE [Lease!Next]_<<lock, body>>
    <3>1. body' = body \ {r} /\ UNCHANGED lock
      BY <2>7 DEF Crash, Reset
    <3> QED
      BY <3>1 DEF Lease!Next, Lease!Abandon
  <2> QED
    BY <2>1, <2>2, <2>3, <2>4, <2>5, <2>6, <2>7 DEF Next, TMStep, Resume
<1> QED
  BY <1>1, <1>2, TypeCorrectness, PTL DEF Spec, LeaseContract, Lease!Spec, Lease!vars
===============================================================================
