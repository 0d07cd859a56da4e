-------------------------- MODULE MSConnectionProofs --------------------------
(***************************************************************************)
(* Proofs about MSConnection, for any number of requests, attempts, device *)
(* codes and token sets.                                                   *)
(*                                                                         *)
(* TokenInv holds under every fault: the set a request holds was in the    *)
(* store when Graph is called, and a forced request holds none from before *)
(* its 401.  OwnerInside is what the lock gives until a lease lapses, and  *)
(* AuthInv what the refreshes under it leave of the last authorization.    *)
(* StepsLeft counts the steps that a request still has.                    *)
(***************************************************************************)
EXTENDS MSConnection, TLAPS

(* What get_token returns was persisted, and is new if it was forced.      *)
Fit(r) ==
  /\ token[r] \in persisted
  /\ attempt[r] = 1 => token[r] > mark[r]

(* A request that is under way.                                            *)
Sound(r) ==
  /\ pc[r] \in Pending \ {"leave"} => answer[r] = "none"
  /\ attempt[r] = 1 => pc[r] \notin {"idle", "recheck", "save"}
  /\ pc[r] \in {"store", "save"} => token[r] # NoToken
  /\ pc[r] = "store" /\ attempt[r] = 1 => token[r] > mark[r]
  /\ pc[r] = "leave" /\ answer[r] = "none" => Fit(r)
  /\ pc[r] = "post" => Fit(r)

TokenInv == TypeOK /\ \A r \in Request : Sound(r)

(* A key cannot leave a request that is between acquisition and release.   *)
OwnerInside == ~lapsed => \A r \in Request : pc[r] \in Inside => lock = r

(* Until a poll crosses it, a refresh continues the last authorization...  *)
Continues ==
  ~crossed => \A r \in Request : pc[r] \in {"refresh", "store"} => token[r] \in authorized

(* ... and its new set is the newest, until a lease lapses.                *)
NewestUnsaved ==
  ~lapsed /\ ~crossed => \A r \in Request : pc[r] = "store" => stored <= token[r]

AuthInv == AuthorizationSticks /\ Continues /\ NewestUnsaved

IInv == TokenInv /\ OwnerInside /\ AuthInv

LEMMA InitInv == Init => IInv
<1> SUFFICES ASSUME Init PROVE IInv
  OBVIOUS
<1>1. TypeOK
  <2>1. stored \in {0, 1} /\ issued = stored /\ 0 \in 0..issued /\ 0 \in 0..Retries-1
    BY RetriesAssumption DEF Init, NoToken
  <2>2. persisted \subseteq 1..issued /\ stored \in persisted \cup {NoToken}
    BY <2>1 DEF Init, NoToken
  <2>3. /\ pc \in [Request -> {"idle"} \cup Pending] /\ tries \in [Request -> 0..Retries-1]
        /\ token \in [Request -> 0..issued] /\ mark \in [Request -> 0..issued]
        /\ attempt \in [Request -> {0, 1}] /\ answer \in [Request -> Answers \cup {"none"}]
        /\ codes \in [DeviceCode -> CodeStates]
    BY <2>1 DEF Init, CodeStates, NoToken
  <2>4. authorized \subseteq 1..issued /\ stale \in 0..issued /\ issued \in Nat
    BY <2>1, <2>2 DEF Init
  <2> QED
    BY <2>2, <2>3, <2>4 DEF Init, TypeOK
<1> QED
  BY <1>1 DEF Init, IInv, TokenInv, Sound, OwnerInside, AuthInv, AuthorizationSticks, Continues,
              NewestUnsaved, Pending, Inside

(* A new set is numbered after all others.                                 *)
LEMMA Issued ==
  ASSUME TypeOK, NEW t, Issue(t)
  PROVE  /\ issued' = issued + 1 /\ issued' \in Nat /\ issued' \in 1..issued' /\ stale' = stale
         /\ 0..issued \subseteq 0..issued' /\ 1..issued \subseteq 1..issued' /\ 1..issued' \subseteq 0..issued'
         /\ authorized' \subseteq 1..issued' /\ stale' \in 0..issued'
         /\ t \in authorized => authorized' = authorized \cup {issued'}
         /\ authorized \subseteq authorized' /\ authorized' \subseteq authorized \cup {issued'}
<1>1. issued' = issued + 1 /\ issued \in Nat /\ issued' \in 1..issued' /\ stale' = stale
  BY DEF TypeOK, Issue
<1>2. authorized' = authorized \cup {g \in {issued'} : t \in authorized}
  BY DEF Issue
<1>3. /\ 0..issued \subseteq 0..issued' /\ 1..issued \subseteq 1..issued'
      /\ 1..issued' \subseteq 0..issued'
  BY <1>1
<1>4. authorized' \subseteq authorized \cup {issued'} /\ authorized \subseteq authorized'
  BY <1>2
<1>5. t \in authorized => authorized' = authorized \cup {issued'}
  BY <1>2
<1>6. authorized' \subseteq 1..issued' /\ stale' \in 0..issued' /\ issued' \in Nat
  BY <1>1, <1>3, <1>4 DEF TypeOK
<1> QED
  BY <1>1, <1>3, <1>4, <1>5, <1>6

LEMMA TypeStep == TokenInv /\ [Next]_vars => TypeOK'
<1> SUFFICES ASSUME TokenInv, [Next]_vars PROVE TypeOK'
  OBVIOUS
<1> USE NoOwnerAssumption, RetriesAssumption
    DEF TokenInv, TypeOK, CodeStates, Answers, Usable,
        azure, local, history, Put, Goto, Hold, Pending, Inside, NoToken
<1>1. CASE Age
  BY <1>1 DEF Age
<1>2. CASE Expire
  BY <1>2 DEF Expire
<1>3. ASSUME NEW c \in DeviceCode, Initiate(c) \/ Operate(c) PROVE TypeOK'
  BY <1>3 DEF Initiate, Operate, CodeStep
<1>4. ASSUME NEW r \in Request, Load(r) PROVE TypeOK'
  BY <1>4 DEF Load, End, Await
<1>5. ASSUME NEW r \in Request, Acquire(r) PROVE TypeOK'
  BY <1>5 DEF Acquire
<1>6. ASSUME NEW r \in Request, Recheck(r) PROVE TypeOK'
  BY <1>6 DEF Recheck
<1>7. ASSUME NEW r \in Request, Current(r) PROVE TypeOK'
  BY <1>7 DEF Current, Raise
<1>8. ASSUME NEW r \in Request, Refresh(r) PROVE TypeOK'
  <2>1. /\ issued' \in Nat /\ issued' \in 0..issued' /\ 0..issued \subseteq 0..issued'
        /\ 1..issued \subseteq 1..issued' /\ authorized' \subseteq 1..issued' /\ stale' \in 0..issued'
    BY <1>8, Issued DEF Refresh
  <2> QED
    BY <1>8, <2>1 DEF Refresh
<1>9. ASSUME NEW r \in Request, RefreshFails(r) PROVE TypeOK'
  BY <1>9 DEF RefreshFails, Raise
<1>10. ASSUME NEW r \in Request, Store(r) PROVE TypeOK'
  <2>1. token[r] \in 1..issued /\ stored' = token[r] /\ persisted' = persisted \cup {token[r]}
    BY <1>10 DEF Store, Persist, Sound
  <2> QED
    BY <1>10, <2>1 DEF Store
<1>11. ASSUME NEW r \in Request, Leave(r) PROVE TypeOK'
  BY <1>11 DEF Leave, Return, End
<1>12. ASSUME NEW r \in Request, Reread(r) PROVE TypeOK'
  BY <1>12 DEF Reread, Refused, Await, End
<1>13. ASSUME NEW r \in Request, Post(r) PROVE TypeOK'
  BY <1>13 DEF Post, Unauthorized, Retry, End
<1>14. ASSUME NEW r \in Request, Save(r) PROVE TypeOK'
  <2>1. token[r] \in 1..issued /\ stored' = token[r] /\ persisted' = persisted \cup {token[r]}
    BY <1>14 DEF Save, Persist, Sound
  <2>2. 0 \in 0..issued /\ 0 \in 0..Retries-1
    OBVIOUS
  <2> QED
    BY <1>14, <2>1, <2>2 DEF Save, End
<1>15. ASSUME NEW r \in Request, Revoke(r) PROVE TypeOK'
  BY <1>15 DEF Revoke, End
<1>16. ASSUME NEW r \in Request, Crash(r) PROVE TypeOK'
  BY <1>16 DEF Crash, End
<1>17. ASSUME NEW r \in Request, NEW c \in DeviceCode, Poll(r, c) PROVE TypeOK'
  <2>1. 0 \in 0..issued /\ 0 \in 0..Retries-1
    OBVIOUS
  <2>2. CASE Issue(NoToken) /\ UNCHANGED <<lock, stored, persisted, crossed, lapsed>>
    <3>1. /\ issued' \in Nat /\ issued' \in 0..issued' /\ 0..issued \subseteq 0..issued'
          /\ 1..issued \subseteq 1..issued' /\ authorized' \subseteq 1..issued' /\ stale' \in 0..issued'
      BY <2>2, Issued
    <3>2. codes' \in [DeviceCode -> CodeStates]
      BY <1>17 DEF Poll
    <3>3. /\ pc' \in [Request -> {"idle"} \cup Pending]
          /\ tries' \in [Request -> 0..Retries-1] /\ attempt' \in [Request -> {0, 1}]
          /\ answer' \in [Request -> Answers \cup {"none"}]
      BY <1>17, <2>1 DEF Poll, End, Await
    <3>4. token' \in [Request -> 0..issued'] /\ mark' \in [Request -> 0..issued']
      BY <1>17, <2>1, <3>1 DEF Poll, End, Await
    <3> QED
      BY <2>2, <3>1, <3>2, <3>3, <3>4
  <2>3. CASE UNCHANGED <<azure, authorized>>
    BY <1>17, <2>1, <2>3 DEF Poll, End, Await
  <2> QED
    BY <1>17, <2>2, <2>3 DEF Poll
<1>18. CASE UNCHANGED vars
  BY <1>18 DEF vars
<1> QED
  BY <1>1, <1>2, <1>3, <1>4, <1>5, <1>6, <1>7, <1>8, <1>9, <1>10, <1>11, <1>12, <1>13,
     <1>14, <1>15, <1>16, <1>17, <1>18 DEF Next, Begin, Step

(* A step of one request: it is enough to look at that request.            *)
LEMMA RequestStep ==
  ASSUME TokenInv, TypeOK', NEW r \in Request, persisted \subseteq persisted',
         \A u \in Request \ {r} :
           /\ pc'[u] = pc[u] /\ token'[u] = token[u] /\ attempt'[u] = attempt[u]
           /\ answer'[u] = answer[u] /\ mark'[u] = mark[u],
         Sound(r)'
  PROVE  TokenInv'
<1> SUFFICES ASSUME NEW u \in Request \ {r} PROVE Sound(u)'
  BY DEF TokenInv
<1> QED
  BY DEF TokenInv, Sound, Fit

LEMMA TokenStep == TokenInv /\ [Next]_vars => TokenInv'
<1> SUFFICES ASSUME TokenInv, [Next]_vars PROVE TokenInv'
  OBVIOUS
<1>0. TypeOK'
  BY TypeStep
<1>1. CASE UNCHANGED <<local, persisted>>
  BY <1>0, <1>1 DEF local, TokenInv, Sound, Fit
<1>2. CASE Age \/ Expire \/ (\E c \in DeviceCode : Initiate(c) \/ Operate(c)) \/ UNCHANGED vars
  BY <1>1, <1>2 DEF Age, Expire, Initiate, Operate, CodeStep, vars, history
<1>3. ASSUME NEW r \in Request, Load(r) PROVE TokenInv'
  <2>1. /\ persisted \subseteq persisted'
        /\ \A u \in Request \ {r} :
             /\ pc'[u] = pc[u] /\ token'[u] = token[u] /\ attempt'[u] = attempt[u]
             /\ answer'[u] = answer[u] /\ mark'[u] = mark[u]
    BY <1>3 DEF Load, End, Await, Usable, TokenInv, TypeOK, azure, local, history, Put, Goto, Hold
  <2>2. Sound(r)'
    BY <1>0, <1>3, RetriesAssumption
       DEF Load, End, Await, Usable, TokenInv, TypeOK, Sound, Fit, azure, local, history, Put, Goto, Hold,
           Pending, Inside, NoToken
  <2> QED
    BY <1>0, <2>1, <2>2, RequestStep
<1>4. ASSUME NEW r \in Request, Acquire(r) PROVE TokenInv'
  <2>1. /\ persisted \subseteq persisted'
        /\ \A u \in Request \ {r} :
             /\ pc'[u] = pc[u] /\ token'[u] = token[u] /\ attempt'[u] = attempt[u]
             /\ answer'[u] = answer[u] /\ mark'[u] = mark[u]
    BY <1>4 DEF Acquire, Forced, TokenInv, TypeOK, azure, local, history, Put, Goto, Hold
  <2>3. attempt[r] = 1 => pc'[r] # "recheck"
    <3>1. Forced(r) <=> attempt[r] = 1
      BY DEF Forced
    <3> QED
      BY <1>4, <3>1 DEF Acquire, Goto, Put, TokenInv, TypeOK
  <2>2. Sound(r)'
    BY <1>0, <1>4, <2>3, RetriesAssumption
       DEF Acquire, Forced, TokenInv, TypeOK, Sound, Fit, azure, local, history, Put, Goto, Hold,
           Pending, Inside, NoToken
  <2> QED
    BY <1>0, <2>1, <2>2, RequestStep
<1>5. ASSUME NEW r \in Request, Recheck(r) PROVE TokenInv'
  <2>1. /\ persisted \subseteq persisted'
        /\ \A u \in Request \ {r} :
             /\ pc'[u] = pc[u] /\ token'[u] = token[u] /\ attempt'[u] = attempt[u]
             /\ answer'[u] = answer[u] /\ mark'[u] = mark[u]
    BY <1>5 DEF Recheck, Usable, TokenInv, TypeOK, azure, local, history, Put, Goto, Hold
  <2>2. Sound(r)'
    BY <1>0, <1>5, RetriesAssumption
       DEF Recheck, Usable, TokenInv, TypeOK, Sound, Fit, azure, local, history, Put, Goto, Hold,
           Pending, Inside, NoToken
  <2> QED
    BY <1>0, <2>1, <2>2, RequestStep
<1>6. ASSUME NEW r \in Request, Current(r) PROVE TokenInv'
  <2>1. /\ persisted \subseteq persisted'
        /\ \A u \in Request \ {r} :
             /\ pc'[u] = pc[u] /\ token'[u] = token[u] /\ attempt'[u] = attempt[u]
             /\ answer'[u] = answer[u] /\ mark'[u] = mark[u]
    BY <1>6 DEF Current, Raise, TokenInv, TypeOK, azure, local, history, Put, Goto, Hold
  <2>2. Sound(r)'
    BY <1>0, <1>6, RetriesAssumption
       DEF Current, Raise, TokenInv, TypeOK, Sound, Fit, azure, local, history, Put, Goto, Hold,
           Pending, Inside, NoToken
  <2> QED
    BY <1>0, <2>1, <2>2, RequestStep
<1>7. ASSUME NEW r \in Request, Refresh(r) PROVE TokenInv'
  <2>1. /\ persisted \subseteq persisted'
        /\ \A u \in Request \ {r} :
             /\ pc'[u] = pc[u] /\ token'[u] = token[u] /\ attempt'[u] = attempt[u]
             /\ answer'[u] = answer[u] /\ mark'[u] = mark[u]
    BY <1>7 DEF Refresh, Issue, TokenInv, TypeOK, azure, local, history, Put, Goto, Hold
  <2>2. Sound(r)'
    BY <1>0, <1>7, RetriesAssumption
       DEF Refresh, Issue, TokenInv, TypeOK, Sound, Fit, azure, local, history, Put, Goto, Hold,
           Pending, Inside, NoToken
  <2> QED
    BY <1>0, <2>1, <2>2, RequestStep
<1>8. ASSUME NEW r \in Request, RefreshFails(r) PROVE TokenInv'
  <2>1. /\ persisted \subseteq persisted'
        /\ \A u \in Request \ {r} :
             /\ pc'[u] = pc[u] /\ token'[u] = token[u] /\ attempt'[u] = attempt[u]
             /\ answer'[u] = answer[u] /\ mark'[u] = mark[u]
    BY <1>8 DEF RefreshFails, Raise, TokenInv, TypeOK, azure, local, history, Put, Goto, Hold
  <2>2. Sound(r)'
    BY <1>0, <1>8, RetriesAssumption
       DEF RefreshFails, Raise, TokenInv, TypeOK, Sound, Fit, azure, local, history, Put, Goto, Hold,
           Pending, Inside, NoToken
  <2> QED
    BY <1>0, <2>1, <2>2, RequestStep
<1>9. ASSUME NEW r \in Request, Store(r) PROVE TokenInv'
  <2>1. /\ persisted \subseteq persisted'
        /\ \A u \in Request \ {r} :
             /\ pc'[u] = pc[u] /\ token'[u] = token[u] /\ attempt'[u] = attempt[u]
             /\ answer'[u] = answer[u] /\ mark'[u] = mark[u]
    BY <1>9 DEF Store, Persist, TokenInv, TypeOK, azure, local, history, Put, Goto, Hold
  <2>2. Sound(r)'
    BY <1>0, <1>9, RetriesAssumption
       DEF Store, Persist, TokenInv, TypeOK, Sound, Fit, azure, local, history, Put, Goto, Hold,
           Pending, Inside, NoToken
  <2> QED
    BY <1>0, <2>1, <2>2, RequestStep
<1>10. ASSUME NEW r \in Request, Leave(r) PROVE TokenInv'
  <2>1. /\ persisted \subseteq persisted'
        /\ \A u \in Request \ {r} :
             /\ pc'[u] = pc[u] /\ token'[u] = token[u] /\ attempt'[u] = attempt[u]
             /\ answer'[u] = answer[u] /\ mark'[u] = mark[u]
    BY <1>10 DEF Leave, Return, End, TokenInv, TypeOK, azure, local, history, Put, Goto, Hold
  <2>2. Sound(r)'
    BY <1>0, <1>10, RetriesAssumption
       DEF Leave, Return, End, TokenInv, TypeOK, Sound, Fit, azure, local, history, Put, Goto, Hold,
           Pending, Inside, NoToken
  <2> QED
    BY <1>0, <2>1, <2>2, RequestStep
<1>11. ASSUME NEW r \in Request, Reread(r) PROVE TokenInv'
  <2>1. /\ persisted \subseteq persisted'
        /\ \A u \in Request \ {r} :
             /\ pc'[u] = pc[u] /\ token'[u] = token[u] /\ attempt'[u] = attempt[u]
             /\ answer'[u] = answer[u] /\ mark'[u] = mark[u]
    BY <1>11 DEF Reread, Refused, Await, End, Usable, Forced, TokenInv, TypeOK, azure, local, history, Put, Goto, Hold
  <2>3. \/ /\ attempt[r] = 0 /\ token'[r] = stored /\ stored # NoToken
           /\ pc'[r] = "post" /\ attempt'[r] = 0 /\ answer'[r] = "none"
        \/ /\ pc'[r] = "acquire" /\ UNCHANGED <<token, attempt, answer, mark>>
        \/ pc'[r] = "idle" /\ attempt'[r] = 0
    BY <1>11, RetriesAssumption DEF Reread, Refused, Await, End, Forced, Usable, Goto, Hold, Put, TokenInv, TypeOK
  <2>2. Sound(r)'
    BY <1>0, <1>11, <2>3, RetriesAssumption
       DEF Reread, Refused, Await, End, Usable, Forced, TokenInv, TypeOK, Sound, Fit, azure, local, history, Put, Goto, Hold,
           Pending, Inside, NoToken
  <2> QED
    BY <1>0, <2>1, <2>2, RequestStep
<1>12. ASSUME NEW r \in Request, Post(r) PROVE TokenInv'
  <2>1. /\ persisted \subseteq persisted'
        /\ \A u \in Request \ {r} :
             /\ pc'[u] = pc[u] /\ token'[u] = token[u] /\ attempt'[u] = attempt[u]
             /\ answer'[u] = answer[u] /\ mark'[u] = mark[u]
    BY <1>12 DEF Post, Unauthorized, Retry, End, Forced, TokenInv, TypeOK, azure, local, history, Put, Goto, Hold
  <2>2. Sound(r)'
    BY <1>0, <1>12, RetriesAssumption
       DEF Post, Unauthorized, Retry, End, Forced, TokenInv, TypeOK, Sound, Fit, azure, local, history, Put, Goto, Hold,
           Pending, Inside, NoToken
  <2> QED
    BY <1>0, <2>1, <2>2, RequestStep
<1>13. ASSUME NEW r \in Request, Save(r) PROVE TokenInv'
  <2>1. /\ persisted \subseteq persisted'
        /\ \A u \in Request \ {r} :
             /\ pc'[u] = pc[u] /\ token'[u] = token[u] /\ attempt'[u] = attempt[u]
             /\ answer'[u] = answer[u] /\ mark'[u] = mark[u]
    BY <1>13 DEF Save, End, Persist, TokenInv, TypeOK, azure, local, history, Put, Goto, Hold
  <2>2. Sound(r)'
    BY <1>0, <1>13, RetriesAssumption
       DEF Save, End, Persist, TokenInv, TypeOK, Sound, Fit, azure, local, history, Put, Goto, Hold,
           Pending, Inside, NoToken
  <2> QED
    BY <1>0, <2>1, <2>2, RequestStep
<1>14. ASSUME NEW r \in Request, Revoke(r) PROVE TokenInv'
  <2>1. /\ persisted \subseteq persisted'
        /\ \A u \in Request \ {r} :
             /\ pc'[u] = pc[u] /\ token'[u] = token[u] /\ attempt'[u] = attempt[u]
             /\ answer'[u] = answer[u] /\ mark'[u] = mark[u]
    BY <1>14 DEF Revoke, End, TokenInv, TypeOK, azure, local, history, Put, Goto, Hold
  <2>2. Sound(r)'
    BY <1>0, <1>14, RetriesAssumption
       DEF Revoke, End, TokenInv, TypeOK, Sound, Fit, azure, local, history, Put, Goto, Hold,
           Pending, Inside, NoToken
  <2> QED
    BY <1>0, <2>1, <2>2, RequestStep
<1>15. ASSUME NEW r \in Request, Crash(r) PROVE TokenInv'
  <2>1. /\ persisted \subseteq persisted'
        /\ \A u \in Request \ {r} :
             /\ pc'[u] = pc[u] /\ token'[u] = token[u] /\ attempt'[u] = attempt[u]
             /\ answer'[u] = answer[u] /\ mark'[u] = mark[u]
    BY <1>15 DEF Crash, End, TokenInv, TypeOK, azure, local, history, Put, Goto, Hold
  <2>2. Sound(r)'
    BY <1>0, <1>15, RetriesAssumption
       DEF Crash, End, TokenInv, TypeOK, Sound, Fit, azure, local, history, Put, Goto, Hold,
           Pending, Inside, NoToken
  <2> QED
    BY <1>0, <2>1, <2>2, RequestStep
<1>16. ASSUME NEW r \in Request, NEW c \in DeviceCode, Poll(r, c) PROVE TokenInv'
  <2>1. /\ persisted \subseteq persisted'
        /\ \A u \in Request \ {r} :
             /\ pc'[u] = pc[u] /\ token'[u] = token[u] /\ attempt'[u] = attempt[u]
             /\ answer'[u] = answer[u] /\ mark'[u] = mark[u]
    BY <1>16 DEF Poll, Issue, End, Await, TokenInv, TypeOK, azure, local, history, Put, Goto, Hold
  <2>2. Sound(r)'
    BY <1>0, <1>16, RetriesAssumption
       DEF Poll, Issue, End, Await, TokenInv, TypeOK, Sound, Fit, azure, local, history, Put, Goto, Hold,
           Pending, Inside, NoToken
  <2> QED
    BY <1>0, <2>1, <2>2, RequestStep
<1> QED
  BY <1>1, <1>2, <1>3, <1>4, <1>5, <1>6, <1>7, <1>8, <1>9, <1>10, <1>11, <1>12,
     <1>13, <1>14, <1>15, <1>16 DEF Next, Begin, Step

LEMMA OwnerStep == TypeOK /\ OwnerInside /\ [Next]_vars => OwnerInside'
<1> SUFFICES ASSUME TypeOK /\ OwnerInside, [Next]_vars PROVE OwnerInside'
  OBVIOUS
<1> USE NoOwnerAssumption DEF TypeOK, OwnerInside, azure, local, history, Put, Goto, Hold, Pending, Inside, NoToken
<1>1. CASE Age
  BY <1>1 DEF Age
<1>2. CASE Expire
  BY <1>2 DEF Expire
<1>3. ASSUME NEW c \in DeviceCode, Initiate(c) \/ Operate(c) PROVE OwnerInside'
  BY <1>3 DEF Initiate, Operate, CodeStep
<1>4. ASSUME NEW r \in Request, Load(r) PROVE OwnerInside'
  BY <1>4 DEF Load, End, Await
<1>5. ASSUME NEW r \in Request, Acquire(r) PROVE OwnerInside'
  BY <1>5 DEF Acquire
<1>6. ASSUME NEW r \in Request, Recheck(r) PROVE OwnerInside'
  BY <1>6 DEF Recheck
<1>7. ASSUME NEW r \in Request, Current(r) PROVE OwnerInside'
  BY <1>7 DEF Current, Raise
<1>8. ASSUME NEW r \in Request, Refresh(r) PROVE OwnerInside'
  BY <1>8 DEF Refresh, Issue
<1>9. ASSUME NEW r \in Request, RefreshFails(r) PROVE OwnerInside'
  BY <1>9 DEF RefreshFails, Raise
<1>10. ASSUME NEW r \in Request, Store(r) PROVE OwnerInside'
  BY <1>10 DEF Store, Persist
<1>11. ASSUME NEW r \in Request, Leave(r) PROVE OwnerInside'
  BY <1>11 DEF Leave, Return, End
<1>12. ASSUME NEW r \in Request, Reread(r) PROVE OwnerInside'
  BY <1>12 DEF Reread, Refused, Await, End
<1>13. ASSUME NEW r \in Request, Post(r) PROVE OwnerInside'
  BY <1>13 DEF Post, Unauthorized, Retry, End
<1>14. ASSUME NEW r \in Request, Save(r) PROVE OwnerInside'
  BY <1>14 DEF Save, End, Persist
<1>15. ASSUME NEW r \in Request, Revoke(r) PROVE OwnerInside'
  BY <1>15 DEF Revoke, End
<1>16. ASSUME NEW r \in Request, Crash(r) PROVE OwnerInside'
  BY <1>16 DEF Crash, End
<1>17. ASSUME NEW r \in Request, NEW c \in DeviceCode, Poll(r, c) PROVE OwnerInside'
  BY <1>17 DEF Poll, Issue, End, Await
<1>18. CASE UNCHANGED vars
  BY <1>18 DEF vars
<1> QED
  BY <1>1, <1>2, <1>3, <1>4, <1>5, <1>6, <1>7, <1>8, <1>9, <1>10, <1>11, <1>12, <1>13,
     <1>14, <1>15, <1>16, <1>17, <1>18 DEF Next, Begin, Step

LEMMA AuthStep == IInv /\ [Next]_vars => AuthInv'
<1> SUFFICES ASSUME IInv, [Next]_vars PROVE AuthInv'
  OBVIOUS
<1> USE DEF IInv, TokenInv, TypeOK, OwnerInside, AuthInv, AuthorizationSticks, Continues,
        NewestUnsaved, azure, local, history, Put, Goto, Hold, Pending, Inside, NoToken
<1>1. CASE Age
  BY <1>1 DEF Age
<1>2. CASE Expire
  BY <1>2 DEF Expire
<1>3. ASSUME NEW c \in DeviceCode, Initiate(c) \/ Operate(c) PROVE AuthInv'
  BY <1>3 DEF Initiate, Operate, CodeStep
<1>4. ASSUME NEW r \in Request, Load(r) PROVE AuthInv'
  BY <1>4 DEF Load, End, Await
<1>5. ASSUME NEW r \in Request, Acquire(r) PROVE AuthInv'
  BY <1>5 DEF Acquire
<1>6. ASSUME NEW r \in Request, Recheck(r) PROVE AuthInv'
  BY <1>6 DEF Recheck
<1>7. ASSUME NEW r \in Request, Current(r) PROVE AuthInv'
  BY <1>7 DEF Current, Raise
<1>8. ASSUME NEW r \in Request, Refresh(r) PROVE AuthInv'
  BY <1>8 DEF Refresh, Issue
<1>9. ASSUME NEW r \in Request, RefreshFails(r) PROVE AuthInv'
  BY <1>9 DEF RefreshFails, Raise
<1>10. ASSUME NEW r \in Request, Store(r) PROVE AuthInv'
  BY <1>10 DEF Store, Persist
<1>11. ASSUME NEW r \in Request, Leave(r) PROVE AuthInv'
  BY <1>11 DEF Leave, Return, End
<1>12. ASSUME NEW r \in Request, Reread(r) PROVE AuthInv'
  BY <1>12 DEF Reread, Refused, Await, End
<1>13. ASSUME NEW r \in Request, Post(r) PROVE AuthInv'
  BY <1>13 DEF Post, Unauthorized, Retry, End
<1>14. ASSUME NEW r \in Request, Save(r) PROVE AuthInv'
  BY <1>14 DEF Save, End, Persist
<1>15. ASSUME NEW r \in Request, Revoke(r) PROVE AuthInv'
  BY <1>15 DEF Revoke, End
<1>16. ASSUME NEW r \in Request, Crash(r) PROVE AuthInv'
  BY <1>16 DEF Crash, End
<1>17. ASSUME NEW r \in Request, NEW c \in DeviceCode, Poll(r, c) PROVE AuthInv'
  BY <1>17 DEF Poll, Issue, End, Await
<1>18. CASE UNCHANGED vars
  BY <1>18 DEF vars
<1> QED
  BY <1>1, <1>2, <1>3, <1>4, <1>5, <1>6, <1>7, <1>8, <1>9, <1>10, <1>11, <1>12, <1>13,
     <1>14, <1>15, <1>16, <1>17, <1>18 DEF Next, Begin, Step

-------------------------------------------------------------------------------
(* The inductive invariant holds in every reachable state.                 *)
THEOREM Invariance == Spec => []IInv
<1>1. IInv /\ [Next]_vars => IInv'
  BY TokenStep, OwnerStep, AuthStep DEF IInv, TokenInv
<1> QED
  BY InitInv, <1>1, PTL DEF Spec

(* Every reachable state of the connection has the declared types.         *)
THEOREM TypeCorrectness == Spec => []TypeOK
<1>1. IInv => TypeOK
  BY DEF IInv, TokenInv
<1> QED
  BY <1>1, Invariance, PTL

(* Only one request at a time refreshes, forced or not, unless a lease     *)
(* lapses.                                                                 *)
THEOREM RefreshersExclude == Spec => []OneRefresher
<1>1. IInv => OneRefresher
  BY DEF IInv, OwnerInside, OneRefresher
<1> QED
  BY <1>1, Invariance, PTL

(* Under every fault, Graph is only called with persisted token sets.      *)
THEOREM CallsArePersisted == Spec => []CallsUsePersisted
<1>1. IInv => CallsUsePersisted
  BY DEF IInv, TokenInv, Sound, Fit, CallsUsePersisted
<1> QED
  BY <1>1, Invariance, PTL

(* Under every fault, the retry carries a set issued after the 401.        *)
THEOREM RetriesAreFresh == Spec => []RetryIsFresh
<1>1. IInv => RetryIsFresh
  BY DEF IInv, TokenInv, Sound, Fit, RetryIsFresh
<1> QED
  BY <1>1, Invariance, PTL

(* Under every fault, what is stored belongs to the last authorization     *)
(* that was stored, unless a refresh was under way then.                   *)
THEOREM AuthorizationIsKept == Spec => []AuthorizationSticks
<1>1. IInv => AuthorizationSticks
  BY DEF IInv, AuthInv
<1> QED
  BY <1>1, Invariance, PTL

(* No refresh stores a set that is older than the stored one, until a      *)
(* lease lapses or a poll crosses a refresh.                               *)
THEOREM StoresNothingOlder == Spec => NoOlderSet
<1>1. IInv /\ [Next]_vars =>
        [~lapsed' /\ ~crossed' /\ stored' # NoToken /\ stored' < stored
           => \E r \in Request : Save(r)]_vars
  <2> SUFFICES ASSUME IInv, [Next]_vars, ~lapsed', ~crossed', stored' # NoToken, stored' < stored
               PROVE  \E r \in Request : Save(r)
    OBVIOUS
  <2> USE DEF azure, history
  <2>0. stored \in Nat
    BY DEF IInv, TokenInv, TypeOK, NoToken
  <2>1. CASE Age \/ Expire \/ (\E c \in DeviceCode : Initiate(c) \/ Operate(c)) \/ UNCHANGED vars
    BY <2>0, <2>1 DEF Age, Expire, Initiate, Operate, CodeStep, vars
  <2>2. ASSUME NEW r \in Request,
               \/ Load(r) \/ Acquire(r) \/ Recheck(r) \/ Current(r) \/ Refresh(r)
               \/ RefreshFails(r) \/ Leave(r) \/ Reread(r) \/ Post(r) \/ Crash(r)
               \/ \E c \in DeviceCode : Poll(r, c)
        PROVE  FALSE
    BY <2>0, <2>2 DEF Load, Acquire, Recheck, Current, Refresh, RefreshFails, Leave, Reread,
                      Post, Crash, Poll
  <2>3. ASSUME NEW r \in Request, Store(r) PROVE FALSE
    <3>1. ~lapsed /\ ~crossed /\ pc[r] = "store" /\ stored' = token[r] /\ token[r] \in Nat
      BY <2>3 DEF Store, IInv, TokenInv, TypeOK
    <3> QED
      BY <2>0, <3>1 DEF IInv, AuthInv, NewestUnsaved
  <2>4. ASSUME NEW r \in Request, Revoke(r) PROVE FALSE
    BY <2>4 DEF Revoke
  <2> QED
    BY <2>1, <2>2, <2>3, <2>4 DEF Next, Begin, Step
<1> QED
  BY <1>1, Invariance, PTL DEF Spec, NoOlderSet

(* Under every fault, a deleted connection stays deleted until a poll.     *)
THEOREM DeletionsSettle == Spec => DeletionSettles
<1>1. TypeOK /\ [Next]_vars => [Gone => Gone' \/ \E r \in Request : pc'[r] = "save"]_vars
  <2> SUFFICES ASSUME TypeOK, [Next]_vars, Gone
               PROVE  Gone' \/ \E r \in Request : pc'[r] = "save"
    OBVIOUS
  <2> USE DEF TypeOK, Gone, Usable, Goto, Hold, Put, azure, local
  <2>1. CASE Age \/ Expire \/ (\E c \in DeviceCode : Initiate(c) \/ Operate(c)) \/ UNCHANGED vars
    BY <2>1 DEF Age, Expire, Initiate, Operate, CodeStep, vars
  <2>2. ASSUME NEW r \in Request, Load(r) \/ Revoke(r) \/ Crash(r) PROVE Gone'
    BY <2>2 DEF Load, Revoke, Crash, End, Await
  <2>3. ASSUME NEW r \in Request, Acquire(r) PROVE Gone'
    <3>1. pc' = [pc EXCEPT ![r] = pc'[r]] /\ pc'[r] \in {"current", "recheck", "sleep"}
      BY <2>3 DEF Acquire
    <3> QED
      BY <2>3, <3>1 DEF Acquire
  <2>4. ASSUME NEW r \in Request, Recheck(r) \/ Current(r) PROVE Gone'
    BY <2>4 DEF Recheck, Current, Raise
  <2>5. ASSUME NEW r \in Request, Leave(r) \/ Reread(r) \/ Post(r) PROVE Gone'
    BY <2>5 DEF Leave, Return, Reread, Refused, Post, Retry, End, Await
  <2>6. ASSUME NEW r \in Request, Refresh(r) \/ RefreshFails(r) \/ Store(r) \/ Save(r) PROVE FALSE
    BY <2>6 DEF Refresh, RefreshFails, Store, Save
  <2>7. ASSUME NEW r \in Request, NEW c \in DeviceCode, Poll(r, c)
        PROVE  Gone' \/ pc'[r] = "save"
    BY <2>7 DEF Poll, End, Await
  <2> QED
    BY <2>1, <2>2, <2>3, <2>4, <2>5, <2>6, <2>7 DEF Next, Begin, Step
<1> QED
  BY <1>1, TypeCorrectness, PTL DEF Spec, DeletionSettles

(* The manager and its lock behave as a lease, whatever lapses or dies.    *)
THEOREM FollowsLease == Spec => LeaseContract
<1> DEFINE body == {r \in Request : pc[r] \in Inside}
<1>1. Init => Lease!Init
  BY DEF Init, Lease!Init, Inside
<1>2. TypeOK /\ [Next]_vars => [Lease!Next]_<<lock, body>>
  <2> SUFFICES ASSUME TypeOK, [Next]_vars PROVE [Lease!Next]_<<lock, body>>
    OBVIOUS
  <2> USE DEF TypeOK, Inside, Goto, Put
  <2>1. CASE Age \/ (\E c \in DeviceCode : Initiate(c) \/ Operate(c)) \/ UNCHANGED vars
    BY <2>1 DEF Age, Initiate, Operate, CodeStep, local, vars
  <2>2. CASE Expire
    BY <2>2 DEF Expire, local, Lease!Next, Lease!Expire
  <2>3. ASSUME NEW r \in Request, Load(r) \/ Reread(r) \/ Post(r) \/ Save(r) \/ Revoke(r)
        PROVE  UNCHANGED <<lock, body>>
    BY <2>3 DEF Load, Reread, Refused, Post, Retry, Save, Revoke, End, Await
  <2>4. ASSUME NEW r \in Request, NEW c \in DeviceCode, Poll(r, c) PROVE UNCHANGED <<lock, body>>
    BY <2>4 DEF Poll, End, Await
  <2>5. ASSUME NEW r \in Request, Acquire(r) PROVE [Lease!Next]_<<lock, body>>
    <3>1. CASE lock = NoOwner
      <4>1. pc' = [pc EXCEPT ![r] = pc'[r]] /\ pc'[r] \in {"current", "recheck"} /\ lock' = r
        BY <2>5, <3>1 DEF Acquire
      <4>2. r \notin body /\ body' = body \cup {r}
        BY <2>5, <4>1 DEF Acquire
      <4> QED
        BY <3>1, <4>1, <4>2 DEF Lease!Next, Lease!Enter
    <3>2. CASE lock # NoOwner
      BY <2>5, <3>2 DEF Acquire
    <3> QED
      BY <3>1, <3>2
  <2>6. ASSUME NEW r \in Request,
               Recheck(r) \/ Current(r) \/ Refresh(r) \/ RefreshFails(r) \/ Store(r)
        PROVE  UNCHANGED <<lock, body>>
    BY <2>6 DEF Recheck, Current, Refresh, RefreshFails, Raise, Store
  <2>7. ASSUME NEW r \in Request, Leave(r) PROVE [Lease!Next]_<<lock, body>>
    <3>1. r \in body /\ body' = body \ {r}
      BY <2>7 DEF Leave, Return, End
    <3> QED
      BY <2>7, <3>1 DEF Leave, Lease!Next, Lease!Leave, Lease!Abandon
  <2>8. ASSUME NEW r \in Request, Crash(r) PROVE [Lease!Next]_<<lock, body>>
    <3>1. body' = body \ {r} /\ UNCHANGED lock
      BY <2>8 DEF Crash, End
    <3> QED
      BY <3>1 DEF Lease!Next, Lease!Abandon
  <2> QED
    BY <2>1, <2>2, <2>3, <2>4, <2>5, <2>6, <2>7, <2>8 DEF Next, Begin, Step
<1> QED
  BY <1>1, <1>2, TypeCorrectness, PTL DEF Spec, LeaseContract, Lease!Spec, Lease!vars

-------------------------------------------------------------------------------
(* The set of the request was issued and is not in the store yet.          *)
Unsaved(r) == pc[r] \in {"store", "save"}

(* No two requests hold the same unsaved set.                              *)
AllApart ==
  \A r, s \in Request : Unsaved(r) /\ Unsaved(s) /\ token[r] = token[s] => r = s

(* The sets that were issued and wait to be stored.                        *)
Waiting == {token[r] : r \in {s \in Request : pc[s] \in {"store", "save"}}}

(* A step of one request changes what waits by the set of that request.    *)
LEMMA WaitingStep ==
  ASSUME TypeOK, AllApart, NEW r \in Request,
         \A u \in Request \ {r} : pc'[u] = pc[u] /\ token'[u] = token[u],
         Unsaved(r)' => token'[r] \notin 0..issued \/ (Unsaved(r) /\ token'[r] = token[r])
  PROVE  /\ AllApart'
         /\ ~Unsaved(r) /\ ~Unsaved(r)' => Waiting' = Waiting
         /\ Unsaved(r) /\ Unsaved(r)' /\ token'[r] = token[r] => Waiting' = Waiting
         /\ Unsaved(r) /\ ~Unsaved(r)' => token[r] \in Waiting /\ Waiting' = Waiting \ {token[r]}
         /\ ~Unsaved(r) /\ Unsaved(r)' => Waiting' = Waiting \cup {token'[r]}
<1>1. Waiting = {token[u] : u \in {s \in Request : Unsaved(s)}}
      /\ Waiting' = {token'[u] : u \in {s \in Request : Unsaved(s)'}}
  BY DEF Waiting, Unsaved
<1>2. \A u \in Request \ {r} : (Unsaved(u)' <=> Unsaved(u)) /\ token'[u] = token[u]
  BY DEF Unsaved
<1>3. AllApart'
  <2>1. \A u \in Request : token[u] \in 0..issued
    BY DEF TypeOK
  <2> QED
    BY <1>2, <2>1 DEF AllApart
<1>4. CASE ~Unsaved(r) /\ ~Unsaved(r)'
  BY <1>1, <1>2, <1>3, <1>4
<1>5. CASE Unsaved(r) /\ Unsaved(r)'
  BY <1>1, <1>2, <1>3, <1>5
<1>6. CASE Unsaved(r) /\ ~Unsaved(r)'
  <2>1. \A u \in Request \ {r} : Unsaved(u) => token[u] # token[r]
    BY <1>6 DEF AllApart
  <2> QED
    BY <1>1, <1>2, <1>3, <1>6, <2>1
<1>7. CASE ~Unsaved(r) /\ Unsaved(r)'
  BY <1>1, <1>2, <1>3, <1>7
<1> QED
  BY <1>4, <1>5, <1>6, <1>7

LEMMA StoreStep ==
  ASSUME TypeOK, AllApart, [Next]_vars
  PROVE  AllApart' /\ [Contract!Next]_<<stored, issued, Waiting>>
<1> USE DEF azure, local, Put, Goto, Hold, NoToken, Contract!Next, Contract!NoToken
<1> DEFINE others(r) == \A u \in Request \ {r} : pc'[u] = pc[u] /\ token'[u] = token[u]
<1>1. CASE Age \/ Expire \/ (\E c \in DeviceCode : Initiate(c) \/ Operate(c)) \/ UNCHANGED vars
  BY <1>1 DEF Age, Expire, Initiate, Operate, CodeStep, vars, Waiting, AllApart, Unsaved
<1>2. ASSUME NEW r \in Request,
             \/ Load(r) \/ Acquire(r) \/ Recheck(r) \/ Current(r) \/ RefreshFails(r)
             \/ Leave(r) \/ Reread(r) \/ Post(r) \/ Revoke(r)
      PROVE  AllApart' /\ [Contract!Next]_<<stored, issued, Waiting>>
  <2>1. ~Unsaved(r) /\ issued' = issued /\ (stored' = stored \/ stored' = NoToken)
    BY <1>2 DEF Load, Acquire, Recheck, Current, RefreshFails, Leave, Reread, Post, Revoke, Unsaved
  <2>2. others(r)
    BY <1>2 DEF TypeOK, Load, Acquire, Recheck, Current, RefreshFails, Raise, Leave, Return, Reread,
                Refused, Post, Retry, Revoke, End, Await
  <2>3. ~Unsaved(r)'
    <3>1. CASE Load(r) \/ Recheck(r) \/ Current(r) \/ RefreshFails(r) \/ Revoke(r)
      BY <3>1 DEF TypeOK, Load, Recheck, Current, RefreshFails, Raise, Revoke, End, Await, Unsaved
    <3>2. CASE Acquire(r)
      BY <3>2 DEF TypeOK, Acquire, Unsaved
    <3>3. CASE Leave(r) \/ Reread(r) \/ Post(r)
      BY <3>3 DEF TypeOK, Leave, Return, Reread, Refused, Post, Retry, End, Await, Unsaved
    <3> QED
      BY <1>2, <3>1, <3>2, <3>3
  <2>4. AllApart' /\ Waiting' = Waiting
    BY <2>1, <2>2, <2>3, WaitingStep
  <2> QED
    BY <2>1, <2>4 DEF Contract!Delete, Waiting
<1>3. ASSUME NEW r \in Request, Refresh(r)
      PROVE  AllApart' /\ [Contract!Next]_<<stored, issued, Waiting>>
  <2>1. /\ ~Unsaved(r) /\ Unsaved(r)' /\ token'[r] = issued' /\ issued' = issued + 1
        /\ stored' = stored /\ others(r)
    BY <1>3 DEF Refresh, Issue, TypeOK, Unsaved
  <2>2. issued' \notin 0..issued
    BY <2>1 DEF TypeOK
  <2>3. AllApart' /\ Waiting' = Waiting \cup {issued'}
    BY <2>1, <2>2, WaitingStep
  <2> QED
    BY <2>1, <2>3 DEF Contract!Issue, Waiting
<1>4. ASSUME NEW r \in Request, NEW c \in DeviceCode, Poll(r, c)
      PROVE  AllApart' /\ [Contract!Next]_<<stored, issued, Waiting>>
  <2>1. /\ ~Unsaved(r) /\ stored' = stored /\ others(r)
        /\ \/ issued' = issued + 1 /\ pc'[r] = "save" /\ token'[r] = issued'
           \/ issued' = issued + 1 /\ pc'[r] = "idle"
           \/ issued' = issued /\ pc'[r] = "idle"
    BY <1>4 DEF Poll, Issue, End, Await, TypeOK, Unsaved
  <2>2. CASE pc'[r] = "save" /\ issued' = issued + 1 /\ token'[r] = issued'
    <3>1. issued' \notin 0..issued
      BY <2>2 DEF TypeOK
    <3>2. AllApart' /\ Waiting' = Waiting \cup {issued'}
      BY <2>1, <2>2, <3>1, WaitingStep DEF Unsaved
    <3> QED
      BY <2>1, <2>2, <3>2 DEF Contract!Issue, Waiting
  <2>3. CASE pc'[r] = "idle"
    <3>1. AllApart' /\ Waiting' = Waiting
      BY <2>1, <2>3, WaitingStep DEF Unsaved
    <3> QED
      BY <2>1, <3>1 DEF Contract!Issue, Waiting
  <2> QED
    BY <2>1, <2>2, <2>3
<1>5. ASSUME NEW r \in Request, Store(r) \/ Save(r) \/ Crash(r)
      PROVE  AllApart' /\ [Contract!Next]_<<stored, issued, Waiting>>
  <2>1. /\ ~Unsaved(r)' /\ issued' = issued /\ others(r)
        /\ \/ Unsaved(r) /\ stored' = token[r]
           \/ stored' = stored
    BY <1>5 DEF Store, Save, Crash, End, TypeOK, Unsaved
  <2>2. AllApart' /\ (~Unsaved(r) => Waiting' = Waiting)
        /\ (Unsaved(r) => token[r] \in Waiting /\ Waiting' = Waiting \ {token[r]})
    BY <2>1, WaitingStep
  <2> QED
    BY <2>1, <2>2 DEF Contract!Put, Contract!Lose, Waiting
<1> QED
  BY <1>1, <1>2, <1>3, <1>4, <1>5 DEF Next, Begin, Step

(* Under every fault, a set enters the store once, and only after it was   *)
(* issued: sends, polls and deletions follow ConnectionStore.              *)
THEOREM FollowsStore == Spec => StoreContract
<1>1. Init => Contract!Init /\ AllApart
  BY DEF Init, Contract!Init, NoToken, Contract!NoToken, AllApart, Unsaved
<1>2. TypeOK /\ AllApart /\ [Next]_vars => AllApart' /\ [Contract!Next]_<<stored, issued, Waiting>>
  BY StoreStep
<1> QED
  BY <1>1, <1>2, TypeCorrectness, PTL DEF Spec, StoreContract, Contract!Spec, Contract!vars, Waiting

-------------------------------------------------------------------------------
(* The steps that a request can still take at await p, with n attempts at  *)
(* the lock left.                                                          *)
StepsLeftAt(p, n) ==
  CASE p = "acquire" -> 2 * n + 6
    [] p = "sleep" -> 2 * n + 5
    [] p = "recheck" -> 6
    [] p = "current" -> 5
    [] p = "refresh" -> 4
    [] p = "store" -> 3
    [] p = "leave" -> 2
    [] p \in {"post", "save"} -> 1
    [] p = "idle" -> 0

(* Those of the request in its present attempt...                          *)
AttemptStepsLeft(r) == StepsLeftAt(pc[r], Retries - tries[r])

(* ... and with the forced attempt after a 401.                            *)
StepsLeft(r) ==
  AttemptStepsLeft(r) +
    IF pc[r] \notin {"idle", "save"} /\ attempt[r] = 0 THEN 2 * Retries + 6 ELSE 0

(* Every step of a request brings its answer nearer; nothing that happens  *)
(* elsewhere puts it off, and only a new request starts the count again.   *)
WorkIsBounded ==
  [][\A r \in Request :
       /\ Step(r) => StepsLeft(r)' < StepsLeft(r)
       /\ StepsLeft(r)' > StepsLeft(r) => pc[r] = "idle"]_vars

(* It has none left exactly when it is not under way.                      *)
StepsBound ==
  \A r \in Request : StepsLeft(r) \in 0..(4 * Retries + 12) /\ (StepsLeft(r) = 0 <=> pc[r] = "idle")

(* The counts are natural numbers.                                         *)
LEMMA AttemptStepsCount ==
  ASSUME NEW p \in {"idle"} \cup Pending, NEW n \in 0..Retries
  PROVE  StepsLeftAt(p, n) \in 0..(2 * Retries + 6) /\ (StepsLeftAt(p, n) = 0 <=> p = "idle")
<1>1. p # "idle" => StepsLeftAt(p, n) \in 1..(2 * Retries + 6)
  BY RetriesAssumption DEF StepsLeftAt, Pending, Inside
<1>2. p = "idle" => StepsLeftAt(p, n) = 0
  BY DEF StepsLeftAt
<1>3. 0 \in 0..(2 * Retries + 6) /\ 0 \notin 1..(2 * Retries + 6)
      /\ 1..(2 * Retries + 6) \subseteq 0..(2 * Retries + 6)
  BY RetriesAssumption
<1> QED
  BY <1>1, <1>2, <1>3

LEMMA StepsCount ==
  ASSUME TypeOK
  PROVE  StepsBound
<1> SUFFICES ASSUME NEW r \in Request
             PROVE  StepsLeft(r) \in 0..(4 * Retries + 12) /\ (StepsLeft(r) = 0 <=> pc[r] = "idle")
  BY DEF StepsBound
<1>1. Retries \in Nat /\ Retries - tries[r] \in 0..Retries /\ pc[r] \in {"idle"} \cup Pending
  BY RetriesAssumption DEF TypeOK
<1>2. AttemptStepsLeft(r) \in 0..(2 * Retries + 6) /\ (AttemptStepsLeft(r) = 0 <=> pc[r] = "idle")
  BY <1>1, AttemptStepsCount DEF AttemptStepsLeft
<1> QED
  BY <1>1, <1>2 DEF StepsLeft

(* A step of the request, in the same attempt or at its end.               *)
LEMMA RequestWork ==
  ASSUME TokenInv, TypeOK', NEW r \in Request, Step(r)
  PROVE  StepsLeft(r)' < StepsLeft(r)
<1> USE DEF Put, Goto, StepsLeft
<1>0. /\ Retries \in Nat \ {0} /\ pc \in [Request -> {"idle"} \cup Pending]
      /\ tries \in [Request -> 0..Retries-1] /\ attempt \in [Request -> {0, 1}]
  BY RetriesAssumption DEF TokenInv, TypeOK
<1>1. /\ AttemptStepsLeft(r) \in 0..(2 * Retries + 6)
      /\ AttemptStepsLeft(r)' \in 0..(2 * Retries + 6)
  <2>1. /\ pc[r] \in {"idle"} \cup Pending /\ Retries - tries[r] \in 0..Retries
        /\ pc'[r] \in {"idle"} \cup Pending /\ Retries - tries'[r] \in 0..Retries
    BY <1>0 DEF TypeOK
  <2> QED
    BY <2>1, AttemptStepsCount DEF AttemptStepsLeft
<1>2. ASSUME pc[r] \notin {"idle", "save"}, AttemptStepsLeft(r)' < AttemptStepsLeft(r),
             pc'[r] = "idle" \/ (pc'[r] # "save" /\ attempt'[r] = attempt[r])
      PROVE  StepsLeft(r)' < StepsLeft(r)
  BY <1>0, <1>1, <1>2
<1>3. CASE Acquire(r)
  <2>1. /\ pc[r] = "acquire" /\ pc'[r] \in {"recheck", "current", "sleep"}
        /\ tries' = tries /\ attempt' = attempt
    BY <1>0, <1>3 DEF Acquire
  <2>2. AttemptStepsLeft(r)' < AttemptStepsLeft(r)
    BY <1>0, <2>1 DEF AttemptStepsLeft, StepsLeftAt
  <2> QED
    BY <1>2, <2>1, <2>2
<1>4. CASE Recheck(r) \/ Current(r) \/ Refresh(r) \/ RefreshFails(r) \/ Store(r)
  <2>1. /\ \/ pc[r] = "recheck" /\ pc'[r] \in {"leave", "current"}
           \/ pc[r] = "current" /\ pc'[r] \in {"leave", "refresh"}
           \/ pc[r] = "refresh" /\ pc'[r] \in {"leave", "store"}
           \/ pc[r] = "store" /\ pc'[r] = "leave"
        /\ attempt' = attempt
    BY <1>0, <1>4 DEF Recheck, Current, Refresh, RefreshFails, Raise, Store
  <2>2. AttemptStepsLeft(r)' < AttemptStepsLeft(r)
    BY <2>1 DEF AttemptStepsLeft, StepsLeftAt
  <2> QED
    BY <1>2, <2>1, <2>2
<1>5. CASE Leave(r)
  <2>1. /\ pc[r] = "leave"
        /\ pc'[r] = "idle" \/ (pc'[r] = "post" /\ attempt'[r] = attempt[r])
    BY <1>0, <1>5 DEF Leave, Return, End
  <2>2. AttemptStepsLeft(r)' < AttemptStepsLeft(r)
    BY <2>1 DEF AttemptStepsLeft, StepsLeftAt
  <2> QED
    BY <1>2, <2>1, <2>2
<1>6. CASE Reread(r)
  <2>1. /\ pc[r] = "sleep"
        /\ \/ pc'[r] = "idle"
           \/ pc'[r] = "post" /\ attempt'[r] = attempt[r]
           \/ pc'[r] = "acquire" /\ attempt'[r] = attempt[r] /\ tries'[r] = tries[r] + 1
    BY <1>0, <1>6 DEF Reread, Refused, Await, End
  <2>2. AttemptStepsLeft(r)' < AttemptStepsLeft(r)
    BY <1>0, <2>1 DEF AttemptStepsLeft, StepsLeftAt
  <2> QED
    BY <1>2, <2>1, <2>2
<1>7. CASE Post(r) /\ pc'[r] = "idle"
  <2>1. pc[r] = "post"
    BY <1>7 DEF Post
  <2>2. AttemptStepsLeft(r)' < AttemptStepsLeft(r)
    BY <1>7, <2>1 DEF AttemptStepsLeft, StepsLeftAt
  <2> QED
    BY <1>2, <1>7, <2>1, <2>2
<1>8. CASE Post(r) /\ pc'[r] # "idle"
  <2>1. /\ pc[r] = "post" /\ pc'[r] = "acquire" /\ tries'[r] = 0
        /\ attempt[r] = 0 /\ attempt'[r] = 1
    BY <1>0, <1>8 DEF Post, Retry, Forced, End
  <2>2. AttemptStepsLeft(r) = 1 /\ AttemptStepsLeft(r)' = 2 * Retries + 6
    BY <1>0, <2>1 DEF AttemptStepsLeft, StepsLeftAt
  <2> QED
    BY <1>0, <2>1, <2>2
<1>9. CASE Save(r)
  <2>1. pc[r] = "save" /\ pc'[r] = "idle"
    BY <1>0, <1>9 DEF Save, End
  <2> QED
    BY <2>1 DEF AttemptStepsLeft, StepsLeftAt
<1> QED
  BY <1>3, <1>4, <1>5, <1>6, <1>7, <1>8, <1>9 DEF Step

(* A request that a step leaves alone has as many steps left as before.    *)
LEMMA Elsewhere ==
  ASSUME TypeOK, NEW r \in Request, NEW u \in Request \ {r}, Begin(r) \/ Step(r) \/ Crash(r)
  PROVE  pc'[u] = pc[u] /\ tries'[u] = tries[u] /\ attempt'[u] = attempt[u]
<1> USE DEF TypeOK, azure, local, Put, Goto, End, Await
<1>1. CASE Begin(r) \/ Crash(r)
  BY <1>1 DEF Begin, Load, Revoke, Poll, Crash
<1>2. CASE Step(r)
  BY <1>2 DEF Step, Acquire, Recheck, Current, Refresh, RefreshFails, Raise, Store, Leave, Return,
              Reread, Refused, Post, Retry, Save
<1> QED
  BY <1>1, <1>2

(* A send is answered after 4 * Retries + 12 steps of its own at most, and *)
(* a poll after one, whatever others do: what is left of Answered is that  *)
(* a handler whose await is answered is resumed.                           *)
THEOREM RequestsAreBounded == Spec => []StepsBound /\ WorkIsBounded
<1>1. IInv => StepsBound
  BY StepsCount DEF IInv, TokenInv
<1>2. IInv /\ IInv' /\ StepsBound /\ StepsBound' /\ [Next]_vars =>
        [\A r \in Request :
           /\ Step(r) => StepsLeft(r)' < StepsLeft(r)
           /\ StepsLeft(r)' > StepsLeft(r) => pc[r] = "idle"]_vars
  <2> SUFFICES ASSUME IInv, IInv', StepsBound, StepsBound', [Next]_vars, NEW u \in Request
               PROVE  /\ Step(u) => StepsLeft(u)' < StepsLeft(u)
                      /\ StepsLeft(u)' > StepsLeft(u) => pc[u] = "idle"
    OBVIOUS
  <2>0. TypeOK /\ TypeOK' /\ TokenInv
    BY DEF IInv, TokenInv
  <2>1. StepsLeft(u) \in Nat /\ StepsLeft(u)' \in Nat
    BY RetriesAssumption DEF StepsBound
  <2>2. Step(u) => StepsLeft(u)' < StepsLeft(u)
    BY <2>0, RequestWork
  <2>3. ASSUME pc'[u] = pc[u], tries'[u] = tries[u], attempt'[u] = attempt[u]
        PROVE  StepsLeft(u)' = StepsLeft(u)
    BY <2>3 DEF StepsLeft, AttemptStepsLeft
  <2>4. CASE Age \/ Expire \/ (\E c \in DeviceCode : Initiate(c) \/ Operate(c)) \/ UNCHANGED vars
    BY <2>1, <2>2, <2>3, <2>4 DEF Age, Expire, Initiate, Operate, CodeStep, vars, local
  <2>5. ASSUME NEW r \in Request, Begin(r) \/ Step(r) \/ Crash(r)
        PROVE  StepsLeft(u)' > StepsLeft(u) => pc[u] = "idle"
    <3>1. CASE r # u
      BY <2>0, <2>1, <2>3, <2>5, <3>1, Elsewhere
    <3>2. CASE Begin(u)
      BY <3>2 DEF Begin, Load, Revoke, Poll
    <3>3. CASE Step(u)
      BY <2>1, <2>2, <3>3
    <3>4. CASE Crash(u)
      <4>1. pc'[u] = "idle"
        BY <2>0, <3>4 DEF Crash, End, Goto, Put, TypeOK
      <4>2. StepsLeft(u)' = 0
        BY <4>1 DEF StepsLeft, AttemptStepsLeft, StepsLeftAt
      <4> QED
        BY <2>1, <4>2
    <3> QED
      BY <2>5, <3>1, <3>2, <3>3, <3>4
  <2> QED
    BY <2>1, <2>2, <2>4, <2>5 DEF Next
<1> QED
  BY <1>1, <1>2, Invariance, PTL DEF Spec, WorkIsBounded
===============================================================================
