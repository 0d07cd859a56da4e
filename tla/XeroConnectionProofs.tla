------------------------- MODULE XeroConnectionProofs -------------------------
(***************************************************************************)
(* Proofs about XeroConnection, for any number of requests, attempts, OAuth*)
(* states and token sets.                                                  *)
(*                                                                         *)
(* JobInv holds under every fault: a set that is sent to Xero was stored   *)
(* and carries a tenant id, and a set that waits to be stored is nobody    *)
(* else's.  ChainInv adds what the lock gives as long as no lease lapses,  *)
(* no task dies, no reply is lost and no refresh token is withdrawn: only  *)
(* the owner of the lock spends one, and never the one of a set that waits.*)
(* SingleChain is what is left of it, under every fault, while nobody      *)
(* authorizes.  StepsLeft counts the steps that a request still has.       *)
(***************************************************************************)
EXTENDS XeroConnection, TLAPS

(* The set of the request was issued and is not in the store yet.          *)
Unsaved(r) == pc[r] = "store" \/ at[r] = "save"

(* A request that is under way.                                            *)
Sound(r) ==
  /\ at[r] # "token" => pc[r] \in {"idle", "done"}
  /\ at[r] \in {"idle", "exchange", "save", "revoke", "delete"} => pc[r] = "idle"
  /\ Unsaved(r) => token[r] \in (1..issued) \ persisted
  /\ pc[r] = "refresh" => token[r] \in persisted
  /\ pc[r] \in {"leave", "done"} /\ outcome[r] = "ok" => token[r] \in persisted
  /\ at[r] \in {"revoke", "call"} => token[r] \in persisted
  /\ at[r] = "call" => token[r] \in tenant
  /\ at[r] = "clear" => attempt[r] = 0

Apart(r, s) == Unsaved(r) /\ Unsaved(s) /\ token[r] = token[s] => r = s

JobInv == CTypeOK /\ (\A r \in Request : Sound(r)) /\ (\A r, s \in Request : Apart(r, s))

(* A key cannot leave a request that is between acquisition and release.   *)
OwnerInside == NoLapse => \A r \in Request : pc[r] \in Inside => lock = r

(* The refresh tokens that are in use or wait are not spent.               *)
Unspent ==
  Reliable =>
    /\ \A r \in Request : pc[r] = "refresh" \/ Unsaved(r) => token[r] \in live
    /\ stored # NoToken => stored \in live \/ \E r \in Request : pc[r] = "store"

ChainInv == OwnerInside /\ Unspent

IInv == JobInv /\ ChainInv

(* The steps of get_valid_token.                                           *)
Managed(r) == Load(r) \/ Resume(r) \/ RefreshFails(r)

LEMMA InitInv == CInit => IInv
<1> SUFFICES ASSUME CInit PROVE IInv
  OBVIOUS
<1>1. TypeOK
  <2>1. stored \in {0, 1} /\ issued = stored /\ 0 \in 0..issued /\ 0 \in 0..Retries
    BY RetriesAssumption DEF CInit, TMInit, NoToken
  <2>2. live \subseteq 1..issued
    BY <2>1 DEF CInit, TMInit, NoToken
  <2> QED
    BY <2>1, <2>2, NoOwnerAssumption DEF CInit, TMInit, TypeOK, NoToken
<1>2. CTypeOK
  <2>1. stored \in {0, 1} /\ issued = stored
    BY DEF CInit, TMInit, NoToken
  <2>2. persisted \subseteq 1..issued /\ tenant \subseteq 1..issued /\ stored \in persisted \cup {NoToken}
    BY <2>1 DEF CInit, NoToken
  <2> QED
    BY <1>1, <2>2 DEF CInit, CTypeOK
<1> QED
  BY <1>2 DEF CInit, TMInit, IInv, JobInv, Sound, Apart, Unsaved, ChainInv, OwnerInside, Unspent, Inside

(* A rotation issues a set that nobody has seen.                           *)
LEMMA Rotates ==
  ASSUME TypeOK, NEW t, Rotate(t)
  PROVE  /\ issued' = issued + 1 /\ issued' \in Nat /\ issued' \in 1..issued' /\ issued' \in 0..issued'
         /\ 0..issued \subseteq 0..issued' /\ 1..issued \subseteq 1..issued'
         /\ live' \subseteq 1..issued' /\ stale' = stale /\ issued' \notin 0..issued
<1>1. issued' = issued + 1 /\ issued \in Nat /\ live' = (live \ {t}) \cup {issued'} /\ stale' = stale
  BY DEF TypeOK, Rotate
<1>2. /\ 0..issued \subseteq 0..issued' /\ 1..issued \subseteq 1..issued'
      /\ issued' \in 1..issued' /\ issued' \in 0..issued' /\ issued' \notin 0..issued
  BY <1>1
<1>3. live' \subseteq 1..issued'
  BY <1>1, <1>2 DEF TypeOK
<1> QED
  BY <1>1, <1>2, <1>3

LEMMA ManagerTypes ==
  ASSUME TypeOK, NEW r \in Request, Managed(r)
  PROVE  /\ TypeOK' /\ issued' >= issued
         /\ \A u \in Request \ {r} : /\ pc'[u] = pc[u] /\ token'[u] = token[u]
                                     /\ outcome'[u] = outcome[u]
<1> USE NoOwnerAssumption, RetriesAssumption
    DEF TypeOK, Inside, Outcomes, NoToken, Usable, Goto, Hold, End, Suffer, provider, local
<1>1. CASE Load(r)
  BY <1>1 DEF Load
<1>2. CASE Acquire(r)
  BY <1>2 DEF Acquire
<1>3. CASE Recheck(r)
  BY <1>3 DEF Recheck
<1>4. CASE Refresh(r)
  <2>1. CASE Rotate(token[r]) /\ Hold(r, issued') /\ Goto(r, "store") /\ UNCHANGED outcome
    BY <1>4, <2>1, Rotates DEF Refresh
  <2>2. CASE End(r, "leave", "expired") /\ UNCHANGED <<provider, token>>
    BY <1>4, <2>2 DEF Refresh
  <2> QED
    BY <1>4, <2>1, <2>2 DEF Refresh
<1>5. CASE RefreshFails(r)
  <2>1. CASE UNCHANGED <<provider, happened>>
    BY <1>5, <2>1 DEF RefreshFails
  <2>2. CASE Rotate(token[r]) /\ Suffer("lost_reply") /\ "lost_reply" \in Faults
    BY <1>5, <2>2, Rotates DEF RefreshFails
  <2> QED
    BY <1>5, <2>1, <2>2 DEF RefreshFails
<1>6. CASE Store(r)
  BY <1>6 DEF Store
<1>7. CASE Leave(r)
  BY <1>7 DEF Leave
<1>8. CASE Reread(r)
  BY <1>8 DEF Reread
<1> QED
  BY <1>1, <1>2, <1>3, <1>4, <1>5, <1>6, <1>7, <1>8 DEF Managed, Resume

(* A step of one request: it is enough to look at that request, and at the *)
(* set that it stores or takes up.                                         *)
LEMMA RequestStep ==
  ASSUME JobInv, CTypeOK', NEW r \in Request,
         \A u \in Request \ {r} : /\ pc'[u] = pc[u] /\ token'[u] = token[u]
                                  /\ outcome'[u] = outcome[u] /\ at'[u] = at[u]
                                  /\ attempt'[u] = attempt[u],
         issued' >= issued, tenant \subseteq tenant', persisted \subseteq persisted',
         \A g \in persisted' : g \in persisted \/ (Unsaved(r) /\ g = token[r]),
         Sound(r)',
         Unsaved(r)' => token'[r] \notin 0..issued \/ (Unsaved(r) /\ token'[r] = token[r])
  PROVE  JobInv'
<1>0. issued \in Nat /\ issued' \in Nat /\ 1..issued \subseteq 1..issued'
  BY DEF JobInv, CTypeOK, TypeOK
<1>1. ASSUME NEW u \in Request \ {r} PROVE Sound(u)'
  <2>1. Unsaved(u)' => token[u] \notin persisted'
    BY <1>1 DEF JobInv, Sound, Apart, Unsaved
  <2> QED
    BY <1>0, <1>1, <2>1 DEF JobInv, Sound, Unsaved
<1>2. ASSUME NEW u \in Request, NEW s \in Request PROVE Apart(u, s)'
  BY <1>2 DEF JobInv, Sound, Apart, Unsaved, CTypeOK, TypeOK
<1> QED
  BY <1>1, <1>2 DEF JobInv

(* The part of a step that get_valid_token takes.                          *)
LEMMA TokenStep ==
  ASSUME JobInv, NEW r \in Request, GetToken(r)
  PROVE  JobInv'
<1>0. /\ TypeOK /\ CTypeOK /\ Sound(r) /\ Managed(r) /\ at[r] = "token"
      /\ UNCHANGED <<at, attempt, answer, bad, ostate>> /\ issued \in Nat
  BY DEF JobInv, CTypeOK, TypeOK, GetToken, Managed, jobvars
<1>1. /\ TypeOK' /\ issued' >= issued
      /\ \A u \in Request \ {r} : /\ pc'[u] = pc[u] /\ token'[u] = token[u]
                                  /\ outcome'[u] = outcome[u]
  BY <1>0, ManagerTypes
<1>2. tenant \subseteq tenant' /\ tenant' \subseteq 1..issued' /\ 1..issued \subseteq 1..issued'
  <2>1. issued' = issued \/ issued' = issued + 1
    BY <1>0 DEF Managed, Load, Resume, Acquire, Recheck, Refresh, RefreshFails, Store, Leave, Reread,
                Rotate, provider
  <2>2. tenant' = tenant \cup {g \in {issued'} \ {issued} : token[r] \in tenant}
    BY DEF GetToken
  <2>3. 1..issued \subseteq 1..issued' /\ (issued' # issued => issued' \in 1..issued')
    BY <1>0, <2>1
  <2>4. tenant \subseteq 1..issued
    BY <1>0 DEF CTypeOK
  <2> QED
    BY <2>2, <2>3, <2>4
<1>3. persisted' = persisted \cup ({stored'} \ {NoToken})
  BY DEF GetToken, Persist
<1>4. CTypeOK'
  <2>1. bad' \subseteq 1..issued' /\ persisted \subseteq 1..issued'
    BY <1>0, <1>2 DEF CTypeOK
  <2>2. stored' \in 0..issued' /\ issued' \in Nat
    BY <1>1 DEF TypeOK
  <2>3. persisted' \subseteq 1..issued' /\ stored' \in persisted' \cup {NoToken}
    BY <1>3, <2>1, <2>2 DEF NoToken
  <2> QED
    BY <1>0, <1>1, <1>2, <2>1, <2>3 DEF CTypeOK
<1>5. stored' = stored \/ (pc[r] = "store" /\ stored' = token[r])
  BY <1>0 DEF Managed, Load, Resume, Acquire, Recheck, Refresh, RefreshFails, Store, Leave, Reread
<1>6. /\ persisted \subseteq persisted' /\ stored' \in persisted' \cup {NoToken}
      /\ \A g \in persisted' : g \in persisted \/ (Unsaved(r) /\ g = token[r])
  BY <1>0, <1>3, <1>5 DEF CTypeOK, Unsaved
<1>7. /\ Sound(r)'
      /\ Unsaved(r)' => token'[r] \notin 0..issued
  <2> USE <1>0, <1>1, <1>2, <1>3, <1>5, <1>6
      DEF TypeOK, CTypeOK, Sound, Unsaved, Usable, Goto, Hold, End, NoToken, provider
  <2>1. CASE Load(r)
    BY <2>1 DEF Load
  <2>2. CASE Acquire(r)
    BY <2>2 DEF Acquire
  <2>3. CASE Recheck(r)
    BY <2>3 DEF Recheck
  <2>4. CASE Refresh(r)
    <3>1. CASE Rotate(token[r]) /\ Hold(r, issued') /\ Goto(r, "store") /\ UNCHANGED outcome
      <4>1. pc'[r] = "store" /\ token'[r] = issued' /\ persisted' = persisted
        BY <2>4, <3>1 DEF Refresh
      <4>2. issued' \notin 0..issued /\ issued' \in 1..issued' /\ issued' \notin persisted
        BY <3>1, Rotates
      <4> QED
        BY <4>1, <4>2
    <3>2. CASE End(r, "leave", "expired") /\ UNCHANGED <<provider, token>>
      BY <2>4, <3>2 DEF Refresh
    <3> QED
      BY <2>4, <3>1, <3>2 DEF Refresh
  <2>5. CASE RefreshFails(r)
    BY <2>5 DEF RefreshFails
  <2>6. CASE Store(r)
    BY <2>6 DEF Store
  <2>7. CASE Leave(r)
    BY <2>7 DEF Leave
  <2>8. CASE Reread(r)
    BY <2>8 DEF Reread
  <2> QED
    BY <2>1, <2>2, <2>3, <2>4, <2>5, <2>6, <2>7, <2>8 DEF Managed, Resume
<1> QED
  BY <1>0, <1>1, <1>2, <1>4, <1>6, <1>7, RequestStep

LEMMA JobStep == JobInv /\ [CNext]_cvars => JobInv'
<1> SUFFICES ASSUME JobInv, [CNext]_cvars PROVE JobInv'
  OBVIOUS
<1> USE DEF NoToken, jobvars, tmvars, provider, local
<1>0. /\ CTypeOK /\ TypeOK /\ issued \in Nat /\ 0 \in 0..issued /\ 0 \in 0..Retries
      /\ \A r \in Request : Sound(r)
  BY RetriesAssumption DEF JobInv, CTypeOK, TypeOK
<1>1. ASSUME CTypeOK', UNCHANGED <<pc, token, outcome, issued, at, attempt, tenant, persisted>>
      PROVE  JobInv'
  BY <1>1 DEF JobInv, Sound, Apart, Unsaved
<1>2. CASE Tick
  <2>1. CASE Age
    <3>1. TypeOK'
      BY <1>0, <2>1 DEF Age, TypeOK
    <3> QED
      BY <1>0, <1>1, <1>2, <2>1, <3>1 DEF Tick, Age, CTypeOK
  <2>2. CASE Expire
    <3>1. TypeOK'
      BY <1>0, <2>2 DEF Expire, Suffer, TypeOK
    <3> QED
      BY <1>0, <1>1, <1>2, <2>2, <3>1 DEF Tick, Expire, CTypeOK
  <2> QED
    BY <1>2, <2>1, <2>2 DEF Tick
<1>3. CASE Refuse \/ (\E s \in StateId : Authorize(s) \/ ExpireState(s)) \/ UNCHANGED cvars
  <2>1. UNCHANGED <<tmvars, at, attempt, tenant, persisted>>
    BY <1>3 DEF Refuse, Authorize, ExpireState, cvars
  <2>2. bad' \subseteq 1..issued /\ ostate' \in [StateId -> {"new", "saved", "gone"}]
    BY <1>0, <1>3 DEF Refuse, Authorize, ExpireState, Consume, cvars, CTypeOK
  <2> QED
    BY <1>0, <1>1, <2>1, <2>2 DEF CTypeOK, TypeOK
<1>4. ASSUME NEW r \in Request, GetToken(r) PROVE JobInv'
  BY <1>4, TokenStep
<1>5. ASSUME NEW r \in Request, UNCHANGED <<tmvars, tenant, bad, persisted>>,
             ostate' \in [StateId -> {"new", "saved", "gone"}],
             \E p \in Pending \cup {"end"} : at' = [at EXCEPT ![r] = p],
             attempt' = attempt, at[r] # "save" /\ at'[r] \notin {"save", "revoke"},
             at'[r] # "token" => pc[r] \in {"idle", "done"},
             at'[r] \in {"idle", "exchange", "delete"} => pc[r] = "idle",
             at'[r] = "call" => token[r] \in persisted \cap tenant,
             at'[r] = "clear" => attempt[r] = 0
      PROVE  JobInv'
  <2>1. CTypeOK'
    BY <1>0, <1>5 DEF CTypeOK, TypeOK
  <2>2. \A u \in Request \ {r} : at'[u] = at[u]
    BY <1>0, <1>5 DEF CTypeOK
  <2>3. Sound(r)'
    BY <1>0, <1>5 DEF Sound, Unsaved
  <2> QED
    BY <1>0, <1>5, <2>1, <2>2, <2>3, RequestStep DEF Unsaved
<1>6. ASSUME NEW r \in Request, StartApi(r) \/ Proceed(r) \/ CallApi(r) \/ Status(r) PROVE JobInv'
  <2>1. /\ UNCHANGED <<tmvars, tenant, bad, persisted, ostate, attempt>>
        /\ \E p \in {"token", "call", "clear", "end"} : at' = [at EXCEPT ![r] = p]
        /\ at[r] \in {"idle", "token", "call"}
    BY <1>6 DEF StartApi, Proceed, CallApi, Status, Move, Respond, Pending
  <2>2. /\ at'[r] # "token" => pc[r] \in {"idle", "done"}
        /\ at'[r] \notin {"idle", "exchange", "delete"}
        /\ at'[r] = "call" => token[r] \in persisted \cap tenant
        /\ at'[r] = "clear" => attempt[r] = 0
    BY <1>0, <1>6 DEF StartApi, Proceed, CallApi, Status, Move, Respond, Sound, CTypeOK
  <2> QED
    BY <1>0, <1>5, <2>1, <2>2 DEF CTypeOK, Pending
<1>7. ASSUME NEW r \in Request, NEW s \in StateId, Callback(r, s) PROVE JobInv'
  <2>1. /\ UNCHANGED <<tmvars, tenant, bad, persisted, attempt>> /\ at[r] = "idle"
        /\ \E p \in {"exchange", "end"} : at' = [at EXCEPT ![r] = p]
    BY <1>7 DEF Callback, Move, Respond
  <2>2. ostate' \in [StateId -> {"new", "saved", "gone"}]
    BY <1>0, <1>7 DEF Callback, Consume, CTypeOK
  <2>3. at'[r] \in {"exchange", "end"} /\ pc[r] = "idle"
    BY <1>0, <2>1 DEF CTypeOK, Sound
  <2> QED
    BY <1>5, <2>1, <2>2, <2>3 DEF Pending
<1>8. ASSUME NEW r \in Request, Reset(r), issued' = issued, stale' = stale, lock' = lock,
             live' = live, happened' \subseteq Faults,
             stored' = stored \/ stored' = NoToken, UNCHANGED <<tenant, bad, ostate, persisted>>,
             \E p \in {"idle", "token"} : at' = [at EXCEPT ![r] = p],
             attempt' = [attempt EXCEPT ![r] = 0] \/ attempt' = [attempt EXCEPT ![r] = 1]
      PROVE  JobInv'
  <2>1. TypeOK'
    BY <1>0, <1>8 DEF TypeOK, Reset, End, Goto, Hold
  <2>2. CTypeOK'
    BY <1>0, <1>8, <2>1 DEF CTypeOK, Pending
  <2>3. \A u \in Request \ {r} : /\ pc'[u] = pc[u] /\ token'[u] = token[u]
                                 /\ outcome'[u] = outcome[u] /\ at'[u] = at[u]
                                 /\ attempt'[u] = attempt[u]
    BY <1>0, <1>8 DEF CTypeOK, TypeOK, Reset, End, Goto, Hold
  <2>4. pc'[r] = "idle" /\ at'[r] \in {"idle", "token"}
    BY <1>0, <1>8 DEF CTypeOK, TypeOK, Reset, End, Goto
  <2>5. Sound(r)' /\ ~Unsaved(r)'
    BY <2>4 DEF Sound, Unsaved
  <2> QED
    BY <1>0, <1>8, <2>2, <2>3, <2>5, RequestStep
<1>9. ASSUME NEW r \in Request, Clear(r) PROVE JobInv'
  <2>1. attempt' = [attempt EXCEPT ![r] = 1]
    <3>1. attempt[r] = 0 /\ attempt' = [attempt EXCEPT ![r] = attempt[r] + 1]
      BY <1>0, <1>9 DEF Clear, Sound
    <3> QED
      BY <3>1
  <2>2. happened' \subseteq Faults
    BY <1>0, <1>9 DEF Clear, TypeOK
  <2> QED
    BY <1>8, <1>9, <2>1, <2>2 DEF Clear
<1>10. ASSUME NEW r \in Request, NextJob(r) \/ CrashJob(r) PROVE JobInv'
  <2>1. happened' \subseteq Faults
    BY <1>0, <1>10 DEF NextJob, CrashJob, Suffer, TypeOK
  <2> QED
    BY <1>8, <1>10, <2>1 DEF NextJob, CrashJob
<1>11. ASSUME NEW r \in Request, Exchange(r) PROVE JobInv'
  <2>1. at[r] = "exchange" /\ pc[r] = "idle" /\ ~Unsaved(r)
        /\ UNCHANGED <<lock, stored, stale, pc, tries, outcome, happened, bad, ostate, persisted, attempt>>
    BY <1>0, <1>11 DEF Exchange, Move, Respond, Sound, Unsaved
  <2>2. CASE UNCHANGED <<issued, live, tenant, token>> /\ Respond(r, "unavailable")
    <3>1. at'[r] = "end"
      BY <1>0, <2>2 DEF Respond, CTypeOK
    <3> QED
      BY <1>0, <1>5, <2>1, <2>2, <3>1 DEF Respond, CTypeOK
  <2>3. CASE /\ issued' = issued + 1 /\ live' = live \cup {issued'}
             /\ tenant' = tenant \cup {issued'} \/ tenant' = tenant
             /\ Hold(r, issued') /\ Move(r, "save")
    <3>1. /\ 1..issued \subseteq 1..issued' /\ 0..issued \subseteq 0..issued'
          /\ issued' \in 1..issued' /\ issued' \in 0..issued' /\ issued' \notin 0..issued /\ issued' \in Nat
      BY <1>0, <2>3
    <3>2. live' \subseteq 1..issued' /\ tenant' \subseteq 1..issued' /\ bad' \subseteq 1..issued'
          /\ persisted' \subseteq 1..issued'
      BY <1>0, <2>1, <2>3, <3>1 DEF CTypeOK, TypeOK
    <3>3. TypeOK'
      BY <1>0, <2>1, <2>3, <3>1, <3>2 DEF TypeOK, Hold
    <3>4. CTypeOK'
      BY <1>0, <2>1, <2>3, <3>2, <3>3 DEF CTypeOK, Move, Pending
    <3>5. \A u \in Request \ {r} : /\ pc'[u] = pc[u] /\ token'[u] = token[u]
                                   /\ outcome'[u] = outcome[u] /\ at'[u] = at[u]
                                   /\ attempt'[u] = attempt[u]
      BY <1>0, <2>1, <2>3 DEF CTypeOK, TypeOK, Hold, Move
    <3>6. token'[r] = issued' /\ at'[r] = "save" /\ pc'[r] = "idle" /\ issued' \notin persisted
      BY <1>0, <2>1, <2>3, <3>1 DEF CTypeOK, TypeOK, Hold, Move
    <3>7. Sound(r)'
      BY <2>1, <3>1, <3>6 DEF Sound, Unsaved
    <3> QED
      BY <1>0, <2>1, <2>3, <3>1, <3>4, <3>5, <3>6, <3>7, RequestStep
  <2> QED
    BY <1>11, <2>2, <2>3 DEF Exchange
<1>12. ASSUME NEW r \in Request, SaveToken(r) PROVE JobInv'
  <2>1. /\ at[r] = "save" /\ pc[r] = "idle" /\ token[r] \in (1..issued) \ persisted
        /\ stored' = token[r] /\ persisted' = persisted \cup {token[r]}
        /\ UNCHANGED <<lock, issued, live, stale, pc, token, tries, outcome, happened, tenant, bad, ostate, attempt>>
        /\ at' = [at EXCEPT ![r] = "end"]
    BY <1>0, <1>12 DEF SaveToken, Persist, Respond, Sound, Unsaved
  <2>2. TypeOK'
    BY <1>0, <2>1 DEF TypeOK
  <2>3. CTypeOK'
    BY <1>0, <2>1, <2>2 DEF CTypeOK
  <2>4. Sound(r)' /\ ~Unsaved(r)'
    BY <1>0, <2>1 DEF CTypeOK, Sound, Unsaved
  <2>5. \A u \in Request \ {r} : at'[u] = at[u]
    BY <1>0, <2>1 DEF CTypeOK
  <2> QED
    BY <1>0, <2>1, <2>3, <2>4, <2>5, RequestStep DEF Unsaved
<1>13. ASSUME NEW r \in Request, StartRevoke(r) PROVE JobInv'
  <2>1. /\ at[r] = "idle" /\ pc[r] = "idle" /\ token' = [token EXCEPT ![r] = stored]
        /\ at' = [at EXCEPT ![r] = IF stored = NoToken THEN "delete" ELSE "revoke"]
        /\ UNCHANGED <<lock, stored, issued, live, stale, pc, tries, outcome, happened, tenant, bad, ostate, persisted, attempt>>
    BY <1>0, <1>13 DEF StartRevoke, Hold, Move, Sound
  <2>2. TypeOK'
    BY <1>0, <2>1 DEF TypeOK
  <2>3. CTypeOK'
    BY <1>0, <2>1, <2>2 DEF CTypeOK, Pending
  <2>4. /\ token'[r] = stored /\ pc'[r] = "idle"
        /\ at'[r] = "delete" \/ (at'[r] = "revoke" /\ stored \in persisted)
    BY <1>0, <2>1 DEF CTypeOK, TypeOK
  <2>5. Sound(r)' /\ ~Unsaved(r)'
    BY <2>1, <2>4 DEF Sound, Unsaved
  <2>6. \A u \in Request \ {r} : at'[u] = at[u] /\ token'[u] = token[u]
    BY <1>0, <2>1 DEF CTypeOK, TypeOK
  <2> QED
    BY <1>0, <2>1, <2>3, <2>5, <2>6, RequestStep
<1>14. ASSUME NEW r \in Request, RevokeToken(r) PROVE JobInv'
  <2>1. /\ at[r] = "revoke" /\ pc[r] = "idle" /\ token[r] \in persisted
        /\ at' = [at EXCEPT ![r] = "delete"]
        /\ UNCHANGED <<lock, stored, issued, stale, pc, token, tries, outcome, tenant, ostate, persisted, attempt>>
        /\ live' \subseteq live /\ bad' \subseteq bad \cup {token[r]}
    BY <1>0, <1>14 DEF RevokeToken, Move, Sound
  <2>2. happened' \subseteq Faults
    BY <1>0, <1>14 DEF RevokeToken, Suffer, TypeOK
  <2>3. TypeOK'
    BY <1>0, <2>1, <2>2 DEF TypeOK
  <2>4. bad' \subseteq 1..issued
    BY <1>0, <2>1 DEF CTypeOK
  <2>5. CTypeOK'
    BY <1>0, <2>1, <2>3, <2>4 DEF CTypeOK, Pending
  <2>6. Sound(r)' /\ ~Unsaved(r)'
    BY <1>0, <2>1 DEF CTypeOK, Sound, Unsaved
  <2>7. \A u \in Request \ {r} : at'[u] = at[u]
    BY <1>0, <2>1 DEF CTypeOK
  <2> QED
    BY <1>0, <2>1, <2>5, <2>6, <2>7, RequestStep
<1>15. ASSUME NEW r \in Request, DeleteToken(r) PROVE JobInv'
  <2>1. /\ at[r] = "delete" /\ pc[r] = "idle" /\ stored' = NoToken
        /\ at' = [at EXCEPT ![r] = "end"]
        /\ UNCHANGED <<lock, issued, live, stale, pc, token, tries, outcome, happened, tenant, bad, ostate, persisted, attempt>>
    BY <1>0, <1>15 DEF DeleteToken, Respond, Sound
  <2>2. TypeOK'
    BY <1>0, <2>1 DEF TypeOK
  <2>3. CTypeOK'
    BY <1>0, <2>1, <2>2 DEF CTypeOK
  <2>4. Sound(r)' /\ ~Unsaved(r)'
    BY <1>0, <2>1 DEF CTypeOK, Sound, Unsaved
  <2>5. \A u \in Request \ {r} : at'[u] = at[u]
    BY <1>0, <2>1 DEF CTypeOK
  <2> QED
    BY <1>0, <2>1, <2>3, <2>4, <2>5, RequestStep
<1> QED
  BY <1>2, <1>3, <1>4, <1>6, <1>7, <1>9, <1>10, <1>11, <1>12, <1>13, <1>14, <1>15
     DEF CNext, Start, ApiStep, AdminStep

-------------------------------------------------------------------------------
(* A step outside get_valid_token: no refresh goes on, and what is spent   *)
(* or withdrawn is remembered as a fault.                                  *)
LEMMA OutsideStep ==
  ASSUME IInv, JobInv', happened \subseteq happened', lock' = lock,
         \A u \in Request : pc'[u] \in Inside => pc[u] = pc'[u] /\ token'[u] = token[u],
         \/ happened' # {}
         \/ /\ \A u \in Request : pc[u] = "store" => pc'[u] = "store"
            /\ \A u \in Request : at'[u] = "save" =>
                 token'[u] \in live' \/ (at[u] = "save" /\ token'[u] = token[u])
            /\ live \subseteq live' /\ stored' \in live' \cup {stored, NoToken}
  PROVE  ChainInv'
<1>1. OwnerInside'
  BY DEF IInv, ChainInv, OwnerInside, NoLapse
<1>2. Unspent'
  BY DEF IInv, ChainInv, Unspent, Unsaved, Reliable, Inside, NoToken
<1> QED
  BY <1>1, <1>2 DEF ChainInv

LEMMA ManagerChain ==
  ASSUME IInv, JobInv', NEW r \in Request, GetToken(r)
  PROVE  ChainInv'
<1> USE DEF NoToken, provider, local, Goto, Hold, End, Suffer
<1>0. /\ TypeOK /\ Sound(r) /\ Managed(r) /\ at' = at /\ OwnerInside /\ Unspent /\ r # NoOwner
      /\ \A u \in Request : Sound(u) /\ (pc[u] = "store" => token[u] \notin persisted)
      /\ \A u \in Request : Sound(u)' /\ u # NoOwner
      /\ \A u, v \in Request : Apart(u, v)
  BY NoOwnerAssumption DEF IInv, JobInv, ChainInv, CTypeOK, GetToken, Managed, jobvars, Sound, Unsaved
<1>1. OwnerInside'
  BY <1>0 DEF TypeOK, OwnerInside, NoLapse, Inside, Usable, Managed, Resume, Load, Acquire, Recheck,
              Refresh, RefreshFails, Store, Leave, Reread
<1>2. CASE Load(r) \/ Acquire(r) \/ Leave(r) \/ Reread(r)
  <2>1. UNCHANGED <<stored, live, happened>>
    BY <1>2 DEF Load, Acquire, Leave, Reread
  <2>2. \A u \in Request : /\ pc'[u] = "refresh" \/ Unsaved(u)' => token'[u] = token[u] /\ pc'[u] = pc[u]
                           /\ pc[u] = "store" => pc'[u] = "store"
    BY <1>0, <1>2 DEF Load, Acquire, Leave, Reread, TypeOK, Sound, Unsaved, Inside
  <2> QED
    BY <1>0, <1>1, <2>1, <2>2 DEF ChainInv, Unspent, Unsaved, Reliable
<1>3. CASE Recheck(r)
  <2>1. /\ pc[r] = "recheck" /\ UNCHANGED <<stored, live, happened>> /\ token' = [token EXCEPT ![r] = stored]
        /\ pc'[r] \in {"leave", "refresh"} /\ (pc'[r] = "refresh" => stored # NoToken)
        /\ \A u \in Request \ {r} : pc'[u] = pc[u]
    BY <1>0, <1>3 DEF Recheck, TypeOK
  <2>2. Reliable => \A u \in Request : pc[u] # "store"
    BY <1>0, <2>1 DEF Reliable, OwnerInside, NoLapse, Inside
  <2>3. ~(at[r] = "save") /\ token'[r] = stored /\ \A u \in Request \ {r} : token'[u] = token[u]
    BY <1>0, <2>1 DEF Sound, TypeOK
  <2> QED
    BY <1>0, <1>1, <2>1, <2>2, <2>3 DEF ChainInv, Unspent, Unsaved, Reliable
<1>4. CASE Refresh(r)
  <2>1. CASE Rotate(token[r]) /\ Hold(r, issued') /\ Goto(r, "store") /\ UNCHANGED outcome
    <3>1. /\ pc[r] = "refresh" /\ happened' = happened /\ stored' = stored
          /\ live' = (live \ {token[r]}) \cup {issued'} /\ pc'[r] = "store" /\ token'[r] = issued'
          /\ \A u \in Request \ {r} : pc'[u] = pc[u] /\ token'[u] = token[u]
      BY <1>0, <1>4, <2>1 DEF Refresh, Rotate, TypeOK
    <3>2. Reliable => \A u \in Request \ {r} : pc[u] \notin {"refresh", "store"}
      BY <1>0, <3>1 DEF Reliable, OwnerInside, NoLapse, Inside
    <3>3. \A u \in Request : Unsaved(u) => token[u] # token[r]
      BY <1>0, <3>1 DEF Sound
    <3> QED
      BY <1>0, <1>1, <3>1, <3>2, <3>3 DEF ChainInv, Unspent, Unsaved, Reliable
  <2>2. CASE End(r, "leave", "expired") /\ UNCHANGED <<provider, token>>
    <3>1. /\ UNCHANGED <<stored, live, happened, token>> /\ pc[r] = "refresh" /\ pc'[r] = "leave"
          /\ \A u \in Request \ {r} : pc'[u] = pc[u]
      BY <1>0, <1>4, <2>2 DEF Refresh, TypeOK
    <3> QED
      BY <1>0, <1>1, <3>1 DEF ChainInv, Unspent, Unsaved, Reliable
  <2> QED
    BY <1>4, <2>1, <2>2 DEF Refresh
<1>5. CASE RefreshFails(r)
  <2>1. /\ UNCHANGED <<stored, token>> /\ pc[r] = "refresh" /\ pc'[r] = "leave"
        /\ (live' = live /\ happened' = happened) \/ happened' # {}
        /\ \A u \in Request \ {r} : pc'[u] = pc[u]
    BY <1>0, <1>5 DEF RefreshFails, TypeOK
  <2> QED
    BY <1>0, <1>1, <2>1 DEF ChainInv, Unspent, Unsaved, Reliable
<1>6. CASE Store(r)
  <2>1. /\ UNCHANGED <<live, happened, token>> /\ pc[r] = "store" /\ pc'[r] = "leave"
        /\ stored' = token[r] /\ \A u \in Request \ {r} : pc'[u] = pc[u]
    BY <1>0, <1>6 DEF Store, TypeOK
  <2> QED
    BY <1>0, <1>1, <2>1 DEF ChainInv, Unspent, Unsaved, Reliable
<1> QED
  BY <1>0, <1>2, <1>3, <1>4, <1>5, <1>6 DEF Managed, Resume

LEMMA ChainStep ==
  ASSUME IInv, JobInv', [CNext]_cvars
  PROVE  ChainInv'
<1> USE DEF tmvars, provider, local, jobvars, NoToken
<1>0. TypeOK /\ CTypeOK /\ (\A r \in Request : Sound(r)) /\ OwnerInside /\ Unspent
  BY DEF IInv, JobInv, ChainInv, CTypeOK
<1>1. CASE Age /\ UNCHANGED <<jobvars, tenant, bad, ostate, persisted>>
  BY <1>1, OutsideStep DEF Age
<1>2. CASE Expire /\ UNCHANGED <<jobvars, tenant, bad, ostate, persisted>>
  <2>1. UNCHANGED <<pc, token, at, live, stored>> /\ happened \subseteq happened'
    BY <1>2 DEF Expire, Suffer
  <2>2. NoLapse' => NoLapse /\ pc[lock] \notin Inside
    BY <1>2 DEF Expire, Suffer, NoLapse
  <2>3. OwnerInside'
    BY <1>0, <2>1, <2>2 DEF OwnerInside
  <2>4. Unspent'
    BY <1>0, <2>1 DEF Unspent, Unsaved, Reliable
  <2> QED
    BY <2>3, <2>4 DEF ChainInv
<1>3. CASE Refuse \/ (\E s \in StateId : Authorize(s) \/ ExpireState(s)) \/ UNCHANGED cvars
  BY <1>3, OutsideStep DEF Refuse, Authorize, ExpireState, cvars
<1>4. ASSUME NEW r \in Request, GetToken(r) PROVE ChainInv'
  BY <1>4, ManagerChain
<1>5. ASSUME NEW r \in Request, UNCHANGED tmvars, \E p \in {"token", "call", "clear", "exchange", "end"} :
               at' = [at EXCEPT ![r] = p]
      PROVE  ChainInv'
  BY <1>0, <1>5, OutsideStep DEF CTypeOK
<1>6. ASSUME NEW r \in Request,
             \/ StartApi(r) \/ Proceed(r) \/ CallApi(r) \/ Status(r)
             \/ \E s \in StateId : Callback(r, s)
      PROVE  ChainInv'
  <2>1. UNCHANGED tmvars
    BY <1>6 DEF StartApi, Proceed, CallApi, Status, Callback
  <2>2. \E p \in {"token", "call", "clear", "exchange", "end"} : at' = [at EXCEPT ![r] = p]
    BY <1>6 DEF StartApi, Proceed, CallApi, Status, Callback, Move, Respond
  <2> QED
    BY <1>5, <2>1, <2>2
<1>7. ASSUME NEW r \in Request, Clear(r) \/ NextJob(r) PROVE ChainInv'
  <2>1. /\ UNCHANGED <<lock, live, happened>> /\ stored' \in {stored, NoToken}
        /\ pc[r] \notin Inside /\ pc'[r] = "idle" /\ at[r] # "save" /\ at'[r] # "save"
        /\ \A u \in Request \ {r} : pc'[u] = pc[u] /\ token'[u] = token[u] /\ at'[u] = at[u]
    BY <1>0, <1>7 DEF Clear, NextJob, Reset, End, Goto, Hold, CTypeOK, TypeOK, Sound, Inside
  <2>2. "idle" \notin Inside
    BY DEF Inside
  <2> QED
    BY <2>1, <2>2, OutsideStep DEF Inside
<1>8. ASSUME NEW r \in Request, CrashJob(r) PROVE ChainInv'
  <2>1. /\ lock' = lock /\ happened' # {} /\ happened \subseteq happened' /\ pc'[r] = "idle"
        /\ \A u \in Request \ {r} : pc'[u] = pc[u] /\ token'[u] = token[u]
    BY <1>0, <1>8 DEF CrashJob, Suffer, Reset, End, Goto, Hold, TypeOK
  <2>2. "idle" \notin Inside
    BY DEF Inside
  <2> QED
    BY <2>1, <2>2, OutsideStep
<1>9. ASSUME NEW r \in Request, Exchange(r) PROVE ChainInv'
  <2>1. /\ at[r] = "exchange" /\ pc[r] \notin Inside
        /\ UNCHANGED <<lock, stored, pc, happened>>
        /\ \A u \in Request \ {r} : token'[u] = token[u] /\ at'[u] = at[u]
    BY <1>0, <1>9 DEF Exchange, Move, Respond, Hold, CTypeOK, TypeOK, Sound, Inside
  <2>2. live \subseteq live' /\ (at'[r] = "save" => token'[r] \in live')
    BY <1>0, <1>9 DEF Exchange, Move, Respond, Hold, CTypeOK, TypeOK
  <2> QED
    BY <2>1, <2>2, OutsideStep
<1>10. ASSUME NEW r \in Request, SaveToken(r) PROVE ChainInv'
  <2>1. /\ at[r] = "save" /\ UNCHANGED <<lock, pc, token, live, happened>> /\ stored' = token[r]
        /\ at'[r] = "end" /\ \A u \in Request \ {r} : at'[u] = at[u]
    BY <1>0, <1>10 DEF SaveToken, Respond, CTypeOK
  <2>2. Reliable => token[r] \in live
    BY <1>0, <2>1 DEF Unspent, Unsaved
  <2>3. CASE happened' # {}
    BY <2>1, <2>3, OutsideStep
  <2>4. CASE Reliable
    BY <2>1, <2>2, <2>4, OutsideStep
  <2> QED
    BY <2>1, <2>3, <2>4 DEF Reliable
<1>11. ASSUME NEW r \in Request, StartRevoke(r) PROVE ChainInv'
  <2>1. /\ UNCHANGED <<lock, stored, pc, live, happened>> /\ pc[r] \notin Inside /\ at'[r] # "save"
        /\ \A u \in Request \ {r} : token'[u] = token[u] /\ at'[u] = at[u]
    BY <1>0, <1>11 DEF StartRevoke, Move, Hold, CTypeOK, TypeOK, Sound, Inside
  <2> QED
    BY <2>1, OutsideStep
<1>12. ASSUME NEW r \in Request, RevokeToken(r) \/ DeleteToken(r) PROVE ChainInv'
  <2>1. /\ UNCHANGED <<lock, pc, token>> /\ stored' \in {stored, NoToken} /\ happened \subseteq happened'
        /\ live' = live \/ happened' # {}
        /\ at'[r] # "save" /\ \A u \in Request \ {r} : at'[u] = at[u]
    BY <1>0, <1>12 DEF RevokeToken, DeleteToken, Move, Respond, Suffer, CTypeOK
  <2> QED
    BY <2>1, OutsideStep
<1> QED
  BY <1>1, <1>2, <1>3, <1>4, <1>6, <1>7, <1>8, <1>9, <1>10, <1>11, <1>12
     DEF CNext, Tick, Start, ApiStep, AdminStep

(* The inductive invariant holds in every reachable state.                 *)
THEOREM Invariance == CSpec => []IInv
<1>1. IInv /\ [CNext]_cvars => IInv'
  BY JobStep, ChainStep DEF IInv
<1> QED
  BY InitInv, <1>1, PTL DEF CSpec

(* Every reachable state of the connection has the declared types.         *)
THEOREM TypeCorrectness == CSpec => []CTypeOK
<1>1. IInv => CTypeOK
  BY DEF IInv, JobInv
<1> QED
  BY <1>1, Invariance, PTL

(* Under every fault, Xero is only called with persisted token sets that   *)
(* carry a tenant id.                                                      *)
THEOREM CallsArePersisted == CSpec => []CallsUsePersisted
<1>1. IInv => CallsUsePersisted
  BY DEF IInv, JobInv, Sound, CallsUsePersisted
<1> QED
  BY <1>1, Invariance, PTL

(* Callbacks, revocations and the deletions after a 401 do not break the   *)
(* exclusion of the refreshes.                                             *)
THEOREM RefreshersExclude == CSpec => []OneRefresher
<1>1. IInv => OneRefresher
  BY DEF IInv, ChainInv, OwnerInside, OneRefresher
<1> QED
  BY <1>1, Invariance, PTL

(* With all of them, too, no request presents a spent refresh token, when  *)
(* no lease lapses, no task dies, and no reply or refresh token is lost.   *)
THEOREM RefreshTokensAreUnspent == CSpec => []NoSpentRefresh
<1>1. IInv => NoSpentRefresh
  BY DEF IInv, ChainInv, Unspent, NoSpentRefresh
<1> QED
  BY <1>1, Invariance, PTL

(* Under the same condition, a connection that is stored can be refreshed. *)
THEOREM ConnectionIsKept == CSpec => []ConnectionSurvives
<1>1. IInv => ConnectionSurvives
  <2> SUFFICES ASSUME IInv, Reliable, stored # NoToken, stored \notin live
               PROVE  \E r \in Request : lock = r /\ pc[r] = "store" /\ token[r] \in live
    BY DEF ConnectionSurvives
  <2>1. PICK r \in Request : pc[r] = "store"
    BY DEF IInv, ChainInv, Unspent
  <2>2. token[r] \in live /\ lock = r
    BY <2>1 DEF IInv, ChainInv, Unspent, Unsaved, OwnerInside, NoLapse, Reliable, Inside
  <2> QED
    BY <2>1, <2>2
<1> QED
  BY <1>1, Invariance, PTL

(* Under every fault, a deleted connection stays deleted until a callback. *)
THEOREM DeletionsSettle == CSpec => DeletionSettles
<1>1. IInv /\ [CNext]_cvars => [Gone => Gone' \/ \E r \in Request : at'[r] = "exchange"]_cvars
  <2> SUFFICES ASSUME IInv, [CNext]_cvars, Gone
               PROVE  Gone' \/ \E r \in Request : at'[r] = "exchange"
    OBVIOUS
  <2>0. TypeOK /\ CTypeOK /\ stored = NoToken /\ ~Usable
    BY DEF IInv, JobInv, CTypeOK, Gone, Usable
  <2> USE DEF Gone, tmvars, provider, local, jobvars, NoToken
  <2>1. CASE Tick \/ Refuse \/ (\E s \in StateId : Authorize(s) \/ ExpireState(s)) \/ UNCHANGED cvars
    BY <2>1 DEF Tick, Age, Expire, Refuse, Authorize, ExpireState, cvars
  <2>2. ASSUME NEW r \in Request, GetToken(r) PROVE Gone'
    <3>1. at' = at /\ Managed(r)
      BY <2>2 DEF GetToken, Managed
    <3>2. CASE Refresh(r) \/ RefreshFails(r) \/ Store(r)
      BY <3>2 DEF Refresh, RefreshFails, Store
    <3>3. CASE Load(r) \/ Acquire(r) \/ Recheck(r) \/ Leave(r) \/ Reread(r)
      BY <2>0, <3>1, <3>3 DEF Load, Acquire, Recheck, Leave, Reread, TypeOK, Goto, End
    <3> QED
      BY <3>1, <3>2, <3>3 DEF Managed, Resume
  <2>3. ASSUME NEW r \in Request,
               \/ StartApi(r) \/ Proceed(r) \/ CallApi(r) \/ Status(r) \/ StartRevoke(r)
               \/ RevokeToken(r) \/ DeleteToken(r) \/ \E s \in StateId : Callback(r, s)
        PROVE  Gone' \/ at'[r] = "exchange"
    <3>1. pc' = pc /\ stored' = NoToken
      BY <2>3 DEF StartApi, Proceed, CallApi, Status, StartRevoke, RevokeToken, DeleteToken, Callback
    <3>2. \E p \in {"token", "call", "clear", "exchange", "end", "revoke", "delete"} :
            at' = [at EXCEPT ![r] = p]
      BY <2>3 DEF StartApi, Proceed, CallApi, Status, StartRevoke, RevokeToken, DeleteToken, Callback,
                  Move, Respond
    <3> QED
      BY <2>0, <3>1, <3>2 DEF CTypeOK
  <2>4. ASSUME NEW r \in Request, Clear(r) \/ NextJob(r) \/ CrashJob(r) PROVE Gone'
    BY <2>0, <2>4 DEF Clear, NextJob, CrashJob, Reset, End, Goto, TypeOK, CTypeOK
  <2>5. ASSUME NEW r \in Request, Exchange(r) \/ SaveToken(r) PROVE FALSE
    BY <2>5 DEF Exchange, SaveToken
  <2> QED
    BY <2>1, <2>2, <2>3, <2>4, <2>5 DEF CNext, Start, ApiStep, AdminStep
<1> QED
  BY <1>1, Invariance, PTL DEF CSpec, DeletionSettles

-------------------------------------------------------------------------------
(* The chain of sets that was there at the start: until an authorization   *)
(* is completed, only the last set can be refreshed, and it is refreshed   *)
(* when it has expired and not before.                                     *)
SingleChain ==
  NoneAuthorized =>
    /\ \A r \in Request : at[r] \notin {"exchange", "save"}
    /\ \A g \in live : g = issued
    /\ \A r \in Request : pc[r] = "refresh" => token[r] <= stale
    /\ issued <= stale + 1

(* A step that leaves the provider alone and begins no refresh.            *)
LEMMA OffChainStep ==
  ASSUME CTypeOK, SingleChain, NoneAuthorized' => NoneAuthorized,
         issued' = issued, stale' = stale, live' \subseteq live,
         \A u \in Request : pc'[u] = "refresh" => pc[u] = "refresh" /\ token'[u] = token[u],
         \A u \in Request : NoneAuthorized' /\ at'[u] \in {"exchange", "save"} => at'[u] = at[u]
  PROVE  SingleChain'
  BY DEF SingleChain

LEMMA SingleChainStep ==
  ASSUME IInv, SingleChain, [CNext]_cvars
  PROVE  SingleChain'
<1> USE DEF tmvars, provider, local, jobvars, NoToken
<1>0. /\ TypeOK /\ CTypeOK /\ (\A r \in Request : Sound(r)) /\ issued \in Nat /\ stale \in 0..issued
      /\ stored \in 0..issued /\ live \subseteq 1..issued
  BY DEF IInv, JobInv, CTypeOK, TypeOK
<1>1. CASE Age /\ UNCHANGED <<jobvars, tenant, bad, ostate, persisted>>
  <2>1. /\ stale' = stale + 1 /\ UNCHANGED <<issued, live, pc, token, at>>
        /\ NoneAuthorized' <=> NoneAuthorized
    BY <1>1 DEF Age, NoneAuthorized
  <2> SUFFICES ASSUME NoneAuthorized PROVE SingleChain'
    BY <2>1 DEF SingleChain
  <2>2. issued' <= stale' + 1
    BY <1>0, <2>1 DEF SingleChain
  <2>3. ASSUME NEW r \in Request, pc'[r] = "refresh" PROVE token'[r] <= stale'
    <3>1. token[r] \in Nat /\ token[r] <= stale
      BY <1>0, <2>1, <2>3 DEF TypeOK, SingleChain
    <3> QED
      BY <1>0, <2>1, <3>1
  <2>4. /\ \A r \in Request : at'[r] \notin {"exchange", "save"}
        /\ \A g \in live' : g = issued'
    BY <2>1 DEF SingleChain
  <2> QED
    BY <2>2, <2>3, <2>4 DEF SingleChain
<1>2. CASE \/ Expire /\ UNCHANGED <<jobvars, tenant, bad, ostate, persisted>>
           \/ Refuse \/ UNCHANGED cvars
  BY <1>0, <1>2, OffChainStep DEF Expire, Refuse, cvars, NoneAuthorized
<1>3. ASSUME NEW s \in StateId, Authorize(s) \/ ExpireState(s) PROVE SingleChain'
  <2>1. NoneAuthorized' => NoneAuthorized
    BY <1>0, <1>3 DEF Authorize, ExpireState, Consume, NoneAuthorized, CTypeOK
  <2> QED
    BY <1>0, <1>3, <2>1, OffChainStep DEF Authorize, ExpireState
<1>4. ASSUME NEW r \in Request, GetToken(r) PROVE SingleChain'
  <2>1. at' = at /\ Managed(r) /\ (NoneAuthorized' <=> NoneAuthorized) /\ at[r] = "token"
    BY <1>4 DEF GetToken, Managed, NoneAuthorized
  <2>2. CASE Load(r) \/ Acquire(r) \/ Store(r) \/ Leave(r) \/ Reread(r)
    <3>1. /\ UNCHANGED <<issued, live, stale>> /\ pc'[r] # "refresh"
          /\ \A u \in Request \ {r} : pc'[u] = pc[u] /\ token'[u] = token[u]
      BY <1>0, <2>2 DEF Load, Acquire, Store, Leave, Reread, Goto, End, Hold, TypeOK
    <3> QED
      BY <1>0, <2>1, <3>1, OffChainStep
  <2>3. CASE Recheck(r)
    <3>1. /\ UNCHANGED <<issued, live, stale>> /\ token'[r] = stored
          /\ pc'[r] = "refresh" => stored <= stale
          /\ \A u \in Request \ {r} : pc'[u] = pc[u] /\ token'[u] = token[u]
      BY <1>0, <2>3 DEF Recheck, Usable, Goto, End, Hold, TypeOK
    <3> QED
      BY <2>1, <3>1 DEF SingleChain
  <2>4. CASE Refresh(r) \/ RefreshFails(r)
    <3>1. /\ pc[r] = "refresh" /\ stale' = stale /\ pc'[r] # "refresh"
          /\ \A u \in Request \ {r} : pc'[u] = pc[u] /\ token'[u] = token[u]
      BY <1>0, <2>4 DEF Refresh, RefreshFails, Rotate, Goto, End, Hold, TypeOK
    <3>2. (issued' = issued /\ live' = live) \/ Rotate(token[r])
      BY <2>4 DEF Refresh, RefreshFails
    <3>3. CASE issued' = issued /\ live' = live
      BY <1>0, <2>1, <3>1, <3>3, OffChainStep
    <3>4. CASE Rotate(token[r]) /\ NoneAuthorized
      <4>1. token[r] = issued /\ token[r] <= stale
        BY <3>1, <3>4 DEF Rotate, SingleChain
      <4>2. issued' = issued + 1 /\ live' = (live \ {issued}) \cup {issued'}
        BY <3>4, <4>1 DEF Rotate
      <4> QED
        BY <1>0, <2>1, <3>1, <3>4, <4>1, <4>2 DEF SingleChain
    <3> QED
      BY <2>1, <3>2, <3>3, <3>4 DEF SingleChain
  <2> QED
    BY <2>1, <2>2, <2>3, <2>4 DEF Managed, Resume
<1>5. ASSUME NEW r \in Request,
             StartApi(r) \/ Proceed(r) \/ CallApi(r) \/ Status(r) \/ StartRevoke(r) \/ RevokeToken(r)
      PROVE  SingleChain'
  <2>1. /\ UNCHANGED <<issued, stale, pc, ostate>> /\ live' \subseteq live
        /\ token' = token \/ (token' = [token EXCEPT ![r] = stored] /\ at[r] = "idle")
        /\ \E p \in {"token", "call", "clear", "end", "revoke", "delete"} : at' = [at EXCEPT ![r] = p]
    BY <1>5 DEF StartApi, Proceed, CallApi, Status, StartRevoke, RevokeToken, Move, Respond, Hold
  <2>2. \A u \in Request : pc'[u] = "refresh" => pc[u] = "refresh" /\ token'[u] = token[u]
    BY <1>0, <2>1 DEF Sound, TypeOK
  <2> QED
    BY <1>0, <2>1, <2>2, OffChainStep DEF CTypeOK, NoneAuthorized
<1>6. ASSUME NEW r \in Request, NEW s \in StateId, Callback(r, s) PROVE SingleChain'
  <2>1. NoneAuthorized' => NoneAuthorized /\ \E p \in {"end"} : at' = [at EXCEPT ![r] = p]
    BY <1>0, <1>6 DEF Callback, Consume, NoneAuthorized, CTypeOK, Move, Respond
  <2>2. UNCHANGED tmvars
    BY <1>6 DEF Callback
  <2> QED
    BY <1>0, <2>1, <2>2, OffChainStep DEF CTypeOK
<1>7. ASSUME NEW r \in Request, Clear(r) \/ NextJob(r) \/ CrashJob(r) PROVE SingleChain'
  <2>1. /\ UNCHANGED <<issued, stale, live, ostate>> /\ pc'[r] = "idle"
        /\ \A u \in Request \ {r} : pc'[u] = pc[u] /\ token'[u] = token[u] /\ at'[u] = at[u]
        /\ at'[r] \in {"idle", "token"}
    BY <1>0, <1>7 DEF Clear, NextJob, CrashJob, Reset, End, Goto, Hold, CTypeOK, TypeOK
  <2> QED
    BY <1>0, <2>1, OffChainStep DEF NoneAuthorized
<1>8. ASSUME NEW r \in Request, Exchange(r) \/ SaveToken(r) PROVE SingleChain'
  <2>1. ~NoneAuthorized /\ ostate' = ostate
    BY <1>8 DEF Exchange, SaveToken, SingleChain
  <2> QED
    BY <2>1 DEF SingleChain, NoneAuthorized
<1>9. ASSUME NEW r \in Request, DeleteToken(r) PROVE SingleChain'
  <2>1. UNCHANGED <<issued, stale, live, pc, token, ostate>> /\ at' = [at EXCEPT ![r] = "end"]
    BY <1>9 DEF DeleteToken, Respond
  <2> QED
    BY <1>0, <2>1, OffChainStep DEF NoneAuthorized, CTypeOK
<1> QED
  BY <1>1, <1>2, <1>3, <1>4, <1>5, <1>6, <1>7, <1>8, <1>9
     DEF CNext, Tick, Start, ApiStep, AdminStep

(* Until an authorization is completed, the deletion after a 401 takes a   *)
(* newer set than the refused one only if that one had expired.            *)
THEOREM NewerSetsAreSpared == CSpec => NewerSetSpared
<1>1. CInit => SingleChain
  BY DEF CInit, TMInit, SingleChain, NoToken
<1>2. IInv /\ SingleChain /\ [CNext]_cvars => SingleChain'
  BY SingleChainStep
<1>3. IInv /\ SingleChain =>
        [NoneAuthorized => \A r \in Request : Clear(r) /\ token[r] < stored => token[r] <= stale]_cvars
  <2> SUFFICES ASSUME IInv, SingleChain, NoneAuthorized, NEW r \in Request, token[r] < stored
               PROVE  token[r] <= stale
    OBVIOUS
  <2>1. stored <= issued /\ issued <= stale + 1 /\ {token[r], stored, issued, stale} \subseteq Nat
    BY DEF IInv, JobInv, CTypeOK, TypeOK, SingleChain
  <2> QED
    BY <2>1
<1> QED
  BY <1>1, <1>2, <1>3, Invariance, PTL DEF CSpec, NewerSetSpared

-------------------------------------------------------------------------------
(* The sets that were issued and wait to be stored.                        *)
Waiting == {token[r] : r \in {s \in Request : pc[s] = "store" \/ at[s] = "save"}}

(* A step of one request changes what waits by the set of that request.    *)
LEMMA WaitingStep ==
  ASSUME JobInv, NEW r \in Request,
         \A u \in Request \ {r} : /\ Unsaved(u)' <=> Unsaved(u)
                                  /\ Unsaved(u) => token'[u] = token[u]
  PROVE  /\ ~Unsaved(r) /\ ~Unsaved(r)' => Waiting' = Waiting
         /\ Unsaved(r) /\ Unsaved(r)' /\ token'[r] = token[r] => Waiting' = Waiting
         /\ Unsaved(r) /\ ~Unsaved(r)' => token[r] \in Waiting /\ Waiting' = Waiting \ {token[r]}
         /\ ~Unsaved(r) /\ Unsaved(r)' => Waiting' = Waiting \cup {token'[r]}
<1>1. Waiting = {token[u] : u \in {s \in Request : Unsaved(s)}}
      /\ Waiting' = {token'[u] : u \in {s \in Request : Unsaved(s)'}}
  BY DEF Waiting, Unsaved
<1>2. \A u, v \in Request : Apart(u, v)
  BY DEF JobInv
<1>3. CASE ~Unsaved(r) /\ ~Unsaved(r)'
  BY <1>1, <1>3
<1>4. CASE Unsaved(r) /\ Unsaved(r)'
  BY <1>1, <1>4
<1>5. CASE Unsaved(r) /\ ~Unsaved(r)'
  <2>1. \A u \in Request \ {r} : Unsaved(u) => token[u] # token[r]
    BY <1>2, <1>5 DEF Apart
  <2> QED
    BY <1>1, <1>5, <2>1
<1>6. CASE ~Unsaved(r) /\ Unsaved(r)'
  BY <1>1, <1>6
<1> QED
  BY <1>3, <1>4, <1>5, <1>6

(* What get_valid_token does to the store.                                 *)
LEMMA TokenStoreStep ==
  ASSUME JobInv, NEW r \in Request, GetToken(r)
  PROVE  [Contract!Next]_<<stored, issued, Waiting>>
<1> USE DEF provider, local, Goto, Hold, End, Contract!Next, NoToken
<1>0. TypeOK /\ Sound(r) /\ Managed(r) /\ at' = at /\ at[r] = "token"
      /\ (\A u \in Request \ {r} : /\ pc'[u] = pc[u] /\ token'[u] = token[u])
  BY ManagerTypes DEF JobInv, CTypeOK, GetToken, Managed, jobvars
<1>1. \A u \in Request \ {r} : (Unsaved(u)' <=> Unsaved(u)) /\ token'[u] = token[u]
  BY <1>0 DEF Unsaved
<1>2. CASE Load(r) \/ Acquire(r) \/ Recheck(r) \/ Leave(r) \/ Reread(r)
  <2>1. UNCHANGED <<stored, issued>> /\ pc[r] # "store" /\ pc'[r] # "store"
    BY <1>0, <1>2 DEF Load, Acquire, Recheck, Leave, Reread, TypeOK
  <2> QED
    BY <1>0, <1>1, <2>1, WaitingStep DEF Unsaved
<1>3. CASE Refresh(r) \/ RefreshFails(r)
  <2>1. /\ stored' = stored /\ pc[r] = "refresh"
        /\ \/ issued' = issued /\ pc'[r] = "leave"
           \/ issued' = issued + 1 /\ pc'[r] = "store" /\ token'[r] = issued'
           \/ issued' = issued + 1 /\ pc'[r] = "leave"
    BY <1>0, <1>3 DEF Refresh, RefreshFails, Rotate, TypeOK
  <2>2. Waiting' = Waiting \/ (issued' = issued + 1 /\ Waiting' = Waiting \cup {issued'})
    BY <1>0, <1>1, <2>1, WaitingStep DEF Unsaved
  <2>3. CASE issued' = issued
    BY <1>0, <1>1, <2>1, <2>3, WaitingStep DEF TypeOK, Unsaved
  <2>4. CASE issued' = issued + 1
    BY <2>1, <2>2, <2>4 DEF Contract!Issue, Waiting
  <2> QED
    BY <2>1, <2>3, <2>4
<1>4. CASE Store(r)
  <2>1. stored' = token[r] /\ issued' = issued /\ pc[r] = "store" /\ pc'[r] = "leave"
    BY <1>0, <1>4 DEF Store, TypeOK
  <2>2. token[r] \in Waiting /\ Waiting' = Waiting \ {token[r]}
    BY <1>0, <1>1, <2>1, WaitingStep DEF Unsaved
  <2> QED
    BY <2>1, <2>2 DEF Contract!Put, Waiting
<1> QED
  BY <1>0, <1>2, <1>3, <1>4 DEF Managed, Resume

LEMMA StoreStep ==
  ASSUME JobInv, [CNext]_cvars
  PROVE  [Contract!Next]_<<stored, issued, Waiting>>
<1> USE DEF tmvars, provider, local, jobvars, NoToken, Contract!Next
<1>0. TypeOK /\ CTypeOK /\ \A u \in Request : Sound(u)
  BY DEF JobInv, CTypeOK
<1>1. CASE Tick \/ Refuse \/ (\E s \in StateId : Authorize(s) \/ ExpireState(s)) \/ UNCHANGED cvars
  BY <1>1 DEF Tick, Age, Expire, Refuse, Authorize, ExpireState, cvars, Waiting
<1>2. ASSUME NEW r \in Request, GetToken(r) PROVE [Contract!Next]_<<stored, issued, Waiting>>
  BY <1>2, TokenStoreStep
<1>3. ASSUME NEW r \in Request,
             \/ StartApi(r) \/ Proceed(r) \/ CallApi(r) \/ Status(r) \/ StartRevoke(r)
             \/ RevokeToken(r) \/ DeleteToken(r) \/ \E s \in StateId : Callback(r, s)
      PROVE  [Contract!Next]_<<stored, issued, Waiting>>
  <2>1. /\ UNCHANGED <<issued, pc>>
        /\ token' = token \/ (token' = [token EXCEPT ![r] = stored] /\ at[r] = "idle")
        /\ \E p \in {"token", "call", "clear", "exchange", "end", "revoke", "delete"} :
             at' = [at EXCEPT ![r] = p]
        /\ at[r] \in {"idle", "token", "call", "revoke", "delete"}
        /\ stored' = stored \/ stored' = NoToken
    BY <1>3 DEF StartApi, Proceed, CallApi, Status, StartRevoke, RevokeToken, DeleteToken, Callback,
                Move, Respond, Hold
  <2>2. /\ \A u \in Request \ {r} : (Unsaved(u)' <=> Unsaved(u)) /\ token'[u] = token[u]
        /\ Unsaved(r)' <=> Unsaved(r)
        /\ Unsaved(r) => token'[r] = token[r]
    BY <1>0, <2>1 DEF Sound, Unsaved, CTypeOK, TypeOK
  <2>3. Waiting' = Waiting
    BY <2>2, WaitingStep
  <2> QED
    BY <2>1, <2>3 DEF Contract!Delete, Waiting, Contract!NoToken
<1>4. ASSUME NEW r \in Request, Clear(r) \/ NextJob(r) \/ CrashJob(r)
      PROVE  [Contract!Next]_<<stored, issued, Waiting>>
  <2>1. /\ issued' = issued /\ pc'[r] = "idle" /\ at'[r] \in {"idle", "token"}
        /\ \A u \in Request \ {r} : pc'[u] = pc[u] /\ token'[u] = token[u] /\ at'[u] = at[u]
        /\ \/ stored' = stored
           \/ stored' = NoToken /\ at[r] = "clear"
    BY <1>0, <1>4 DEF Clear, NextJob, CrashJob, Reset, End, Goto, Hold, CTypeOK, TypeOK
  <2>2. ~Unsaved(r)' /\ \A u \in Request \ {r} : (Unsaved(u)' <=> Unsaved(u)) /\ token'[u] = token[u]
    BY <2>1 DEF Unsaved
  <2>3. CASE ~Unsaved(r)
    <3>1. Waiting' = Waiting
      BY <2>2, <2>3, WaitingStep
    <3> QED
      BY <2>1, <3>1 DEF Contract!Delete, Waiting, Contract!NoToken
  <2>4. CASE Unsaved(r)
    <3>1. token[r] \in Waiting /\ Waiting' = Waiting \ {token[r]}
      BY <2>2, <2>4, WaitingStep
    <3>2. stored' = stored
      BY <1>0, <2>1, <2>4 DEF Sound, Unsaved
    <3> QED
      BY <2>1, <3>1, <3>2 DEF Contract!Lose, Waiting
  <2> QED
    BY <2>3, <2>4
<1>5. ASSUME NEW r \in Request, Exchange(r) PROVE [Contract!Next]_<<stored, issued, Waiting>>
  <2>1. /\ stored' = stored /\ pc' = pc /\ at[r] = "exchange" /\ pc[r] = "idle"
        /\ \A u \in Request \ {r} : token'[u] = token[u] /\ at'[u] = at[u]
        /\ \/ issued' = issued /\ at'[r] = "end"
           \/ issued' = issued + 1 /\ at'[r] = "save" /\ token'[r] = issued'
    BY <1>0, <1>5 DEF Exchange, Move, Respond, Hold, CTypeOK, TypeOK, Sound
  <2>2. ~Unsaved(r) /\ \A u \in Request \ {r} : (Unsaved(u)' <=> Unsaved(u)) /\ token'[u] = token[u]
    BY <2>1 DEF Unsaved
  <2>3. CASE at'[r] = "end"
    BY <2>1, <2>2, <2>3, WaitingStep DEF Unsaved
  <2>4. CASE at'[r] = "save"
    <3>1. Waiting' = Waiting \cup {issued'}
      BY <2>1, <2>2, <2>4, WaitingStep DEF Unsaved
    <3> QED
      BY <2>1, <2>4, <3>1 DEF Contract!Issue, Waiting
  <2> QED
    BY <2>1, <2>3, <2>4
<1>6. ASSUME NEW r \in Request, SaveToken(r) PROVE [Contract!Next]_<<stored, issued, Waiting>>
  <2>1. /\ at[r] = "save" /\ pc[r] = "idle" /\ stored' = token[r] /\ UNCHANGED <<issued, pc, token>>
        /\ at'[r] = "end" /\ \A u \in Request \ {r} : at'[u] = at[u]
    BY <1>0, <1>6 DEF SaveToken, Respond, CTypeOK, Sound
  <2>2. token[r] \in Waiting /\ Waiting' = Waiting \ {token[r]}
    BY <2>1, WaitingStep DEF Unsaved
  <2> QED
    BY <2>1, <2>2 DEF Contract!Put, Waiting
<1> QED
  BY <1>1, <1>2, <1>3, <1>4, <1>5, <1>6 DEF CNext, Start, ApiStep, AdminStep

(* Under every fault, a set enters the store once, and only after it was   *)
(* issued: API requests, callbacks and revocations follow ConnectionStore. *)
THEOREM FollowsStore == CSpec => StoreContract
<1>1. CInit => Contract!Init
  BY DEF CInit, TMInit, Contract!Init, NoToken, Contract!NoToken
<1>2. IInv /\ [CNext]_cvars => [Contract!Next]_<<stored, issued, Waiting>>
  BY StoreStep DEF IInv
<1> QED
  BY <1>1, <1>2, Invariance, PTL DEF CSpec, StoreContract, Contract!Spec, Contract!vars, Waiting

-------------------------------------------------------------------------------
(* The manager and its lock behave as a lease under all these requests,    *)
(* whatever lapses or dies: no request releases the key of another.        *)
THEOREM FollowsLease == CSpec => LeaseContract
<1> DEFINE body == {r \in Request : pc[r] \in Inside}
<1>1. CInit => Lease!Init
  BY DEF CInit, TMInit, Lease!Init, Inside
<1>2. IInv /\ [CNext]_cvars => [Lease!Next]_<<lock, body>>
  <2> SUFFICES ASSUME IInv, [CNext]_cvars PROVE [Lease!Next]_<<lock, body>>
    OBVIOUS
  <2> USE DEF tmvars, provider, local, jobvars, Inside
  <2>0. TypeOK /\ CTypeOK /\ \A u \in Request : Sound(u)
    BY DEF IInv, JobInv, CTypeOK
  <2>1. CASE \/ Age /\ UNCHANGED <<jobvars, tenant, bad, ostate, persisted>>
             \/ Refuse \/ (\E s \in StateId : Authorize(s) \/ ExpireState(s)) \/ UNCHANGED cvars
    BY <2>1 DEF Age, Refuse, Authorize, ExpireState, cvars
  <2>2. CASE Expire /\ UNCHANGED <<jobvars, tenant, bad, ostate, persisted>>
    BY <2>2 DEF Expire, Lease!Next, Lease!Expire
  <2>3. ASSUME NEW r \in Request,
               \/ StartApi(r) \/ Proceed(r) \/ CallApi(r) \/ Status(r) \/ StartRevoke(r)
               \/ RevokeToken(r) \/ DeleteToken(r) \/ Exchange(r) \/ SaveToken(r)
               \/ \E s \in StateId : Callback(r, s)
        PROVE  UNCHANGED <<lock, body>>
    BY <2>3 DEF StartApi, Proceed, CallApi, Status, StartRevoke, RevokeToken, DeleteToken, Exchange,
                SaveToken, Callback
  <2>4. ASSUME NEW r \in Request, GetToken(r) PROVE [Lease!Next]_<<lock, body>>
    <3>1. Managed(r) /\ \A u \in Request \ {r} : pc'[u] = pc[u]
      BY <2>0, <2>4, ManagerTypes DEF GetToken, Managed
    <3>2. CASE Load(r) \/ Recheck(r) \/ Refresh(r) \/ RefreshFails(r) \/ Store(r) \/ Reread(r)
      <4>1. lock' = lock /\ (pc'[r] \in Inside <=> pc[r] \in Inside)
        BY <2>0, <3>2 DEF Load, Recheck, Refresh, RefreshFails, Store, Reread, Goto, End, TypeOK
      <4> QED
        BY <3>1, <4>1
    <3>3. CASE Acquire(r)
      <4>1. r \notin body
        BY <3>3 DEF Acquire
      <4>2. CASE lock = NoOwner
        <5>1. lock' = r /\ pc'[r] = "recheck"
          BY <2>0, <3>3, <4>2 DEF Acquire, Goto, TypeOK
        <5>2. body' = body \cup {r}
          BY <3>1, <5>1
        <5> QED
          BY <4>1, <4>2, <5>1, <5>2 DEF Lease!Next, Lease!Enter
      <4>3. CASE lock # NoOwner
        <5>1. lock' = lock /\ pc'[r] = "sleep"
          BY <2>0, <3>3, <4>3 DEF Acquire, Goto, TypeOK
        <5> QED
          BY <3>1, <4>1, <5>1
      <4> QED
        BY <4>2, <4>3
    <3>4. CASE Leave(r)
      <4>1. r \in body /\ pc'[r] = "done" /\ lock' \in {lock, IF lock = r THEN NoOwner ELSE lock}
        BY <2>0, <3>4 DEF Leave, Goto, TypeOK
      <4>2. body' = body \ {r}
        BY <3>1, <4>1
      <4> QED
        BY <4>1, <4>2 DEF Lease!Next, Lease!Leave, Lease!Abandon
    <3> QED
      BY <3>1, <3>2, <3>3, <3>4 DEF Managed, Resume
  <2>5. ASSUME NEW r \in Request, Clear(r) \/ NextJob(r) \/ CrashJob(r)
        PROVE  [Lease!Next]_<<lock, body>>
    <3>1. lock' = lock /\ pc'[r] = "idle" /\ \A u \in Request \ {r} : pc'[u] = pc[u]
      BY <2>0, <2>5 DEF Clear, NextJob, CrashJob, Reset, End, Goto, TypeOK
    <3>2. body' = body \ {r}
      BY <3>1
    <3> QED
      BY <3>1, <3>2 DEF Lease!Next, Lease!Abandon
  <2> QED
    BY <2>1, <2>2, <2>3, <2>4, <2>5 DEF CNext, Tick, Start, ApiStep, AdminStep
<1> QED
  BY <1>1, <1>2, Invariance, PTL DEF CSpec, LeaseContract, Lease!Spec, Lease!vars

-------------------------------------------------------------------------------
(* The steps that get_valid_token can still take at await p, with n        *)
(* attempts at the lock left.                                              *)
TokenStepsLeft(p, n) ==
  CASE p = "idle" -> 2 * Retries + 5
    [] p = "acquire" -> 2 * n + 4
    [] p = "sleep" -> 2 * n + 3
    [] p = "recheck" -> 4
    [] p = "refresh" -> 3
    [] p = "store" -> 2
    [] p = "leave" -> 1
    [] p = "done" -> 0

(* Those of the request, up to the end of its present attempt...           *)
AttemptStepsLeft(r) ==
  CASE at[r] = "token" -> TokenStepsLeft(pc[r], Retries - tries[r]) + 3
    [] at[r] \in {"call", "exchange", "revoke"} -> 2
    [] at[r] \in {"clear", "save", "delete"} -> 1
    [] at[r] \in {"idle", "end"} -> 0

(* ... and with the attempt after a 401.                                   *)
StepsLeft(r) ==
  AttemptStepsLeft(r) +
    IF at[r] \in {"token", "call", "clear"} /\ attempt[r] = 0 THEN 2 * Retries + 8 ELSE 0

(* A request that waits for the lock has an attempt left.                  *)
TriesLeft == \A r \in Request : pc[r] \in {"idle", "acquire", "sleep"} => tries[r] < Retries

(* Every step of a request brings its answer nearer; nothing that happens  *)
(* elsewhere puts it off, and only a new request starts the count again.   *)
WorkIsBounded ==
  [][\A r \in Request :
       /\ ApiStep(r) \/ AdminStep(r) => StepsLeft(r)' < StepsLeft(r)
       /\ StepsLeft(r)' > StepsLeft(r) => at[r] = "idle"]_cvars

(* It has none left exactly when it is not under way.                      *)
StepsBound ==
  \A r \in Request : StepsLeft(r) \in 0..(4 * Retries + 16) /\ (StepsLeft(r) = 0 <=> at[r] \notin Pending)

(* A request that a step leaves alone has as many steps left as before.    *)
LEMMA Elsewhere ==
  ASSUME CTypeOK, NEW r \in Request, NEW u \in Request \ {r},
         Start(r) \/ ApiStep(r) \/ AdminStep(r) \/ NextJob(r) \/ CrashJob(r)
  PROVE  /\ at'[u] = at[u] /\ attempt'[u] = attempt[u]
         /\ pc'[u] = pc[u] /\ tries'[u] = tries[u]
<1> USE DEF CTypeOK, TypeOK, tmvars, provider, local, jobvars, Move, Respond, Hold, Goto, End, Reset
<1>1. CASE GetToken(r)
  BY <1>1 DEF GetToken, Load, Resume, Acquire, Recheck, Refresh, RefreshFails, Store, Leave, Reread
<1>2. CASE Start(r) \/ Proceed(r) \/ CallApi(r) \/ Clear(r)
  BY <1>2 DEF Start, StartApi, StartRevoke, Status, Callback, Proceed, CallApi, Clear
<1>3. CASE AdminStep(r) \/ NextJob(r) \/ CrashJob(r)
  BY <1>3 DEF AdminStep, Exchange, SaveToken, RevokeToken, DeleteToken, NextJob, CrashJob
<1> QED
  BY <1>1, <1>2, <1>3 DEF ApiStep

LEMMA TriesLeftStep ==
  ASSUME CTypeOK, TriesLeft, [CNext]_cvars
  PROVE  TriesLeft'
<1> USE RetriesAssumption
    DEF CTypeOK, TypeOK, tmvars, provider, local, Hold, Goto, End, Reset
<1>1. CASE Tick \/ Refuse \/ (\E s \in StateId : Authorize(s) \/ ExpireState(s)) \/ UNCHANGED cvars
  BY <1>1 DEF Tick, Age, Expire, Refuse, Authorize, ExpireState, cvars, TriesLeft
<1>2. ASSUME NEW r \in Request, Start(r) \/ ApiStep(r) \/ AdminStep(r) \/ NextJob(r) \/ CrashJob(r)
      PROVE  TriesLeft'
  <2>1. pc'[r] \in {"idle", "acquire", "sleep"} => tries'[r] < Retries
    <3>1. CASE Load(r) \/ Acquire(r) \/ Recheck(r) \/ Refresh(r) \/ RefreshFails(r) \/ Store(r) \/ Leave(r)
      BY <3>1 DEF TriesLeft, Load, Acquire, Recheck, Refresh, RefreshFails, Store, Leave
    <3>2. CASE Reread(r)
      BY <3>2 DEF Reread
    <3>3. CASE Start(r) \/ Proceed(r) \/ CallApi(r) \/ AdminStep(r)
      BY <3>3 DEF TriesLeft, Start, StartApi, StartRevoke, Status, Callback, Proceed, CallApi,
                  AdminStep, Exchange, SaveToken, RevokeToken, DeleteToken
    <3>4. CASE Clear(r) \/ NextJob(r) \/ CrashJob(r)
      BY <3>4 DEF Clear, NextJob, CrashJob
    <3> QED
      BY <1>2, <3>1, <3>2, <3>3, <3>4 DEF ApiStep, GetToken, Resume
  <2>2. \A u \in Request \ {r} : pc'[u] = pc[u] /\ tries'[u] = tries[u]
    BY <1>2, Elsewhere
  <2> QED
    BY <2>1, <2>2 DEF TriesLeft
<1> QED
  BY <1>1, <1>2 DEF CNext

(* The counts are natural numbers.                                         *)
LEMMA TokenStepsCount ==
  ASSUME NEW p \in {"idle", "acquire", "sleep", "done"} \cup Inside, NEW n \in 0..Retries
  PROVE  TokenStepsLeft(p, n) \in 0..(2 * Retries + 5)
BY RetriesAssumption DEF TokenStepsLeft, Inside

LEMMA StepsCount ==
  ASSUME CTypeOK, TriesLeft
  PROVE  StepsBound
<1> SUFFICES ASSUME NEW r \in Request
             PROVE  StepsLeft(r) \in 0..(4 * Retries + 16) /\ (StepsLeft(r) = 0 <=> at[r] \notin Pending)
  BY DEF StepsBound
<1>1. TokenStepsLeft(pc[r], Retries - tries[r]) \in 0..(2 * Retries + 5)
  <2>1. Retries - tries[r] \in 0..Retries
    BY RetriesAssumption DEF CTypeOK, TypeOK
  <2> QED
    BY <2>1, TokenStepsCount DEF CTypeOK, TypeOK
<1> QED
  BY <1>1, RetriesAssumption DEF CTypeOK, StepsLeft, AttemptStepsLeft, Pending

(* A step of get_valid_token.                                              *)
LEMMA TokenWork ==
  ASSUME CTypeOK, TriesLeft, NEW r \in Request, GetToken(r)
  PROVE  TokenStepsLeft(pc[r], Retries - tries[r])' < TokenStepsLeft(pc[r], Retries - tries[r])
<1> USE DEF CTypeOK, TypeOK, Goto, End, TokenStepsLeft
<1>0. Retries \in Nat \ {0} /\ tries[r] \in 0..Retries /\ tries'[r] \in Nat
  <2>1. tries' = tries \/ tries' = [tries EXCEPT ![r] = tries[r] + 1]
    BY DEF GetToken, Resume, Load, Acquire, Recheck, Refresh, RefreshFails, Store, Leave, Reread
  <2> QED
    BY <2>1, RetriesAssumption
<1>1. CASE Load(r)
  BY <1>0, <1>1 DEF Load
<1>2. CASE Acquire(r)
  BY <1>0, <1>2 DEF Acquire, TriesLeft
<1>3. CASE Recheck(r)
  BY <1>3 DEF Recheck
<1>4. CASE Refresh(r) \/ RefreshFails(r)
  BY <1>4 DEF Refresh, RefreshFails
<1>5. CASE Store(r) \/ Leave(r)
  BY <1>5 DEF Store, Leave
<1>6. CASE Reread(r)
  BY <1>0, <1>6 DEF Reread, TriesLeft
<1> QED
  BY <1>1, <1>2, <1>3, <1>4, <1>5, <1>6 DEF GetToken, Resume

(* A step of the request.                                                  *)
LEMMA RequestWork ==
  ASSUME CTypeOK, CTypeOK', TriesLeft, NEW r \in Request, Sound(r), ApiStep(r) \/ AdminStep(r)
  PROVE  StepsLeft(r)' < StepsLeft(r)
<1> DEFINE left == TokenStepsLeft(pc[r], Retries - tries[r])
<1> USE DEF StepsLeft, AttemptStepsLeft, Move, Respond
<1>0. /\ Retries \in Nat /\ at \in [Request -> {"idle", "end"} \cup Pending]
      /\ attempt \in [Request -> {0, 1}] /\ pc \in [Request -> {"idle", "acquire", "sleep", "done"} \cup Inside]
      /\ tries \in [Request -> 0..Retries]
  BY RetriesAssumption DEF CTypeOK, TypeOK
<1>1. left \in Nat /\ left' \in Nat
  <2>1. Retries - tries[r] \in 0..Retries /\ Retries - tries'[r] \in 0..Retries
    BY RetriesAssumption DEF CTypeOK, TypeOK
  <2>2. pc[r] \in {"idle", "acquire", "sleep", "done"} \cup Inside
        /\ pc'[r] \in {"idle", "acquire", "sleep", "done"} \cup Inside
    BY DEF CTypeOK, TypeOK
  <2>3. left \in 0..(2 * Retries + 5) /\ left' \in 0..(2 * Retries + 5)
    BY <2>1, <2>2, TokenStepsCount
  <2> QED
    BY <2>3
<1>2. CASE GetToken(r)
  <2>1. left' < left
    BY <1>2, TokenWork
  <2>2. at[r] = "token" /\ at'[r] = "token" /\ attempt'[r] = attempt[r]
    BY <1>2 DEF GetToken, jobvars
  <2> HIDE DEF left
  <2>3. AttemptStepsLeft(r) = left + 3 /\ AttemptStepsLeft(r)' = left' + 3
    BY <2>2 DEF left
  <2> QED
    BY <1>0, <1>1, <2>1, <2>2, <2>3
<1>3. CASE Proceed(r)
  <2>1. /\ at[r] = "token" /\ at'[r] \in {"call", "end"} /\ attempt'[r] = attempt[r]
    BY <1>0, <1>3 DEF Proceed
  <2> HIDE DEF left
  <2>2. AttemptStepsLeft(r) = left + 3
    BY <2>1 DEF left
  <2> QED
    BY <1>0, <1>1, <2>1, <2>2
<1>4. CASE CallApi(r)
  <2>1. at[r] = "call" /\ at'[r] \in {"clear", "end"} /\ attempt'[r] = attempt[r]
    BY <1>0, <1>4 DEF CallApi
  <2> QED
    BY <1>0, <2>1
<1>5. CASE Clear(r)
  <2>1. /\ at[r] = "clear" /\ at'[r] = "token" /\ attempt[r] = 0 /\ attempt'[r] = 1
        /\ pc'[r] = "idle"
    BY <1>0, <1>5 DEF Clear, Reset, End, Goto, Sound
  <2>2. left' = 2 * Retries + 5
    BY <2>1 DEF TokenStepsLeft
  <2> HIDE DEF left
  <2>3. AttemptStepsLeft(r)' = left' + 3
    BY <2>1 DEF left
  <2> QED
    BY <1>0, <2>1, <2>2, <2>3
<1>6. CASE AdminStep(r)
  <2>1. \/ at[r] = "exchange" /\ at'[r] \in {"save", "end"}
        \/ at[r] = "revoke" /\ at'[r] = "delete"
        \/ at[r] \in {"save", "delete"} /\ at'[r] = "end"
    BY <1>0, <1>6 DEF AdminStep, Exchange, SaveToken, RevokeToken, DeleteToken
  <2> QED
    BY <2>1
<1> QED
  BY <1>2, <1>3, <1>4, <1>5, <1>6 DEF ApiStep

(* A request is answered after 4 * Retries + 16 steps of its own at most,  *)
(* whatever others do: what is left of ApiAnswered is that a handler whose *)
(* await is answered is resumed.                                           *)
THEOREM RequestsAreBounded == CSpec => []StepsBound /\ WorkIsBounded
<1>1. CInit => TriesLeft
  BY RetriesAssumption DEF CInit, TMInit, TriesLeft
<1>2. IInv /\ TriesLeft /\ [CNext]_cvars => TriesLeft'
  BY TriesLeftStep DEF IInv, JobInv
<1>3. IInv /\ TriesLeft => StepsBound
  BY StepsCount DEF IInv, JobInv
<1>4. IInv /\ IInv' /\ TriesLeft /\ StepsBound /\ StepsBound' /\ [CNext]_cvars =>
        [\A r \in Request :
           /\ ApiStep(r) \/ AdminStep(r) => StepsLeft(r)' < StepsLeft(r)
           /\ StepsLeft(r)' > StepsLeft(r) => at[r] = "idle"]_cvars
  <2> SUFFICES ASSUME IInv, IInv', TriesLeft, StepsBound, StepsBound', [CNext]_cvars, NEW u \in Request
               PROVE  /\ ApiStep(u) \/ AdminStep(u) => StepsLeft(u)' < StepsLeft(u)
                      /\ StepsLeft(u)' > StepsLeft(u) => at[u] = "idle"
    OBVIOUS
  <2>0. CTypeOK /\ CTypeOK' /\ Sound(u)
    BY DEF IInv, JobInv
  <2>1. StepsLeft(u) \in Nat /\ StepsLeft(u)' \in Nat
    BY RetriesAssumption DEF StepsBound
  <2>2. ApiStep(u) \/ AdminStep(u) => StepsLeft(u)' < StepsLeft(u)
    BY <2>0, RequestWork
  <2>3. ASSUME at'[u] = at[u], attempt'[u] = attempt[u], pc'[u] = pc[u], tries'[u] = tries[u]
        PROVE  StepsLeft(u)' = StepsLeft(u)
    BY <2>3 DEF StepsLeft, AttemptStepsLeft
  <2>4. CASE Tick \/ Refuse \/ (\E s \in StateId : Authorize(s) \/ ExpireState(s)) \/ UNCHANGED cvars
    BY <2>1, <2>2, <2>3, <2>4
       DEF Tick, Age, Expire, Refuse, Authorize, ExpireState, cvars, tmvars, local, jobvars
  <2>5. ASSUME NEW r \in Request, Start(r) \/ ApiStep(r) \/ AdminStep(r) \/ NextJob(r) \/ CrashJob(r)
        PROVE  StepsLeft(u)' > StepsLeft(u) => at[u] = "idle"
    <3>1. CASE r # u
      BY <2>0, <2>1, <2>3, <2>5, <3>1, Elsewhere
    <3>2. CASE Start(u)
      BY <3>2 DEF Start, StartApi, StartRevoke, Status, Callback
    <3>3. CASE ApiStep(u) \/ AdminStep(u)
      BY <2>1, <2>2, <3>3
    <3>4. CASE NextJob(u) \/ CrashJob(u)
      <4>1. at'[u] = "idle"
        BY <2>0, <3>4 DEF NextJob, CrashJob, CTypeOK
      <4>2. StepsLeft(u)' = 0
        BY <4>1 DEF StepsLeft, AttemptStepsLeft
      <4> QED
        BY <2>1, <4>2
    <3> QED
      BY <2>5, <3>1, <3>2, <3>3, <3>4
  <2> QED
    BY <2>1, <2>2, <2>4, <2>5 DEF CNext
<1> QED
  BY <1>1, <1>2, <1>3, <1>4, Invariance, PTL DEF CSpec, WorkIsBounded
===============================================================================
