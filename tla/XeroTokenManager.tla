--------------------------- MODULE XeroTokenManager ---------------------------
(***************************************************************************)
(* XeroTokenManager.get_valid_token, run by concurrent requests against    *)
(* the token store, the refresh lock and the rotating refresh tokens of    *)
(* the provider.  A step ends at an await: other requests, the clock and   *)
(* the provider act between two awaits.                                    *)
(*                                                                         *)
(* Token sets are numbered in the order the provider issues them.  The     *)
(* access tokens expire in that order, so that one number, stale, says     *)
(* which sets is_expired_or_near is true of.  live holds the sets whose    *)
(* refresh token the provider still accepts.  The lock takes the atomic    *)
(* steps of Lease, which RedisLock implements.                             *)
(***************************************************************************)
EXTENDS Integers

CONSTANTS Request,     \* the tasks that call get_valid_token
          NoOwner,     \* the lock key is absent
          Retries,     \* _CONTENTION_RETRIES
          MaxIssued,   \* bound: the last token set never grows stale
          Faults       \* what may go wrong, see FaultKinds

(* lapse: the lock key expires while its owner is still refreshing.        *)
(* crash: the task of a request dies at any await.                         *)
(* outage: a refresh fails before the provider rotates the token.          *)
(* lost_reply: a refresh fails after the provider rotated the token.       *)
(* withdrawal: the provider drops a refresh token (see XeroConnection).    *)
(* cut: the connection to Redis fails while it watches a key.              *)
FaultKinds == {"lapse", "crash", "outage", "lost_reply", "withdrawal", "cut"}

ASSUME NoOwnerAssumption == NoOwner \notin Request
ASSUME RetriesAssumption == Retries \in Nat \ {0}
ASSUME MaxIssuedAssumption == MaxIssued \in Nat \ {0}
ASSUME FaultsAssumption == Faults \subseteq FaultKinds

VARIABLES lock,        \* the request whose key is set, or NoOwner
          stored,      \* the token set in Redis, or NoToken
          issued,      \* the last token set that the provider issued
          live,        \* the sets whose refresh token is not spent
          stale,       \* sets 1..stale are expired or near expiry
          pc,          \* the await at which each request is
          token,       \* the token set each request holds
          tries,       \* attempts at the lock that failed
          outcome,     \* how get_valid_token ended for each request
          happened     \* history: the faults so far, except outage and cut

provider == <<issued, live, stale>>
local == <<pc, token, tries, outcome>>
tmvars == <<lock, stored, issued, live, stale, pc, token, tries, outcome, happened>>

NoToken == 0
Inside == {"recheck", "refresh", "store", "leave"}
Outcomes == {"ok", "missing", "expired", "unavailable", "lock_timeout", "attribute_error"}

(* The refresh buffer is longer than the life of a token set.              *)
UsableLate == stored # NoToken /\ stored > stale + 1

(* TokenSet.is_expired_or_near, for the set now in the store.              *)
Usable == stored # NoToken /\ stored > stale

TMInit ==
  /\ lock = NoOwner
  /\ stored \in {NoToken, 1}
  /\ issued = stored
  /\ live = {stored} \ {NoToken}
  /\ stale = 0
  /\ pc = [r \in Request |-> "idle"]
  /\ token = [r \in Request |-> NoToken]
  /\ tries = [r \in Request |-> 0]
  /\ outcome = [r \in Request |-> "none"]
  /\ happened = {}

Goto(r, p) == pc' = [pc EXCEPT ![r] = p]
Hold(r, t) == token' = [token EXCEPT ![r] = t]
End(r, p, o) == Goto(r, p) /\ outcome' = [outcome EXCEPT ![r] = o]
Suffer(f) == happened' = happened \cup {f}

(* get_valid_token: the token set is read before any lock is taken.        *)
Load(r) ==
  /\ pc[r] = "idle"
  /\ Hold(r, stored)
  /\ \/ stored = NoToken /\ End(r, "done", "missing")
     \/ Usable /\ End(r, "done", "ok")
     \/ stored # NoToken /\ ~Usable /\ Goto(r, "acquire") /\ UNCHANGED outcome
  /\ UNCHANGED <<lock, stored, tries>>
  /\ UNCHANGED <<provider, happened>>

(* The lock is forgotten: each attempt is taken for an acquisition.        *)
AcquireAlways(r) ==
  /\ pc[r] = "acquire"
  /\ lock' = r
  /\ Goto(r, "recheck")
  /\ UNCHANGED <<stored, token, tries, outcome>>
  /\ UNCHANGED <<provider, happened>>

(* One attempt at the lock; a refused attempt sleeps and reads again.      *)
Acquire(r) ==
  /\ pc[r] = "acquire"
  /\ \/ lock = NoOwner /\ lock' = r /\ Goto(r, "recheck")
     \/ lock # NoOwner /\ Goto(r, "sleep") /\ UNCHANGED lock
  /\ UNCHANGED <<stored, token, tries, outcome>>
  /\ UNCHANGED <<provider, happened>>

(* The set read before the lock was taken is refreshed, without a second   *)
(* look at the store.                                                      *)
RecheckSkipped(r) ==
  /\ pc[r] = "recheck"
  /\ Goto(r, "refresh")
  /\ UNCHANGED <<lock, stored, token, tries, outcome>>
  /\ UNCHANGED <<provider, happened>>

(* A set that was deleted meanwhile is replaced by the one read before the *)
(* lock was taken.                                                         *)
RecheckFallback(r) ==
  /\ pc[r] = "recheck"
  /\ \/ Usable /\ Hold(r, stored) /\ End(r, "leave", "ok")
     \/ stored = NoToken /\ Goto(r, "refresh") /\ UNCHANGED <<token, outcome>>
     \/ stored # NoToken /\ ~Usable /\ Hold(r, stored) /\ Goto(r, "refresh") /\ UNCHANGED outcome
  /\ UNCHANGED <<lock, stored, tries>>
  /\ UNCHANGED <<provider, happened>>

(* The double check under the lock.  A set that was deleted meanwhile is   *)
(* not looked for: refresh_token(None) raises AttributeError.              *)
Recheck(r) ==
  /\ pc[r] = "recheck"
  /\ Hold(r, stored)
  /\ \/ Usable /\ End(r, "leave", "ok")
     \/ stored = NoToken /\ End(r, "leave", "attribute_error")
     \/ stored # NoToken /\ ~Usable /\ Goto(r, "refresh") /\ UNCHANGED outcome
  /\ UNCHANGED <<lock, stored, tries>>
  /\ UNCHANGED <<provider, happened>>

(* The provider spends a refresh token and issues the next token set.      *)
Rotate(t) ==
  /\ t \in live
  /\ issued' = issued + 1
  /\ live' = (live \ {t}) \cup {issued'}
  /\ UNCHANGED stale

(* A refused refresh token is taken for a revocation: the set is deleted.  *)
RefreshDeleting(r) ==
  /\ pc[r] = "refresh"
  /\ \/ Rotate(token[r]) /\ Hold(r, issued') /\ Goto(r, "store") /\ UNCHANGED <<outcome, stored>>
     \/ /\ token[r] \notin live
        /\ stored' = NoToken
        /\ End(r, "leave", "expired")
        /\ UNCHANGED <<provider, token>>
  /\ UNCHANGED <<lock, tries, happened>>

(* oauth_client.refresh_token: a spent refresh token is invalid_grant.     *)
Refresh(r) ==
  /\ pc[r] = "refresh"
  /\ \/ Rotate(token[r]) /\ Hold(r, issued') /\ Goto(r, "store") /\ UNCHANGED outcome
     \/ token[r] \notin live /\ End(r, "leave", "expired") /\ UNCHANGED <<provider, token>>
  /\ UNCHANGED <<lock, stored, tries, happened>>

(* A refresh that fails on the way there, or on the way back.              *)
RefreshFails(r) ==
  /\ pc[r] = "refresh"
  /\ \/ "outage" \in Faults /\ UNCHANGED <<provider, happened>>
     \/ "lost_reply" \in Faults /\ Rotate(token[r]) /\ Suffer("lost_reply")
  /\ End(r, "leave", "unavailable")
  /\ UNCHANGED <<lock, stored, token, tries>>

(* The rotated set is handed to the caller and never persisted.            *)
StoreSkipped(r) ==
  /\ pc[r] = "store"
  /\ End(r, "leave", "ok")
  /\ UNCHANGED <<lock, stored, token, tries>>
  /\ UNCHANGED <<provider, happened>>

(* The write is repeated when its reply is lost.                           *)
StoreRepeated(r) ==
  /\ pc[r] = "store"
  /\ stored' = token[r]
  /\ End(r, "leave", "ok") \/ UNCHANGED <<pc, outcome>>
  /\ UNCHANGED <<lock, token, tries>>
  /\ UNCHANGED <<provider, happened>>

(* The new set replaces the spent one before the lock is released.         *)
Store(r) ==
  /\ pc[r] = "store"
  /\ stored' = token[r]
  /\ End(r, "leave", "ok")
  /\ UNCHANGED <<lock, token, tries>>
  /\ UNCHANGED <<provider, happened>>

(* The key is deleted without comparing the owner token.                   *)
LeaveDeleting(r) ==
  /\ pc[r] = "leave"
  /\ lock' = NoOwner
  /\ Goto(r, "done")
  /\ UNCHANGED <<stored, token, tries, outcome>>
  /\ UNCHANGED <<provider, happened>>

(* The end of "async with", by return or by exception.  A release whose    *)
(* connection fails goes unnoticed, and the key stays until it expires.    *)
Leave(r) ==
  /\ pc[r] = "leave"
  /\ \/ lock' = IF lock = r THEN NoOwner ELSE lock
     \/ "cut" \in Faults /\ UNCHANGED lock
  /\ Goto(r, "done")
  /\ UNCHANGED <<stored, token, tries, outcome>>
  /\ UNCHANGED <<provider, happened>>

(* The retry loop without its bound: while True.                           *)
RereadForever(r) ==
  /\ pc[r] = "sleep"
  /\ Hold(r, stored)
  /\ \/ Usable /\ End(r, "done", "ok") /\ UNCHANGED tries
     \/ ~Usable /\ Goto(r, "acquire") /\ UNCHANGED <<outcome, tries>>
  /\ UNCHANGED <<lock, stored>>
  /\ UNCHANGED <<provider, happened>>

(* After the sleep: take the set another request stored, or try again.     *)
Reread(r) ==
  /\ pc[r] = "sleep"
  /\ Hold(r, stored)
  /\ \/ Usable /\ End(r, "done", "ok") /\ UNCHANGED tries
     \/ /\ ~Usable
        /\ tries' = [tries EXCEPT ![r] = tries[r] + 1]
        /\ \/ tries'[r] < Retries /\ Goto(r, "acquire") /\ UNCHANGED outcome
           \/ tries'[r] = Retries /\ End(r, "done", "lock_timeout")
  /\ UNCHANGED <<lock, stored>>
  /\ UNCHANGED <<provider, happened>>

(* The task starts over with its next request.                             *)
Reset(r) ==
  /\ End(r, "idle", "none")
  /\ Hold(r, NoToken)
  /\ tries' = [tries EXCEPT ![r] = 0]

Again(r) == pc[r] = "done" /\ Reset(r) /\ UNCHANGED <<lock, stored, provider, happened>>

(* The task dies between two awaits; its lock key stays until it expires.  *)
Crash(r) ==
  /\ "crash" \in Faults
  /\ pc[r] \notin {"idle", "done"}
  /\ Reset(r)
  /\ Suffer("crash")
  /\ UNCHANGED <<lock, stored, provider>>

(* SET without EX: the key of a dead owner stays.                          *)
NoTimeToLive == FALSE /\ UNCHANGED tmvars

(* The key of an owner that is gone expires, or that of one that refreshes *)
(* for longer than _LOCK_TTL_SECONDS.                                      *)
Expire ==
  /\ lock # NoOwner
  /\ \/ pc[lock] \in Inside /\ "lapse" \in Faults /\ Suffer("lapse")
     \/ pc[lock] \notin Inside /\ UNCHANGED happened
  /\ lock' = NoOwner
  /\ UNCHANGED <<stored, provider, local>>

(* Time passes; the last set of the model stays fresh (bound MaxIssued).   *)
Age ==
  /\ stale < issued
  /\ stale + 1 < MaxIssued
  /\ stale' = stale + 1
  /\ UNCHANGED <<lock, stored, issued, live, local, happened>>

(* What a request that is under way does when its await is answered.       *)
Resume(r) ==
  \/ Acquire(r) \/ Recheck(r) \/ Refresh(r) \/ Store(r) \/ Leave(r) \/ Reread(r)

TMStep(r) == Load(r) \/ Resume(r) \/ RefreshFails(r) \/ Crash(r)

Next == Age \/ Expire \/ \E r \in Request : TMStep(r) \/ Again(r)

Spec == TMInit /\ [][Next]_tmvars

-------------------------------------------------------------------------------
(* Types; no set that was not issued is stored, held, live or stale.       *)
TypeOK ==
  /\ lock \in Request \cup {NoOwner}
  /\ issued \in Nat
  /\ stored \in 0..issued
  /\ live \subseteq 1..issued
  /\ stale \in 0..issued
  /\ pc \in [Request -> {"idle", "acquire", "sleep", "done"} \cup Inside]
  /\ token \in [Request -> 0..issued]
  /\ tries \in [Request -> 0..Retries]
  /\ outcome \in [Request -> Outcomes \cup {"none"}]
  /\ happened \subseteq Faults

NoLapse == "lapse" \notin happened
Reliable == happened = {}

(* Until a lease lapses, no two requests are between the double check and *)
(* the release: the docstring of the module, "only one worker may hold     *)
(* this lock at a time".                                                   *)
OneRefresher ==
  NoLapse => \A r, s \in Request : pc[r] \in Inside /\ pc[s] \in Inside => r = s

(* Until a lease lapses, a task dies or a reply is lost, the refresh       *)
(* token sent to the provider is never one that another request spent:     *)
(* no concurrency of get_valid_token costs the connection.                 *)
NoSpentRefresh == Reliable => \A r \in Request : pc[r] = "refresh" => token[r] \in live

(* Under the same condition the connection can always be refreshed: the    *)
(* live set is in the store, or in the hands of the owner of the lock, who *)
(* is about to store it.                                                   *)
ConnectionSurvives ==
  Reliable /\ stored # NoToken =>
    \/ stored \in live
    \/ \E r \in Request : lock = r /\ pc[r] = "store" /\ token[r] \in live

(* Whatever lapses, dies or is lost, two requests never hold unsaved sets, *)
(* so that no write to the store overtakes another: the unsaved set is the *)
(* successor of the stored one.                                            *)
SingleWriter ==
  \A r \in Request : pc[r] = "store" =>
    /\ token[r] = stored + 1
    /\ \A s \in Request : pc[s] = "store" => s = r

(* Whatever lapses, dies or is lost, a token set is returned to a caller   *)
(* only after it, and so its refresh token, has been persisted.            *)
ReturnedIsPersisted ==
  \A r \in Request : outcome[r] = "ok" => token[r] \in 1..stored

(* The manager uses its lock as a lease: it releases what it acquired,     *)
(* once, and never a key that has passed to another request.               *)
Lease == INSTANCE Lease WITH Client <- Request, owner <- lock,
                             user <- {r \in Request : pc[r] \in Inside}
LeaseContract == Lease!Spec

(* Under all faults, the store follows the chain of the provider one set   *)
(* at a time and the provider is never asked to rotate past an unsaved set.*)
Chain == INSTANCE Rotation WITH head <- issued, saved <- stored
RotationContract == Chain!Spec
===============================================================================
