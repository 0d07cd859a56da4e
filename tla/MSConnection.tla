----------------------------- MODULE MSConnection -----------------------------
(***************************************************************************)
(* Everything that reads and writes the token set of one Microsoft         *)
(* connection: Teams sends (MSGraphClient._post_to_channel over            *)
(* MSTokenManager.get_token), the device code polls and the deletion.      *)
(* Sends refresh under the lock, the others write without it.              *)
(*                                                                         *)
(* Token sets are numbered in the order Azure issues them; sets 1..stale   *)
(* are expired or near expiry, as in XeroTokenManager.  A refresh token    *)
(* may be used again: Azure does not spend it.  The lock takes the atomic  *)
(* steps of Lease.                                                         *)
(***************************************************************************)
EXTENDS Integers

CONSTANTS Request,     \* the tasks that handle HTTP requests
          NoOwner,     \* the lock key is absent
          Retries,     \* _CONTENTION_RETRIES
          MaxIssued,   \* bound: the last sets stay good, the last tasks alive
          DeviceCode,  \* the device codes that are ever handed out
          Jobs,        \* what the requests may be, see JobKinds
          Faults       \* what may go wrong, see FaultKinds

JobKinds == {"send", "poll", "revoke"}

(* lapse: the lock key expires while its owner is still refreshing.        *)
(* crash: the task of a request dies at any await.                         *)
(* outage: a call of Azure or Graph fails.                                 *)
(* lost_reply: Azure redeems a device code, its answer does not arrive.    *)
(* withdrawal: Azure rejects a refresh token, or the set came without one. *)
(* refusal: Graph refuses an access token that is not expired.             *)
(* cut: the connection to Redis fails while a release watches the key.     *)
FaultKinds ==
  {"lapse", "crash", "outage", "lost_reply", "withdrawal", "refusal", "cut"}

ASSUME NoOwnerAssumption == NoOwner \notin Request
ASSUME RetriesAssumption == Retries \in Nat \ {0}
ASSUME MaxIssuedAssumption == MaxIssued \in Nat \ {0}
ASSUME JobsAssumption == Jobs \subseteq JobKinds
ASSUME FaultsAssumption == Faults \subseteq FaultKinds

VARIABLES lock,        \* the request whose key is set, or NoOwner
          stored,      \* the token set in Redis, or NoToken
          issued,      \* the last token set that Azure issued
          stale,       \* sets 1..stale are expired or near expiry
          codes,       \* the device codes, as Azure knows them
          pc,          \* the await at which each request is
          token,       \* the token set each request holds
          tries,       \* attempts at the lock that failed
          attempt,     \* the attempt of _post_to_channel, 0 or 1
          answer,      \* how each request was answered
          mark,        \* history: the last set issued when Graph answered 401
          persisted,   \* history: the token sets that were ever in the store
          authorized,  \* history: the sets of the authorization stored last
          crossed,     \* history: a refresh was under way when it was stored
          lapsed       \* history: a lease has lapsed

azure == <<issued, stale, codes>>
local == <<pc, token, tries, attempt, answer, mark>>
history == <<persisted, authorized, crossed>>
vars == <<lock, stored, azure, local, history, lapsed>>

NoToken == 0
Inside == {"recheck", "current", "refresh", "store", "leave"}
Pending == Inside \cup {"acquire", "sleep", "post", "save"}
CodeStates == {"new", "waiting", "approved", "declined", "expired", "redeemed"}

(* The status code of an answer: 2xx; 404, for ConnectionMissingError; or  *)
(* the one of another error (409, 502, 503).                               *)
Answers == {"ok", "missing", "error"}

(* TokenSet.is_expired_or_near, for the set now in the store.              *)
Usable == stored # NoToken /\ stored > stale

Init ==
  /\ lock = NoOwner
  /\ stored \in {NoToken, 1}
  /\ issued = stored
  /\ stale = 0
  /\ codes = [c \in DeviceCode |-> "new"]
  /\ pc = [r \in Request |-> "idle"]
  /\ token = [r \in Request |-> NoToken]
  /\ tries = [r \in Request |-> 0]
  /\ attempt = [r \in Request |-> 0]
  /\ answer = [r \in Request |-> "none"]
  /\ mark = [r \in Request |-> 0]
  /\ persisted = {stored} \ {NoToken}
  /\ authorized = persisted
  /\ crossed = FALSE /\ lapsed = FALSE

Put(f, r, x) == [f EXCEPT ![r] = x]
Goto(r, p) == pc' = Put(pc, r, p)
Hold(r, t) == token' = Put(token, r, t)

(* get_token raises inside "async with": what is left is the release.      *)
Raise(r, a) == Goto(r, "leave") /\ answer' = Put(answer, r, a)

(* The handler returns, and the task is free for another request.          *)
End(r, a) ==
  /\ Goto(r, "idle") /\ answer' = Put(answer, r, a)
  /\ Hold(r, NoToken)
  /\ tries' = Put(tries, r, 0) /\ attempt' = Put(attempt, r, 0)
  /\ mark' = Put(mark, r, 0)

(* The handler goes on, at await p.                                        *)
Await(r, p) == Goto(r, p) /\ answer' = Put(answer, r, "none") /\ UNCHANGED <<tries, attempt, mark>>

(* What the store holds after a write is remembered.                       *)
Persist == persisted' = persisted \cup ({stored'} \ {NoToken})

(* Azure issues a set, to the authorization that set t belongs to.         *)
Issue(t) ==
  /\ issued' = issued + 1
  /\ authorized' = authorized \cup {g \in {issued'} : t \in authorized}
  /\ UNCHANGED stale

-------------------------------------------------------------------------------
(* Sends: get_token and the call of Graph.                                 *)

(* get_token without force: the set is read before any lock is taken.      *)
Load(r) ==
  /\ "send" \in Jobs
  /\ pc[r] = "idle"
  /\ \/ stored = NoToken /\ End(r, "missing")
     \/ Usable /\ Hold(r, stored) /\ Await(r, "post")
     \/ stored # NoToken /\ ~Usable /\ Hold(r, stored) /\ Await(r, "acquire")
  /\ UNCHANGED <<lock, stored, azure, history, lapsed>>

(* force: the call before was answered with 401.                           *)
Forced(r) == attempt[r] = 1

(* The lock is forgotten: each attempt is taken for an acquisition.        *)
AcquireAlways(r) ==
  /\ pc[r] = "acquire"
  /\ lock' = r
  /\ Goto(r, IF Forced(r) THEN "current" ELSE "recheck")
  /\ UNCHANGED <<stored, azure, token, tries, attempt, answer, mark, history, lapsed>>

(* One attempt at the lock.  Force goes past the double check.             *)
Acquire(r) ==
  /\ pc[r] = "acquire"
  /\ \/ lock = NoOwner /\ lock' = r /\ Goto(r, IF Forced(r) THEN "current" ELSE "recheck")
     \/ lock # NoOwner /\ Goto(r, "sleep") /\ UNCHANGED lock
  /\ UNCHANGED <<stored, azure, token, tries, attempt, answer, mark, history, lapsed>>

(* The double check under the lock.  A set that is gone is found missing   *)
(* by the next read.                                                       *)
Recheck(r) ==
  /\ pc[r] = "recheck"
  /\ \/ Usable /\ Hold(r, stored) /\ Goto(r, "leave")
     \/ ~Usable /\ Goto(r, "current") /\ UNCHANGED token
  /\ UNCHANGED <<lock, stored, azure, tries, attempt, answer, mark, history, lapsed>>

(* The set that was read before the lock was taken is refreshed.           *)
CurrentSkipped(r) ==
  /\ pc[r] = "current"
  /\ Goto(r, "refresh")
  /\ UNCHANGED <<lock, stored, azure, token, tries, attempt, answer, mark, history, lapsed>>

(* The set to be refreshed is read once more, under the lock.              *)
Current(r) ==
  /\ pc[r] = "current"
  /\ Hold(r, stored)
  /\ \/ stored = NoToken /\ Raise(r, "missing")
     \/ stored # NoToken /\ Goto(r, "refresh") /\ UNCHANGED answer
  /\ UNCHANGED <<lock, stored, azure, tries, attempt, mark, history, lapsed>>

(* device_code_client.refresh_token                                        *)
Refresh(r) ==
  /\ pc[r] = "refresh"
  /\ Issue(token[r])
  /\ Hold(r, issued')
  /\ Goto(r, "store")
  /\ UNCHANGED <<lock, stored, codes, tries, attempt, answer, mark, persisted, crossed, lapsed>>

RefreshFails(r) ==
  /\ pc[r] = "refresh"
  /\ {"outage", "withdrawal"} \cap Faults # {}
  /\ Raise(r, "error")
  /\ UNCHANGED <<lock, stored, azure, token, tries, attempt, mark, history, lapsed>>

(* The write is repeated when its reply is lost.                           *)
StoreRepeated(r) ==
  /\ pc[r] = "store"
  /\ stored' = token[r]
  /\ Persist
  /\ Goto(r, "leave") \/ UNCHANGED pc
  /\ UNCHANGED <<lock, azure, token, tries, attempt, answer, mark, authorized, crossed, lapsed>>

Store(r) ==
  /\ pc[r] = "store"
  /\ stored' = token[r]
  /\ Persist
  /\ Goto(r, "leave")
  /\ UNCHANGED <<lock, azure, token, tries, attempt, answer, mark, authorized, crossed, lapsed>>

(* get_token returns a token for the call of Graph, or has raised.         *)
Return(r) ==
  \/ answer[r] = "none" /\ Goto(r, "post") /\ UNCHANGED <<token, tries, attempt, answer, mark>>
  \/ answer[r] # "none" /\ End(r, answer[r])

(* The end of "async with", by return or by exception.  A release whose    *)
(* connection fails goes unnoticed, and the key stays until it expires.    *)
Leave(r) ==
  /\ pc[r] = "leave"
  /\ \/ lock' = IF lock = r THEN NoOwner ELSE lock
     \/ "cut" \in Faults /\ UNCHANGED lock
  /\ Return(r)
  /\ UNCHANGED <<stored, azure, history, lapsed>>

(* The retry loop without its bound: while True.                           *)
RereadForever(r) ==
  /\ pc[r] = "sleep"
  /\ \/ ~Forced(r) /\ Usable /\ Hold(r, stored) /\ Goto(r, "post")
     \/ (Forced(r) \/ ~Usable) /\ Goto(r, "acquire") /\ UNCHANGED token
  /\ UNCHANGED <<lock, stored, azure, tries, attempt, answer, mark, history, lapsed>>

(* The loop goes round once too often.                                     *)
RefusedOneMore(r) ==
  \/ /\ tries[r] < Retries
     /\ tries' = Put(tries, r, tries[r] + 1)
     /\ Goto(r, "acquire")
     /\ UNCHANGED <<token, attempt, answer, mark>>
  \/ tries[r] = Retries /\ End(r, "error")

(* One more attempt has failed, maybe the last.                            *)
Refused(r) ==
  \/ /\ tries[r] + 1 < Retries
     /\ tries' = Put(tries, r, tries[r] + 1)
     /\ Goto(r, "acquire")
     /\ UNCHANGED <<token, attempt, answer, mark>>
  \/ tries[r] + 1 = Retries /\ End(r, "error")

(* A forced request, too, takes what is in the store.                      *)
RereadUnforced(r) ==
  /\ pc[r] = "sleep"
  /\ \/ Usable /\ Hold(r, stored) /\ Await(r, "post")
     \/ ~Usable /\ Refused(r)
  /\ UNCHANGED <<lock, stored, azure, history, lapsed>>

(* After the sleep: take the set another request stored, or try again.     *)
(* With force the store is not looked at.                                  *)
Reread(r) ==
  /\ pc[r] = "sleep"
  /\ \/ /\ ~Forced(r) /\ Usable
        /\ Hold(r, stored) /\ Await(r, "post")
     \/ (Forced(r) \/ ~Usable) /\ Refused(r)
  /\ UNCHANGED <<lock, stored, azure, history, lapsed>>

(* Graph answers 401, for a token that has expired or that it refuses      *)
(* (bound MaxIssued: no more first calls are refused once it is reached).  *)
Unauthorized(r) ==
  \/ token[r] <= stale
  \/ "refusal" \in Faults /\ (Forced(r) \/ issued < MaxIssued)

Retry(r) ==
  /\ Goto(r, "acquire")
  /\ attempt' = Put(attempt, r, 1)
  /\ tries' = Put(tries, r, 0)
  /\ mark' = Put(mark, r, issued)
  /\ UNCHANGED <<token, answer>>

(* The call of Graph.  The 401 of the first attempt forces a refresh; the  *)
(* second get_token makes its own attempts at the lock.                    *)
Post(r) ==
  /\ pc[r] = "post"
  /\ \/ End(r, "ok")
     \/ Unauthorized(r) /\ ~Forced(r) /\ Retry(r)
     \/ Unauthorized(r) /\ Forced(r) /\ End(r, "error")
     \/ "outage" \in Faults /\ End(r, "error")
  /\ UNCHANGED <<lock, stored, azure, history, lapsed>>

-------------------------------------------------------------------------------
(* The device code flow and the deletion.                                  *)

CodeStep(c, from, to) ==
  /\ codes[c] \in from
  /\ codes' = Put(codes, c, to)
  /\ UNCHANGED <<lock, stored, issued, stale, local, history, lapsed>>

(* InitiateMSDeviceCodeFlow keeps nothing: Azure does.                     *)
Initiate(c) == CodeStep(c, {"new"}, "waiting")

(* The operator signs in or declines; the code runs out.                   *)
Operate(c) ==
  \/ CodeStep(c, {"waiting"}, "approved")
  \/ CodeStep(c, {"waiting"}, "declined")
  \/ CodeStep(c, {"waiting", "approved"}, "expired")

(* One poll: an approved code is redeemed, once, for a token set.  That a  *)
(* code is pending or has expired is said with status 200.                 *)
Poll(r, c) ==
  /\ "poll" \in Jobs
  /\ pc[r] = "idle"
  /\ \/ /\ codes[c] = "approved"
        /\ codes' = Put(codes, c, "redeemed")
        /\ Issue(NoToken)
        /\ \/ Hold(r, issued') /\ Await(r, "save")
           \/ "lost_reply" \in Faults /\ End(r, "error")
     \/ /\ \/ codes[c] \in {"waiting", "expired"} /\ End(r, "ok")
           \/ codes[c] \in {"declined", "redeemed"} /\ End(r, "error")
           \/ codes[c] # "new" /\ "outage" \in Faults /\ End(r, "error")
        /\ UNCHANGED <<azure, authorized>>
  /\ UNCHANGED <<lock, stored, persisted, crossed, lapsed>>

(* token_store.store of the poll, without the refresh lock.                *)
Save(r) ==
  /\ pc[r] = "save"
  /\ stored' = token[r]
  /\ Persist
  /\ authorized' = {token[r]}
  /\ crossed' = \E s \in Request : pc[s] \in {"refresh", "store"}
  /\ End(r, "ok")
  /\ UNCHANGED <<lock, azure, lapsed>>

(* RevokeConnection without an oauth_client: what it loads is not used.    *)
Revoke(r) ==
  /\ "revoke" \in Jobs
  /\ pc[r] = "idle"
  /\ stored' = NoToken
  /\ End(r, "ok")
  /\ UNCHANGED <<lock, azure, history, lapsed>>

-------------------------------------------------------------------------------
(* The task dies between two awaits; its lock key stays until it expires.  *)
Crash(r) ==
  /\ "crash" \in Faults
  /\ issued < MaxIssued
  /\ pc[r] \in Pending
  /\ End(r, "none")
  /\ UNCHANGED <<lock, stored, azure, history, lapsed>>

(* The key of a dead owner expires, or that of one that refreshes for      *)
(* longer than _LOCK_TTL_SECONDS.                                          *)
Expire ==
  /\ lock # NoOwner
  /\ \/ pc[lock] \in Inside /\ "lapse" \in Faults /\ lapsed' = TRUE
     \/ pc[lock] \notin Inside /\ UNCHANGED lapsed
  /\ lock' = NoOwner
  /\ UNCHANGED <<stored, azure, local, history>>

(* Time passes; the last set of the model stays fresh (bound MaxIssued).   *)
Age ==
  /\ stale < issued
  /\ stale + 1 < MaxIssued
  /\ stale' = stale + 1
  /\ UNCHANGED <<lock, stored, issued, codes, local, history, lapsed>>

(* What a request that is under way does when its await is answered.       *)
Step(r) ==
  \/ Acquire(r) \/ Recheck(r) \/ Current(r) \/ Refresh(r) \/ RefreshFails(r)
  \/ Store(r) \/ Leave(r) \/ Reread(r) \/ Post(r) \/ Save(r)

Begin(r) == Load(r) \/ Revoke(r) \/ \E c \in DeviceCode : Poll(r, c)

Next ==
  \/ Age \/ Expire
  \/ \E c \in DeviceCode : Initiate(c) \/ Operate(c)
  \/ \E r \in Request : Begin(r) \/ Step(r) \/ Crash(r)

(* A handler whose await is answered is resumed, and Redis expires keys.   *)
Fairness == WF_vars(Expire) /\ \A r \in Request : WF_vars(Step(r))

Spec == Init /\ [][Next]_vars
FairSpec == Spec /\ Fairness

-------------------------------------------------------------------------------
(* Types; no set that was not issued is stored, held or stale.             *)
TypeOK ==
  /\ lock \in Request \cup {NoOwner}
  /\ issued \in Nat
  /\ stored \in persisted \cup {NoToken} /\ persisted \subseteq 1..issued
  /\ stale \in 0..issued
  /\ authorized \subseteq 1..issued
  /\ codes \in [DeviceCode -> CodeStates]
  /\ pc \in [Request -> {"idle"} \cup Pending]
  /\ token \in [Request -> 0..issued] /\ mark \in [Request -> 0..issued]
  /\ tries \in [Request -> 0..Retries-1] /\ attempt \in [Request -> {0, 1}]
  /\ answer \in [Request -> Answers \cup {"none"}]
  /\ crossed \in BOOLEAN /\ lapsed \in BOOLEAN

(* Until a lease lapses, at most one request is between the lock and its   *)
(* release, forced refreshes included: the docstring of the module, "a     *)
(* Redis-backed distributed lock".                                         *)
OneRefresher ==
  ~lapsed => \A r, s \in Request : pc[r] \in Inside /\ pc[s] \in Inside => r = s

(* Until a lease lapses or a poll crosses a refresh, no refresh puts back  *)
(* a set that was issued before the stored one: only a poll, which writes  *)
(* without the lock, can.                                                  *)
NoOlderSet ==
  [][~lapsed' /\ ~crossed' /\ stored' # NoToken /\ stored' < stored
       => \E r \in Request : Save(r)]_vars

(* Whatever deletions, polls and refreshes interleave, lapse or die, Graph *)
(* is only called with sets that were persisted.                           *)
CallsUsePersisted == \A r \in Request : pc[r] = "post" => token[r] \in persisted

(* The retry after a 401 carries a set that was issued after the 401, never*)
(* the refused one again nor one that another request had got before: the  *)
(* docstring of _post_to_channel, "forcing a token re-acquisition before   *)
(* the retry attempt".                                                     *)
RetryIsFresh ==
  \A r \in Request : pc[r] = "post" /\ attempt[r] = 1 => token[r] > mark[r]

(* A completed device code flow is not undone by a refresh of the          *)
(* authorization before it, unless that refresh had begun to read when the *)
(* poll stored its set: what is stored belongs to the last authorization.  *)
AuthorizationSticks == ~crossed => stored \in authorized \cup {NoToken}

(* A connection that is gone and that nobody is restoring.                 *)
Gone ==
  /\ stored = NoToken
  /\ \A r \in Request : pc[r] \notin {"refresh", "store", "save"}

(* A deletion settles: from then on only a poll brings the connection      *)
(* back, never a send that had read the deleted set earlier.               *)
DeletionSettles == [][Gone => Gone' \/ \E r \in Request : pc'[r] = "save"]_vars

(* Whatever lapses, dies or is lost, a set is stored once or never, after  *)
(* it was issued: no refresh and no poll brings back a set that was deleted*)
(* or replaced.                                                            *)
Contract == INSTANCE ConnectionStore WITH due <-
  {token[r] : r \in {s \in Request : pc[s] \in {"store", "save"}}}
StoreContract == Contract!Spec

(* Every send and poll is answered, after two calls of Graph at most, each *)
(* with a bounded wait for the lock.                                       *)
Answered == \A r \in Request : pc[r] \in Pending ~> pc[r] \notin Pending

(* The manager uses its lock as a lease, like the one of Xero.             *)
Lease == INSTANCE Lease WITH Client <- Request, owner <- lock,
                             user <- {r \in Request : pc[r] \in Inside}
LeaseContract == Lease!Spec

-------------------------------------------------------------------------------
(* api/oauth.py: "The token will be re-acquired automatically on the next  *)
(* Teams call", after the deletion of a connection that had one.           *)
ReacquiredAfterDeletion ==
  persisted # {} => \A r \in Request : answer[r] # "missing"
===============================================================================
