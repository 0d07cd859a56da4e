---------------------------- MODULE XeroConnection ----------------------------
(***************************************************************************)
(* Everything that reads and writes the token set of one Xero connection:  *)
(* API requests (XeroHttpClient._request over XeroTokenManager), the OAuth *)
(* callback, the revocation and the status endpoint.  Only get_valid_token *)
(* takes the refresh lock; the others write to the store without it.       *)
(***************************************************************************)
EXTENDS XeroTokenManager

CONSTANTS StateId,     \* the OAuth states that are ever handed out
          Jobs,        \* what the requests may be, see JobKinds
          Refusals     \* may Xero refuse an access token that is not expired?

JobKinds == {"api", "callback", "revoke", "status"}

ASSUME JobsAssumption == Jobs \subseteq JobKinds

VARIABLES at,          \* the await at which each request is, outside the manager
          attempt,     \* the attempt of _request, 0 or 1
          answer,      \* how each request was answered
          tenant,      \* the token sets that carry a tenant id
          bad,         \* the token sets whose access token Xero refuses
          ostate,      \* the OAuth states: new, saved or gone
          persisted    \* history: the token sets that were ever in the store

jobvars == <<at, attempt, answer>>
cvars == <<tmvars, at, attempt, answer, tenant, bad, ostate, persisted>>

Pending == {"token", "call", "clear", "exchange", "save", "revoke", "delete"}

CInit ==
  /\ TMInit
  /\ at = [r \in Request |-> "idle"]
  /\ attempt = [r \in Request |-> 0]
  /\ answer = [r \in Request |-> "none"]
  /\ tenant \in SUBSET ({stored} \ {NoToken})
  /\ bad = {}
  /\ ostate = [s \in StateId |-> "new"]
  /\ persisted = {stored} \ {NoToken}

Move(r, p) == at' = [at EXCEPT ![r] = p] /\ UNCHANGED <<attempt, answer>>
Respond(r, a) ==
  /\ at' = [at EXCEPT ![r] = "end"]
  /\ answer' = [answer EXCEPT ![r] = a]
  /\ UNCHANGED attempt

(* What the store holds after a write is remembered.                       *)
Persist == persisted' = persisted \cup ({stored'} \ {NoToken})

-------------------------------------------------------------------------------
(* API requests.                                                           *)

StartApi(r) ==
  /\ "api" \in Jobs
  /\ at[r] = "idle"
  /\ Move(r, "token")
  /\ UNCHANGED <<tmvars, tenant, bad, ostate, persisted>>

(* A refreshed set keeps the tenant id of the set that was refreshed.      *)
GetToken(r) ==
  /\ at[r] = "token"
  /\ Load(r) \/ Resume(r) \/ RefreshFails(r)
  /\ tenant' = tenant \cup {g \in {issued'} \ {issued} : token[r] \in tenant}
  /\ Persist
  /\ UNCHANGED <<jobvars, bad, ostate>>

(* The tenant id of the token set is not looked at.                        *)
ProceedUnchecked(r) ==
  /\ at[r] = "token" /\ pc[r] = "done"
  /\ \/ outcome[r] = "ok" /\ Move(r, "call")
     \/ outcome[r] # "ok" /\ Respond(r, outcome[r])
  /\ UNCHANGED <<tmvars, tenant, bad, ostate, persisted>>

(* get_valid_token has returned or raised.                                 *)
Proceed(r) ==
  /\ at[r] = "token" /\ pc[r] = "done"
  /\ \/ outcome[r] = "ok" /\ token[r] \in tenant /\ Move(r, "call")
     \/ outcome[r] = "ok" /\ token[r] \notin tenant /\ Respond(r, "no_tenant")
     \/ outcome[r] # "ok" /\ Respond(r, outcome[r])
  /\ UNCHANGED <<tmvars, tenant, bad, ostate, persisted>>

(* Every 401 is retried, not the first one alone.                          *)
CallApiUnbounded(r) ==
  /\ at[r] = "call"
  /\ \/ token[r] \notin bad /\ Respond(r, "ok")
     \/ (token[r] \in bad \/ token[r] <= stale) /\ Move(r, "clear")
     \/ "outage" \in Faults /\ Respond(r, "unavailable")
  /\ UNCHANGED <<tmvars, tenant, bad, ostate, persisted>>

(* The API call.  Only the 401 of the first attempt is special.            *)
CallApi(r) ==
  /\ at[r] = "call"
  /\ \/ token[r] \notin bad /\ Respond(r, "ok")
     \/ /\ token[r] \in bad \/ token[r] <= stale
        /\ \/ attempt[r] = 0 /\ Move(r, "clear")
           \/ attempt[r] = 1 /\ Respond(r, "unavailable")
     \/ "outage" \in Faults /\ Respond(r, "unavailable")
  /\ UNCHANGED <<tmvars, tenant, bad, ostate, persisted>>

(* After a 401 the stored token set is deleted, whichever it is by now.    *)
Clear(r) ==
  /\ at[r] = "clear"
  /\ stored' = NoToken
  /\ Reset(r)
  /\ at' = [at EXCEPT ![r] = "token"]
  /\ attempt' = [attempt EXCEPT ![r] = @ + 1]
  /\ UNCHANGED <<lock, provider, happened, answer, tenant, bad, ostate, persisted>>

-------------------------------------------------------------------------------
(* Authorization.                                                          *)

(* BuildXeroAuthorizationUrl saves a random state.                         *)
Authorize(s) ==
  /\ ostate[s] = "new"
  /\ ostate' = [ostate EXCEPT ![s] = "saved"]
  /\ UNCHANGED <<tmvars, jobvars, tenant, bad, persisted>>

Consume(s) == ostate[s] = "saved" /\ ostate' = [ostate EXCEPT ![s] = "gone"]

ExpireState(s) ==
  /\ Consume(s)
  /\ UNCHANGED <<tmvars, jobvars, tenant, bad, persisted>>

(* HandleXeroOAuthCallback consumes the state.  A pop whose connection     *)
(* fails returns None, whatever becomes of the state.                      *)
Callback(r, s) ==
  /\ "callback" \in Jobs
  /\ at[r] = "idle"
  /\ \/ Consume(s) /\ Move(r, "exchange")
     \/ ostate[s] # "saved" /\ UNCHANGED ostate /\ Respond(r, "missing")
     \/ "cut" \in Faults /\ (Consume(s) \/ UNCHANGED ostate) /\ Respond(r, "missing")
  /\ UNCHANGED <<tmvars, tenant, bad, persisted>>

(* exchange_code: a new chain of token sets, which a look-up of the tenant *)
(* that fails (or finds no organisation) leaves without a tenant id.       *)
Exchange(r) ==
  /\ at[r] = "exchange"
  /\ \/ /\ issued' = issued + 1
        /\ live' = live \cup {issued'}
        /\ \/ tenant' = tenant \cup {issued'}
           \/ "outage" \in Faults /\ UNCHANGED tenant
        /\ Hold(r, issued')
        /\ Move(r, "save")
     \/ /\ "outage" \in Faults
        /\ UNCHANGED <<issued, live, tenant, token>>
        /\ Respond(r, "unavailable")
  /\ UNCHANGED <<lock, stored, stale, pc, tries, outcome, happened, bad, ostate, persisted>>

(* token_store.store of the callback, without the refresh lock.            *)
SaveToken(r) ==
  /\ at[r] = "save"
  /\ stored' = token[r]
  /\ Persist
  /\ Respond(r, "ok")
  /\ UNCHANGED <<lock, provider, local, happened, tenant, bad, ostate>>

-------------------------------------------------------------------------------
(* Revocation and status.                                                  *)

StartRevoke(r) ==
  /\ "revoke" \in Jobs
  /\ at[r] = "idle"
  /\ Hold(r, stored)
  /\ Move(r, IF stored = NoToken THEN "delete" ELSE "revoke")
  /\ UNCHANGED <<lock, stored, provider, pc, tries, outcome, happened>>
  /\ UNCHANGED <<tenant, bad, ostate, persisted>>

(* revoke_token is best effort: Xero drops the access token, and maybe the *)
(* refresh token with it, or the call fails and nothing is dropped.        *)
RevokeToken(r) ==
  /\ at[r] = "revoke"
  /\ \/ bad' = bad \cup {token[r]} /\ UNCHANGED <<live, happened>>
     \/ /\ "withdrawal" \in Faults /\ Suffer("withdrawal")
        /\ bad' = bad \cup {token[r]} /\ live' = live \ {token[r]}
     \/ "outage" \in Faults /\ UNCHANGED <<bad, live, happened>>
  /\ Move(r, "delete")
  /\ UNCHANGED <<lock, stored, issued, stale, local, tenant, ostate, persisted>>

DeleteToken(r) ==
  /\ at[r] = "delete"
  /\ stored' = NoToken
  /\ Respond(r, "ok")
  /\ UNCHANGED <<lock, provider, local, happened, tenant, bad, ostate, persisted>>

(* GetConnectionStatus only reads the store.                               *)
Status(r) ==
  /\ "status" \in Jobs
  /\ at[r] = "idle"
  /\ \/ stored = NoToken /\ Respond(r, "missing")
     \/ Usable /\ Respond(r, "valid")
     \/ stored # NoToken /\ ~Usable /\ Respond(r, "expired")
  /\ UNCHANGED <<tmvars, tenant, bad, ostate, persisted>>

-------------------------------------------------------------------------------
NextJob(r) ==
  /\ at[r] = "end"
  /\ at' = [at EXCEPT ![r] = "idle"]
  /\ attempt' = [attempt EXCEPT ![r] = 0]
  /\ answer' = [answer EXCEPT ![r] = "none"]
  /\ Reset(r)
  /\ UNCHANGED <<lock, stored, provider, happened, tenant, bad, ostate, persisted>>

(* The task of a request dies at any of its awaits.                        *)
CrashJob(r) ==
  /\ "crash" \in Faults
  /\ at[r] \in Pending
  /\ at' = [at EXCEPT ![r] = "idle"]
  /\ attempt' = [attempt EXCEPT ![r] = 0]
  /\ Reset(r)
  /\ Suffer("crash")
  /\ UNCHANGED <<lock, stored, provider, answer, tenant, bad, ostate, persisted>>

(* Xero refuses an access token early: the user disconnected the app.      *)
Refuse ==
  /\ Refusals
  /\ \E g \in (1..issued) \ bad : bad' = bad \cup {g}
  /\ UNCHANGED <<tmvars, jobvars, tenant, ostate, persisted>>

Tick == (Age \/ Expire) /\ UNCHANGED <<jobvars, tenant, bad, ostate, persisted>>

ApiStep(r) == GetToken(r) \/ Proceed(r) \/ CallApi(r) \/ Clear(r)
AdminStep(r) == Exchange(r) \/ SaveToken(r) \/ RevokeToken(r) \/ DeleteToken(r)
Start(r) ==
  \/ StartApi(r) \/ StartRevoke(r) \/ Status(r)
  \/ \E s \in StateId : Callback(r, s)

CNext ==
  \/ Tick \/ Refuse
  \/ \E s \in StateId : Authorize(s) \/ ExpireState(s)
  \/ \E r \in Request : Start(r) \/ ApiStep(r) \/ AdminStep(r) \/ NextJob(r) \/ CrashJob(r)

(* A handler whose await is answered is resumed, and Redis expires keys.   *)
(* Nothing makes a client call, a token age or a fault happen.             *)
CFairness ==
  /\ WF_cvars(Expire /\ Tick)
  /\ \A r \in Request : WF_cvars(ApiStep(r)) /\ WF_cvars(AdminStep(r))

CSpec == CInit /\ [][CNext]_cvars
CFairSpec == CSpec /\ CFairness

-------------------------------------------------------------------------------
(* Types, those of the token manager included.                             *)
CTypeOK ==
  /\ TypeOK
  /\ at \in [Request -> {"idle", "end"} \cup Pending]
  /\ attempt \in [Request -> {0, 1}]
  /\ tenant \subseteq 1..issued /\ bad \subseteq 1..issued
  /\ ostate \in [StateId -> {"new", "saved", "gone"}]
  /\ persisted \subseteq 1..issued
  /\ stored \in persisted \cup {NoToken}

(* Xero is only called with token sets that were persisted and that carry  *)
(* a tenant id, however deletions, callbacks and refreshes interleave.     *)
CallsUsePersisted ==
  \A r \in Request : at[r] = "call" => token[r] \in persisted \cap tenant

(* A connection that is gone and that nobody is restoring: no callback is  *)
(* past its state and no request has read the deleted set under the lock.  *)
Gone ==
  /\ stored = NoToken
  /\ \A r \in Request : at[r] \notin {"exchange", "save"} /\ pc[r] \notin {"refresh", "store"}

(* A deletion settles: from then on only a new callback brings the         *)
(* connection back, never a request that had read the deleted set earlier. *)
DeletionSettles == [][Gone => Gone' \/ \E r \in Request : at'[r] = "exchange"]_cvars

(* No authorization has been completed since the start.                    *)
NoneAuthorized == \A s \in StateId : ostate[s] # "gone"

(* A 401 costs the connection a newer set than the refused one only when   *)
(* the refused set had expired or come near its expiry during the call:    *)
(* until the next authorization, nothing replaces a set under a request    *)
(* that holds one with time left.                                          *)
NewerSetSpared ==
  [][NoneAuthorized => \A r \in Request : Clear(r) /\ token[r] < stored => token[r] <= stale]_cvars

(* Whatever lapses, dies or is lost, a set is stored once or never, after  *)
(* it was issued: no refresh, callback or retry brings back a set that was *)
(* deleted or replaced.                                                    *)
Contract == INSTANCE ConnectionStore WITH due <-
  {token[r] : r \in {s \in Request : pc[s] = "store" \/ at[s] = "save"}}
StoreContract == Contract!Spec

(* Every API request is answered: after two attempts at most, each with a  *)
(* bounded wait for the lock.                                              *)
ApiAnswered == \A r \in Request : at[r] \in Pending ~> at[r] \notin Pending

-------------------------------------------------------------------------------
(* client.py: "On a 401 response, forces a token refresh and retries once".*)
RetryRefreshes ==
  \A r \in Request : attempt[r] = 1 => answer[r] # "missing"

(* api/oauth.py: "then removes the token from Redis".                      *)
RevokedStaysRevoked ==
  [][stored = NoToken /\ stored' # NoToken => \E r \in Request : SaveToken(r)]_cvars
===============================================================================
