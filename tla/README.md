# Formal verification of the M365 / Xero / OpenClaw OAuth service

TLA+ models of the service, TLC instances that check them, and TLAPS proofs of
the properties that matter most for every size of the system. The models are
translated from `src/app`; documents and comments serve as statements to be
checked, never as the source of a definition.

## The system

A FastAPI process (one or several workers) that sits between the OpenClaw agent
and two providers, Xero and Microsoft Graph. All state that outlives a request
is in Redis; every request is an asyncio task, and any other task of any worker
may run at each of its awaits.

| Part | State | Operations | Talks to |
|---|---|---|---|
| Refresh lock (`adapters/outbound/lock`) | key `lock:refresh:{connection}` with a time to live; a random owner token per context | `acquire` as `async with`: SET NX EX, then WATCH/GET/MULTI/DEL/EXEC | Redis |
| Token store (`adapters/outbound/token_store`) | hash `token:{connection}`, no time to live | `store`, `load`, `delete` | Redis |
| Xero token manager (`adapters/outbound/xero/token_manager.py`) | none of its own | `get_valid_token` | token store, lock, Xero identity service |
| Xero OAuth client | none | exchange, refresh (rotating refresh tokens), revoke, tenant look-up | Xero |
| Xero HTTP client | none | `_request`: one retry after a 401, preceded by a deletion of the stored token set | token manager, token store, Xero API |
| OAuth use cases | key `oauth:state:{state}` with a time to live | authorize, callback, status, revoke | token store, state store |
| Xero invoice use cases | key `idempotency:{op}:{key}` with a time to live | create, submit, void (cached), get, lists | idempotency store, Xero HTTP client |
| Approval use cases | hash `approval:{id}`, no time to live | register, show pages, record a decision | approval store, OpenClaw webhook |
| Microsoft token manager (`adapters/outbound/ms_graph/token_manager.py`) | none of its own; token store and lock as above | `get_token(force)` | token store, lock, Azure |
| Device code client and use cases | none; Azure keeps the state of a device code | initiate, poll (stores the token set), refresh (refresh tokens may be used again) | Azure, token store |
| Graph client (`adapters/outbound/ms_graph/client.py`) | none | `_post_to_channel`: one retry after a 401, with a forced refresh | Microsoft token manager, Graph |
| Teams use cases | idempotency store, when the request has a key | send message, send card | Graph client |
| Wiring, middleware, configuration, logging, health | none that another part reads | | |

What is hard in it: the provider's refresh tokens can be used once, so that two
refreshes, or a refresh whose result is not stored, cost the connection; the
lock is a lease that may run out under its owner; four kinds of request write
the token set and only one takes the lock; every read-then-write of a record
(approval, idempotency entry) has other requests between its two awaits; calls
of providers and of the webhook may take effect although their answer is lost;
and a worker may die anywhere.

What makes each part correct:

- *lock*: a context inside its block owns the key until the time to live ends,
  a release never takes the key from another owner, no key stays for ever;
- *token manager*: one refresher, no spent refresh token is sent, a rotated set
  is persisted before it is used, every call ends;
- *connection*: Xero is called with persisted sets that carry a tenant id, each
  set is stored once or never, a deletion settles, a 401 does not cost a set that
  is still good, every API request is answered;
- *approvals*: the webhook was called with what is stored, what is shown was
  stored, a validated decision lands, a record goes from pending to resolved and
  stays, and what stands is what the webhook was called with last;
- *invoices*: what is answered or cached was done by Xero for the same operation
  and key, retries make no duplicates;
- *Microsoft connection*: one refresher, forced refreshes included; Graph is
  called with persisted sets, each stored once or never; the retry after a 401 carries a newer set; a
  completed authorization is not undone, a deletion settles, every request is
  answered;
- *Teams*: the ids that are answered are true of the channel, a request posts
  once, retries post no duplicates.

## Modules

| Module | Models | How state and actions correspond |
|---|---|---|
| `Lease` | what the lock port promises | `owner` is the key, `user` the callers inside their block; `Orphan` and `Abandon` are the keys nobody will delete (after a lost reply, a death or a failed release) |
| `RedisLock` | `redis_lock.py` | one action per Redis command; `dirty` is Redis' flag on a watching connection; `LoseConnection` is the WatchError of a connection that fails; `lapsed` remembers whose key expired |
| `Rotation` | what the token manager promises about a chain of refresh tokens | `head` is the last set issued, `saved` the one in the store, never more than one apart |
| `ConnectionStore` | what all writers of a connection together promise about its entry in the token store: each set is stored once or never | `stored` is the entry, `issued` the provider's last set, `due` the sets that were issued and wait to be stored; `Put` takes one of them, `Lose` is the death of the request that held it |
| `StatePop` | what the OAuth state store promises | one state value is saved once; `Take` pops it, `Drop` loses it, `Lose` answers None whatever becomes of it |
| `OAuthState` | `redis_oauth_state_store.py` | one action per Redis command of `pop`; `dirty` and `LoseConnection` as in `RedisLock` |
| `XeroTokenManager` | `token_manager.py`, `oauth_client.refresh_token`, `TokenSet` | `pc` is the await of each request: `Load`, `Acquire`, `Recheck`, `Refresh`, `Store`, `Leave`, `Reread` are the code between two awaits; `live` is the provider's side |
| `XeroConnection` | `xero/client.py`, `use_cases/oauth.py`, `exchange_code`, `revoke_token` | extends the token manager with everything else that reads or writes the set: `Clear` is the deletion after a 401, `SaveToken` the store of the callback, `DeleteToken` that of the revocation |
| `Approvals` | `use_cases/approval.py`, its store, webhook client and routes | one record; `Register`/`Insert`, `View`, `Decide`/`Notify`/`Save` are the handlers cut at their awaits |
| `XeroInvoices` | the write use cases of `use_cases/xero.py` and the idempotency store | `Create`/`Verify`/`Post`/`Cache`, `Update`/`SetStatus`/`Cache`; `invoices` is Xero's side, `Edit` the people at work there |
| `MSConnection` | `ms_graph/token_manager.py`, `ms_graph/device_code_client.py`, the sends of `ms_graph/client.py`, the Microsoft use cases of `use_cases/oauth.py` | one `pc` per request through both layers: `Load` to `Reread` are `get_token`, `Post` is the call of Graph; `Poll` and `Save` are the device code flow, `Revoke` the deletion; `codes` is Azure's side, `Initiate` and `Operate` the agent and the operator |
| `TeamsMessages` | `use_cases/teams.py`, `_post_to_channel` and the idempotency store | `Send`/`Post`/`Cache` are a send cut at its awaits; `messages` is Graph's side: who posted each message |
| `RedisLockProofs`, `OAuthStateProofs`, `XeroTokenManagerProofs`, `XeroConnectionProofs`, `ApprovalsProofs`, `XeroInvoicesProofs`, `MSConnectionProofs`, `TeamsMessagesProofs` | theorems, one module for each module they extend | see below |
| `MC*` | TLC instances | sets of tasks, payloads, forms, faults and symmetry |

`XeroTokenManager` is built on the atomic steps of `Lease`; `RedisLock` shows
that the adapter implements `Lease`, and `LeaseContract` of the token manager
shows that it uses the lock in no other way. `OAuthState` implements the atomic
pop of `StatePop`, which is the step that `Callback` of `XeroConnection` takes.
`Rotation` is about refreshes alone; `ConnectionStore` is what is left of it once
callbacks or polls, which take no lock, and deletions write the same entry:
`XeroConnection` and `MSConnection` both implement it.
`MSConnection` is also built on the steps of `Lease`, and its proof module shows
that it uses the lock as one. `TeamsMessages` is the caller of the sends that
`MSConnection` makes: there `get_token` raising is one of the ways in which Graph is
unavailable, and `MSConnection` shows that every call comes to an end.

Some variables are histories: `lapsed`, `happened`,
`persisted`, `mark`, `authorized`, `crossed`, `posts`, `told`, `saved`, `overlapped`,
`faulted`, `forgotten`, `madeFor`, `writes`. They
let one instance state, side by side, what holds whatever happens and what holds
until a lease lapses, two writers overlap or a fault strikes. No guard reads
them (`Save` of `Approvals` takes the result of its task's own webhook call from
`posts`). Operators with names such as `RecheckSkipped` or `StoreSkipped`, each in front of the definition that it
alters, are defective variants of the code: no specification uses them, and they
show for each property which bug would break it.

### Abstractions

- Token sets, invoices: numbers in the order in which the provider issues them.
  Access tokens expire in that order, so that one number (`stale`) says which
  sets `is_expired_or_near` is true of. The clock is a nondeterministic `Age`.
- A lock context is entered once, so it stands for its owner token; Redis
  commands are atomic, and a key that changes marks its watchers.
- A connection to Redis may fail at any command. Where it fails while it watches
  a key, redis-py raises WatchError, which both adapters catch: `pop` returns None
  and a release ends, whatever became of the key (`LoseConnection`; the fault `cut`
  of `XeroTokenManager`, `XeroConnection` and `MSConnection`). Elsewhere the error
  ends the request, which is the `Crash` of the models.
- A refused attempt of the token manager at the lock and its exit, and likewise
  the WATCH/GET/EXEC of a release, are one step there: `RedisLock` has the steps.
- A payload has the fields that are compared (identity) and the rest (detail); a
  note is none, blank or text; error strings of the webhook are one value.
- The `pop` of an OAuth state is one step of `XeroConnection`: `OAuthState` has the
  commands. Redis 7, which the compose files run, refuses an EXEC when a watched
  key has expired.
- Xero's refresh response always carries a refresh token (the service asks for
  `offline_access`).
- A refused token set stays refused; Xero answers 401 for expired and refused
  access tokens, and may answer success for those near expiry.
- Azure does not spend a refresh token when it is used. It may reject one at any
  time, or have issued none (`withdrawal`); so may Graph an access token, expired
  or not (`refusal`). The answers of both are classes: success, 401, another error.
- In `MSConnection` a missing set, an error and a success are the answers of a
  request; a lost reply of the lock's SET, whose key stays until it expires, is
  left to `RedisLock`.
- A Teams message is a number and the request that posted it. What the card or the
  text says, and the team and channel, are left out: `Idempotency-Key` and the
  operation are all that the cache looks at.

## Runs

| Run | Question and bounds |
|---|---|
| `redis_lock` | 3 contexts (an owner, its successor, and a third that acts between them), crash, lost reply or lost connection at every command, expiry at any time: type, lease, refinement of `Lease`, and under fairness no key stays |
| `oauth_state` | 4 callbacks with one state, crash, lost reply or lost connection at every command, expiry at any time: consumed once, refinement of `StatePop` |
| `token_manager` | 3 requests, 2 attempts at the lock, all faults: the two contracts of the manager, refinement of `Lease` and of `Rotation` |
| `connection_faults` | 2 tasks of any kind, one OAuth state, all faults. Whatever happens: types (those of the token manager too), calls use persisted sets with a tenant, deletions settle, refinement of `ConnectionStore`. Until anything but an outage happens: no spent refresh token is sent, the connection survives, whatever callbacks, deletions and revocations do beside a refresh |
| `connection_live` | 2 tasks (API requests, revocations), refusals, outages, lapsed leases, failed releases, and tasks that die with the lock in their name: every API request ends, so every call of the token manager; while nobody authorizes, a 401 takes a newer set than the refused one only when the refused one was expired or near its expiry |
| `approvals` | 3 tasks, 3 payloads (2 identities, 2 details), 5 forms, crashes, with and without a record of an earlier release. Whatever happens: the webhook was called with what is stored and its result is the stored one, what is shown was stored, a validated decision lands unless its task dies. Until two writers overlap, deaths included: a record is final and says what the last call of the webhook said, and every call but the last was made by a request that died before its save |
| `invoices` | 3 tasks, 2 keys, all faults, edits in Xero: an answer names an invoice that Xero created or changed for the same operation and key; for each operation and key that no overlap and no fault has hit, no duplicate and no repeated write |
| `ms_connection` | 2 tasks of any kind (sends, polls, deletions), one device code, 2 attempts at the lock, all faults (175 thousand states). Whatever happens: types, refinement of `ConnectionStore`, the retry after a 401 carries a newer set, a deletion settles, every request is answered. Until a lease lapses: one refresher. Until a poll crosses a refresh: an authorization sticks, and no older set comes back while no lease lapses |
| `teams` | 3 requests, messages or cards, with 2 keys or none, all faults, symmetric tasks and keys (178 thousand states). Whatever happens: ids are true of the channel, no request posts twice. For each operation and key without overlap, and whose posts all left a trace: one message |

Bounds: `MaxIssued` keeps the last token set of an instance fresh, so that the
number of refreshes is finite; two or three sets are enough for a refresh of a
refreshed set to overlap a third request. In `MSConnection` it also bounds refusals
and crashes: no task dies, and no first call is refused, once the last set is
issued. `Retries` stands for
`_CONTENTION_RETRIES` (5): 1 or 2 let a request give up, try again and succeed.
Tasks of `Approvals`, `XeroInvoices` and `TeamsMessages` are one request each, which bounds those
models; three hold a registration, its stale retry and a decision between the
two, or a creation and two retries with the invoice voided in between, or a send, its
retry, and one that overlaps either (the
invoice run was also done once with four tasks, 1.6 million states, with the
same result). Runs in which all tasks end turn the deadlock check off for that
reason.

### Where code and documents disagree

Each of these runs checks one statement of the documentation, and TLC finds a
behaviour of the code that contradicts it.

| Run | Statement | What the code does |
|---|---|---|
| `connection_retry` | client.py: a 401 "forces a token refresh and retries once" | it deletes the set, refresh token included: the retry always ends in ConnectionMissingError |
| `connection_revoked` | api/oauth.py: the endpoint "removes the token from Redis" | a refresh that is under way stores a new set after it |
| `ms_deleted` | api/oauth.py: after the deletion the token "will be re-acquired automatically on the next Teams call" | that call, and every later one, ends in ConnectionMissingError until an operator completes the device code flow |

Disagreements of the same kind that follow from the models, but have no run of
their own:

- a set that is deleted before the double check raises AttributeError, which
  token_manager.py does not list under "Raises";
- submissions of a decision that overlap call the webhook twice (api/approvals.py:
  re-submitting does not call the webhook again), and the decision that is saved
  last may not be the one that was announced last;
- the webhook is called first and the resolved record saved after it
  (data-reference.md:161-164: HSET resolved, then the POST): a death between the two
  leaves an announced decision unrecorded, and another one may be announced;
- a registration that is repeated is answered with 201 like the first one
  (api/approvals.py:106: "returns the stored record with `status 200`");
- an idempotency key that is used again for another invoice, or on another
  connection, is answered with the invoice of its first request, and the other one
  is not submitted or voided: neither is part of the cache key (use_cases/xero.py);
- the lock is released by WATCH/GET/MULTI/DEL/EXEC (lock_manager.py:11: "a Lua
  safe-release script"), so that a release may be cut short between its commands;
- a verification that fails creates again (use_cases/xero.py: "must guard against
  duplicate creation");
- the deletion after a 401 takes whatever set is stored by then, also one newer
  than the refused set (data-reference.md: the set "persists until manual
  revocation or re-authorization");
- a refresh under way overwrites a re-authorized set, and the tenant id with it
  (client.py: "Re-run the OAuth flow to populate it");
- a failed tenant look-up is stored as None (oauth_client.py: raises "if the
  exchange or tenant fetch fails");
- a registration that overlaps another one and its decision makes the resolved
  record pending again (domain/approval.py: "pending → resolved");
- three fields of six decide whether a payload is different (api/approvals.py:
  "a different payload is rejected with 409 Conflict");
- a retry that overlaps the request it repeats creates a second invoice
  (use_cases/xero.py: keys "prevent duplicate invoices");
- a cached creation is verified, and made again when voided or deleted
  (architecture.md: returned "immediately without calling the provider");
- a refresh of the Microsoft connection that is under way overwrites the set of a
  poll that completes meanwhile, since the poll takes no lock: the new
  authorization is lost (`crossed`);
- a refresh response of Azure without a refresh token stores None over the one
  there was (device_code_client.py:211; the docstring, 155-157, has such responses
  in mind), and the next refresh raises ConnectionExpiredError;
- a poll that is pending or expired is answered with 200 and a status
  (api/oauth.py:26: "202 while pending, 410 on expiry");
- a keyed card is posted twice when the requests overlap, or the reply or the
  task of the first one is lost (api/teams.py:96: the key "prevents duplicate cards
  on retries").

## Fairness

Weak fairness of the steps that resume a task after its await (an answered await
resumes its task; HTTP calls and sleeps end, by their time-outs), and of expiry
(Redis expires keys). Nothing makes a client send a request, a token age, an
operator authorize, or a fault happen. Where crashes are possible in a liveness
property (`KeyFreed`, `ApiAnswered`, `DecisionLands`, `Answered`), the
property says what is left of a task that is gone. `Answered` covers the sends and
polls of the Microsoft connection: a forced refresh never looks at the store while
it waits for the lock, so its attempts are what ends it.

## Proofs

TLAPS checks these for all values of the constants.

- `RedisLockProofs`. The inductive invariant adds to the type invariant that a
  context about to EXEC either still owns the key or is flagged dirty: this is
  what WATCH contributes, and without it a release could not be shown to spare
  the next owner. Theorems `TypeCorrectness`, `LeaseIsHonoured`, `Exclusion`, and
  `Implementation` (every step maps to a step of `Lease` or a stutter).
- `OAuthStateProofs`. The key only moves forward, and a callback that has read
  the value is flagged dirty once the key is gone: so a clean EXEC deletes what
  was read. Theorems `TypeCorrectness`, `StatesAreConsumedOnce` and
  `Implementation`.
- `XeroTokenManagerProofs`. Invariants of four strengths: for all faults, the
  unsaved set is `stored + 1 = issued` and is in one pair of hands; without
  lapses, a request inside owns the lock; with outages only, the set to be
  refreshed is the stored one and live. They give type correctness,
  `OneRefresher`, `NoSpentRefresh`, `ConnectionSurvives`, `SingleWriter`,
  `ReturnedIsPersisted`, and the refinements of `Rotation` and `Lease`.
- `XeroConnectionProofs`. `JobInv` holds under every fault: a set that is sent to
  Xero was stored with a tenant id, and a set that waits to be stored, by a refresh
  or by a callback, is nobody else's. `ChainInv` adds what the lock gives until a
  fault strikes: who is inside owns it (`OwnerInside`), and no refresh token in use
  or waiting is spent (`Unspent`). The second needs the first part: a callback stores
  without the lock, and is harmless only because its set has a chain of its own.
  `SingleChain` is what remains of it under every fault while nobody authorizes: only
  the last set can be refreshed, and is so only once it is expired or near its
  expiry, wherefore a 401 that deletes a newer set belongs to such a one
  (`NewerSetsAreSpared`).
  `FollowsStore` maps every step to one of `ConnectionStore`: since no two requests
  wait with the same set (`Apart`), a step changes what is due by one set at most.
  `RequestsAreBounded`, whatever happens: `StepsLeft(r)`, at most `4 * Retries + 16`,
  decreases with every step of the request `r`, no step of another request and no
  fault raises it, and it is zero exactly when the request is not under way.
  Other theorems: `TypeCorrectness`, `CallsArePersisted`, `RefreshersExclude`,
  `RefreshTokensAreUnspent`, `ConnectionIsKept`, `DeletionsSettle`, `FollowsLease`.
- `ApprovalsProofs`. What a task between its awaits has read was in Redis, and
  the one post of a task carries what it is about to save; from these,
  `ResolvedWasPosted`, `RepliesWerePersisted` and `RepliesAreCoherent`. `TypeInv` and
  `SerialInv` (until two writers overlap, the one that is between its awaits is
  alone and what it has read is still stored, and a webhook call whose task lives is
  the last one and is stored or about to be) give `TypeOK`, `SerialOnePost`,
  `LastCallStands` and `SerialForward`.
- `XeroInvoicesProofs`. `ClaimInv`: whatever a task holds, and whatever is cached,
  names an invoice that Xero created or changed for the operation and key of the
  task or entry (`Happened`); it is inductive because no step of Xero or of its
  users undoes what a result claims (`Grows`). `SerialInv`: as long as nothing
  disturbs an operation and key, its one invoice or write is cached, or about to be
  by the one task that is under way (`Known`). Theorems for all five properties.
- `MSConnectionProofs`. `TokenInv` (what a request carries to Graph was in the store,
  and after a 401 came later than it), `OwnerInside` as above, and `AuthInv`, what the
  refreshes leave of the last authorization: the set about to be refreshed or
  stored belongs to it, and is the newest. Theorems for all safety properties, the
  refinements of `Lease` and of `ConnectionStore` (`FollowsStore`), and
  `RequestsAreBounded`, as above with at most `4 * Retries + 12` steps.
- `TeamsMessagesProofs`. `PostInv`: what a task is about to cache is its own message,
  and who posted does not come back to post. `SerialInv`: every message whose key is
  undisturbed is cached or about to be, and a task about to post has seen an empty
  cache that is empty still. Theorems for all five properties.

A property that the token manager and its composition share is checked in one of
them. The following are proved, and were confirmed by TLC
before that, but no run repeats them, since the property in parentheses finds the
same faults: `MutualExclusion` (`LeaseHonoured`), `SingleWriter`
(`RotationContract`), `TypeOK` of the token manager (`CTypeOK`, which contains it),
`ReturnedIsPersisted` (`CallsUsePersisted`), `CachedHappened` and `CachedPosted`
(`RepliesHappened`, `RepliesPosted`: what is cached becomes an answer),
`RepliesAreCoherent` (`TypeOK` of `Approvals`), `LeaseContract` of `MSConnection`
(`OneRefresher`), `OneRefresher` of the Xero connection and its token manager
(`LeaseContract`, `NoSpentRefresh`), `LeaseContract` of `XeroConnection` (that of the
token manager), `CallsUsePersisted` of `MSConnection` (`RetryIsFresh`,
`StoreContract`), and both `RequestsAreBounded` (`ApiAnswered`, `Answered`).

The assumptions are those named in the modules: the absent-owner value is no
client, the absent key no key, what marks an absent entry, record or answer is
none of the values it stands beside, `Retries` and `MaxIssued` are positive, faults
and jobs come from `FaultKinds` and `JobKinds`, and the note of a form is one of three
kinds. Model-checked only: the liveness properties (`KeyFreed`, `ApiAnswered`,
`DecisionLands`, `Answered`), whose proof needs fairness and ENABLED. Of
`ApiAnswered` and `Answered` the part that is about the code is proved, in
`RequestsAreBounded`: a request has a bounded number of steps of its own, whatever the
others do. What is left to TLC is that a request under way can always take one.

## Not modelled

- *Xero look-ups*: the filtering and renaming of fields. The request is a job of
  `XeroConnection`, and nothing is kept of its result.
- *Formatting* of cards, pages, messages and error texts: no property is about them.
- *Wiring, error mapping, health probe*: construction and constants; the status
  codes are the answers of the models where they matter. The probe reads and keeps
  nothing.
- *API key comparison, request ids, configuration, logging*: stateless, or without
  state that another part reads. The settings are constants of the models.

## Plan

The plan is carried out: `Lease`, `RedisLock`, `StatePop`, `OAuthState`,
`XeroTokenManager` with `Rotation`, `XeroConnection`, `MSConnection` and
`ConnectionStore`, `Approvals`, `XeroInvoices`, `TeamsMessages`, and the proofs of all
their safety properties. Worth adding: an abstract specification of an idempotency
cache (a result is cached once it has happened, and answered only from there or by
the request that made it) which `XeroInvoices` and `TeamsMessages` implement. Left for
a release that changes the code: the two writers without a lock
(callback and poll) under the lock, which would turn `crossed` into an invariant
and drop the condition of `NewerSetSpared`; and the `Forced` refresh with a double
check, whose model is a change of one guard.
