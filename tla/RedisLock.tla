------------------------------ MODULE RedisLock ------------------------------
(***************************************************************************)
(* The lock adapter over Redis: SET NX EX to acquire, and a release that   *)
(* deletes the key inside WATCH / GET / MULTI / EXEC.  Every command is a  *)
(* step of its own, since any other context, and the clock of Redis, may   *)
(* act between two of them.                                                *)
(*                                                                         *)
(* A context is one _LockContext: it has an owner token of its own (a      *)
(* fresh UUID) and is entered once, so a context stands for its token.     *)
(* Redis marks a watched connection dirty when the key is set, deleted or  *)
(* expires; EXEC on a dirty connection does nothing.                       *)
(***************************************************************************)
CONSTANTS Context,   \* the lock contexts that are ever created
          NoOwner    \* the key is absent

ASSUME NoOwnerAssumption == NoOwner \notin Context

VARIABLES lock,      \* the owner token stored under the key, or NoOwner
          pc,        \* where each context is in its "async with" block
          dirty,     \* the watching contexts whose EXEC will be refused
          lapsed     \* history: the contexts whose key expired under them

vars == <<lock, pc, dirty, lapsed>>

Inside == {"held", "watched", "exec"}
Watching == {c \in Context : pc[c] \in {"watched", "exec"}}

Init ==
  /\ lock = NoOwner
  /\ pc = [c \in Context |-> "new"]
  /\ dirty = {}
  /\ lapsed = {}

(* The watchers other than c learn that the key changed.                   *)
Touch(c) == dirty' = (dirty \cup Watching) \ {c}

(* __aenter__ with the NX left out: the key of the owner is overwritten.   *)
EnterOverwriting(c) ==
  /\ pc[c] = "new"
  /\ lock' = c
  /\ Touch(c)
  /\ pc' = [pc EXCEPT ![c] = "held"]
  /\ UNCHANGED lapsed

(* __aenter__: SET key token NX EX ttl; the reply says whether it was set. *)
Enter(c) ==
  /\ pc[c] = "new"
  /\ IF lock = NoOwner
       THEN lock' = c /\ Touch(c) /\ pc' = [pc EXCEPT ![c] = "held"]
       ELSE UNCHANGED <<lock, dirty>> /\ pc' = [pc EXCEPT ![c] = "refused"]
  /\ UNCHANGED lapsed

(* __aexit__ of a context that never acquired the key sends nothing.       *)
ExitRefused(c) ==
  /\ pc[c] = "refused"
  /\ pc' = [pc EXCEPT ![c] = "done"]
  /\ UNCHANGED <<lock, dirty, lapsed>>

(* __aexit__ of an owner: WATCH key.                                       *)
Watch(c) ==
  /\ pc[c] = "held"
  /\ pc' = [pc EXCEPT ![c] = "watched"]
  /\ UNCHANGED <<lock, dirty, lapsed>>

(* The pipeline goes back to the pool without UNWATCH.                     *)
KeepWatching(c) == dirty' = dirty

(* The pipeline is reset when its block is left: nothing is watched then.  *)
Unwatch(c) == dirty' = dirty \ {c}

(* GET key: another token, or none, means that there is nothing to delete. *)
ReadOwner(c) ==
  /\ pc[c] = "watched"
  /\ IF lock = c
       THEN pc' = [pc EXCEPT ![c] = "exec"] /\ UNCHANGED dirty
       ELSE pc' = [pc EXCEPT ![c] = "done"] /\ Unwatch(c)
  /\ UNCHANGED <<lock, lapsed>>

(* DEL key sent outside a transaction.                                     *)
DeleteAlways(c) == lock' = NoOwner /\ Touch(c)

(* MULTI, DEL key, EXEC, as Redis runs it; a WatchError is swallowed.      *)
DeleteUnlessDirty(c) ==
  IF c \in dirty
    THEN UNCHANGED lock /\ Unwatch(c)
    ELSE lock' = NoOwner /\ Touch(c)

Exec(c) ==
  /\ pc[c] = "exec"
  /\ DeleteUnlessDirty(c)
  /\ pc' = [pc EXCEPT ![c] = "done"]
  /\ UNCHANGED lapsed

(* SET with the EX left out.                                               *)
NoTimeToLive == FALSE /\ UNCHANGED vars

(* The time to live given by EX runs out.                                  *)
Expire ==
  /\ lock # NoOwner
  /\ lock' = NoOwner
  /\ dirty' = Watching
  /\ lapsed' = lapsed \cup {lock}
  /\ UNCHANGED pc

(* The task of a context dies between two commands, or its WATCH fails and *)
(* the error leaves the block.  Nothing is watched any more.               *)
Crash(c) ==
  /\ pc[c] \in Inside
  /\ pc' = [pc EXCEPT ![c] = "dead"]
  /\ Unwatch(c)
  /\ UNCHANGED <<lock, lapsed>>

(* The reply of SET is lost: __aenter__ raises, __aexit__ never runs, and  *)
(* the key may have been set.                                              *)
LoseSetReply(c) ==
  /\ pc[c] = "new"
  /\ lock = NoOwner
  /\ lock' = c
  /\ Touch(c)
  /\ pc' = [pc EXCEPT ![c] = "dead"]
  /\ UNCHANGED lapsed

(* EXEC is sent and the task dies before the reply.                        *)
CrashInExec(c) ==
  /\ pc[c] = "exec"
  /\ DeleteUnlessDirty(c)
  /\ pc' = [pc EXCEPT ![c] = "dead"]
  /\ UNCHANGED lapsed

(* The connection fails while it watches, with no EXEC run: redis-py raises*)
(* a WatchError then, which is swallowed, and the key stays behind.  When  *)
(* the reply of an EXEC is lost, this is Exec itself.                      *)
LoseConnection(c) ==
  /\ pc[c] \in {"watched", "exec"}
  /\ Unwatch(c)
  /\ pc' = [pc EXCEPT ![c] = "done"]
  /\ UNCHANGED <<lock, lapsed>>

Step(c) == Enter(c) \/ ExitRefused(c) \/ Watch(c) \/ ReadOwner(c) \/ Exec(c)
Fault(c) == Crash(c) \/ CrashInExec(c) \/ LoseSetReply(c) \/ LoseConnection(c)

Next == Expire \/ \E c \in Context : Step(c) \/ Fault(c)

(* A running handler is scheduled again and the clock of Redis moves.      *)
Fairness == WF_vars(Expire) /\ \A c \in Context : WF_vars(Step(c))

Spec == Init /\ [][Next]_vars
FairSpec == Spec /\ Fairness

------------------------------------------------------------------------------
(* Types: a context can only be flagged dirty while it watches, so that no *)
(* flag survives on a pooled connection into the next transaction.         *)
TypeOK ==
  /\ lock \in Context \cup {NoOwner}
  /\ pc \in [Context -> {"new", "refused", "done", "dead"} \cup Inside]
  /\ dirty \subseteq Watching
  /\ lapsed \subseteq Context

(* Until its time to live has run out, the key of a context inside its     *)
(* block is the one that Redis holds: no other release, however it is      *)
(* interleaved with expiry and re-acquisition, may have deleted it.        *)
LeaseHonoured ==
  \A c \in Context : pc[c] \in Inside /\ c \notin lapsed => lock = c

(* Two contexts are inside the lock together only when one has outlived    *)
(* the time to live of its key.                                            *)
MutualExclusion ==
  \A c, d \in Context :
    c # d /\ {pc[c], pc[d]} \subseteq Inside => lapsed \cap {c, d} # {}

(* The adapter implements the lease that the lock port promises.           *)
Lease == INSTANCE Lease WITH Client <- Context, owner <- lock,
                             user <- {c \in Context : pc[c] \in Inside}
LeaseContract == Lease!Spec

(* A key never stays: its owner deletes it, or its time to live ends, even *)
(* when the worker that set it died or never heard that it had set it.     *)
KeyFreed == \A c \in Context : (lock = c) ~> (lock # c)
==============================================================================
