------------------------------ MODULE OAuthState ------------------------------
(***************************************************************************)
(* RedisOAuthStateStore for one state value: save, and the pop of every    *)
(* callback that carries it, one Redis command a step.                     *)
(*                                                                         *)
(* The value is random and is handed out after it was saved, so it is      *)
(* saved once; the browser may send its redirect more than once.           *)
(***************************************************************************)
CONSTANTS Callback     \* the callbacks that carry the state

VARIABLES key,         \* the key: unsaved, saved or gone
          pc,          \* the await at which each pop is
          dirty,       \* the watching callbacks whose EXEC will be refused
          result       \* what pop returned to each callback: the value, or
                       \* None, called lost when a failed connection made it

vars == <<key, pc, dirty, result>>

Watching == {c \in Callback : pc[c] \in {"watched", "exec"}}

Init ==
  /\ key = "unsaved"
  /\ pc = [c \in Callback |-> "idle"]
  /\ dirty = {}
  /\ result = [c \in Callback |-> "none"]

(* BuildXeroAuthorizationUrl: SET key connection EX ttl.                   *)
Save ==
  /\ key = "unsaved"
  /\ key' = "saved"
  /\ dirty' = Watching
  /\ UNCHANGED <<pc, result>>

(* The time to live runs out while nobody, or somebody, is popping.        *)
Expire ==
  /\ key = "saved"
  /\ key' = "gone"
  /\ dirty' = Watching
  /\ UNCHANGED <<pc, result>>

(* WATCH key.  Nobody knows the value before save has returned.            *)
Watch(c) ==
  /\ pc[c] = "idle" /\ key # "unsaved"
  /\ pc' = [pc EXCEPT ![c] = "watched"]
  /\ UNCHANGED <<key, dirty, result>>

(* The pipeline goes back to the pool without UNWATCH.                     *)
KeepWatching(c) == dirty' = dirty

(* The pipeline is reset when its block is left: nothing is watched then.  *)
Unwatch(c) == dirty' = dirty \ {c}

Return(c, r) ==
  /\ pc' = [pc EXCEPT ![c] = "done"]
  /\ result' = [result EXCEPT ![c] = r]

(* GET key.                                                                *)
Get(c) ==
  /\ pc[c] = "watched"
  /\ \/ key = "saved" /\ pc' = [pc EXCEPT ![c] = "exec"] /\ UNCHANGED <<dirty, result>>
     \/ key # "saved" /\ Return(c, "missing") /\ Unwatch(c)
  /\ UNCHANGED key

(* The DEL is not queued: the transaction is empty.                        *)
DeleteNothing(c) == UNCHANGED key /\ Unwatch(c)

(* MULTI, DEL key, EXEC, run by Redis: the other watchers learn of it.     *)
Delete(c) == key' = "gone" /\ dirty' = (dirty \cup Watching) \ {c}

(* DEL key sent outside of a transaction: the key may be gone by then.     *)
ExecAlways(c) ==
  /\ pc[c] = "exec"
  /\ Delete(c) /\ Return(c, "value")

(* EXEC on a clean connection; a WatchError means that it was consumed.    *)
Exec(c) ==
  /\ pc[c] = "exec"
  /\ \/ c \notin dirty /\ Delete(c) /\ Return(c, "value")
     \/ c \in dirty /\ UNCHANGED key /\ Return(c, "missing") /\ Unwatch(c)

(* The task of a callback dies; Redis may still run the EXEC that it sent. *)
Crash(c) ==
  /\ pc[c] \in {"watched", "exec"}
  /\ pc' = [pc EXCEPT ![c] = "dead"]
  /\ \/ UNCHANGED key /\ Unwatch(c)
     \/ pc[c] = "exec" /\ c \notin dirty /\ Delete(c)
  /\ UNCHANGED result

(* The connection fails while it watches.  redis-py raises a WatchError    *)
(* then, and pop returns None as if the state had been consumed, whether   *)
(* or not Redis has run the EXEC.                                          *)
LoseConnection(c) ==
  /\ pc[c] \in {"watched", "exec"}
  /\ Return(c, "lost")
  /\ \/ UNCHANGED key /\ Unwatch(c)
     \/ pc[c] = "exec" /\ c \notin dirty /\ Delete(c)

Step(c) == Watch(c) \/ Get(c) \/ Exec(c)

Next ==
  \/ Save \/ Expire
  \/ \E c \in Callback : Step(c) \/ Crash(c) \/ LoseConnection(c)

Spec == Init /\ [][Next]_vars

-------------------------------------------------------------------------------
(* Types; no flag outlives the transaction that it is about.               *)
TypeOK ==
  /\ key \in {"unsaved", "saved", "gone"}
  /\ pc \in [Callback -> {"idle", "done", "dead"} \cup {"watched", "exec"}]
  /\ dirty \subseteq Watching
  /\ result \in [Callback -> {"none", "value", "missing", "lost"}]

(* The docstring of pop: "each state value can only be consumed once even  *)
(* under concurrent callback requests".                                    *)
ConsumedOnce ==
  \A c, d \in Callback : result[c] = "value" /\ result[d] = "value" => c = d

(* Each pop is one atomic pop, somewhere between its call and its return;  *)
(* that is the step which XeroConnection takes for a callback.             *)
Atomic == INSTANCE StatePop
PopContract == Atomic!Spec
================================================================================
