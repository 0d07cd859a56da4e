-------------------------------- MODULE Lease --------------------------------
(***************************************************************************)
(* What the lock port promises its callers: a lease.  At most one client   *)
(* owns the key.  A client that entered keeps the key until it leaves or   *)
(* until the time to live of the key runs out, and a client whose lease    *)
(* ran out can no longer take the key away from the next owner.            *)
(*                                                                         *)
(* RedisLock shows that the Redis adapter implements this module, and the  *)
(* token managers are built on its actions.                                *)
(***************************************************************************)

CONSTANTS Client,    \* the callers of the lock
          NoOwner    \* the key is absent: not a client

VARIABLES owner,     \* the client whose token the key holds
          user       \* the clients inside their "async with" block

vars == <<owner, user>>

Init == owner = NoOwner /\ user = {}

(* The body of the lock is entered with acquired = True.                   *)
Enter(c) ==
  /\ c \notin user
  /\ owner = NoOwner
  /\ owner' = c
  /\ user' = user \cup {c}

(* The body ends and the key goes with it, but only when it is still ours. *)
Leave(c) ==
  /\ c \in user
  /\ user' = user \ {c}
  /\ owner' = IF owner = c THEN NoOwner ELSE owner

(* The time to live of the key runs out, whatever its owner is doing.      *)
Expire ==
  /\ owner # NoOwner
  /\ owner' = NoOwner
  /\ UNCHANGED user

(* A client dies inside the body, or its release fails: the key stays.     *)
Abandon(c) ==
  /\ c \in user
  /\ user' = user \ {c}
  /\ UNCHANGED owner

(* The key is set for a client that never learns of it.                    *)
Orphan(c) ==
  /\ c \notin user
  /\ owner = NoOwner
  /\ owner' = c
  /\ UNCHANGED user

Next ==
  \/ Expire
  \/ \E c \in Client : Enter(c) \/ Leave(c) \/ Abandon(c) \/ Orphan(c)

Spec == Init /\ [][Next]_vars
==============================================================================
