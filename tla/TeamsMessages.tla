----------------------------- MODULE TeamsMessages -----------------------------
(***************************************************************************)
(* SendTeamsMessage and SendTeamsApprovalCard over the idempotency store   *)
(* and the Graph client.  A send with an Idempotency-Key first looks for a *)
(* cached result; every send posts to Graph, a second time after a 401;    *)
(* with a key, the id of the message is then cached.  Other requests and   *)
(* failures come between these awaits.                                     *)
(*                                                                         *)
(* Messages are numbered as Graph creates them.  How the client gets its   *)
(* token is the subject of MSConnection; get_token raising is one of the   *)
(* ways in which Graph is unavailable here.                                *)
(***************************************************************************)
EXTENDS Integers, Sequences

CONSTANTS Task,       \* the HTTP requests that are ever made
          Key,        \* the Idempotency-Key values that OpenClaw uses
          NoKey,      \* the header is absent or empty
          NoEntry,    \* nothing is cached, or not answered
          Failed,     \* the answer of a request that ends in an error
          Faults      \* what may go wrong, see FaultKinds

(* unauthorized: Graph answers 401, posting nothing.                       *)
(* unavailable: Graph answers with another error, posting nothing.         *)
(* lost_reply: Graph posts the message, its answer does not arrive.        *)
(* expiry: a cached result reaches the end of its time to live.            *)
(* crash: the task of a request dies at any await.                         *)
FaultKinds == {"unauthorized", "unavailable", "lost_reply", "expiry", "crash"}

ASSUME NoKeyAssumption == NoKey \notin Key
ASSUME NumbersAssumption == NoEntry \notin Nat /\ Failed \notin Nat \cup {NoEntry}
ASSUME FaultsAssumption == Faults \subseteq FaultKinds

VARIABLES messages,   \* the task that posted each message of the channel
          cache,      \* the entry under idempotency:op:key, or NoEntry
          pc,         \* the await at which each task is
          request,    \* the operation and the key each task is called with
          attempt,    \* the attempt of _post_to_channel, 0 or 1
          result,     \* the message that each task has posted
          reply,      \* what each task answered
          overlapped, \* history: the ops and keys whose requests overlapped
          forgotten   \* history: the ops and keys of posts that left no trace

vars == <<messages, cache, pc, request, attempt, result, reply, overlapped, forgotten>>

Ops == {"send_teams_message", "send_teams_approval_card"}
Entries == Ops \X Key
Requests == Ops \X (Key \cup {NoKey})
Busy == {"post", "cache"}
Message == 1..Len(messages)

Init ==
  /\ messages = <<>>
  /\ cache = [e \in Entries |-> NoEntry]
  /\ pc = [t \in Task |-> "idle"]
  /\ request \in [Task -> Requests]
  /\ attempt = [t \in Task |-> 0]
  /\ result = [t \in Task |-> NoEntry]
  /\ reply = [t \in Task |-> NoEntry]
  /\ overlapped = {}
  /\ forgotten = {}

Goto(t, p) == pc' = [pc EXCEPT ![t] = p]
Answer(t, a) == Goto(t, "done") /\ reply' = [reply EXCEPT ![t] = a]

(* idempotency:{operation}:{key} without the operation.                    *)
SharedEntry(t) == <<"send_teams_message", request[t][2]>>

(* idempotency:{operation}:{key}                                           *)
Entry(t) == request[t]

(* The header is there and not empty.                                      *)
Keyed(t) == request[t][2] # NoKey

(* A request arrives; with a key, the cache is read.                       *)
Send(t) ==
  /\ pc[t] = "idle"
  /\ \/ Keyed(t) /\ cache[Entry(t)] # NoEntry /\ Answer(t, cache[Entry(t)])
     \/ (Keyed(t) => cache[Entry(t)] = NoEntry) /\ Goto(t, "post") /\ UNCHANGED reply
  /\ overlapped' = overlapped \cup
       {request[t] : u \in {v \in Task : pc[v] \in Busy /\ request[v] = request[t]}}
  /\ UNCHANGED <<messages, cache, request, attempt, result, forgotten>>

(* Graph posts a message each time it is asked to.                         *)
NewMessage(t) == messages' = Append(messages, t)

(* The id of the new message is the answer, with a key once it is cached.  *)
Posted(t) ==
  /\ result' = [result EXCEPT ![t] = Len(messages')]
  /\ \/ Keyed(t) /\ Goto(t, "cache") /\ UNCHANGED reply
     \/ ~Keyed(t) /\ Answer(t, result'[t])

(* A call that does not answer is repeated, like one answered with 401.    *)
PostAgain(t) ==
  /\ pc[t] = "post"
  /\ NewMessage(t)
  /\ \/ Posted(t) /\ UNCHANGED attempt
     \/ /\ "lost_reply" \in Faults /\ attempt[t] = 0
        /\ attempt' = [attempt EXCEPT ![t] = 1]
        /\ UNCHANGED <<pc, result, reply>>
  /\ UNCHANGED <<cache, request, overlapped, forgotten>>

(* The status of the response is not looked at.                            *)
PostUnchecked(t) ==
  /\ pc[t] = "post"
  /\ \/ NewMessage(t)
     \/ "unavailable" \in Faults /\ UNCHANGED messages
  /\ result' = [result EXCEPT ![t] = Len(messages) + 1]
  /\ Goto(t, "cache")
  /\ UNCHANGED <<cache, request, attempt, reply, overlapped, forgotten>>

(* _post_to_channel: a 401 is answered by a second attempt, once.          *)
Post(t) ==
  /\ pc[t] = "post"
  /\ \/ NewMessage(t) /\ Posted(t) /\ UNCHANGED <<attempt, forgotten>>
     \/ /\ "unauthorized" \in Faults /\ attempt[t] = 0
        /\ attempt' = [attempt EXCEPT ![t] = 1]
        /\ UNCHANGED <<messages, pc, result, reply, forgotten>>
     \/ /\ \/ "unauthorized" \in Faults /\ attempt[t] = 1
           \/ "unavailable" \in Faults
        /\ Answer(t, Failed)
        /\ UNCHANGED <<messages, attempt, result, forgotten>>
     \/ /\ "lost_reply" \in Faults
        /\ NewMessage(t)
        /\ Answer(t, Failed)
        /\ forgotten' = forgotten \cup {request[t]}
        /\ UNCHANGED <<attempt, result>>
  /\ UNCHANGED <<cache, request, overlapped>>

(* The result is not cached.                                               *)
CacheSkipped(t) ==
  /\ pc[t] = "cache"
  /\ Answer(t, result[t])
  /\ UNCHANGED <<messages, cache, request, attempt, result, overlapped, forgotten>>

(* idempotency_store.set overwrites whatever is cached by then.            *)
Cache(t) ==
  /\ pc[t] = "cache"
  /\ cache' = [cache EXCEPT ![Entry(t)] = result[t]]
  /\ Answer(t, result[t])
  /\ UNCHANGED <<messages, request, attempt, result, overlapped, forgotten>>

(* A task that dies with a message posted leaves no trace of it.           *)
Crash(t) ==
  /\ "crash" \in Faults
  /\ pc[t] \in Busy
  /\ Goto(t, "dead")
  /\ forgotten' = IF pc[t] = "cache" THEN forgotten \cup {request[t]} ELSE forgotten
  /\ UNCHANGED <<messages, cache, request, attempt, result, reply, overlapped>>

(* The time to live of a cached result runs out.                           *)
Expire(e) ==
  /\ "expiry" \in Faults
  /\ cache[e] # NoEntry
  /\ cache' = [cache EXCEPT ![e] = NoEntry]
  /\ forgotten' = forgotten \cup {e}
  /\ UNCHANGED <<messages, pc, request, attempt, result, reply, overlapped>>

Next ==
  \/ \E t \in Task : Send(t) \/ Post(t) \/ Cache(t) \/ Crash(t)
  \/ \E e \in Entries : Expire(e)

Spec == Init /\ [][Next]_vars

--------------------------------------------------------------------------------
(* Types: nothing cached, held or answered that Graph has not created.     *)
TypeOK ==
  /\ messages \in Seq(Task)
  /\ cache \in [Entries -> Message \cup {NoEntry}]
  /\ pc \in [Task -> {"idle", "done", "dead"} \cup Busy]
  /\ request \in [Task -> Requests]
  /\ attempt \in [Task -> {0, 1}]
  /\ result \in [Task -> Message \cup {NoEntry}]
  /\ reply \in [Task -> Message \cup {NoEntry, Failed}]

(* Whatever overlaps, fails or expires, the message id in an answer is that*)
(* of a message posted for the same operation and key, and, without a key, *)
(* by the very request that is answered.                                   *)
RepliesPosted ==
  \A t \in Task : reply[t] \in Message =>
    LET poster == messages[reply[t]] IN
    IF Keyed(t) THEN request[poster] = request[t] ELSE poster = t

(* The same of what is cached, and so of every later answer.               *)
CachedPosted ==
  \A e \in Entries : cache[e] \in Message => request[messages[cache[e]]] = e

(* A request posts its message at most once: the attempt after a 401 never *)
(* repeats a post.                                                         *)
OnePostEach == \A i, j \in Message : messages[i] = messages[j] => i = j

(* Retries with one key make no duplicate, though calls are refused or     *)
(* fail in between, unless two of them overlapped or a post left no trace: *)
(* its reply was lost, its task died, or its cached result expired.        *)
SerialOneMessage ==
  \A i, j \in Message :
    LET e == request[messages[i]] IN
    /\ request[messages[j]] = e
    /\ e \in Entries \ (overlapped \cup forgotten)
    => i = j
================================================================================
