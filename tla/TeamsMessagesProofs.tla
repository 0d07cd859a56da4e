-------------------------- MODULE TeamsMessagesProofs --------------------------
(***************************************************************************)
(* Proofs about TeamsMessages, for any number of requests and keys.        *)
(*                                                                         *)
(* PostInv says what a message in the channel tells of the request that    *)
(* posted it, and holds under every fault.  SerialInv says what keeps the  *)
(* requests of one key apart until two of them overlap or a post leaves no *)
(* trace: every message is about to be cached or is cached, and a request  *)
(* that is about to post saw an empty cache which is empty still.          *)
(***************************************************************************)
EXTENDS TeamsMessages, TLAPS

(* A request that is about to cache a message has posted that message.     *)
HeldIsOwn ==
  \A t \in Task : pc[t] = "cache" =>
    Keyed(t) /\ result[t] \in Message /\ messages[result[t]] = t

(* A request that has posted does not come back to post again.             *)
PostersMoved == \A i \in Message : pc[messages[i]] \notin {"idle", "post"}

PostInv ==
  /\ TypeOK /\ HeldIsOwn /\ PostersMoved
  /\ RepliesPosted /\ CachedPosted /\ OnePostEach

Quiet(e) == e \in Entries \ (overlapped \cup forgotten)

(* Two requests of one operation and key at the same time are remembered.  *)
OverlapIsSeen ==
  \A t, u \in Task : pc[t] \in Busy /\ pc[u] \in Busy /\ request[t] = request[u] =>
    t = u \/ request[t] \in overlapped

(* Every message is cached, or its poster is about to cache it.            *)
MessagesAreTraced ==
  \A i \in Message : Quiet(request[messages[i]]) =>
    pc[messages[i]] = "cache" \/ cache[request[messages[i]]] # NoEntry

(* What a request that is about to post saw in the cache is still true.    *)
MissIsFresh ==
  \A t \in Task : pc[t] = "post" /\ Quiet(request[t]) => cache[request[t]] = NoEntry

SerialInv == OverlapIsSeen /\ MessagesAreTraced /\ MissIsFresh /\ SerialOneMessage

IInv == PostInv /\ SerialInv

(* A request carries a key when its operation and key name an entry.       *)
LEMMA KeyedEntry ==
  ASSUME TypeOK, NEW t \in Task
  PROVE  Keyed(t) <=> request[t] \in Entries
  BY NoKeyAssumption DEF TypeOK, Keyed, Entries, Requests

LEMMA InitInv == Init => IInv
<1> SUFFICES ASSUME Init PROVE IInv
  OBVIOUS
<1>1. Message = {} /\ messages \in Seq(Task)
  BY DEF Init, Message
<1>2. PostInv
  BY <1>1, NumbersAssumption DEF Init, PostInv, TypeOK, HeldIsOwn, PostersMoved,
     RepliesPosted, CachedPosted, OnePostEach, Busy
<1>3. SerialInv
  BY <1>1 DEF Init, SerialInv, OverlapIsSeen, MessagesAreTraced, MissIsFresh, SerialOneMessage, Busy
<1> QED
  BY <1>2, <1>3 DEF IInv

(* A post appends one message, and leaves those before it where they were. *)
LEMMA Appending ==
  ASSUME messages \in Seq(Task), NEW t \in Task, NewMessage(t)
  PROVE  /\ messages' \in Seq(Task)
         /\ Len(messages') = Len(messages) + 1
         /\ Message' = Message \cup {Len(messages')}
         /\ Len(messages') \notin Message /\ Len(messages') \in Nat
         /\ messages'[Len(messages')] = t
         /\ \A i \in Message : messages'[i] = messages[i]
  BY DEF NewMessage, Message

(* Messages are numbers, and so no mark of the cache or of an answer.      *)
LEMMA Numbers ==
  ASSUME messages \in Seq(Task)
  PROVE  Message \subseteq Nat /\ NoEntry \notin Message /\ Failed \notin Message
  BY NumbersAssumption DEF Message

(* A post that is refused changes nothing that was posted or cached.       *)
LEMMA UnpostedStep ==
  ASSUME PostInv, NEW t \in Task, pc[t] = "post",
         UNCHANGED <<messages, result, cache, request>>, attempt' \in [Task -> {0, 1}],
         UNCHANGED <<pc, reply>> \/ Answer(t, Failed)
  PROVE  PostInv'
<1>1. Message' = Message /\ Failed \notin Message
  BY Numbers DEF Message, PostInv, TypeOK
<1>2. \A u \in Task : pc'[u] = pc[u] \/ (u = t /\ pc'[u] = "done")
  BY DEF Answer, Goto, PostInv, TypeOK
<1>3. \A u \in Task : reply'[u] = reply[u] \/ (u = t /\ reply'[u] = Failed)
  BY DEF Answer, PostInv, TypeOK
<1>4. TypeOK'
  BY <1>1 DEF Answer, Goto, PostInv, TypeOK
<1>5. HeldIsOwn'
  BY <1>1, <1>2 DEF PostInv, HeldIsOwn, Keyed
<1>6. PostersMoved'
  <2>1. \A i \in Message : messages[i] \in Task
    BY DEF PostInv, TypeOK, Message
  <2> QED
    BY <1>1, <1>2, <2>1 DEF PostInv, PostersMoved
<1>7. RepliesPosted'
  BY <1>1, <1>3 DEF PostInv, RepliesPosted, Keyed
<1>8. CachedPosted' /\ OnePostEach'
  BY <1>1 DEF PostInv, CachedPosted, OnePostEach
<1> QED
  BY <1>4, <1>5, <1>6, <1>7, <1>8 DEF PostInv

(* A post, whether its answer arrives or not.                              *)
LEMMA PostedStep ==
  ASSUME PostInv, NEW t \in Task, pc[t] = "post",
         NewMessage(t), UNCHANGED <<cache, request>>, attempt' \in [Task -> {0, 1}],
         Posted(t) \/ (Answer(t, Failed) /\ UNCHANGED result)
  PROVE  PostInv'
<1> DEFINE n == Len(messages')
<1>1. /\ messages' \in Seq(Task) /\ messages'[n] = t /\ n \in Nat
      /\ Message' = Message \cup {n} /\ n \notin Message
      /\ \A i \in Message : messages'[i] = messages[i]
  BY Appending DEF PostInv, TypeOK
<1>2. Message \subseteq Nat /\ NoEntry \notin Message' /\ Failed \notin Message'
  BY <1>1, Numbers, NumbersAssumption DEF PostInv, TypeOK
<1>3. \A i \in Message : messages[i] \in Task \ {t}
  BY DEF PostInv, TypeOK, PostersMoved, Message
<1>4. \A u \in Task \ {t} : pc'[u] = pc[u] /\ result'[u] = result[u] /\ reply'[u] = reply[u]
  BY DEF Posted, Answer, Goto, PostInv, TypeOK
<1>5. pc'[t] = "done" \/ (pc'[t] = "cache" /\ Keyed(t) /\ result'[t] = n)
  BY DEF Posted, Answer, Goto, PostInv, TypeOK
<1>6. reply'[t] \in {reply[t], Failed} \/ (reply'[t] = n /\ ~Keyed(t))
  BY DEF Posted, Answer, PostInv, TypeOK
<1> HIDE DEF n
<1>7. TypeOK'
  <2>1. /\ result' \in [Task -> Message' \cup {NoEntry}]
        /\ reply' \in [Task -> Message' \cup {NoEntry, Failed}]
    BY <1>1 DEF Posted, Answer, PostInv, TypeOK, n
  <2> QED
    BY <1>1, <2>1 DEF Posted, Answer, Goto, PostInv, TypeOK, Busy
<1>8. HeldIsOwn'
  BY <1>1, <1>4, <1>5 DEF PostInv, HeldIsOwn, Keyed
<1>9. PostersMoved'
  BY <1>1, <1>3, <1>4, <1>5 DEF PostInv, PostersMoved
<1>10. RepliesPosted'
  <2> SUFFICES ASSUME NEW u \in Task, reply'[u] \in Message'
               PROVE  IF Keyed(u) THEN request[messages'[reply'[u]]] = request[u]
                      ELSE messages'[reply'[u]] = u
    BY DEF RepliesPosted, Keyed
  <2>1. CASE reply'[u] = reply[u]
    <3>1. reply[u] \in Message /\ messages'[reply[u]] = messages[reply[u]]
      BY <1>1, <1>2, <2>1 DEF PostInv, TypeOK
    <3> QED
      BY <2>1, <3>1 DEF PostInv, RepliesPosted
  <2>2. CASE u = t /\ reply'[t] = n /\ ~Keyed(t)
    BY <1>1, <2>2
  <2> QED
    BY <1>2, <1>4, <1>6, <2>1, <2>2
<1>11. CachedPosted'
  <2>1. \A e \in Entries : cache[e] \in Message' => cache[e] \in Message
    BY <1>2 DEF PostInv, TypeOK
  <2> QED
    BY <1>1, <2>1 DEF PostInv, CachedPosted
<1>12. OnePostEach'
  BY <1>1, <1>3 DEF PostInv, OnePostEach
<1> QED
  BY <1>7, <1>8, <1>9, <1>10, <1>11, <1>12 DEF PostInv

LEMMA PostStep == PostInv /\ [Next]_vars => PostInv'
<1> SUFFICES ASSUME PostInv, [Next]_vars PROVE PostInv'
  OBVIOUS
<1>0. Message \subseteq Nat /\ NoEntry \notin Message /\ Failed \notin Message
  BY Numbers DEF PostInv, TypeOK
<1> USE <1>0, NoKeyAssumption, NumbersAssumption
    DEF PostInv, TypeOK, HeldIsOwn, PostersMoved, RepliesPosted, CachedPosted,
        OnePostEach, Busy, Goto, Answer, Entry, Keyed
<1>1. ASSUME NEW t \in Task, Send(t) PROVE PostInv'
  <2>1. Message' = Message /\ UNCHANGED <<messages, cache, request, attempt, result>>
    BY <1>1 DEF Send, Message
  <2>2. CASE Keyed(t) /\ cache[Entry(t)] # NoEntry /\ Answer(t, cache[Entry(t)])
    <3>1. request[t] \in Entries
      BY <2>2, KeyedEntry
    <3>2. cache[request[t]] \in Message /\ request[messages[cache[request[t]]]] = request[t]
      BY <2>2, <3>1
    <3> QED
      BY <1>1, <2>1, <2>2, <3>2 DEF Send
  <2>3. CASE Goto(t, "post") /\ UNCHANGED reply
    BY <1>1, <2>1, <2>3 DEF Send
  <2> QED
    BY <1>1, <2>2, <2>3 DEF Send
<1>2. ASSUME NEW t \in Task, Post(t) PROVE PostInv'
  BY <1>2, PostedStep, UnpostedStep DEF Post
<1>3. ASSUME NEW t \in Task, Cache(t) PROVE PostInv'
  <2>1. Message' = Message /\ UNCHANGED <<messages, request, attempt, result>>
    BY <1>3 DEF Cache, Message
  <2> QED
    BY <1>3, <2>1, KeyedEntry DEF Cache
<1>4. ASSUME NEW t \in Task, Crash(t) PROVE PostInv'
  <2>1. Message' = Message
    BY <1>4 DEF Crash, Message
  <2> QED
    BY <1>4, <2>1 DEF Crash
<1>5. ASSUME NEW e \in Entries, Expire(e) PROVE PostInv'
  <2>1. Message' = Message
    BY <1>5 DEF Expire, Message
  <2> QED
    BY <1>5, <2>1 DEF Expire
<1>6. CASE UNCHANGED vars
  <2>1. Message' = Message
    BY <1>6 DEF vars, Message
  <2> QED
    BY <1>6, <2>1 DEF vars
<1> QED
  BY <1>1, <1>2, <1>3, <1>4, <1>5, <1>6 DEF Next

(* No step breaks what keeps the requests of one key apart.                *)
LEMMA SerialStep == IInv /\ [Next]_vars => SerialInv'
<1> SUFFICES ASSUME IInv, [Next]_vars PROVE SerialInv'
  OBVIOUS
<1>0. NoEntry \notin Message /\ \A i \in Message : messages[i] \in Task
  BY Numbers DEF IInv, PostInv, TypeOK, Message
<1> USE DEF IInv, PostInv, TypeOK, SerialInv, Quiet, OverlapIsSeen, MessagesAreTraced,
            MissIsFresh, SerialOneMessage, Busy, Goto, Answer, Entry
<1>1. ASSUME NEW t \in Task, Send(t) PROVE SerialInv'
  <2>1. Message' = Message /\ UNCHANGED <<messages, cache, request, forgotten>>
    BY <1>1 DEF Send, Message
  <2>2. overlapped \subseteq overlapped'
    BY <1>1 DEF Send
  <2>3. OverlapIsSeen'
    BY <1>1 DEF Send
  <2>4. MessagesAreTraced'
    BY <1>0, <1>1, <2>1, <2>2 DEF Send, PostersMoved
  <2>5. MissIsFresh'
    BY <1>1, <2>1, <2>2, KeyedEntry DEF Send
  <2>6. SerialOneMessage'
    BY <2>1, <2>2
  <2> QED
    BY <2>3, <2>4, <2>5, <2>6
<1>2. ASSUME NEW t \in Task, Post(t) PROVE SerialInv'
  <2>0. /\ UNCHANGED <<cache, request, overlapped>> /\ forgotten \subseteq forgotten'
        /\ pc[t] = "post" /\ \A u \in Task \ {t} : pc'[u] = pc[u]
        /\ pc'[t] \in {"post", "cache", "done"}
    BY <1>2 DEF Post, Posted
  <2>1. OverlapIsSeen' /\ MissIsFresh'
    BY <2>0
  <2>2. CASE UNCHANGED messages
    <3>1. Message' = Message
      BY <2>2 DEF Message
    <3> QED
      BY <1>0, <2>0, <2>1, <2>2, <3>1
  <2>3. CASE NewMessage(t)
    <3> DEFINE n == Len(messages')
    <3>1. /\ Message' = Message \cup {n} /\ messages'[n] = t
          /\ \A i \in Message : messages'[i] = messages[i] /\ messages[i] \in Task \ {t}
      BY <1>0, <2>0, <2>3, Appending DEF PostersMoved
    <3>2. Quiet(request[t])' => Quiet(request[t]) /\ pc'[t] = "cache"
      <4>1. request[t] \in Entries => Keyed(t)
        BY KeyedEntry
      <4>2. \/ pc'[t] = "cache" \/ ~Keyed(t) \/ request[t] \in forgotten'
            \/ UNCHANGED messages
        BY <1>2 DEF Post, Posted
      <4>3. ~UNCHANGED messages
        BY <2>3, Appending
      <4> QED
        BY <2>0, <4>1, <4>2, <4>3
    <3> HIDE DEF n
    <3>3. MessagesAreTraced'
      BY <2>0, <3>1, <3>2
    <3>4. \A i \in Message : request[messages[i]] = request[t] => ~Quiet(request[t])'
      BY <2>0, <3>1, <3>2
    <3>5. SerialOneMessage'
      BY <2>0, <3>1, <3>2, <3>4
    <3> QED
      BY <2>1, <3>3, <3>5
  <2> QED
    BY <1>2, <2>2, <2>3 DEF Post
<1>3. ASSUME NEW t \in Task, Cache(t) PROVE SerialInv'
  <2>1. Message' = Message /\ UNCHANGED <<messages, request, overlapped, forgotten>>
    BY <1>3 DEF Cache, Message
  <2>2. /\ request[t] \in Entries /\ cache' = [cache EXCEPT ![request[t]] = result[t]]
        /\ result[t] # NoEntry
    BY <1>0, <1>3, KeyedEntry DEF Cache, HeldIsOwn
  <2>3. OverlapIsSeen'
    BY <1>3, <2>1 DEF Cache
  <2>4. MessagesAreTraced'
    BY <1>3, <2>1, <2>2 DEF Cache
  <2>5. MissIsFresh'
    BY <1>3, <2>1, <2>2 DEF Cache
  <2>6. SerialOneMessage'
    BY <2>1
  <2> QED
    BY <2>3, <2>4, <2>5, <2>6
<1>4. ASSUME NEW t \in Task, Crash(t) PROVE SerialInv'
  <2>1. Message' = Message /\ UNCHANGED <<messages, cache, request, overlapped>>
    BY <1>4 DEF Crash, Message
  <2>2. forgotten \subseteq forgotten' /\ (pc[t] = "cache" => request[t] \in forgotten')
    BY <1>4 DEF Crash
  <2>3. OverlapIsSeen' /\ MissIsFresh'
    BY <1>4, <2>1, <2>2 DEF Crash
  <2>4. MessagesAreTraced'
    BY <1>0, <1>4, <2>1, <2>2 DEF Crash
  <2>5. SerialOneMessage'
    BY <2>1, <2>2
  <2> QED
    BY <2>3, <2>4, <2>5
<1>5. ASSUME NEW e \in Entries, Expire(e) PROVE SerialInv'
  <2>1. Message' = Message /\ UNCHANGED <<messages, pc, request, overlapped>>
    BY <1>5 DEF Expire, Message
  <2>2. forgotten' = forgotten \cup {e} /\ cache' = [cache EXCEPT ![e] = NoEntry]
    BY <1>5 DEF Expire
  <2> QED
    BY <2>1, <2>2
<1>6. CASE UNCHANGED vars
  <2>1. Message' = Message
    BY <1>6 DEF vars, Message
  <2> QED
    BY <1>6, <2>1 DEF vars
<1> QED
  BY <1>1, <1>2, <1>3, <1>4, <1>5, <1>6 DEF Next

(* The inductive invariant holds in every reachable state.                 *)
THEOREM Invariance == Spec => []IInv
<1>1. IInv /\ [Next]_vars => IInv'
  BY PostStep, SerialStep DEF IInv
<1> QED
  BY InitInv, <1>1, PTL DEF Spec

(* Every reachable state of the sends has the declared types.              *)
THEOREM TypeCorrectness == Spec => []TypeOK
<1>1. IInv => TypeOK
  BY DEF IInv, PostInv
<1> QED
  BY <1>1, Invariance, PTL

(* Under every fault, an answer names a message of its own request.        *)
THEOREM RepliesArePosted == Spec => []RepliesPosted
<1>1. IInv => RepliesPosted
  BY DEF IInv, PostInv
<1> QED
  BY <1>1, Invariance, PTL

(* Under every fault, the cache names messages of its own key.             *)
THEOREM CacheIsPosted == Spec => []CachedPosted
<1>1. IInv => CachedPosted
  BY DEF IInv, PostInv
<1> QED
  BY <1>1, Invariance, PTL

(* Under every fault, a request posts at most once.                        *)
THEOREM PostsOnce == Spec => []OnePostEach
<1>1. IInv => OnePostEach
  BY DEF IInv, PostInv
<1> QED
  BY <1>1, Invariance, PTL

(* Retries that nothing disturbs make no duplicate.                        *)
THEOREM NoDuplicates == Spec => []SerialOneMessage
<1>1. IInv => SerialOneMessage
  BY DEF IInv, SerialInv
<1> QED
  BY <1>1, Invariance, PTL
================================================================================
