---------------------------- MODULE ApprovalsProofs ----------------------------
(***************************************************************************)
(* Proofs about Approvals, for any number of overlapping requests that may *)
(* die at any await, any payloads and any forms.                           *)
(*                                                                         *)
(* ResolvedWasPosted follows from what a webhook call shares with the task *)
(* that made it: a task that is about to save has a post of its own, and   *)
(* every post tells what its task has read and was asked for.  SerialInv   *)
(* says what is true until two writers overlap: what a writer has read is  *)
(* still stored when it writes, and only the last call of the webhook can  *)
(* be stored.                                                              *)
(***************************************************************************)
EXTENDS Approvals, TLAPS

(* The record in Redis is among those that were ever in Redis.             *)
CurrentWasSaved == record # NoRecord => FromMapping(record) \in saved

(* Tasks that will write were admitted with a valid form.                  *)
WritersAreValid ==
  \A t \in Task : pc[t] \in {"notify", "save"} => request[t] \in Form /\ ~Refused(request[t])

(* A task about to save has posted its decision.                           *)
SaversHavePosted == \A t \in Task : pc[t] = "save" => \E p \in posts : p.task = t

(* A post tells what its task read and was asked to decide.                *)
PostsMatch ==
  \A p \in posts :
    /\ p.task \in Task
    /\ pc[p.task] \in {"save", "done", "dead"}
    /\ p.payload = seen[p.task].payload
    /\ p.decision = request[p.task].decision
    /\ p.note = Clean(request[p.task].note)
    /\ p.result = "ok" => p.arrived

(* An old record is only read: nothing was saved and nothing will be.      *)
OldIsUntouched ==
  IsOld => saved = {FromMapping(record)} /\ \A t \in Task : pc[t] \notin Busy

(* Every record that was ever in Redis is coherent.                        *)
Coherent(r) ==
  /\ r.status = "resolved" <=> r.decision \in Decisions
  /\ r.decision = "needs_changes" => r.note = "text"

SavedAreCoherent == \A r \in saved : Coherent(r)

PostInv == WritersAreValid /\ SaversHavePosted /\ PostsMatch

IInv ==
  /\ pc \in [Task -> {"idle", "done", "dead"} \cup Busy]
  /\ DOMAIN seen = Task /\ DOMAIN request = Task /\ DOMAIN reply = Task
  /\ CurrentWasSaved /\ PostInv /\ OldIsUntouched /\ SavedAreCoherent
  /\ ResolvedWasPosted /\ RepliesWerePersisted

(* Records of this release are read back as they were written.             *)
LEMMA NewRecordsReadBack ==
  ASSUME NEW a, NEW f, NEW result, NEW q
  PROVE  /\ FromMapping(Pending(q)) = Pending(q)
         /\ FromMapping(Resolved(a, f, result)) = Resolved(a, f, result)
         /\ Pending(q).status = "pending"
         /\ Resolved(a, f, result).status = "resolved"
  BY DEF FromMapping, Pending, Resolved

(* The old statuses become decisions when they are read.                   *)
LEMMA OldRecordsMigrate ==
  ASSUME NEW q, NEW d \in {"approved", "rejected"}
  PROVE  /\ OldRecord(q, d).status = d
         /\ FromMapping(OldRecord(q, d)).status = "resolved"
         /\ Coherent(FromMapping(OldRecord(q, d)))
  BY DEF OldRecord, Pending, FromMapping, Coherent, Decisions

LEMMA InitInv == Init => IInv
<1> SUFFICES ASSUME Init PROVE IInv
  OBVIOUS
<1>1. CASE record = NoRecord
  BY <1>1 DEF Init, IInv, CurrentWasSaved, PostInv, WritersAreValid, SaversHavePosted,
     PostsMatch, OldIsUntouched, SavedAreCoherent, ResolvedWasPosted, RepliesWerePersisted,
     IsOld, Busy
<1>2. CASE record # NoRecord
  <2>1. PICK q \in Payload, d \in {"approved", "rejected"} : record = OldRecord(q, d)
    BY <1>2 DEF Init
  <2> QED
    BY <1>2, <2>1, OldRecordsMigrate
       DEF Init, IInv, CurrentWasSaved, PostInv, WritersAreValid, SaversHavePosted,
           PostsMatch, OldIsUntouched, SavedAreCoherent, ResolvedWasPosted,
           RepliesWerePersisted, IsOld, Busy
<1> QED
  BY <1>1, <1>2

(* What a task that saves a decision writes, and the post that it made.    *)
LEMMA SavedDecision ==
  ASSUME PostInv, NEW t \in Task, pc[t] = "save"
  PROVE  LET r == Resolved(seen[t], request[t], Result(t))
         IN  /\ Coherent(r)
             /\ \E p \in posts :
                  /\ p.payload = r.payload /\ p.decision = r.decision /\ p.note = r.note
                  /\ p.result = r.webhook /\ (r.webhook = "ok" => p.arrived)
<1> DEFINE r == Resolved(seen[t], request[t], Result(t))
<1> DEFINE p == CHOOSE q \in posts : q.task = t
<1>1. p \in posts /\ p.task = t
  BY DEF PostInv, SaversHavePosted
<1>2. /\ p.payload = seen[t].payload
      /\ p.decision = request[t].decision
      /\ p.note = Clean(request[t].note)
      /\ p.result = "ok" => p.arrived
  BY <1>1 DEF PostInv, PostsMatch
<1>3. /\ r.payload = seen[t].payload /\ r.decision = request[t].decision
      /\ r.note = Clean(request[t].note) /\ r.webhook = p.result /\ r.status = "resolved"
  BY DEF Resolved, Result
<1>4. Coherent(r)
  BY <1>3 DEF Coherent, PostInv, WritersAreValid, Refused, Clean
<1> QED
  BY <1>1, <1>2, <1>3, <1>4

LEMMA NextInv == IInv /\ [Next]_vars => IInv'
<1> SUFFICES ASSUME IInv, [Next]_vars PROVE IInv'
  OBVIOUS
<1> USE DEF IInv, CurrentWasSaved, PostInv, WritersAreValid, SaversHavePosted, PostsMatch,
            OldIsUntouched, SavedAreCoherent, ResolvedWasPosted, RepliesWerePersisted, IsOld,
            Busy, Continue, Admit, Answer
<1>1. ASSUME NEW t \in Task, NEW q \in Payload, Register(t, q) PROVE IInv'
  BY <1>1 DEF Register, Load, FromMapping
<1>2. ASSUME NEW t \in Task, Insert(t) PROVE IInv'
  <2>1. ~IsOld /\ pc[t] = "insert"
    BY <1>2 DEF Insert
  <2>2. /\ record' = Pending(request[t]) /\ saved' = saved \cup {Pending(request[t])}
        /\ FromMapping(record') = record' /\ record'.status = "pending"
    BY <1>2, NewRecordsReadBack DEF Insert, Put
  <2>3. Coherent(record')
    BY <2>2 DEF Coherent, Pending, Decisions
  <2>4. /\ CurrentWasSaved' /\ OldIsUntouched' /\ SavedAreCoherent' /\ ResolvedWasPosted'
    BY <1>2, <2>1, <2>2, <2>3 DEF Insert
  <2>5. PostInv' /\ RepliesWerePersisted'
    BY <1>2, <2>2 DEF Insert
  <2> QED
    BY <1>2, <2>4, <2>5 DEF Insert
<1>3. ASSUME NEW t \in Task, View(t) PROVE IInv'
  BY <1>3 DEF View, Load
<1>4. ASSUME NEW t \in Task, NEW f \in Form, Decide(t, f) PROVE IInv'
  <2>1. CASE Refused(f) /\ Answer(t, "bad_request", NoRecord) /\ UNCHANGED seen
    BY <1>4, <2>1 DEF Decide
  <2>2. CASE ~Refused(f) /\ Load(t)
    BY <1>4, <2>2 DEF Decide, Load, FromMapping
  <2> QED
    BY <1>4, <2>1, <2>2 DEF Decide
<1>5. ASSUME NEW t \in Task, Notify(t) PROVE IInv'
  <2>1. PICK arrived \in BOOLEAN, result \in {"ok", "error"} :
          /\ result = "ok" => arrived
          /\ posts' = posts \cup {Post(t, arrived, result)}
    BY <1>5 DEF Notify, Call
  <2> DEFINE p == Post(t, arrived, result)
  <2>2. /\ p.task = t /\ p.payload = seen[t].payload /\ p.decision = request[t].decision
        /\ p.note = Clean(request[t].note) /\ (p.result = "ok" => p.arrived)
    BY <2>1 DEF Post
  <2> HIDE DEF p
  <2>3. /\ posts' = posts \cup {p} /\ pc[t] = "notify" /\ pc' = [pc EXCEPT ![t] = "save"]
        /\ UNCHANGED <<seen, request>>
    BY <1>5, <2>1 DEF Notify, p
  <2>4. WritersAreValid' /\ SaversHavePosted'
    BY <2>2, <2>3
  <2>5. PostsMatch'
    BY <2>2, <2>3
  <2>6. ResolvedWasPosted'
    BY <1>5, <2>3 DEF Notify
  <2> QED
    BY <1>5, <2>4, <2>5, <2>6 DEF Notify
<1>6. ASSUME NEW t \in Task, Save(t) PROVE IInv'
  <2> DEFINE r == Resolved(seen[t], request[t], Result(t))
  <2>1. ~IsOld /\ pc[t] = "save"
    BY <1>6 DEF Save
  <2>2. record' = r /\ saved' = saved \cup {r} /\ FromMapping(r) = r /\ r.status = "resolved"
    <3>1. FromMapping(r) = r /\ r.status = "resolved"
      BY NewRecordsReadBack
    <3>2. record' = r /\ saved' = saved \cup {FromMapping(r)}
      BY <1>6 DEF Save, Put
    <3> QED
      BY <3>1, <3>2
  <2>3. Coherent(r) /\ \E p \in posts :
                  /\ p.payload = r.payload /\ p.decision = r.decision /\ p.note = r.note
                  /\ p.result = r.webhook /\ (r.webhook = "ok" => p.arrived)
    BY <2>1, SavedDecision
  <2> HIDE DEF r
  <2>4. CurrentWasSaved' /\ OldIsUntouched' /\ SavedAreCoherent' /\ ResolvedWasPosted'
    BY <1>6, <2>1, <2>2, <2>3 DEF Save
  <2>5. PostInv'
    BY <1>6 DEF Save
  <2>6. reply' = [reply EXCEPT ![t] = [code |-> "page", body |-> r]]
    BY <1>6 DEF Save, r
  <2>7. RepliesWerePersisted'
    BY <2>2, <2>6
  <2> QED
    BY <1>6, <2>4, <2>5, <2>6, <2>7 DEF Save
<1>7. ASSUME NEW t \in Task, Crash(t) PROVE IInv'
  BY <1>7 DEF Crash
<1>8. CASE UNCHANGED vars
  BY <1>8 DEF vars
<1> QED
  BY <1>1, <1>2, <1>3, <1>4, <1>5, <1>6, <1>7, <1>8 DEF Next, Begin, Resume

(* The inductive invariant holds in every reachable state.                 *)
THEOREM Invariance == Spec => []IInv
  BY InitInv, NextInv, PTL DEF Spec

(* Whatever overlaps or dies, a stored decision is one that the webhook of *)
(* OpenClaw was called with, and "ok" means that the call arrived.         *)
THEOREM DecisionsWerePosted == Spec => []ResolvedWasPosted
<1>1. IInv => ResolvedWasPosted
  BY DEF IInv
<1> QED
  BY <1>1, Invariance, PTL

(* Whatever overlaps or dies, a page or reply shows a persisted record.    *)
THEOREM PagesWerePersisted == Spec => []RepliesWerePersisted
<1>1. IInv => RepliesWerePersisted
  BY DEF IInv
<1> QED
  BY <1>1, Invariance, PTL

(* A record that is handed out has a decision exactly when it is resolved, *)
(* and a note when changes are requested.                                  *)
THEOREM PagesAreCoherent == Spec => []RepliesAreCoherent
<1>1. IInv => RepliesAreCoherent
  BY DEF IInv, RepliesWerePersisted, SavedAreCoherent, Coherent, RepliesAreCoherent
<1> QED
  BY <1>1, Invariance, PTL

-------------------------------------------------------------------------------
(* Types: what each task was called with is a payload or a form by the     *)
(* time it writes, and what it decides on is a record.                     *)
TypeInv ==
  /\ TypeOK
  /\ \A t \in Task : pc[t] = "insert" => request[t] \in Payload
  /\ \A t \in Task : pc[t] \in {"notify", "save"} => seen[t] \in Records
  /\ \A p \in posts : p.result \in {"ok", "error"}

LEMMA RecordTypes ==
  ASSUME NEW q \in Payload, NEW a \in Records, NEW f, ~Refused(f), NEW w \in {"ok", "error"}
  PROVE  Pending(q) \in Records /\ Resolved(a, f, w) \in Records
  BY DEF Pending, Resolved, Records, Refused, Clean, Decisions

LEMMA OldRecordTypes ==
  ASSUME NEW q \in Payload, NEW d \in {"approved", "rejected"}
  PROVE  FromMapping(OldRecord(q, d)) \in Records
  BY DEF OldRecord, Pending, FromMapping, Records, Decisions

(* What a load returns.                                                    *)
LEMMA LoadTypes ==
  ASSUME IInv, TypeInv
  PROVE  \/ Current = NoRecord /\ record = NoRecord
         \/ Current \in Records /\ record # NoRecord
  BY DEF IInv, CurrentWasSaved, TypeInv, TypeOK, Current

LEMMA InitTypes == Init => TypeInv
<1> SUFFICES ASSUME Init PROVE TypeInv
  OBVIOUS
<1>1. record # NoRecord => FromMapping(record) \in Records
  BY OldRecordTypes DEF Init
<1> QED
  BY <1>1 DEF Init, TypeInv, TypeOK, Current, Busy

(* The result that a task saves is that of a post.                         *)
LEMMA ResultTypes ==
  ASSUME IInv, TypeInv, NEW t \in Task, pc[t] = "save"
  PROVE  Result(t) \in {"ok", "error"}
<1>1. \E p \in posts : p.task = t
  BY DEF IInv, PostInv, SaversHavePosted
<1> QED
  BY <1>1 DEF Result, TypeInv

LEMMA TypeStep ==
  ASSUME IInv, TypeInv, [Next]_vars
  PROVE  TypeInv'
<1>0. /\ \/ Current = NoRecord /\ record = NoRecord
         \/ Current \in Records /\ record # NoRecord
      /\ DOMAIN request = Task /\ DOMAIN reply = Task
  BY LoadTypes DEF IInv
<1>1. ASSUME NEW t \in Task,
             (\E q \in Payload : Register(t, q)) \/ View(t) \/ (\E f \in Form : Decide(t, f))
      PROVE  TypeInv'
  <2>1. /\ record' = record /\ saved' = saved /\ posts' = posts /\ Current' = Current
    BY <1>1 DEF Register, View, Decide, Current
  <2>2. seen' = seen \/ seen' = [seen EXCEPT ![t] = Current]
    BY <1>1 DEF Register, View, Decide, Load, Current
  <2>3. /\ pc' = [pc EXCEPT ![t] = pc'[t]] /\ pc'[t] \in {"insert", "notify", "done"}
        /\ pc'[t] = "insert" => request'[t] \in Payload
        /\ pc'[t] = "notify" => seen'[t] = Current /\ record # NoRecord
        /\ \A u \in Task \ {t} : request'[u] = request[u]
    BY <1>0, <1>1, <2>2 DEF Register, View, Decide, Admit, Continue, Answer, Load, Current, TypeInv, TypeOK
  <2>4. \/ reply' = reply
        \/ \E c, b : /\ reply' = [reply EXCEPT ![t] = [code |-> c, body |-> b]]
                     /\ b = NoRecord \/ b = seen'[t]
    BY <1>1 DEF Register, View, Decide, Admit, Continue, Answer
  <2>5. \A u \in Task : reply'[u].body \in Records \cup {NoRecord}
    BY <1>0, <2>2, <2>4 DEF TypeInv, TypeOK
  <2> QED
    BY <1>0, <2>1, <2>2, <2>3, <2>5 DEF TypeInv, TypeOK, Busy
<1>2. ASSUME NEW t \in Task, NEW r \in Records, Put(r), FromMapping(r) = r, Answer(t, "page", r) \/ Answer(t, "created", r),
             UNCHANGED <<request, seen, posts, told>>
      PROVE  TypeInv'
  BY <1>0, <1>2 DEF Put, Answer, TypeInv, TypeOK, Current
<1>3. ASSUME NEW t \in Task, Insert(t) PROVE TypeInv'
  BY <1>2, <1>3, NewRecordsReadBack DEF Insert, TypeInv, Pending, Records
<1>4. ASSUME NEW t \in Task, Notify(t) PROVE TypeInv'
  <2>1. \A p \in posts' : p.result \in {"ok", "error"}
    BY <1>4 DEF Notify, Call, Post, TypeInv
  <2> QED
    BY <1>4, <2>1 DEF Notify, Continue, TypeInv, TypeOK, Busy, Current
<1>5. ASSUME NEW t \in Task, Save(t) PROVE TypeInv'
  <2> DEFINE r == Resolved(seen[t], request[t], Result(t))
  <2>1. seen[t] \in Records /\ ~Refused(request[t]) /\ Result(t) \in {"ok", "error"}
    BY <1>5, ResultTypes DEF Save, TypeInv, IInv, PostInv, WritersAreValid
  <2>2. r \in Records
    BY <2>1 DEF Resolved, Records, Refused, Clean, Decisions
  <2>3. FromMapping(r) = r
    BY NewRecordsReadBack
  <2> QED
    BY <1>2, <1>5, <2>2, <2>3 DEF Save
<1>6. ASSUME NEW t \in Task, Crash(t) PROVE TypeInv'
  BY <1>6 DEF Crash, TypeInv, TypeOK, Busy, Current
<1>7. CASE UNCHANGED vars
  BY <1>7 DEF vars, TypeInv, TypeOK, Current
<1> QED
  BY <1>1, <1>3, <1>4, <1>5, <1>6, <1>7 DEF Next, Begin, Resume

-------------------------------------------------------------------------------
(* What holds as long as no two writers overlap.                           *)

Alone == \A t, u \in Task : pc[t] \in Busy /\ pc[u] \in Busy => t = u

(* What a writer has read is still what is stored.                         *)
ReadIsCurrent ==
  \A t \in Task :
    /\ pc[t] = "insert" => record = NoRecord
    /\ pc[t] \in {"notify", "save"} =>
         Current \in Records /\ seen[t] = Current /\ Current.status = "pending"

(* Post p and record r tell the same.                                      *)
Agree(p, r) ==
  /\ p.payload = r.payload /\ p.decision = r.decision
  /\ p.note = r.note /\ p.result = r.webhook

IsResolved == Current \in Records /\ Current.status = "resolved"

(* A call whose task lives is the last one, and is stored or about to be;  *)
(* what this release has resolved agrees with the last call.               *)
LastIsStored ==
  /\ \A p \in posts : pc[p.task] # "dead" =>
       p = told /\ (pc[p.task] = "save" \/ IsResolved)
  /\ IsResolved /\ ~IsOld => told \in posts /\ Agree(told, Current)

SerialInv == ~overlapped => Alone /\ ReadIsCurrent /\ LastIsStored

LEMMA SerialStep ==
  ASSUME IInv, TypeInv, SerialInv, [Next]_vars
  PROVE  SerialInv' /\ (~overlapped => Forward)
<1>0. /\ \/ Current = NoRecord /\ record = NoRecord
         \/ Current \in Records /\ record # NoRecord
      /\ NoRecord \notin Records
      /\ pc \in [Task -> {"idle", "done", "dead"} \cup Busy]
  BY LoadTypes, NoRecordAssumption DEF TypeInv, TypeOK
<1>1. CASE overlapped /\ overlapped'
  BY <1>1 DEF SerialInv
<1>2. ASSUME NEW t \in Task,
             (\E q \in Payload : Register(t, q)) \/ View(t) \/ (\E f \in Form : Decide(t, f))
      PROVE  SerialInv' /\ (~overlapped => Forward)
  <2>1. record' = record /\ posts' = posts /\ Current' = Current
    BY <1>2 DEF Register, View, Decide, Current
  <2>2. Forward
    BY <2>1 DEF Forward
  <2>3. \A u \in Task \ {t} : pc'[u] = pc[u] /\ seen'[u] = seen[u]
    BY <1>0, <1>2 DEF Register, View, Decide, Admit, Continue, Answer, Load, TypeInv, TypeOK
  <2>4. \/ pc[t] = "idle" /\ pc'[t] = "done" /\ overlapped' = overlapped
        \/ /\ pc[t] = "idle" /\ pc'[t] \in {"insert", "notify"}
           /\ overlapped' = (overlapped \/ \E u \in Task : pc[u] \in Busy)
    BY <1>0, <1>2 DEF Register, View, Decide, Admit, Continue, Answer
  <2>5. /\ pc'[t] = "insert" => record = NoRecord
        /\ pc'[t] = "notify" => Current \in Records /\ seen'[t] = Current /\ Current.status = "pending"
    <3>1. CASE \E q \in Payload : Register(t, q)
      BY <1>0, <3>1 DEF Register, Admit, Continue, Answer
    <3>2. CASE View(t)
      BY <1>0, <3>2 DEF View, Answer
    <3>3. CASE \E f \in Form : Decide(t, f)
      <4>1. pc'[t] # "insert"
        BY <1>0, <3>3 DEF Decide, Admit, Continue, Answer
      <4>2. pc'[t] = "notify" => Load(t) /\ record # NoRecord /\ seen'[t].status = "pending"
        BY <1>0, <3>3 DEF Decide, Admit, Continue, Answer
      <4>3. Load(t) /\ record # NoRecord => seen'[t] = Current
        BY DEF Load, Current, TypeInv, TypeOK
      <4> QED
        BY <1>0, <4>1, <4>2, <4>3
    <3> QED
      BY <1>2, <3>1, <3>2, <3>3
  <2>6. ~overlapped' => Alone'
    BY <2>3, <2>4 DEF SerialInv, Alone, Busy
  <2>7. ~overlapped' => ReadIsCurrent'
    BY <2>1, <2>3, <2>4, <2>5 DEF SerialInv, ReadIsCurrent
  <2>8. ~overlapped' => LastIsStored'
    <3>1. told' = told
      BY <1>2 DEF Register, View, Decide
    <3>2. \A p \in posts : p.task # t /\ pc'[p.task] = pc[p.task]
      BY <2>3, <2>4 DEF IInv, PostInv, PostsMatch
    <3> QED
      BY <2>1, <2>4, <3>1, <3>2 DEF SerialInv, LastIsStored, IsResolved, IsOld
  <2> QED
    BY <2>2, <2>6, <2>7, <2>8 DEF SerialInv
<1>3. ASSUME NEW t \in Task, Insert(t), ~overlapped PROVE SerialInv' /\ Forward
  <2>1. /\ pc[t] = "insert" /\ pc' = [pc EXCEPT ![t] = "done"] /\ record = NoRecord /\ Current = NoRecord
        /\ overlapped' = overlapped /\ posts' = posts
        /\ Current' = NoRecord \/ Current'.status = "pending"
    BY <1>0, <1>3, NewRecordsReadBack DEF Insert, Answer, Put, Current, SerialInv, ReadIsCurrent
  <2>2. \A u \in Task : pc'[u] \notin Busy /\ pc[u] # "save"
    BY <1>0, <1>3, <2>1 DEF SerialInv, Alone, Busy
  <2>3. LastIsStored'
    <3>1. \A p \in posts : pc[p.task] = "dead" /\ p.task # t
      BY <1>0, <1>3, <2>1, <2>2 DEF SerialInv, LastIsStored, IsResolved, IInv, PostInv, PostsMatch
    <3>2. ~IsResolved'
      BY <1>0, <2>1 DEF IsResolved, Records
    <3> QED
      BY <2>1, <3>1, <3>2, <1>0 DEF LastIsStored
  <2> QED
    BY <1>0, <2>1, <2>2, <2>3 DEF SerialInv, Alone, ReadIsCurrent, Forward, Busy
<1>4. ASSUME NEW t \in Task, Notify(t), ~overlapped PROVE SerialInv' /\ Forward
  <2>1. /\ pc[t] = "notify" /\ pc' = [pc EXCEPT ![t] = "save"] /\ Current' = Current
        /\ overlapped' = overlapped /\ seen' = seen /\ record' = record
    BY <1>4 DEF Notify, Continue, Current
  <2>2. \A u \in Task : u # t => pc[u] \notin Busy
    BY <1>4, <2>1 DEF SerialInv, Alone, Busy
  <2>3. Current \in Records /\ seen[t] = Current /\ Current.status = "pending"
    BY <1>4, <2>1 DEF SerialInv, ReadIsCurrent
  <2>4. Alone' /\ ReadIsCurrent' /\ Forward
    BY <1>0, <2>1, <2>2, <2>3 DEF Alone, ReadIsCurrent, Forward, Busy
  <2>5. LastIsStored'
    <3>1. PICK p : told' = p /\ posts' = posts \cup {p} /\ p.task = t
      BY <1>4 DEF Notify, Call, Post
    <3>2. \A q \in posts : pc[q.task] = "dead" /\ q.task # t
      BY <1>0, <1>4, <2>1, <2>2, <2>3
         DEF SerialInv, LastIsStored, IsResolved, IInv, PostInv, PostsMatch, Busy
    <3>3. ~IsResolved'
      BY <2>1, <2>3 DEF IsResolved
    <3> QED
      BY <1>0, <2>1, <3>1, <3>2, <3>3 DEF LastIsStored
  <2> QED
    BY <2>4, <2>5 DEF SerialInv
<1>5. ASSUME NEW t \in Task, Save(t), ~overlapped PROVE SerialInv' /\ Forward
  <2> DEFINE r == Resolved(seen[t], request[t], Result(t))
  <2>1. /\ pc[t] = "save" /\ pc' = [pc EXCEPT ![t] = "done"]
        /\ overlapped' = overlapped /\ posts' = posts /\ told' = told
    BY <1>5 DEF Save, Answer
  <2>2. \A u \in Task : pc'[u] \notin Busy
    BY <1>0, <1>5, <2>1 DEF SerialInv, Alone, Busy
  <2>3. Current \in Records /\ seen[t] = Current /\ Current.status = "pending"
    BY <1>5, <2>1 DEF SerialInv, ReadIsCurrent
  <2>4. r.status = "resolved" /\ r.payload = Current.payload /\ FromMapping(r) = r
    BY <2>3, NewRecordsReadBack DEF Resolved
  <2>5. r \in Records
    <3>1. ~Refused(request[t]) /\ Result(t) \in {"ok", "error"}
      BY <2>1, ResultTypes DEF IInv, PostInv, WritersAreValid
    <3> QED
      BY <2>3, <3>1 DEF Resolved, Records, Refused, Clean, Decisions
  <2>6. Current' = r
    BY <1>0, <1>5, <2>4, <2>5 DEF Save, Put, Current
  <2>7. told \in posts /\ Agree(told, r)
    <3>1. \A p \in posts : p.task = t => p = told
      BY <1>5, <2>1 DEF SerialInv, LastIsStored
    <3>2. told \in posts /\ told.task = t /\ Result(t) = told.result
      BY <2>1, <3>1 DEF Result, IInv, PostInv, SaversHavePosted
    <3>3. /\ told.payload = seen[t].payload /\ told.decision = request[t].decision
          /\ told.note = Clean(request[t].note)
      BY <3>2 DEF IInv, PostInv, PostsMatch
    <3>4. /\ r.payload = seen[t].payload /\ r.decision = request[t].decision
          /\ r.note = Clean(request[t].note) /\ r.webhook = Result(t)
      BY DEF Resolved
    <3> QED
      BY <3>2, <3>3, <3>4 DEF Agree
  <2> HIDE DEF r
  <2>8. LastIsStored'
    <3>1. IsResolved'
      BY <2>4, <2>5, <2>6 DEF IsResolved
    <3>2. \A p \in posts : pc'[p.task] # "dead" => p = told
      BY <1>0, <1>5, <2>1 DEF SerialInv, LastIsStored, IInv, PostInv, PostsMatch
    <3>3. told' \in posts' /\ Agree(told', Current')
      BY <2>1, <2>6, <2>7
    <3> QED
      BY <2>1, <3>1, <3>2, <3>3 DEF LastIsStored, Agree
  <2>9. Forward
    BY <1>0, <2>3, <2>4, <2>5, <2>6 DEF Forward
  <2> QED
    BY <2>2, <2>8, <2>9 DEF SerialInv, Alone, ReadIsCurrent, Busy
<1>6. ASSUME NEW t \in Task, Crash(t), ~overlapped PROVE SerialInv' /\ Forward
  <2>1. pc' = [pc EXCEPT ![t] = "dead"] /\ Current' = Current /\ UNCHANGED <<overlapped, seen, record, posts, told>>
    BY <1>6 DEF Crash, Current
  <2>2. LastIsStored'
    BY <1>0, <1>6, <2>1 DEF SerialInv, LastIsStored, IsResolved, IsOld, IInv, PostInv, PostsMatch
  <2> QED
    BY <1>0, <1>6, <2>1, <2>2 DEF SerialInv, Alone, ReadIsCurrent, Forward, Busy
<1>7. CASE UNCHANGED vars
  BY <1>7 DEF vars, SerialInv, Alone, ReadIsCurrent, LastIsStored, IsResolved, IsOld, Agree, Forward, Current
<1>8. ASSUME NEW t \in Task, Insert(t) \/ Notify(t) \/ Save(t) \/ Crash(t) PROVE overlapped' = overlapped
  BY <1>8 DEF Insert, Notify, Save, Crash, Answer
<1> QED
  BY <1>1, <1>2, <1>3, <1>4, <1>5, <1>6, <1>7, <1>8 DEF Next, Begin, Resume, SerialInv

(* The types and what holds of serial writers, in every reachable state.   *)
THEOREM SerialInvariance == Spec => [](TypeInv /\ SerialInv)
<1>1. Init => TypeInv /\ SerialInv
  <2>1. Init => SerialInv
    <3> SUFFICES ASSUME Init PROVE SerialInv
      OBVIOUS
    <3>1. IsResolved => IsOld
      <4>1. record # NoRecord => \E q \in Payload, d \in {"approved", "rejected"} : record = OldRecord(q, d)
        BY DEF Init
      <4> QED
        BY <4>1, OldRecordsMigrate, NoRecordAssumption DEF IsResolved, IsOld, Current
    <3> QED
      BY <3>1 DEF Init, SerialInv, Alone, ReadIsCurrent, LastIsStored, Busy
  <2> QED
    BY <2>1, InitTypes
<1>2. IInv /\ (TypeInv /\ SerialInv) /\ [Next]_vars => (TypeInv /\ SerialInv)'
  BY TypeStep, SerialStep
<1> QED
  BY <1>1, <1>2, Invariance, PTL DEF Spec

(* What a load returns and what is answered is a record of this release.   *)
THEOREM TypeCorrectness == Spec => []TypeOK
<1>1. TypeInv /\ SerialInv => TypeOK
  BY DEF TypeInv
<1> QED
  BY <1>1, SerialInvariance, PTL

(* Until two writers overlap, every call but the last one was made by a    *)
(* request that died before its save.                                      *)
THEOREM AgentIsToldOnce == Spec => []SerialOnePost
<1>1. TypeInv /\ SerialInv => SerialOnePost
  BY DEF SerialInv, LastIsStored, SerialOnePost
<1> QED
  BY <1>1, SerialInvariance, PTL

(* Until two writers overlap, even if they die, what is stored as resolved *)
(* is what the webhook was called with last.                               *)
THEOREM TheLastCallStands == Spec => []LastCallStands
<1>1. TypeInv /\ SerialInv => LastCallStands
  BY DEF TypeInv, TypeOK, SerialInv, LastIsStored, IsResolved, Agree, LastCallStands
<1> QED
  BY <1>1, SerialInvariance, PTL

(* Until two writers overlap, a resolved record is final.                  *)
THEOREM RecordsMoveForward == Spec => SerialForward
<1>1. IInv /\ (TypeInv /\ SerialInv) /\ [Next]_vars => [~overlapped => Forward]_vars
  BY SerialStep
<1> QED
  BY <1>1, Invariance, SerialInvariance, PTL DEF Spec, SerialForward
================================================================================
