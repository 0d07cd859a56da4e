------------------------------- MODULE Approvals -------------------------------
(***************************************************************************)
(* The record of one approvalId: the agent registers it, browsers show it  *)
(* and post a decision on it, and each decision is sent to the webhook of  *)
(* OpenClaw before it is saved.  Requests share nothing but the record in  *)
(* Redis, which they read at one await and replace whole at a later one.   *)
(*                                                                         *)
(* A payload has the fields that RegisterApproval compares, its identity   *)
(* (case, invoice number, supplier), and the ones it does not, its detail  *)
(* (PDF path, approve and reject URL).                                     *)
(***************************************************************************)
CONSTANTS Task,       \* the HTTP requests that are ever made
          Payload,    \* the registrations that are sent: [identity, detail]
          Form,       \* the forms that are posted: [decision, note]
          NoRecord    \* the key does not exist

(* A form carries two strings; FastAPI answers 422 to any other body.      *)
ASSUME FormAssumption == \A f \in Form : f.note \in {"none", "blank", "text"}

VARIABLES record,     \* the hash in Redis, or NoRecord
          pc,         \* the await at which each task is
          request,    \* the payload or form that each task was called with
          seen,       \* the record each task has read
          reply,      \* the status and record with which each task answered
          posts,      \* history: the webhook calls that were made
          told,       \* history: the last of them, or NoRecord
          saved,      \* history: the records that were in Redis, as read
          overlapped  \* history: two tasks were about to write at once

local == <<pc, request, seen, reply>>
vars == <<record, pc, request, seen, reply, posts, told, saved, overlapped>>

Decisions == {"approved", "needs_changes", "rejected"}
Busy == {"insert", "notify", "save"}

(* str.strip, then None and "" are stored alike.                           *)
Clean(note) == IF note = "text" THEN "text" ELSE "none"

(* The record that RegisterApproval builds.                                *)
Pending(p) ==
  [payload |-> p, status |-> "pending", decision |-> "none", note |-> "none",
   webhook |-> "none"]

(* The record that RecordDecision builds from the one that it read.        *)
Resolved(a, f, result) ==
  [payload |-> a.payload, status |-> "resolved", decision |-> f.decision,
   note |-> Clean(f.note), webhook |-> result]

(* A record of an earlier release, whose status is the decision itself.    *)
OldRecord(p, d) == [Pending(p) EXCEPT !.status = d, !.webhook = "ok"]

(* The migration is left out of _from_mapping.                             *)
FromMappingUnmigrated(raw) == raw

(* _from_mapping: old records are migrated when they are read.             *)
FromMapping(raw) ==
  IF raw.status \in {"approved", "rejected"}
    THEN [raw EXCEPT !.status = "resolved", !.decision = raw.status]
    ELSE raw

Init ==
  /\ record \in {NoRecord} \cup {OldRecord(p, d) : p \in Payload, d \in {"approved", "rejected"}}
  /\ pc = [t \in Task |-> "idle"]
  /\ request = [t \in Task |-> NoRecord]
  /\ seen = [t \in Task |-> NoRecord]
  /\ reply = [t \in Task |-> [code |-> "none", body |-> NoRecord]]
  /\ posts = {}
  /\ told = NoRecord
  /\ saved = IF record = NoRecord THEN {} ELSE {FromMapping(record)}
  /\ overlapped = FALSE

Answer(t, c, b) ==
  /\ pc' = [pc EXCEPT ![t] = "done"]
  /\ reply' = [reply EXCEPT ![t] = [code |-> c, body |-> b]]
  /\ UNCHANGED overlapped

Continue(t, p) == pc' = [pc EXCEPT ![t] = p] /\ UNCHANGED reply

(* A request that has just arrived goes on to write.                       *)
Admit(t, p) ==
  /\ Continue(t, p)
  /\ overlapped' = (overlapped \/ \E u \in Task : pc[u] \in Busy)

(* approval_store.load.                                                    *)
Load(t) == seen' = [seen EXCEPT ![t] = IF record = NoRecord THEN NoRecord ELSE FromMapping(record)]

(* approval_store.save: one HSET replaces every field.                     *)
Put(r) == record' = r /\ saved' = saved \cup {FromMapping(r)}

(* RegisterApproval without the comparison of the stored payload.          *)
RegisterUncompared(t, p) ==
  /\ pc[t] = "idle"
  /\ request' = [request EXCEPT ![t] = p]
  /\ Load(t)
  /\ Admit(t, "insert")
  /\ UNCHANGED <<record, posts, told, saved>>

(* POST /approvals/register: an existing record is returned as it is when  *)
(* its identity is that of the payload, and is a conflict when it is not.  *)
Register(t, p) ==
  /\ pc[t] = "idle"
  /\ request' = [request EXCEPT ![t] = p]
  /\ Load(t)
  /\ \/ record = NoRecord /\ Admit(t, "insert")
     \/ record # NoRecord /\ record.payload.identity = p.identity /\ Answer(t, "created", seen'[t])
     \/ record # NoRecord /\ record.payload.identity # p.identity /\ Answer(t, "conflict", NoRecord)
  /\ UNCHANGED <<record, posts, told, saved>>

(* RegisterApproval saves the pending record it built.                     *)
Insert(t) ==
  /\ pc[t] = "insert"
  /\ Put(Pending(request[t]))
  /\ Answer(t, "created", Pending(request[t]))
  /\ UNCHANGED <<request, seen, posts, told>>

(* GET /approve and /reject: the page of the record as it is.              *)
View(t) ==
  /\ pc[t] = "idle"
  /\ Load(t)
  /\ \/ record = NoRecord /\ Answer(t, "not_found", NoRecord)
     \/ record # NoRecord /\ Answer(t, "page", seen'[t])
  /\ UNCHANGED <<record, request, posts, told, saved>>

(* The validation of the form, by the route and again by RecordDecision.   *)
Refused(f) ==
  \/ f.decision \notin Decisions
  \/ f.decision = "needs_changes" /\ Clean(f.note) = "none"

(* RecordDecision without its early return for a decided approval.         *)
DecideAgain(t, f) ==
  /\ pc[t] = "idle"
  /\ request' = [request EXCEPT ![t] = f]
  /\ record # NoRecord
  /\ Load(t)
  /\ ~Refused(f) /\ Admit(t, "notify")
  /\ UNCHANGED <<record, posts, told, saved>>

(* POST /decision up to the webhook call: a decided approval is answered   *)
(* with what is stored.                                                    *)
Decide(t, f) ==
  /\ pc[t] = "idle"
  /\ request' = [request EXCEPT ![t] = f]
  /\ \/ Refused(f) /\ Answer(t, "bad_request", NoRecord) /\ UNCHANGED seen
     \/ /\ ~Refused(f)
        /\ Load(t)
        /\ \/ record = NoRecord /\ Answer(t, "not_found", NoRecord)
           \/ /\ record # NoRecord
              /\ \/ seen'[t].status # "pending" /\ Answer(t, "page", seen'[t])
                 \/ seen'[t].status = "pending" /\ Admit(t, "notify")
  /\ UNCHANGED <<record, posts, told, saved>>

Post(t, arrived, result) ==
  [task |-> t, payload |-> seen[t].payload, decision |-> request[t].decision,
   note |-> Clean(request[t].note), arrived |-> arrived, result |-> result]

(* OpenClaw is called: p may or may not have reached it.                   *)
Call(p) == told' = p /\ posts' = posts \cup {p}

(* The status of the response is not looked at.                            *)
NotifyUnchecked(t) ==
  /\ pc[t] = "notify"
  /\ \E arrived \in BOOLEAN : Call(Post(t, arrived, "ok"))
  /\ Continue(t, "save")
  /\ UNCHANGED <<record, request, seen, saved, overlapped>>

(* notify_decision never raises: a call that fails, on the way there or on *)
(* the way back, returns an error string.                                  *)
Notify(t) ==
  /\ pc[t] = "notify"
  /\ \E arrived \in BOOLEAN, result \in {"ok", "error"} :
       /\ result = "ok" => arrived
       /\ Call(Post(t, arrived, result))
  /\ Continue(t, "save")
  /\ UNCHANGED <<record, request, seen, saved, overlapped>>

Result(t) == (CHOOSE p \in posts : p.task = t).result

(* The final page is shown before the record is saved.                     *)
SaveSkipped(t) ==
  /\ pc[t] = "save"
  /\ Answer(t, "page", Resolved(seen[t], request[t], Result(t)))
  /\ UNCHANGED <<record, saved, request, seen, posts, told>>

(* The decision is saved only once OpenClaw has it.                        *)
SaveDelivered(t) ==
  /\ pc[t] = "save" /\ Result(t) = "ok"
  /\ Put(Resolved(seen[t], request[t], Result(t)))
  /\ Answer(t, "page", Resolved(seen[t], request[t], Result(t)))
  /\ UNCHANGED <<request, seen, posts, told>>

(* RecordDecision saves the resolved record, whatever the webhook said.    *)
Save(t) ==
  /\ pc[t] = "save"
  /\ Put(Resolved(seen[t], request[t], Result(t)))
  /\ Answer(t, "page", Resolved(seen[t], request[t], Result(t)))
  /\ UNCHANGED <<request, seen, posts, told>>

(* The task dies, or its call of Redis fails, before its save.             *)
Crash(t) ==
  /\ pc[t] \in Busy
  /\ pc' = [pc EXCEPT ![t] = "dead"]
  /\ UNCHANGED <<record, request, seen, reply, posts, told, saved, overlapped>>

Begin(t) ==
  \/ \E p \in Payload : Register(t, p)
  \/ View(t)
  \/ \E f \in Form : Decide(t, f)

Resume(t) == Insert(t) \/ Notify(t) \/ Save(t)

Next == \E t \in Task : Begin(t) \/ Resume(t) \/ Crash(t)

(* A handler whose await is answered is resumed; calls time out.           *)
Fairness == \A t \in Task : WF_vars(Resume(t))

Spec == Init /\ [][Next]_vars
FairSpec == Spec /\ Fairness

--------------------------------------------------------------------------------
Records ==
  [payload : Payload, status : {"pending", "resolved"}, decision : Decisions \cup {"none"},
   note : {"none", "text"}, webhook : {"none", "ok", "error"}]

ASSUME NoRecordAssumption == NoRecord \notin Records

(* The record as anything that calls load sees it.                         *)
Current == IF record = NoRecord THEN NoRecord ELSE FromMapping(record)

(* The record was resolved by an earlier release and has not been replaced.*)
IsOld == record # NoRecord /\ record.status \in {"approved", "rejected"}

(* Types: what a load returns, and what a task answers with, is a record   *)
(* of the present form, however old the hash in Redis is.                  *)
TypeOK ==
  /\ Current \in Records \cup {NoRecord}
  /\ pc \in [Task -> {"idle", "done", "dead"} \cup Busy]
  /\ seen \in [Task -> Records \cup {NoRecord}]
  /\ \A t \in Task : reply[t].body \in Records \cup {NoRecord}
  /\ saved \subseteq Records

(* A record that a decision resolved carries a decision that the webhook   *)
(* was called with, for the payload that is stored, and the result of that *)
(* call: "ok" only if OpenClaw received it.  ("error" leaves open whether  *)
(* it did.)  Requests may overlap and die anywhere.                        *)
ResolvedWasPosted ==
  \A r \in saved : r.status = "resolved" =>
    \/ \E p \in posts :
         /\ p.payload = r.payload /\ p.decision = r.decision /\ p.note = r.note
         /\ p.result = r.webhook /\ (r.webhook = "ok" => p.arrived)
    \/ IsOld /\ r = FromMapping(record)

(* Whatever a page or a registration shows has been in Redis; a reviewer   *)
(* never sees a decision that a crash can still undo.                      *)
RepliesWerePersisted ==
  \A t \in Task : reply[t].body # NoRecord => reply[t].body \in saved

(* The records that are handed out are coherent, old ones included: a      *)
(* decision exactly when resolved, and a note when changes are requested.  *)
RepliesAreCoherent ==
  \A t \in Task : LET r == reply[t].body IN r # NoRecord =>
    /\ r.status = "resolved" <=> r.decision \in Decisions
    /\ r.decision = "needs_changes" => r.note = "text"

(* The record as a load returns it never goes back, nor changes once it is *)
(* resolved, and a registered payload stays.                               *)
Forward ==
  Current # NoRecord =>
    /\ Current' # NoRecord /\ Current'.payload = Current.payload
    /\ Current.status = "resolved" => Current' = Current

(* Until two writers overlap, every call but the last one was made by a    *)
(* request that died between its call and its save: the decision of a      *)
(* request that ends is the last that the webhook is called with.          *)
SerialOnePost ==
  ~overlapped => \A p \in posts : p = told \/ pc[p.task] = "dead"

(* Until two writers overlap, a record that this release resolved says     *)
(* what the last call said: after a death between the call and the save,   *)
(* another decision may be announced, and it is the one that stands.       *)
LastCallStands ==
  ~overlapped /\ ~IsOld /\ Current # NoRecord /\ Current.status = "resolved" =>
    /\ told \in posts
    /\ told.payload = Current.payload /\ told.decision = Current.decision
    /\ told.note = Current.note /\ told.result = Current.webhook

(* Until two writers overlap, even if they die, a record is final: the     *)
(* lifecycle is pending, then resolved.                                    *)
SerialForward == [][~overlapped => Forward]_vars

(* A decision that passed validation on a pending approval is recorded,    *)
(* whatever becomes of the webhook call, unless its task dies.             *)
DecisionLands ==
  \A t \in Task, f \in Form : pc[t] = "notify" /\ request[t] = f ~>
    \/ pc[t] = "dead"
    \/ /\ Current # NoRecord /\ Current.status = "resolved"
       /\ Current.decision = f.decision

================================================================================
