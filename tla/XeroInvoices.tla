------------------------------ MODULE XeroInvoices ------------------------------
(***************************************************************************)
(* CreateXeroDraftInvoice, SubmitXeroInvoice and VoidXeroInvoice over the  *)
(* idempotency store and the Xero API.  A write first looks for a cached   *)
(* result, then asks Xero, then caches the answer: three awaits, with      *)
(* other requests, people at work in Xero and failures between them.       *)
(*                                                                         *)
(* Invoices are numbered as Xero creates them.                             *)
(***************************************************************************)
EXTENDS Integers, Sequences

CONSTANTS Task,       \* the HTTP requests that are ever made
          Key,        \* the Idempotency-Key values that OpenClaw uses
          NoEntry,    \* nothing is cached
          Failed,     \* the answer of a request that ends in an error
          Faults      \* what may go wrong, see FaultKinds

(* unavailable: Xero answers with another status than 2xx, doing nothing.  *)
(* lost_reply: a call of Xero takes effect, its answer does not arrive.    *)
(* wrong_type: Xero creates the invoice with another type than ACCPAY.     *)
(* expiry: a cached result reaches the end of its time to live.            *)
(* crash: the task of a request dies at any await.                         *)
FaultKinds == {"unavailable", "lost_reply", "wrong_type", "expiry", "crash"}

ASSUME FaultsAssumption == Faults \subseteq FaultKinds

VARIABLES invoices,   \* the status of every invoice in Xero
          madeFor,    \* history: the key of the request that created each one
          cache,      \* the entry under idempotency:op:key, or NoEntry
          pc,         \* the await at which each task is
          request,    \* the operation, key and invoice each task is called with
          result,     \* what each task has found in the cache or got from Xero
          reply,      \* what each task answered
          writes,     \* history: the invoices Xero changed for each op and key
          overlapped, \* history: the ops and keys whose requests overlapped
          faulted     \* history: the ops and keys that a fault has hit

xero == <<invoices, madeFor, writes>>
vars == <<invoices, madeFor, cache, pc, request, result, reply, writes, overlapped, faulted>>

Updates == {"submit", "void"}
Ops == {"create"} \cup Updates
Statuses == {"DRAFT", "AUTHORISED", "VOIDED", "DELETED"}
Usable == {"DRAFT", "AUTHORISED"}     \* all but _INVALID_INVOICE_STATUSES
Goal == [submit |-> "AUTHORISED", void |-> "VOIDED"]
Busy == {"verify", "post", "update", "cache"}
Invoice == 1..Len(invoices)

(* The marks are neither results nor requests.                             *)
ASSUME MarksAssumption ==
  /\ NoEntry \notin [invoice : Nat, status : Statuses]
  /\ NoEntry \notin [op : Ops, key : Key, invoice : Nat]
  /\ Failed \notin [invoice : Nat, status : Statuses] \cup {NoEntry}

(* One entry for the updates of an operation, whatever their key is.       *)
SharedEntry(op, k) == IF op \in Updates THEN <<op, CHOOSE j \in Key : TRUE>> ELSE <<op, k>>

(* idempotency:{operation}:{key}: neither the invoice nor the connection   *)
(* of a request is part of it.                                             *)
IdemKey(op, k) == <<op, k>>

Init ==
  /\ invoices = <<>>
  /\ madeFor = <<>>
  /\ cache = [e \in Ops \X Key |-> NoEntry]
  /\ pc = [t \in Task |-> "idle"]
  /\ request = [t \in Task |-> NoEntry]
  /\ result = [t \in Task |-> NoEntry]
  /\ reply = [t \in Task |-> NoEntry]
  /\ writes = [e \in Updates \X Key |-> <<>>]
  /\ overlapped = {}
  /\ faulted = {}

Goto(t, p) == pc' = [pc EXCEPT ![t] = p]
Got(t, i, s) == result' = [result EXCEPT ![t] = [invoice |-> i, status |-> s]]
Answer(t, a) == Goto(t, "done") /\ reply' = [reply EXCEPT ![t] = a]
Fail(t) == Answer(t, Failed) /\ UNCHANGED result

(* A fault of kind f may happen, and hits the request of task t.           *)
Strike(t, f) ==
  /\ f \in Faults
  /\ faulted' = faulted \cup {<<request[t].op, request[t].key>>}
Smooth == UNCHANGED faulted

Arrive(t, op, k, i) ==
  /\ pc[t] = "idle"
  /\ request' = [request EXCEPT ![t] = [op |-> op, key |-> k, invoice |-> i]]
  /\ overlapped' = overlapped \cup
       {<<op, k>> : u \in {v \in Task : /\ pc[v] \in Busy
                                       /\ request[v].op = op /\ request[v].key = k}}

(* POST /invoices: read the cache; what it holds is verified first.        *)
Create(t, k) ==
  /\ Arrive(t, "create", k, 0)
  /\ result' = [result EXCEPT ![t] = cache[IdemKey("create", k)]]
  /\ Goto(t, IF result'[t] = NoEntry THEN "post" ELSE "verify")
  /\ UNCHANGED <<cache, reply, xero, faulted>>

(* Every cached invoice is created again.                                  *)
VerifyNever(t) ==
  /\ pc[t] = "verify"
  /\ Goto(t, "post") /\ UNCHANGED <<reply, result>>
  /\ UNCHANGED <<cache, request, xero, overlapped, faulted>>

(* get_invoice on the cached id.  Voided or deleted, or Xero unavailable:  *)
(* the entry is taken for stale.  An exception of httpx is not caught.     *)
Verify(t) ==
  /\ pc[t] = "verify"
  /\ LET status == invoices[result[t].invoice] IN
     \/ status \in Usable /\ Answer(t, result[t]) /\ UNCHANGED result /\ Smooth
     \/ status \notin Usable /\ Goto(t, "post") /\ UNCHANGED <<reply, result>> /\ Smooth
     \/ Strike(t, "unavailable") /\ Goto(t, "post") /\ UNCHANGED <<reply, result>>
     \/ Strike(t, "lost_reply") /\ Fail(t)
  /\ UNCHANGED <<cache, request, xero, overlapped>>

(* Xero creates an invoice each time it is asked to.                       *)
NewInvoice(t) ==
  /\ invoices' = Append(invoices, "DRAFT")
  /\ madeFor' = Append(madeFor, request[t].key)
  /\ UNCHANGED writes

(* The status of the response is not looked at.                            *)
PostUnchecked(t) ==
  /\ pc[t] = "post"
  /\ \/ NewInvoice(t) /\ Got(t, Len(invoices'), "DRAFT") /\ Smooth
     \/ Strike(t, "unavailable") /\ UNCHANGED xero /\ Got(t, Len(invoices) + 1, "DRAFT")
  /\ Goto(t, "cache")
  /\ UNCHANGED <<cache, request, reply, overlapped>>

(* create_invoice, and the check of the type that Xero gave the invoice.   *)
Post(t) ==
  /\ pc[t] = "post"
  /\ \/ /\ NewInvoice(t) /\ Got(t, Len(invoices'), "DRAFT") /\ Goto(t, "cache")
        /\ UNCHANGED reply /\ Smooth
     \/ Strike(t, "unavailable") /\ UNCHANGED xero /\ Fail(t)
     \/ \E f \in {"lost_reply", "wrong_type"} : Strike(t, f) /\ NewInvoice(t) /\ Fail(t)
  /\ UNCHANGED <<cache, request, overlapped>>

(* POST /invoices/{id}/submit and /void: a cached result is the answer.    *)
Update(t, op, k, i) ==
  /\ Arrive(t, op, k, i)
  /\ LET entry == cache[IdemKey(op, k)] IN
     \/ entry # NoEntry /\ Answer(t, entry)
     \/ entry = NoEntry /\ Goto(t, "update") /\ UNCHANGED reply
  /\ UNCHANGED <<cache, result, xero, faulted>>

(* Xero submits drafts, voids submitted invoices, refuses the rest.        *)
Accepts(op, s) ==
  \/ op = "submit" /\ s \in {"DRAFT", "AUTHORISED"}
  \/ op = "void" /\ s = "AUTHORISED"

Change(t) ==
  LET q == request[t] IN
  /\ Accepts(q.op, invoices[q.invoice])
  /\ invoices' = [invoices EXCEPT ![q.invoice] = Goal[q.op]]
  /\ writes' = [writes EXCEPT ![<<q.op, q.key>>] = Append(@, q.invoice)]
  /\ UNCHANGED madeFor

(* The answer is made up from the request, before Xero has agreed.         *)
SetStatusUnchecked(t) ==
  /\ pc[t] = "update"
  /\ \/ Change(t)
     \/ ~Accepts(request[t].op, invoices[request[t].invoice]) /\ UNCHANGED xero
  /\ Got(t, request[t].invoice, Goal[request[t].op])
  /\ Goto(t, "cache")
  /\ UNCHANGED <<cache, request, reply, overlapped, faulted>>

(* update_invoice_status                                                   *)
SetStatus(t) ==
  /\ pc[t] = "update"
  /\ LET q == request[t] IN
     \/ /\ Change(t) /\ Got(t, q.invoice, Goal[q.op]) /\ Goto(t, "cache")
        /\ UNCHANGED reply /\ Smooth
     \/ ~Accepts(q.op, invoices[q.invoice]) /\ UNCHANGED xero /\ Fail(t) /\ Smooth
     \/ Strike(t, "unavailable") /\ UNCHANGED xero /\ Fail(t)
     \/ Strike(t, "lost_reply") /\ Change(t) /\ Fail(t)
  /\ UNCHANGED <<cache, request, overlapped>>

(* The result is not cached.                                               *)
CacheSkipped(t) ==
  /\ pc[t] = "cache"
  /\ Answer(t, result[t])
  /\ UNCHANGED <<cache, request, result, xero, overlapped, faulted>>

(* idempotency_store.set overwrites whatever is cached by then.            *)
Cache(t) ==
  /\ pc[t] = "cache"
  /\ cache' = [cache EXCEPT ![IdemKey(request[t].op, request[t].key)] = result[t]]
  /\ Answer(t, result[t])
  /\ UNCHANGED <<request, result, xero, overlapped, faulted>>

Crash(t) ==
  /\ pc[t] \in Busy
  /\ Strike(t, "crash")
  /\ Goto(t, "dead")
  /\ UNCHANGED <<cache, request, result, reply, xero, overlapped>>

(* The time to live of a cached result runs out.                           *)
Expire(e) ==
  /\ "expiry" \in Faults
  /\ cache[e] # NoEntry
  /\ cache' = [cache EXCEPT ![e] = NoEntry]
  /\ faulted' = faulted \cup {e}
  /\ UNCHANGED <<pc, request, result, reply, xero, overlapped>>

(* People work in Xero: drafts are deleted, submitted invoices voided.     *)
Edit(i) ==
  /\ \/ invoices[i] = "DRAFT" /\ invoices' = [invoices EXCEPT ![i] = "DELETED"]
     \/ invoices[i] = "AUTHORISED" /\ invoices' = [invoices EXCEPT ![i] = "VOIDED"]
  /\ UNCHANGED <<madeFor, writes, cache, pc, request, result, reply, overlapped, faulted>>

Begin(t) ==
  \E k \in Key : Create(t, k) \/ \E op \in Updates, i \in Invoice : Update(t, op, k, i)

Resume(t) == Verify(t) \/ Post(t) \/ SetStatus(t) \/ Cache(t)

Next ==
  \/ \E t \in Task : Begin(t) \/ Resume(t) \/ Crash(t)
  \/ \E e \in Ops \X Key : Expire(e)
  \/ \E i \in Invoice : Edit(i)

Spec == Init /\ [][Next]_vars

---------------------------------------------------------------------------------
Results == [invoice : Invoice, status : Statuses]
Requests == [op : Ops, key : Key, invoice : Invoice \cup {0}]

(* Types: no result names an invoice that Xero has not created.            *)
TypeOK ==
  /\ invoices \in Seq(Statuses)
  /\ madeFor \in Seq(Key) /\ Len(madeFor) = Len(invoices)
  /\ cache \in [Ops \X Key -> Results \cup {NoEntry}]
  /\ pc \in [Task -> {"idle", "done", "dead"} \cup Busy]
  /\ request \in [Task -> Requests \cup {NoEntry}]
  /\ result \in [Task -> Results \cup {NoEntry}]
  /\ reply \in [Task -> Results \cup {NoEntry, Failed}]
  /\ writes \in [Updates \X Key -> Seq(Nat)]

(* Xero changed invoice i at the request of an update e = <<op, k>>.       *)
Changed(e, i) == \E n \in 1..Len(writes[e]) : writes[e][n] = i

(* What a result of an operation and key claims, against what Xero did for *)
(* that operation and key, and what it has.                                *)
Happened(op, k, r) ==
  \/ op = "create" /\ madeFor[r.invoice] = k
  \/ /\ op \in Updates /\ r.status = Goal[op] /\ Changed(<<op, k>>, r.invoice)
     /\ invoices[r.invoice] \in {Goal[op], "VOIDED"}

(* Whatever overlaps, fails, expires or is edited, the invoice of an       *)
(* answer is one that Xero created, submitted or voided for a request of   *)
(* the same operation and key, and has not been taken back since other     *)
(* than by voiding it.  (It need not be the invoice that this request      *)
(* names: a key that is used again for another invoice answers with the    *)
(* first one.)                                                             *)
RepliesHappened ==
  \A t \in Task : reply[t] \in Results => Happened(request[t].op, request[t].key, reply[t])

(* The same of what is cached, and so of every later answer.               *)
CachedHappened ==
  \A op \in Ops, k \in Key : LET r == cache[IdemKey(op, k)] IN
    r # NoEntry => Happened(op, k, r)

(* Of the invoices made for key k, at most one is neither voided nor       *)
(* deleted.                                                                *)
OneUsable(k) ==
  \A i, j \in Invoice :
    madeFor[i] = k /\ madeFor[j] = k /\ {invoices[i], invoices[j]} \subseteq Usable => i = j

(* Requests of an operation and key that come one after another, within    *)
(* the time to live and with nothing lost, whatever befalls other requests.*)
Undisturbed(e) == e \notin overlapped \cup faulted

(* Retries of a creation that nothing disturbs never leave two usable      *)
(* invoices, though invoices are voided and deleted between the retries,   *)
(* and made again.                                                         *)
SerialOneUsable == \A k \in Key : Undisturbed(<<"create", k>>) => OneUsable(k)

(* Retries of an update that nothing disturbs reach Xero once.             *)
SerialOneWrite == \A e \in Updates \X Key : Undisturbed(e) => Len(writes[e]) <= 1

=================================================================================
