--------------------------- MODULE XeroInvoicesProofs ---------------------------
(***************************************************************************)
(* Proofs about XeroInvoices, for any number of requests, keys, invoices   *)
(* and edits.                                                              *)
(*                                                                         *)
(* ClaimInv holds under every fault: what a request holds, what is cached  *)
(* and what is answered claim only what Xero did, since no invoice ever    *)
(* leaves its end state or changes its key.  SerialInv adds what is known  *)
(* of an operation and key whose requests nothing disturbs: the one change *)
(* or usable invoice is the cached one or about to be.                     *)
(***************************************************************************)
EXTENDS XeroInvoices, TLAPS

(* What a task is called with, and that it has not answered until it ends. *)
Fits(t) ==
  /\ pc[t] # "idle" => request[t] \in Requests
  /\ pc[t] \in {"verify", "post"} => request[t].op = "create"
  /\ pc[t] = "update" => request[t].op \in Updates /\ request[t].invoice \in Invoice
  /\ pc[t] # "done" => reply[t] = NoEntry

(* What a request found in the cache, got from Xero or answered is true.   *)
Truthful(t) ==
  /\ pc[t] \in {"verify", "cache"} =>
       result[t] \in Results /\ Happened(request[t].op, request[t].key, result[t])
  /\ reply[t] \in Results => Happened(request[t].op, request[t].key, reply[t])

ClaimInv == TypeOK /\ (\A t \in Task : Fits(t) /\ Truthful(t)) /\ CachedHappened

(* The changes that Xero or people make to the status of an invoice.       *)
Onward(s, u) ==
  \/ u = s
  \/ s = "DRAFT" /\ u \in {"AUTHORISED", "DELETED"}
  \/ s = "AUTHORISED" /\ u = "VOIDED"

XeroTypes ==
  /\ invoices \in Seq(Statuses)
  /\ madeFor \in Seq(Key) /\ Len(madeFor) = Len(invoices)
  /\ writes \in [Updates \X Key -> Seq(Nat)]

(* Xero keeps every invoice and its key and moves it onward, and what was  *)
(* changed has been changed.                                               *)
Grows ==
  /\ XeroTypes'
  /\ Invoice \subseteq Invoice'
  /\ \A i \in Invoice : madeFor'[i] = madeFor[i] /\ Onward(invoices[i], invoices'[i])
  /\ \A e \in Updates \X Key, i \in Nat : Changed(e, i) => Changed(e, i)'

LEMMA SameXero ==
  ASSUME XeroTypes, UNCHANGED xero
  PROVE  Grows
  BY DEF XeroTypes, Grows, Onward, Changed, xero, Invoice

LEMMA NewInvoiceGrows ==
  ASSUME XeroTypes, NEW t \in Task, request[t].key \in Key, NewInvoice(t)
  PROVE  /\ Grows /\ Len(invoices') = Len(invoices) + 1
         /\ Len(invoices') \in Invoice' /\ Len(invoices') \notin Invoice
         /\ Invoice' = Invoice \cup {Len(invoices')}
         /\ madeFor'[Len(invoices')] = request[t].key
         /\ \A i \in Invoice : invoices'[i] = invoices[i]
  BY DEF XeroTypes, Grows, Onward, Changed, NewInvoice, Invoice, Statuses

LEMMA AppendKeeps ==
  ASSUME NEW s \in Seq(Nat), NEW n \in Nat
  PROVE  /\ Append(s, n) \in Seq(Nat) /\ Len(Append(s, n)) = Len(s) + 1
         /\ Append(s, n)[Len(s) + 1] = n
         /\ \A m \in 1..Len(s) : Append(s, n)[m] = s[m]
  OBVIOUS

LEMMA ChangeGrows ==
  ASSUME XeroTypes, NEW t \in Task, request[t] \in Requests,
         request[t].op \in Updates, request[t].invoice \in Invoice, Change(t), request' = request
  PROVE  /\ Grows /\ Invoice' = Invoice
         /\ invoices'[request[t].invoice] = Goal[request[t].op]
         /\ Goal[request[t].op] \in Statuses
         /\ Changed(<<request[t].op, request[t].key>>, request[t].invoice)'
<1> DEFINE i == request[t].invoice
           s == request[t].op
           e == <<request[t].op, request[t].key>>
<1>1. /\ e \in Updates \X Key /\ i \in Nat /\ writes[e] \in Seq(Nat)
      /\ s \in {"submit", "void"} /\ Goal[s] \in Statuses
  BY DEF XeroTypes, Requests, Invoice, Updates, Goal, Statuses
<1>2. /\ invoices' = [invoices EXCEPT ![i] = Goal[s]] /\ madeFor' = madeFor
      /\ writes' = [writes EXCEPT ![e] = Append(@, i)]
      /\ Onward(invoices[i], Goal[s])
  BY DEF Change, Accepts, Onward, Goal
<1>3. /\ invoices' \in Seq(Statuses) /\ Len(invoices') = Len(invoices) /\ Invoice' = Invoice
      /\ \A j \in Invoice : invoices'[j] = IF j = i THEN Goal[s] ELSE invoices[j]
  BY <1>1, <1>2 DEF XeroTypes, Invoice
<1>4. /\ writes' \in [Updates \X Key -> Seq(Nat)]
      /\ writes'[e] = Append(writes[e], i) /\ \A d \in (Updates \X Key) \ {e} : writes'[d] = writes[d]
  BY <1>1, <1>2, AppendKeeps DEF XeroTypes
<1>5. Changed(e, i)' /\ \A d \in Updates \X Key, j \in Nat : Changed(d, j) => Changed(d, j)'
  <2> DEFINE w == writes[e]
             v == writes'[e]
  <2>1. /\ Len(w) \in Nat /\ Len(v) = Len(w) + 1 /\ v[Len(w) + 1] = i
        /\ \A m \in 1..Len(w) : v[m] = w[m]
    BY <1>1, <1>4, AppendKeeps
  <2> HIDE DEF w, v
  <2>2. \E n \in 1..Len(v) : v[n] = i
    BY <2>1
  <2>3. \A j \in Nat : (\E n \in 1..Len(w) : w[n] = j) => \E n \in 1..Len(v) : v[n] = j
    BY <2>1
  <2>4. ASSUME NEW d \in Updates \X Key, NEW j \in Nat, Changed(d, j) PROVE Changed(d, j)'
    <3>1. CASE d = e
      BY <2>3, <2>4, <3>1 DEF Changed, w, v
    <3>2. CASE d # e
      BY <1>4, <2>4, <3>2 DEF Changed
    <3> QED
      BY <3>1, <3>2
  <2> QED
    BY <2>2, <2>4 DEF Changed, v
<1> QED
  BY <1>1, <1>2, <1>3, <1>4, <1>5 DEF XeroTypes, Grows, Onward

LEMMA EditGrows ==
  ASSUME XeroTypes, NEW i \in Invoice, Edit(i)
  PROVE  Grows /\ Invoice' = Invoice
<1>1. PICK u \in Statuses : invoices' = [invoices EXCEPT ![i] = u] /\ Onward(invoices[i], u)
  BY DEF Edit, Onward, Statuses
<1>2. UNCHANGED <<madeFor, writes>>
  BY DEF Edit
<1>3. invoices' \in Seq(Statuses) /\ Len(invoices') = Len(invoices) /\ Invoice' = Invoice
  BY <1>1 DEF XeroTypes, Invoice
<1>4. \A j \in Invoice : invoices'[j] = IF j = i THEN u ELSE invoices[j]
  BY <1>1 DEF XeroTypes, Invoice
<1> QED
  BY <1>1, <1>2, <1>3, <1>4 DEF XeroTypes, Grows, Onward, Changed

(* A claim that was true stays true.                                       *)
LEMMA ClaimsLast ==
  ASSUME XeroTypes, Grows, NEW op, NEW k \in Key, NEW r \in Results, Happened(op, k, r)
  PROVE  Happened(op, k, r)'
<1>1. r.invoice \in Invoice /\ r.invoice \in Nat
  BY DEF Results, Invoice
<1>2. op \in Updates /\ Changed(<<op, k>>, r.invoice) => Changed(<<op, k>>, r.invoice)'
  BY <1>1 DEF Grows
<1>3. madeFor'[r.invoice] = madeFor[r.invoice] /\ Onward(invoices[r.invoice], invoices'[r.invoice])
  BY <1>1 DEF Grows
<1>4. op \in Updates /\ invoices[r.invoice] \in {Goal[op], "VOIDED"} =>
        invoices'[r.invoice] \in {Goal[op], "VOIDED"}
  BY <1>3 DEF Onward, Goal, Updates
<1> QED
  BY <1>2, <1>3, <1>4 DEF Happened

LEMMA ResultsLast ==
  ASSUME Grows
  PROVE  Results \subseteq Results' /\ Requests \subseteq Requests'
  BY DEF Grows, Results, Requests

LEMMA MarksApart ==
  ASSUME invoices \in Seq(Statuses)
  PROVE  /\ NoEntry \notin Results /\ Failed \notin Results /\ NoEntry \notin Requests
         /\ Failed # NoEntry
  BY MarksAssumption DEF Results, Requests, Invoice

LEMMA InitClaims == Init => ClaimInv
<1> SUFFICES ASSUME Init PROVE ClaimInv
  OBVIOUS
<1>1. TypeOK
  BY DEF Init, TypeOK, Busy
<1>2. NoEntry \notin Results
  BY <1>1, MarksApart DEF TypeOK
<1> QED
  BY <1>1, <1>2 DEF Init, ClaimInv, Fits, Truthful, CachedHappened, IdemKey

(* What is true of a task stays true when others act.                      *)
LEMMA OthersKept ==
  ASSUME ClaimInv, Grows, NEW u \in Task,
         pc'[u] = pc[u], request'[u] = request[u], result'[u] = result[u], reply'[u] = reply[u]
  PROVE  Fits(u)' /\ Truthful(u)'
<1>1. XeroTypes /\ Fits(u) /\ Truthful(u)
  BY DEF ClaimInv, TypeOK, XeroTypes
<1>2. reply[u] \in Results' => reply[u] \in Results
  <2>1. NoEntry \notin Results' /\ Failed \notin Results'
    BY MarksAssumption DEF Grows, XeroTypes, Results, Invoice
  <2> QED
    BY <2>1 DEF ClaimInv, TypeOK
<1>3. Fits(u)'
  BY <1>1, ResultsLast DEF Fits, Grows
<1>4. Truthful(u)'
  <2> DEFINE o == request[u].op
             k == request[u].key
  <2>1. pc[u] # "idle" => k \in Key
    BY <1>1 DEF Fits, Requests
  <2>2. reply[u] \in Results => pc[u] = "done"
    BY <1>1, MarksApart DEF Fits, XeroTypes
  <2>3. \A r \in Results : pc[u] # "idle" /\ Happened(o, k, r) => Happened(o, k, r)'
    BY <1>1, <2>1, ClaimsLast
  <2> QED
    BY <1>1, <1>2, <2>2, <2>3, ResultsLast DEF Truthful
<1> QED
  BY <1>3, <1>4

(* What is cached stays true.                                              *)
LEMMA CacheKept ==
  ASSUME ClaimInv, Grows, UNCHANGED cache
  PROVE  CachedHappened' /\ cache' \in [Ops \X Key -> Results' \cup {NoEntry}]
<1>1. XeroTypes
  BY DEF ClaimInv, TypeOK, XeroTypes
<1>2. CachedHappened'
  <2> SUFFICES ASSUME NEW op \in Ops, NEW k \in Key, cache[<<op, k>>] # NoEntry
               PROVE  Happened(op, k, cache[<<op, k>>])'
    BY DEF CachedHappened, IdemKey
  <2>1. cache[<<op, k>>] \in Results /\ Happened(op, k, cache[<<op, k>>])
    BY DEF ClaimInv, TypeOK, CachedHappened, IdemKey
  <2> QED
    BY <1>1, <2>1, ClaimsLast
<1> QED
  BY <1>2, ResultsLast DEF ClaimInv, TypeOK

(* A step of one task: it is enough to look at that task and at the cache. *)
LEMMA TaskStep ==
  ASSUME ClaimInv, Grows, NEW t \in Task,
         \A u \in Task \ {t} : /\ pc'[u] = pc[u] /\ request'[u] = request[u]
                               /\ result'[u] = result[u] /\ reply'[u] = reply[u],
         pc' \in [Task -> {"idle", "done", "dead"} \cup Busy],
         request' \in [Task -> Requests' \cup {NoEntry}],
         result' \in [Task -> Results' \cup {NoEntry}],
         reply' \in [Task -> Results' \cup {NoEntry, Failed}],
         cache' \in [Ops \X Key -> Results' \cup {NoEntry}], CachedHappened',
         Fits(t)', Truthful(t)'
  PROVE  ClaimInv'
<1>1. TypeOK'
  BY DEF TypeOK, Grows, XeroTypes
<1>2. \A u \in Task : Fits(u)' /\ Truthful(u)'
  <2> SUFFICES ASSUME NEW u \in Task \ {t} PROVE Fits(u)' /\ Truthful(u)'
    OBVIOUS
  <2> QED
    BY OthersKept
<1> QED
  BY <1>1, <1>2 DEF ClaimInv

(* A request arrives, with what the cache holds for it.                    *)
LEMMA ArrivalStep ==
  ASSUME ClaimInv, NEW t \in Task, NEW op \in Ops, NEW k \in Key, NEW i \in Invoice \cup {0},
         Arrive(t, op, k, i), UNCHANGED <<cache, xero>>,
         \/ /\ op = "create" /\ reply' = reply
            /\ result' = [result EXCEPT ![t] = cache[<<op, k>>]]
            /\ Goto(t, IF result'[t] = NoEntry THEN "post" ELSE "verify")
         \/ /\ cache[<<op, k>>] # NoEntry /\ result' = result
            /\ Answer(t, cache[<<op, k>>])
         \/ /\ op \in Updates /\ i \in Invoice /\ result' = result /\ reply' = reply
            /\ Goto(t, "update")
  PROVE  ClaimInv'
<1>1. Grows /\ Invoice' = Invoice /\ Results' = Results /\ Requests' = Requests
  BY SameXero DEF ClaimInv, TypeOK, XeroTypes, xero, Invoice, Results, Requests
<1>2. CachedHappened' /\ cache' \in [Ops \X Key -> Results' \cup {NoEntry}]
  BY <1>1, CacheKept
<1>3. /\ cache[<<op, k>>] \in Results \cup {NoEntry}
      /\ cache[<<op, k>>] # NoEntry => Happened(op, k, cache[<<op, k>>])'
  BY <1>2 DEF ClaimInv, TypeOK, CachedHappened, IdemKey
<1>4. /\ pc[t] = "idle" /\ reply[t] = NoEntry
      /\ request' = [request EXCEPT ![t] = [op |-> op, key |-> k, invoice |-> i]]
      /\ request'[t] \in Requests /\ request'[t].op = op
      /\ request'[t].key = k /\ request'[t].invoice = i
  BY DEF Arrive, ClaimInv, TypeOK, Fits, Requests
<1>5. NoEntry \notin Results
  BY MarksApart DEF ClaimInv, TypeOK
<1>6. /\ pc' \in [Task -> {"idle", "done", "dead"} \cup Busy]
      /\ request' \in [Task -> Requests \cup {NoEntry}]
      /\ result' \in [Task -> Results \cup {NoEntry}]
      /\ reply' \in [Task -> Results \cup {NoEntry, Failed}]
  BY <1>3, <1>4 DEF ClaimInv, TypeOK, Goto, Answer, Busy
<1>7. Fits(t)'
  BY <1>1, <1>3, <1>4, <1>5 DEF ClaimInv, TypeOK, Fits, Goto, Answer
<1>8. Truthful(t)'
  BY <1>1, <1>3, <1>4, <1>5 DEF ClaimInv, TypeOK, Truthful, Goto, Answer
<1>9. \A u \in Task \ {t} : /\ pc'[u] = pc[u] /\ request'[u] = request[u]
                             /\ result'[u] = result[u] /\ reply'[u] = reply[u]
  BY <1>4 DEF ClaimInv, TypeOK, Goto, Answer
<1> QED
  BY <1>1, <1>2, <1>6, <1>7, <1>8, <1>9, TaskStep

(* The task t, which has a request, goes on to an await or ends.           *)
LEMMA ResumeStep ==
  ASSUME ClaimInv, Grows, NEW t \in Task, pc[t] \in Busy,
         UNCHANGED <<cache, request>>,
         \/ pc[t] = "verify" /\ Goto(t, "post") /\ UNCHANGED <<result, reply>>
         \/ /\ Goto(t, "cache") /\ reply' = reply
            /\ \E r \in Results' : /\ result' = [result EXCEPT ![t] = r]
                                   /\ Happened(request[t].op, request[t].key, r)'
         \/ Goto(t, "dead") /\ UNCHANGED <<result, reply>>
         \/ Fail(t)
         \/ pc[t] = "verify" /\ Answer(t, result[t]) /\ result' = result
  PROVE  ClaimInv'
<1>1. CachedHappened' /\ cache' \in [Ops \X Key -> Results' \cup {NoEntry}]
  BY CacheKept
<1>2. Results \subseteq Results' /\ Requests \subseteq Requests'
  BY ResultsLast
<1>3. NoEntry \notin Results' /\ Failed \notin Results' /\ NoEntry \notin Requests
  BY MarksAssumption, MarksApart DEF Grows, XeroTypes, Results, Invoice, ClaimInv, TypeOK
<1>4. Fits(t) /\ Truthful(t) /\ XeroTypes
  BY DEF ClaimInv, TypeOK, XeroTypes
<1>5. pc[t] = "verify" /\ result' = result =>
        result[t] \in Results /\ Happened(request[t].op, request[t].key, result[t])'
  <2> DEFINE r == result[t]
             o == request[t].op
             k == request[t].key
  <2>1. pc[t] = "verify" => r \in Results /\ k \in Key /\ Happened(o, k, r)
    BY <1>4 DEF Truthful, Fits, Requests
  <2> QED
    BY <1>4, <2>1, ClaimsLast
<1>6. /\ pc' \in [Task -> {"idle", "done", "dead"} \cup Busy]
      /\ request' \in [Task -> Requests' \cup {NoEntry}]
      /\ result' \in [Task -> Results' \cup {NoEntry}]
      /\ reply' \in [Task -> Results' \cup {NoEntry, Failed}]
  BY <1>2, <1>5 DEF ClaimInv, TypeOK, Goto, Answer, Fail, Busy
<1>7. Fits(t)'
  BY <1>2, <1>4 DEF ClaimInv, TypeOK, Fits, Goto, Answer, Fail, Busy
<1>8. Truthful(t)'
  BY <1>3, <1>4, <1>5 DEF ClaimInv, TypeOK, Fits, Truthful, Goto, Answer, Fail, Busy
<1>9. \A u \in Task \ {t} : /\ pc'[u] = pc[u] /\ request'[u] = request[u]
                             /\ result'[u] = result[u] /\ reply'[u] = reply[u]
  BY DEF ClaimInv, TypeOK, Goto, Answer, Fail
<1> QED
  BY <1>1, <1>6, <1>7, <1>8, <1>9, TaskStep

LEMMA ClaimStep == ClaimInv /\ [Next]_vars => ClaimInv'
<1> SUFFICES ASSUME ClaimInv, [Next]_vars PROVE ClaimInv'
  OBVIOUS
<1>0. XeroTypes
  BY DEF ClaimInv, TypeOK, XeroTypes
<1>1. ASSUME NEW t \in Task, NEW k \in Key, Create(t, k) PROVE ClaimInv'
  <2>1. "create" \in Ops /\ 0 \in Invoice \cup {0}
    BY DEF Ops
  <2> QED
    BY <1>1, <2>1, ArrivalStep DEF Create, IdemKey
<1>2. ASSUME NEW t \in Task, NEW k \in Key, NEW op \in Updates, NEW i \in Invoice, Update(t, op, k, i)
      PROVE  ClaimInv'
  BY <1>2, ArrivalStep DEF Update, IdemKey, Ops
<1>3. ASSUME NEW t \in Task, Verify(t) PROVE ClaimInv'
  <2>1. Grows
    BY <1>0, <1>3, SameXero DEF Verify
  <2> QED
    BY <1>3, <2>1, ResumeStep DEF Verify, Busy
<1>4. ASSUME NEW t \in Task, Post(t) PROVE ClaimInv'
  <2>1. pc[t] = "post" /\ pc[t] \in Busy /\ request[t] \in Requests /\ request[t].op = "create"
        /\ request[t].key \in Key /\ UNCHANGED <<cache, request>>
    BY <1>4 DEF Post, ClaimInv, Fits, Busy, Requests
  <2>2. CASE NewInvoice(t) /\ Got(t, Len(invoices'), "DRAFT") /\ Goto(t, "cache") /\ UNCHANGED reply
    <3> PICK n : n = Len(invoices')
      OBVIOUS
    <3> DEFINE r == [invoice |-> n, status |-> "DRAFT"]
    <3>1. /\ Grows /\ r \in Results'
          /\ Happened(request[t].op, request[t].key, r)'
      BY <1>0, <2>1, <2>2, NewInvoiceGrows DEF Results, Statuses, Happened
    <3>2. result' = [result EXCEPT ![t] = r]
      BY <2>2 DEF Got
    <3> QED
      BY <2>1, <2>2, <3>1, <3>2, ResumeStep
  <2>3. CASE Fail(t) /\ (UNCHANGED xero \/ NewInvoice(t))
    <3>1. Grows
      BY <1>0, <2>1, <2>3, SameXero, NewInvoiceGrows
    <3> QED
      BY <2>1, <2>3, <3>1, ResumeStep
  <2> QED
    BY <1>4, <2>2, <2>3 DEF Post
<1>5. ASSUME NEW t \in Task, SetStatus(t) PROVE ClaimInv'
  <2> DEFINE q == request[t]
  <2>1. pc[t] = "update" /\ pc[t] \in Busy /\ q \in Requests /\ q.op \in Updates
        /\ q.invoice \in Invoice /\ UNCHANGED <<cache, request>>
    BY <1>5 DEF SetStatus, ClaimInv, Fits, Busy
  <2>2. CASE Change(t) /\ Got(t, q.invoice, Goal[q.op]) /\ Goto(t, "cache") /\ UNCHANGED reply
    <3> DEFINE r == [invoice |-> q.invoice, status |-> Goal[q.op]]
    <3>1. /\ Grows /\ Invoice' = Invoice /\ invoices'[q.invoice] = Goal[q.op]
          /\ Goal[q.op] \in Statuses /\ Changed(<<q.op, q.key>>, q.invoice)'
      BY <1>0, <2>1, <2>2, ChangeGrows
    <3>2. r \in Results' /\ Happened(request[t].op, request[t].key, r)'
      BY <2>1, <3>1 DEF Results, Happened
    <3>3. result' = [result EXCEPT ![t] = r]
      BY <2>2 DEF Got
    <3> QED
      BY <2>1, <2>2, <3>1, <3>2, <3>3, ResumeStep
  <2>3. CASE Fail(t) /\ (UNCHANGED xero \/ Change(t))
    <3>1. Grows
      BY <1>0, <2>1, <2>3, SameXero, ChangeGrows
    <3> QED
      BY <2>1, <2>3, <3>1, ResumeStep
  <2> QED
    BY <1>5, <2>2, <2>3 DEF SetStatus
<1>6. ASSUME NEW t \in Task, Cache(t) PROVE ClaimInv'
  <2> DEFINE e == <<request[t].op, request[t].key>>
  <2>1. /\ pc[t] = "cache" /\ request[t] \in Requests /\ e \in Ops \X Key
        /\ result[t] \in Results /\ Happened(request[t].op, request[t].key, result[t])
        /\ UNCHANGED <<request, result, xero>> /\ Answer(t, result[t])
        /\ cache' = [cache EXCEPT ![e] = result[t]]
    BY <1>6 DEF Cache, IdemKey, ClaimInv, Fits, Truthful, Requests
  <2>2. Grows /\ Results' = Results /\ Requests' = Requests
    BY <1>0, <2>1, SameXero DEF xero, Results, Requests, Invoice
  <2>3. \A op, k, r : Happened(op, k, r) => Happened(op, k, r)'
    BY <2>1 DEF Happened, Changed, xero
  <2>4. CachedHappened' /\ cache' \in [Ops \X Key -> Results' \cup {NoEntry}]
    BY <2>1, <2>2, <2>3 DEF ClaimInv, TypeOK, CachedHappened, IdemKey
  <2>5. Fits(t)' /\ Truthful(t)'
    BY <2>1, <2>2, <2>3 DEF ClaimInv, TypeOK, Fits, Truthful, Answer, Goto
  <2> QED
    BY <2>1, <2>2, <2>4, <2>5, TaskStep DEF ClaimInv, TypeOK, Answer, Goto
<1>7. ASSUME NEW t \in Task, Crash(t) PROVE ClaimInv'
  <2>1. Grows
    BY <1>0, <1>7, SameXero DEF Crash
  <2> QED
    BY <1>7, <2>1, ResumeStep DEF Crash
<1>8. ASSUME NEW e \in Ops \X Key, Expire(e) PROVE ClaimInv'
  <2>1. Grows /\ Results' = Results /\ Requests' = Requests
    BY <1>0, <1>8, SameXero DEF Expire, xero, Results, Requests, Invoice
  <2>2. \A op, k, r : Happened(op, k, r) => Happened(op, k, r)'
    BY <1>8 DEF Expire, Happened, Changed, xero
  <2>3. CachedHappened' /\ TypeOK'
    BY <1>8, <2>1, <2>2 DEF Expire, ClaimInv, TypeOK, CachedHappened, IdemKey, Grows, XeroTypes
  <2> QED
    BY <1>8, <2>1, <2>3, OthersKept DEF Expire, ClaimInv
<1>9. ASSUME NEW i \in Invoice, Edit(i) PROVE ClaimInv'
  <2>1. Grows /\ Results' = Results /\ Requests' = Requests
    BY <1>0, <1>9, EditGrows DEF Results, Requests
  <2>2. UNCHANGED <<cache, pc, request, result, reply>>
    BY <1>9 DEF Edit
  <2>3. CachedHappened' /\ TypeOK'
    BY <2>1, <2>2, CacheKept DEF ClaimInv, TypeOK, Grows, XeroTypes
  <2> QED
    BY <2>1, <2>2, <2>3, OthersKept DEF ClaimInv
<1>10. CASE UNCHANGED vars
  <2>1. Grows
    BY <1>0, <1>10, SameXero DEF vars, xero
  <2>2. CachedHappened' /\ TypeOK'
    BY <1>10, <2>1, CacheKept DEF vars, ClaimInv, TypeOK, Grows, XeroTypes, Results, Requests, Invoice
  <2> QED
    BY <1>10, <2>1, <2>2, OthersKept DEF vars, ClaimInv
<1> QED
  BY <1>1, <1>2, <1>3, <1>4, <1>5, <1>6, <1>7, <1>8, <1>9, <1>10 DEF Next, Begin, Resume

-------------------------------------------------------------------------------
(* What the requests of one operation and key, as long as nothing disturbs *)
(* them, leave behind.                                                     *)

(* Task t is between the look into the cache and its answer.               *)
Serves(t, op, k) == pc[t] \in Busy /\ request[t].op = op /\ request[t].key = k

Alone(op, k) == \A t, u \in Task : Serves(t, op, k) /\ Serves(u, op, k) => t = u

(* Once Xero has made the change, it is cached or about to be.             *)
WriteKnown(op, k) ==
  /\ Len(writes[<<op, k>>]) <= 1
  /\ Len(writes[<<op, k>>]) = 1 =>
       cache[<<op, k>>] # NoEntry \/ \E t \in Task : Serves(t, op, k) /\ pc[t] = "cache"
  /\ \A t \in Task : Serves(t, op, k) /\ pc[t] = "update" => cache[<<op, k>>] = NoEntry

(* The usable invoice, if any, is the cached one or the one about to be,   *)
(* and none is left when another is asked for.                             *)
InvoiceKnown(k) ==
  /\ \A i \in Invoice : madeFor[i] = k /\ invoices[i] \in Usable =>
       \/ \E t \in Task : Serves(t, "create", k) /\ pc[t] = "cache" /\ result[t].invoice = i
       \/ /\ \A t \in Task : Serves(t, "create", k) => pc[t] = "verify"
          /\ cache[<<"create", k>>] # NoEntry /\ cache[<<"create", k>>].invoice = i
  /\ \A t \in Task : Serves(t, "create", k) /\ pc[t] = "verify" =>
       cache[<<"create", k>>] # NoEntry /\ result[t] = cache[<<"create", k>>]

Known(op, k) ==
  Undisturbed(<<op, k>>) =>
    /\ Alone(op, k)
    /\ op \in Updates => WriteKnown(op, k)
    /\ op = "create" => InvoiceKnown(k)

SerialInv == \A op \in Ops, k \in Key : Known(op, k)

LEMMA InitSerial == Init => SerialInv
<1> SUFFICES ASSUME Init PROVE SerialInv
  OBVIOUS
<1>1. Invoice = {} /\ \A t \in Task : pc[t] \notin Busy
  BY DEF Init, Invoice, Busy
<1>2. \A op \in Updates, k \in Key : writes[<<op, k>>] = <<>>
  BY DEF Init
<1> QED
  BY <1>1, <1>2 DEF SerialInv, Known, Alone, WriteKnown, InvoiceKnown, Serves

(* What a fault or an overlap hits is not spoken of.                       *)
LEMMA Disturbed ==
  ASSUME NEW op, NEW k, <<op, k>> \in overlapped' \cup faulted'
  PROVE  Known(op, k)'
  BY DEF Known, Undisturbed

(* What the requests of op and k know outlasts the steps of others.        *)
LEMMA BystanderKept ==
  ASSUME ClaimInv, Grows, NEW op \in Ops, NEW k \in Key, Known(op, k),
         overlapped \cup faulted \subseteq overlapped' \cup faulted',
         \A u \in Task : /\ Serves(u, op, k)' <=> Serves(u, op, k)
                         /\ Serves(u, op, k) => pc'[u] = pc[u] /\ result'[u] = result[u],
         cache'[<<op, k>>] = cache[<<op, k>>],
         op \in Updates => writes'[<<op, k>>] = writes[<<op, k>>],
         op = "create" => \A i \in Invoice' : i \notin Invoice => madeFor'[i] # k
  PROVE  Known(op, k)'
<1> SUFFICES ASSUME Undisturbed(<<op, k>>)'
             PROVE  /\ Alone(op, k)'
                    /\ op \in Updates => WriteKnown(op, k)'
                    /\ op = "create" => InvoiceKnown(k)'
  BY DEF Known
<1>1. Undisturbed(<<op, k>>)
  BY DEF Undisturbed
<1>2. Alone(op, k)'
  BY <1>1 DEF Known, Alone
<1>3. op \in Updates => WriteKnown(op, k)'
  BY <1>1 DEF Known, WriteKnown
<1>4. op = "create" => InvoiceKnown(k)'
  <2>1. \A i \in Invoice' : madeFor'[i] = k /\ invoices'[i] \in Usable /\ op = "create" =>
          i \in Invoice /\ madeFor[i] = k /\ invoices[i] \in Usable
    BY DEF Grows, Onward, Usable
  <2> QED
    BY <1>1, <2>1 DEF Known, InvoiceKnown
<1> QED
  BY <1>2, <1>3, <1>4

(* A request arrives.                                                      *)
LEMMA ArrivalKnown ==
  ASSUME ClaimInv, SerialInv, Grows, NEW t \in Task, NEW o \in Ops, NEW k0 \in Key, NEW i,
         Arrive(t, o, k0, i), UNCHANGED <<cache, xero, faulted>>,
         pc' = [pc EXCEPT ![t] = pc'[t]],
         \/ /\ o = "create" /\ result' = [result EXCEPT ![t] = cache[<<o, k0>>]]
            /\ pc'[t] = IF result'[t] = NoEntry THEN "post" ELSE "verify"
         \/ /\ cache[<<o, k0>>] # NoEntry /\ result' = result /\ pc'[t] = "done"
         \/ /\ o \in Updates /\ cache[<<o, k0>>] = NoEntry /\ result' = result
            /\ pc'[t] = "update",
         NEW op \in Ops, NEW k \in Key
  PROVE  Known(op, k)'
<1>0. /\ Known(op, k) /\ "idle" \notin Busy /\ pc[t] = "idle"
      /\ overlapped \cup faulted \subseteq overlapped' \cup faulted'
      /\ request' = [request EXCEPT ![t] = [op |-> o, key |-> k0, invoice |-> i]]
      /\ request'[t].op = o /\ request'[t].key = k0
      /\ \A u \in Task \ {t} : pc'[u] = pc[u] /\ request'[u] = request[u] /\ result'[u] = result[u]
      /\ Invoice' = Invoice
  BY DEF SerialInv, Busy, Arrive, ClaimInv, TypeOK, xero, Invoice
<1>1. CASE op # o \/ k # k0
  <2>1. \A u \in Task : /\ Serves(u, op, k)' <=> Serves(u, op, k)
                        /\ Serves(u, op, k) => pc'[u] = pc[u] /\ result'[u] = result[u]
    BY <1>0, <1>1 DEF Serves
  <2> QED
    BY <1>0, <2>1, BystanderKept DEF xero
<1>2. CASE op = o /\ k = k0 /\ \E u \in Task : Serves(u, op, k)
  BY <1>2, Disturbed DEF Arrive, Serves
<1>3. CASE op = o /\ k = k0 /\ \A u \in Task : ~Serves(u, op, k)
  <2> SUFFICES ASSUME Undisturbed(<<op, k>>)'
               PROVE  /\ Alone(op, k)'
                      /\ op \in Updates => WriteKnown(op, k)'
                      /\ op = "create" => InvoiceKnown(k)'
    BY DEF Known
  <2>1. \A u \in Task : Serves(u, op, k)' => u = t
    BY <1>0, <1>3 DEF Serves
  <2>2. Alone(op, k)'
    BY <2>1 DEF Alone
  <2>3. Undisturbed(<<op, k>>)
    BY <1>0 DEF Undisturbed
  <2>4. op \in Updates => WriteKnown(op, k)'
    BY <1>0, <1>3, <2>1, <2>3 DEF Known, WriteKnown, Updates, xero
  <2>5. op = "create" => InvoiceKnown(k)'
    <3> SUFFICES ASSUME op = "create" PROVE InvoiceKnown(k)'
      OBVIOUS
    <3>1. \A j \in Invoice' : madeFor'[j] = k /\ invoices'[j] \in Usable =>
            cache[<<"create", k>>] # NoEntry /\ cache[<<"create", k>>].invoice = j
      BY <1>0, <1>3, <2>3 DEF Known, InvoiceKnown, xero
    <3>2. cache[<<"create", k>>] # NoEntry /\ Serves(t, "create", k)' =>
            pc'[t] = "verify" /\ result'[t] = cache[<<"create", k>>]
      BY <1>3 DEF ClaimInv, TypeOK, Serves, Busy, Updates
    <3>3. Serves(t, "create", k)' /\ pc'[t] = "verify" =>
            cache[<<"create", k>>] # NoEntry /\ result'[t] = cache[<<"create", k>>]
      BY <1>3 DEF ClaimInv, TypeOK, Serves, Busy, Updates
    <3> QED
      BY <2>1, <3>1, <3>2, <3>3 DEF InvoiceKnown
  <2> QED
    BY <2>2, <2>4, <2>5
<1> QED
  BY <1>1, <1>2, <1>3

(* A task goes on, and what other operations and keys have is untouched.   *)
LEMMA ResumeKnown ==
  ASSUME ClaimInv, SerialInv, Grows, NEW t \in Task, pc[t] \in Busy,
         pc' = [pc EXCEPT ![t] = pc'[t]], result' = [result EXCEPT ![t] = result'[t]],
         UNCHANGED <<request, overlapped>>, faulted \subseteq faulted',
         NEW op \in Ops, NEW k \in Key,
         request[t].op # op \/ request[t].key # k =>
           /\ cache'[<<op, k>>] = cache[<<op, k>>]
           /\ op \in Updates => writes'[<<op, k>>] = writes[<<op, k>>]
           /\ op = "create" => \A i \in Invoice' : i \notin Invoice => madeFor'[i] # k,
         ASSUME request[t].op = op, request[t].key = k, Serves(t, op, k),
                Undisturbed(<<op, k>>), Undisturbed(<<op, k>>)',
                \A u \in Task : Serves(u, op, k) => u = t,
                \A u \in Task : Serves(u, op, k)' => u = t
         PROVE  /\ op \in Updates => WriteKnown(op, k)'
                /\ op = "create" => InvoiceKnown(k)'
  PROVE  Known(op, k)'
<1>0. /\ Known(op, k) /\ overlapped \cup faulted \subseteq overlapped' \cup faulted'
      /\ \A u \in Task \ {t} : pc'[u] = pc[u] /\ result'[u] = result[u]
  BY DEF SerialInv, ClaimInv, TypeOK
<1>1. CASE request[t].op # op \/ request[t].key # k
  <2>1. \A u \in Task : /\ Serves(u, op, k)' <=> Serves(u, op, k)
                        /\ Serves(u, op, k) => pc'[u] = pc[u] /\ result'[u] = result[u]
    BY <1>0, <1>1 DEF Serves
  <2> QED
    BY <1>0, <1>1, <2>1, BystanderKept
<1>2. CASE request[t].op = op /\ request[t].key = k
  <2> SUFFICES ASSUME Undisturbed(<<op, k>>)'
               PROVE  /\ Alone(op, k)'
                      /\ op \in Updates => WriteKnown(op, k)'
                      /\ op = "create" => InvoiceKnown(k)'
    BY DEF Known
  <2>1. Undisturbed(<<op, k>>) /\ Serves(t, op, k)
    BY <1>0, <1>2 DEF Undisturbed, Serves
  <2>2. \A u \in Task : Serves(u, op, k) => u = t
    BY <1>0, <2>1 DEF Known, Alone
  <2>3. \A u \in Task : Serves(u, op, k)' => u = t
    BY <1>0, <2>2 DEF Serves
  <2>4. Alone(op, k)'
    BY <2>3 DEF Alone
  <2> QED
    BY <1>2, <2>1, <2>2, <2>3, <2>4
<1> QED
  BY <1>1, <1>2

LEMMA NoneOrOne ==
  ASSUME NEW n \in Nat, n <= 1, n # 1
  PROVE  n = 0
  OBVIOUS

LEMMA SerialStep ==
  ASSUME ClaimInv, SerialInv, [Next]_vars, NEW op \in Ops, NEW k \in Key
  PROVE  Known(op, k)'
<1>0. /\ XeroTypes /\ Known(op, k) /\ ~("create" \in Updates)
      /\ \A t \in Task : Fits(t) /\ Truthful(t)
  BY DEF ClaimInv, TypeOK, XeroTypes, SerialInv, Updates
<1>1. ASSUME NEW t \in Task, NEW k0 \in Key, Create(t, k0) PROVE Known(op, k)'
  <2>1. Grows
    BY <1>0, <1>1, SameXero DEF Create
  <2>2. "create" \in Ops /\ pc' = [pc EXCEPT ![t] = pc'[t]]
        /\ pc'[t] = IF result'[t] = NoEntry THEN "post" ELSE "verify"
    BY <1>1 DEF Create, Goto, Ops, ClaimInv, TypeOK
  <2> QED
    BY <1>1, <2>1, <2>2, ArrivalKnown DEF Create, IdemKey
<1>2. ASSUME NEW t \in Task, NEW k0 \in Key, NEW o \in Updates, NEW i \in Invoice, Update(t, o, k0, i)
      PROVE  Known(op, k)'
  <2>1. Grows
    BY <1>0, <1>2, SameXero DEF Update
  <2>2. /\ o \in Ops /\ pc' = [pc EXCEPT ![t] = pc'[t]]
        /\ \/ cache[<<o, k0>>] # NoEntry /\ pc'[t] = "done"
           \/ cache[<<o, k0>>] = NoEntry /\ pc'[t] = "update"
    BY <1>2 DEF Update, IdemKey, Answer, Goto, Ops, ClaimInv, TypeOK
  <2> QED
    BY <1>2, <2>1, <2>2, ArrivalKnown DEF Update
<1>3. ASSUME NEW t \in Task, Verify(t) PROVE Known(op, k)'
  <2>1. Grows
    BY <1>0, <1>3, SameXero DEF Verify
  <2>2. /\ pc[t] = "verify" /\ pc[t] \in Busy /\ request[t].op = "create"
        /\ pc' = [pc EXCEPT ![t] = pc'[t]] /\ result' = [result EXCEPT ![t] = result'[t]]
        /\ faulted \subseteq faulted'
    BY <1>0, <1>3 DEF Verify, Busy, Fits, Answer, Fail, Goto, Strike, Smooth, ClaimInv, TypeOK
  <2>3. ASSUME request[t].op = op, request[t].key = k, Serves(t, op, k),
               Undisturbed(<<op, k>>), Undisturbed(<<op, k>>)',
               \A u \in Task : Serves(u, op, k) => u = t,
               \A u \in Task : Serves(u, op, k)' => u = t
        PROVE  /\ op \in Updates => WriteKnown(op, k)'
               /\ op = "create" => InvoiceKnown(k)'
    <3>1. InvoiceKnown(k) /\ result[t] = cache[<<"create", k>>] /\ cache[<<"create", k>>] # NoEntry
      BY <1>0, <2>2, <2>3 DEF Known, InvoiceKnown
    <3>2. faulted' = faulted
      BY <1>3, <2>3 DEF Verify, Strike, Smooth, Undisturbed
    <3>3. UNCHANGED <<cache, xero, result>>
      BY <1>3 DEF Verify, Answer, Fail
    <3>4. CASE pc'[t] = "done"
      <4>1. \A u \in Task : ~Serves(u, "create", k)'
        BY <2>2, <2>3, <3>4 DEF Serves, Busy
      <4> QED
        BY <1>0, <2>2, <2>3, <3>1, <3>3, <4>1 DEF InvoiceKnown, xero, Invoice
    <3>5. CASE pc'[t] = "post" /\ invoices[result[t].invoice] \notin Usable
      BY <1>0, <2>2, <2>3, <3>1, <3>3, <3>5 DEF InvoiceKnown, xero, Invoice
    <3>6. \/ pc'[t] = "done"
          \/ pc'[t] = "post" /\ invoices[result[t].invoice] \notin Usable
      BY <1>3, <2>3 DEF Verify, Strike, Undisturbed, Answer, Fail, Goto, ClaimInv, TypeOK
    <3> QED
      BY <1>0, <2>2, <2>3, <3>4, <3>5, <3>6
  <2> QED
    BY <1>3, <2>1, <2>2, <2>3, ResumeKnown DEF Verify, xero, Invoice
<1>4. ASSUME NEW t \in Task, Post(t) PROVE Known(op, k)'
  <2>1. /\ pc[t] = "post" /\ pc[t] \in Busy /\ request[t].op = "create" /\ request[t].key \in Key
        /\ pc' = [pc EXCEPT ![t] = pc'[t]] /\ result' = [result EXCEPT ![t] = result'[t]]
        /\ faulted \subseteq faulted'
    BY <1>0, <1>4 DEF Post, Busy, Fits, Requests, Answer, Fail, Got, Goto, Strike, Smooth, ClaimInv, TypeOK
  <2>2. Grows /\ writes' = writes /\ \A i \in Invoice' : i \notin Invoice => madeFor'[i] = request[t].key
    <3>1. CASE UNCHANGED xero
      BY <1>0, <3>1, SameXero DEF xero, Invoice
    <3>2. CASE NewInvoice(t)
      BY <1>0, <2>1, <3>2, NewInvoiceGrows DEF NewInvoice
    <3> QED
      BY <1>4, <3>1, <3>2 DEF Post
  <2>3. ASSUME request[t].op = op, request[t].key = k, Serves(t, op, k),
               Undisturbed(<<op, k>>), Undisturbed(<<op, k>>)',
               \A u \in Task : Serves(u, op, k) => u = t,
               \A u \in Task : Serves(u, op, k)' => u = t
        PROVE  /\ op \in Updates => WriteKnown(op, k)'
               /\ op = "create" => InvoiceKnown(k)'
    <3>1. NewInvoice(t) /\ Got(t, Len(invoices'), "DRAFT") /\ Goto(t, "cache")
      BY <1>4, <2>3 DEF Post, Strike, Undisturbed
    <3>2. \A i \in Invoice : ~(madeFor[i] = k /\ invoices[i] \in Usable)
      BY <1>0, <2>1, <2>3 DEF Known, InvoiceKnown
    <3>3. /\ Invoice' = Invoice \cup {Len(invoices')}
          /\ \A i \in Invoice : madeFor'[i] = madeFor[i] /\ invoices'[i] = invoices[i]
      BY <1>0, <2>1, <3>1, NewInvoiceGrows DEF Grows
    <3>4. Serves(t, "create", k)' /\ pc'[t] = "cache" /\ result'[t].invoice = Len(invoices')
      BY <1>4, <2>1, <2>3, <3>1 DEF Post, Serves, Goto, Got, Busy, ClaimInv, TypeOK
    <3> QED
      BY <1>0, <2>1, <2>3, <3>2, <3>3, <3>4 DEF InvoiceKnown
  <2>4. /\ cache' = cache /\ UNCHANGED <<request, overlapped>>
        /\ request[t].op # op \/ request[t].key # k =>
             (op = "create" => \A i \in Invoice' : i \notin Invoice => madeFor'[i] # k)
    BY <1>4, <2>1, <2>2 DEF Post
  <2> QED
    BY <2>1, <2>2, <2>3, <2>4, ResumeKnown
<1>5. ASSUME NEW t \in Task, SetStatus(t) PROVE Known(op, k)'
  <2>1. /\ pc[t] = "update" /\ pc[t] \in Busy /\ request[t] \in Requests /\ request[t].op \in Updates
        /\ request[t].invoice \in Invoice
        /\ pc' = [pc EXCEPT ![t] = pc'[t]] /\ result' = [result EXCEPT ![t] = result'[t]]
        /\ faulted \subseteq faulted' /\ request' = request
    BY <1>0, <1>5 DEF SetStatus, Busy, Fits, Answer, Fail, Got, Goto, Strike, Smooth, ClaimInv, TypeOK
  <2> DEFINE e == <<request[t].op, request[t].key>>
  <2>2. /\ Grows /\ Invoice' = Invoice
        /\ writes' = writes \/ writes' = [writes EXCEPT ![e] = Append(@, request[t].invoice)]
    <3>1. CASE UNCHANGED xero
      BY <1>0, <3>1, SameXero DEF xero, Invoice
    <3>2. CASE Change(t)
      BY <1>0, <2>1, <3>2, ChangeGrows DEF Change
    <3> QED
      BY <1>5, <3>1, <3>2 DEF SetStatus
  <2>3. ASSUME request[t].op = op, request[t].key = k, Serves(t, op, k),
               Undisturbed(<<op, k>>), Undisturbed(<<op, k>>)',
               \A u \in Task : Serves(u, op, k) => u = t,
               \A u \in Task : Serves(u, op, k)' => u = t
        PROVE  /\ op \in Updates => WriteKnown(op, k)'
               /\ op = "create" => InvoiceKnown(k)'
    <3>1. WriteKnown(op, k) /\ cache[<<op, k>>] = NoEntry /\ Len(writes[<<op, k>>]) # 1
      BY <1>0, <2>1, <2>3 DEF Known, WriteKnown
    <3>2. Len(writes[<<op, k>>]) = 0 /\ writes \in [Updates \X Key -> Seq(Nat)]
      <4>1. writes[<<op, k>>] \in Seq(Nat) /\ writes \in [Updates \X Key -> Seq(Nat)]
        BY <1>0, <2>1, <2>3 DEF XeroTypes, Requests
      <4>2. Len(writes[<<op, k>>]) \in Nat
        BY <4>1
      <4>3. Len(writes[<<op, k>>]) <= 1
        BY <3>1 DEF WriteKnown
      <4>4. Len(writes[<<op, k>>]) = 0
        BY <3>1, <4>2, <4>3, NoneOrOne
      <4> QED
        BY <4>1, <4>4
    <3>3. CASE UNCHANGED xero /\ pc'[t] = "done"
      <4>1. \A u \in Task : ~Serves(u, op, k)'
        BY <2>3, <3>3 DEF Serves, Busy
      <4>2. Len(writes'[<<op, k>>]) = 0
        BY <3>2, <3>3 DEF xero
      <4>3. WriteKnown(op, k)'
        BY <4>1, <4>2 DEF WriteKnown
      <4> QED
        BY <1>0, <2>1, <2>3, <4>3
    <3>4. CASE Change(t) /\ pc'[t] = "cache"
      <4>1. Serves(t, op, k)'
        BY <1>5, <2>3, <3>4 DEF SetStatus, Serves, Busy
      <4>2. Len(writes'[<<op, k>>]) = 1
        BY <2>1, <2>3, <3>2, <3>4, AppendKeeps DEF Change, Requests, Invoice
      <4> QED
        BY <1>0, <2>1, <2>3, <3>4, <4>1, <4>2 DEF WriteKnown
    <3>5. \/ UNCHANGED xero /\ pc'[t] = "done"
          \/ Change(t) /\ pc'[t] = "cache"
      BY <1>5, <2>3 DEF SetStatus, Strike, Undisturbed, Fail, Answer, Goto, ClaimInv, TypeOK
    <3> QED
      BY <3>3, <3>4, <3>5
  <2>4. request[t].op # op \/ request[t].key # k => (op \in Updates => writes'[<<op, k>>] = writes[<<op, k>>])
    BY <1>0, <2>1, <2>2 DEF XeroTypes, Requests
  <2> QED
    BY <1>5, <2>1, <2>2, <2>3, <2>4, ResumeKnown DEF SetStatus
<1>6. ASSUME NEW t \in Task, Cache(t) PROVE Known(op, k)'
  <2> DEFINE e == <<request[t].op, request[t].key>>
  <2>1. /\ pc[t] = "cache" /\ pc[t] \in Busy /\ request[t] \in Requests /\ e \in Ops \X Key
        /\ result[t] \in Results /\ result[t] # NoEntry
        /\ pc' = [pc EXCEPT ![t] = "done"] /\ pc'[t] = "done" /\ result' = [result EXCEPT ![t] = result'[t]]
        /\ cache' = [cache EXCEPT ![e] = result[t]] /\ faulted' = faulted
    BY <1>0, <1>6, MarksApart DEF Cache, IdemKey, Busy, Fits, Truthful, Requests, Answer, Goto, ClaimInv, TypeOK
  <2>2. Grows /\ Invoice' = Invoice
    BY <1>0, <1>6, SameXero DEF Cache, xero, Invoice
  <2>3. ASSUME request[t].op = op, request[t].key = k, Serves(t, op, k),
               Undisturbed(<<op, k>>), Undisturbed(<<op, k>>)',
               \A u \in Task : Serves(u, op, k) => u = t,
               \A u \in Task : Serves(u, op, k)' => u = t
        PROVE  /\ op \in Updates => WriteKnown(op, k)'
               /\ op = "create" => InvoiceKnown(k)'
    <3>1. cache'[<<op, k>>] = result[t] /\ cache'[<<op, k>>] # NoEntry
      BY <2>1, <2>3 DEF ClaimInv, TypeOK
    <3>2. \A u \in Task : ~Serves(u, op, k)'
      BY <2>1, <2>3 DEF Serves, Busy
    <3>3. op \in Updates => WriteKnown(op, k)'
      BY <1>0, <1>6, <2>3, <3>1, <3>2 DEF Cache, Known, WriteKnown, xero
    <3>4. op = "create" => InvoiceKnown(k)'
      BY <1>0, <1>6, <2>1, <2>2, <2>3, <3>1, <3>2 DEF Cache, Known, InvoiceKnown, xero
    <3> QED
      BY <3>3, <3>4
  <2>4. request[t].op # op \/ request[t].key # k => cache'[<<op, k>>] = cache[<<op, k>>]
    BY <2>1 DEF ClaimInv, TypeOK
  <2> QED
    BY <1>6, <2>1, <2>2, <2>3, <2>4, ResumeKnown DEF Cache, xero
<1>7. ASSUME NEW t \in Task, Crash(t) PROVE Known(op, k)'
  <2>1. Grows /\ Invoice' = Invoice
    BY <1>0, <1>7, SameXero DEF Crash, xero, Invoice
  <2>2. /\ pc' = [pc EXCEPT ![t] = pc'[t]] /\ result' = [result EXCEPT ![t] = result'[t]]
        /\ faulted \subseteq faulted'
    BY <1>7 DEF Crash, Goto, Strike, ClaimInv, TypeOK
  <2>3. ASSUME request[t].op = op, request[t].key = k, Serves(t, op, k),
               Undisturbed(<<op, k>>), Undisturbed(<<op, k>>)',
               \A u \in Task : Serves(u, op, k) => u = t,
               \A u \in Task : Serves(u, op, k)' => u = t
        PROVE  /\ op \in Updates => WriteKnown(op, k)'
               /\ op = "create" => InvoiceKnown(k)'
    BY <1>7, <2>3 DEF Crash, Strike, Undisturbed
  <2> QED
    BY <1>7, <2>1, <2>2, <2>3, ResumeKnown DEF Crash, xero
<1>8. ASSUME NEW e \in Ops \X Key, Expire(e) PROVE Known(op, k)'
  <2>1. Grows /\ Invoice' = Invoice
    BY <1>0, <1>8, SameXero DEF Expire, xero, Invoice
  <2>2. CASE e = <<op, k>>
    BY <1>8, <2>2, Disturbed DEF Expire
  <2>3. CASE e # <<op, k>>
    <3>1. cache'[<<op, k>>] = cache[<<op, k>>]
      BY <1>8, <2>3 DEF Expire, ClaimInv, TypeOK
    <3> QED
      BY <1>0, <1>8, <2>1, <3>1, BystanderKept DEF Expire, Serves, xero
  <2> QED
    BY <2>2, <2>3
<1>9. ASSUME NEW i \in Invoice, Edit(i) PROVE Known(op, k)'
  <2>1. Grows /\ Invoice' = Invoice
    BY <1>0, <1>9, EditGrows
  <2> QED
    BY <1>0, <1>9, <2>1, BystanderKept DEF Edit, Serves
<1>10. CASE UNCHANGED vars
  <2>1. Grows /\ Invoice' = Invoice
    BY <1>0, <1>10, SameXero DEF vars, xero, Invoice
  <2> QED
    BY <1>0, <1>10, <2>1, BystanderKept DEF vars, Serves
<1> QED
  BY <1>1, <1>2, <1>3, <1>4, <1>5, <1>6, <1>7, <1>8, <1>9, <1>10 DEF Next, Begin, Resume

-------------------------------------------------------------------------------
IInv == ClaimInv /\ SerialInv

(* The inductive invariant holds in every reachable state.                 *)
THEOREM Invariance == Spec => []IInv
<1>1. Init => IInv
  BY InitClaims, InitSerial DEF IInv
<1>2. IInv /\ [Next]_vars => IInv'
  BY ClaimStep, SerialStep DEF IInv, SerialInv
<1> QED
  BY <1>1, <1>2, PTL DEF Spec

(* No result ever names an invoice that Xero has not created.              *)
THEOREM TypeCorrectness == Spec => []TypeOK
<1>1. IInv => TypeOK
  BY DEF IInv, ClaimInv
<1> QED
  BY <1>1, Invariance, PTL

(* Under every fault, an answer names an invoice that Xero created,        *)
(* submitted or voided for a request of its operation and key.             *)
THEOREM RepliesAreTrue == Spec => []RepliesHappened
<1>1. IInv => RepliesHappened
  BY DEF IInv, ClaimInv, Truthful, RepliesHappened
<1> QED
  BY <1>1, Invariance, PTL

(* Under every fault, so does a cached result.                             *)
THEOREM CacheIsTrue == Spec => []CachedHappened
<1>1. IInv => CachedHappened
  BY DEF IInv, ClaimInv
<1> QED
  BY <1>1, Invariance, PTL

(* Any number of retries that nothing disturbs leave one usable invoice.   *)
THEOREM OneInvoiceIsUsable == Spec => []SerialOneUsable
<1>1. IInv => SerialOneUsable
  <2> SUFFICES ASSUME IInv, NEW k \in Key, Undisturbed(<<"create", k>>),
                      NEW i \in Invoice, NEW j \in Invoice, madeFor[i] = k, madeFor[j] = k,
                      invoices[i] \in Usable, invoices[j] \in Usable
               PROVE  i = j
    BY DEF SerialOneUsable, OneUsable
  <2>1. Alone("create", k) /\ InvoiceKnown(k)
    BY DEF IInv, SerialInv, Known, Ops
  <2> QED
    BY <2>1 DEF Alone, InvoiceKnown
<1> QED
  BY <1>1, Invariance, PTL

(* Any number of retries that nothing disturbs change an invoice once.     *)
THEOREM OneWriteIsMade == Spec => []SerialOneWrite
<1>1. IInv => SerialOneWrite
  <2> SUFFICES ASSUME IInv, NEW op \in Updates, NEW k \in Key, Undisturbed(<<op, k>>)
               PROVE  Len(writes[<<op, k>>]) <= 1
    BY DEF SerialOneWrite
  <2> QED
    BY DEF IInv, SerialInv, Known, Ops, WriteKnown
<1> QED
  BY <1>1, Invariance, PTL

=================================================================================
