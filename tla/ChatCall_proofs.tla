-------------------------- MODULE ChatCall_proofs ---------------------------
(***************************************************************************)
(* Proofs about the chat completion call, for every set of requests, every *)
(* slot capacity, every quote and every bill of the provider.              *)
(***************************************************************************)
EXTENDS ChatCall, TLAPS

Waiting == {"reserved", "queued", "calling"}

Armed(r) == armed[r] /\ ~exposed[r]

\* The handler has reserved and has ordered no accounting yet.
Unordered(r) ==
  \/ pc[r] \in Waiting \cup Relaying
  \/ pc[r] = "returning" /\ Armed(r)

\* The row is still to be closed by the handler or by a goroutine of it.
Owed(r) == Unordered(r) \/ job[r] # {}

(***************************************************************************)
(* Where Handle is and what it has done by then: an accounting job is      *)
(* ordered once, by a settle that disarms or by the armed deferred         *)
(* rollback; and as long as nothing was sent the reconciler cannot have    *)
(* touched a row that the handler still owes its end.                      *)
(***************************************************************************)
Progress(r) ==
  /\ pc[r] = "start" => row[r] = "absent" /\ jobs[r] = 0 /\ job[r] = {} /\ r \notin aged
  /\ pc[r] \in {"start", "reserved", "queued"} => prov[r] = "unsent"
  /\ pc[r] = "calling" => Armed(r)
  /\ pc[r] \in Relaying => ~Armed(r) /\ prov[r] \in {"accepted", "finished"}
  /\ pc[r] = "returning" /\ Armed(r) => prov[r] \in {"unsent", "refused"}
  /\ pc[r] = "returning" /\ ~Armed(r) => jobs[r] = 1
  /\ pc[r] = "done" /\ row[r] # "absent" => jobs[r] = 1
  /\ Unordered(r) => jobs[r] = 0 /\ job[r] = {}
  /\ Owed(r) => row[r] \in {"open", "orphaned"}
  /\ Owed(r) /\ prov[r] = "unsent" => row[r] = "open" /\ r \notin aged
  /\ jobs[r] <= 1

(***************************************************************************)
(* What the accounting job may order and what the row may have become: a   *)
(* rollback is only ever ordered for a call that provably cost nothing; a  *)
(* settlement below the quote is the bill of a finished answer; and what   *)
(* is known to have cost nothing is refunded, about to be, lost, or was    *)
(* refused too late.                                                       *)
(***************************************************************************)
Exact(r, amount) == amount >= Quote \/ (prov[r] = "finished" /\ amount = bill[r])

Accounting(r) ==
  /\ prov[r] \in {"unsent", "inflight", "refused"} => bill[r] = 0
  /\ \A o \in job[r] : job[r] = {o}
  /\ \A o \in job[r] : o = Rollback => prov[r] \in {"unsent", "refused"}
  /\ \A o \in job[r] : o # Rollback => Exact(r, o.amount)
  /\ row[r] \in {"open", "orphaned"} => charge[r] = Quote
  /\ row[r] = "rolled_back" => prov[r] \in {"unsent", "refused"}
  /\ row[r] = "settled" => Exact(r, charge[r])
  /\ r \in aged => row[r] = "open"

Refunding(r) ==
  heard[r] # "nothing" =>
    /\ heard[r] = prov[r]
    /\ pc[r] \in {"returning", "done", "gone"}
    /\ \/ pc[r] = "returning" /\ Armed(r)
       \/ Rollback \in job[r]
       \/ row[r] = "rolled_back"
       \/ r \in lost
       \/ heard[r] = "refused" /\ row[r] = "orphaned"

Books(r) == Progress(r) /\ Accounting(r) /\ Refunding(r)

CallInv == \A r \in Requests : Books(r)

ChatInv == TypeOK /\ SlotsMatchCalls /\ CallInv

-----------------------------------------------------------------------------
(* The accounting orders. *)

\* What may be charged is a number; the quote, nothing and any bill may be.
LEMMA AmountFacts ==
  /\ 0 \in Amounts /\ Quote \in Amounts
  /\ \A n \in 0..MaxBill : n \in Amounts
  /\ \A a \in Amounts : a \in Nat
  BY ChatAssumption DEF ChatAssumption, Amounts

LEMMA OrderFacts ==
  /\ Rollback \in Orders /\ Rollback.amount = 0
  /\ \A a \in Amounts : /\ Settle(a) \in Orders
                        /\ Settle(a) # Rollback
                        /\ Settle(a).amount = a
  /\ \A o \in Orders : o.amount \in Amounts
<1>1. Rollback \in Orders /\ Rollback.amount = 0 /\ Rollback.op = "rollback"
  BY DEF Rollback, Orders
<1>2. ASSUME NEW a \in Amounts
      PROVE  Settle(a) \in Orders /\ Settle(a).op = "settle" /\ Settle(a).amount = a
  BY DEF Settle, Orders
<1>3. ASSUME NEW o \in Orders
      PROVE  o.amount \in Amounts
  <2>1. o = Rollback \/ \E a \in Amounts : o = Settle(a)
    BY DEF Orders
  <2>2. QED
    BY <1>1, <1>2, <2>1, AmountFacts
<1>4. QED
  BY <1>1, <1>2, <1>3

(* The usage of a body is taken as it is reported. *)
LEMMA FirstSnapshot ==
  \A n \in 0..MaxBill :
    MergeSnapshot(NoUsage, n) = [present |-> TRUE, seen |-> n, bad |-> FALSE]
<1> TAKE n \in 0..MaxBill
<1>1. (IF n > NoUsage.seen THEN n ELSE NoUsage.seen) = n
  BY ChatAssumption DEF ChatAssumption, NoUsage
<1>2. MergeSnapshot(NoUsage, n) = [NoUsage EXCEPT !.present = TRUE, !.seen = n]
  BY <1>1 DEF MergeSnapshot
<1>3. QED
  BY <1>2 DEF NoUsage

-----------------------------------------------------------------------------
(* One request's step leaves the others' books alone. *)

Only(r) ==
  \A q \in Requests \ {r} :
    /\ pc'[q] = pc[q] /\ row'[q] = row[q] /\ charge'[q] = charge[q]
    /\ armed'[q] = armed[q] /\ exposed'[q] = exposed[q]
    /\ job'[q] = job[q] /\ jobs'[q] = jobs[q]
    /\ prov'[q] = prov[q] /\ bill'[q] = bill[q] /\ heard'[q] = heard[q]
    /\ q \in aged' <=> q \in aged
    /\ q \in lost' <=> q \in lost

LEMMA Local ==
  ASSUME CallInv, NEW r \in Requests, Only(r), Progress(r)', Accounting(r)', Refunding(r)'
  PROVE  CallInv'
<1> SUFFICES ASSUME NEW q \in Requests PROVE Books(q)'
  BY DEF CallInv
<1>1. CASE q = r
  BY <1>1 DEF Books
<1>2. CASE q # r
  <2>1. Progress(q) /\ Accounting(q) /\ Refunding(q)
    BY DEF CallInv, Books
  <2>2. Progress(q)'
    BY <1>2, <2>1 DEF Progress, Owed, Unordered, Armed, Only
  <2>3. Accounting(q)'
    BY <1>2, <2>1 DEF Accounting, Exact, Only
  <2>4. Refunding(q)'
    BY <1>2, <2>1 DEF Refunding, Armed, Only
  <2>5. QED
    BY <2>2, <2>3, <2>4 DEF Books
<1>3. QED
  BY <1>1, <1>2

LEMMA InvInit == Init => ChatInv
<1> SUFFICES ASSUME Init PROVE ChatInv
  OBVIOUS
<1>1. TypeOK
  BY AmountFacts, ChatAssumption DEF Init, TypeOK, NoUsage, ChatAssumption
<1>2. SlotsMatchCalls
  BY DEF Init, SlotsMatchCalls, HoldsSlot, Relaying
<1>3. CallInv
  BY DEF Init, CallInv, Books, Progress, Accounting, Refunding, Owed, Unordered, Armed,
         Waiting, Relaying
<1>4. QED
  BY <1>1, <1>2, <1>3 DEF ChatInv

-----------------------------------------------------------------------------
(***************************************************************************)
(* Every way an accounting job is ordered: it is the first of its request, *)
(* it is justified, and nothing is armed after it.                         *)
(***************************************************************************)
LEMMA OrderStep ==
  ASSUME ChatInv, NEW r \in Requests, Unordered(r),
         NEW order \in Orders, Launch(r, order),
         order = Rollback => prov[r] \in {"unsent", "refused"},
         order # Rollback => Exact(r, order.amount),
         NEW to \in {"returning", "done"}, Goto(r, to),
         to = "done" => sem' = sem \ {r},
         to = "returning" => sem' = sem /\ pc[r] \in HoldsSlot,
         armed' \in [Requests -> BOOLEAN], exposed' \in [Requests -> BOOLEAN],
         \A q \in Requests \ {r} : armed'[q] = armed[q] /\ exposed'[q] = exposed[q],
         to = "returning" => ~(armed'[r] /\ ~exposed'[r]),
         NEW what \in {"nothing", "unsent", "refused"},
         heard' = [heard EXCEPT ![r] = what],
         what # "nothing" => what = prov[r] /\ order = Rollback,
         usage' \in [Requests -> [present : BOOLEAN, seen : 0..MaxBill, bad : BOOLEAN]],
         UNCHANGED <<ledger, provider, aged, lost>>
  PROVE  ChatInv'
<1> USE DEF ChatInv, ledger, provider
<1>0. Progress(r) /\ Accounting(r) /\ Refunding(r)
  BY DEF CallInv, Books
<1>1. jobs[r] = 0 /\ job[r] = {} /\ Owed(r)
  BY <1>0 DEF Progress, Owed
<1>2. /\ job' = [job EXCEPT ![r] = {order}] /\ job' \in [Requests -> SUBSET Orders]
      /\ jobs' = [jobs EXCEPT ![r] = 1] /\ jobs' \in [Requests -> Nat]
  BY <1>1 DEF Launch, TypeOK
<1>3. TypeOK'
  BY <1>2 DEF Goto, TypeOK, HoldsSlot, Relaying
<1>4. SlotsMatchCalls'
  BY DEF Goto, TypeOK, SlotsMatchCalls, HoldsSlot, Relaying
<1>5. Only(r)
  BY <1>2 DEF Only, Goto, TypeOK
<1>6. /\ pc'[r] = to /\ heard'[r] = what /\ job'[r] = {order} /\ jobs'[r] = 1
      /\ prov'[r] = prov[r] /\ row'[r] = row[r] /\ bill'[r] = bill[r] /\ charge'[r] = charge[r]
      /\ (r \in aged' <=> r \in aged)
  BY <1>2 DEF Goto, TypeOK
<1>7. ~Armed(r)' \/ to = "done"
  BY DEF Armed
<1>8. Progress(r)'
  BY <1>0, <1>1, <1>6, <1>7 DEF Progress, Owed, Unordered, Waiting, Relaying
<1>9. Accounting(r)'
  BY <1>0, <1>6 DEF Accounting, Exact
<1>10. Refunding(r)'
  BY <1>0, <1>6 DEF Refunding
<1>11. QED
  BY <1>3, <1>4, <1>5, <1>8, <1>9, <1>10, Local

LEMMA InvHandle ==
  ASSUME ChatInv, NEW r \in Requests, Handle(r)
  PROVE  ChatInv'
<1> USE DEF ChatInv, gateway, ledger, provider
<1>0. Progress(r) /\ Accounting(r) /\ Refunding(r)
  BY DEF CallInv, Books
<1>a. Quote \in Nat /\ MaxBill \in Nat /\ 0 \in Amounts /\ Quote \in Amounts
  BY ChatAssumption, AmountFacts DEF ChatAssumption
<1>b. /\ heard = [heard EXCEPT ![r] = heard[r]]
      /\ heard[r] \in {"nothing", "unsent", "refused"}
  BY DEF TypeOK
<1>c. \A a \in Amounts : Settle(a) \in Orders /\ Settle(a) # Rollback /\ Settle(a).amount = a
  BY OrderFacts
<1>d. NoUsage \in [present : BOOLEAN, seen : 0..MaxBill, bad : BOOLEAN]
  BY <1>a DEF NoUsage
<1>1. CASE Reject(r)
  <2>1. TypeOK'
    BY <1>a, <1>1 DEF Reject, Goto, Hears, Flags, TypeOK, HoldsSlot, Relaying
  <2>2. SlotsMatchCalls'
    BY <1>1 DEF Reject, Goto, TypeOK, SlotsMatchCalls, HoldsSlot, Relaying
  <2>3. Only(r)
    BY <1>1 DEF Reject, Goto, Hears, Flags, TypeOK, Only
  <2>4. Progress(r)'
    BY <1>0, <1>1
    DEF Reject, Goto, Flags, TypeOK, Progress, Owed, Unordered, Armed, Waiting, Relaying
  <2>5. Accounting(r)'
    BY <1>0, <1>1
    DEF Reject, TypeOK, Progress, Owed, Unordered, Accounting, Exact, Waiting
  <2>6. Refunding(r)'
    BY <1>0, <1>1
    DEF Reject, Goto, Hears, Flags, TypeOK, Refunding, Progress, Armed, Waiting, Relaying
  <2>7. QED
    BY <2>1, <2>2, <2>3, <2>4, <2>5, <2>6, Local
<1>2. CASE Reserve(r)
  <2>1. TypeOK'
    BY <1>a, <1>2 DEF Reserve, Goto, Hears, Flags, TypeOK, HoldsSlot, Relaying
  <2>2. SlotsMatchCalls'
    BY <1>2 DEF Reserve, Goto, TypeOK, SlotsMatchCalls, HoldsSlot, Relaying
  <2>3. Only(r)
    BY <1>2 DEF Reserve, Goto, Hears, Flags, TypeOK, Only
  <2>4. Progress(r)'
    BY <1>0, <1>2
    DEF Reserve, Goto, Flags, TypeOK, Progress, Owed, Unordered, Armed, Waiting, Relaying
  <2>5. Accounting(r)'
    BY <1>0, <1>2
    DEF Reserve, TypeOK, Progress, Owed, Unordered, Accounting, Exact, Waiting
  <2>6. Refunding(r)'
    BY <1>0, <1>2
    DEF Reserve, Goto, Hears, Flags, TypeOK, Refunding, Progress, Armed, Waiting, Relaying
  <2>7. QED
    BY <2>1, <2>2, <2>3, <2>4, <2>5, <2>6, Local
<1>3. CASE BreakerOpen(r)
  <2>1. /\ pc[r] \in {"reserved"} /\ Goto(r, "done") /\ Launch(r, Rollback)
        /\ heard' = [heard EXCEPT ![r] = "unsent"]
        /\ UNCHANGED <<sem, usage, armed, exposed, ledger, provider, aged, lost>>
    BY <1>3 DEF BreakerOpen, Hears
  <2>2. sem = sem \ {r} /\ prov[r] = "unsent" /\ Unordered(r)
    BY <1>0, <2>1 DEF Progress, Unordered, Waiting, SlotsMatchCalls, HoldsSlot, Relaying
  <2>3. /\ armed' \in [Requests -> BOOLEAN] /\ exposed' \in [Requests -> BOOLEAN]
        /\ usage' \in [Requests -> [present : BOOLEAN, seen : 0..MaxBill, bad : BOOLEAN]]
        /\ \A q \in Requests \ {r} : armed'[q] = armed[q] /\ exposed'[q] = exposed[q]
    BY <2>1 DEF TypeOK
  <2>4. QED
    BY <2>1, <2>2, <2>3, OrderFacts, OrderStep
<1>4. CASE AcquireSlot(r)
  <2>1. TypeOK'
    BY <1>a, <1>4 DEF AcquireSlot, Goto, Hears, Flags, TypeOK, HoldsSlot, Relaying
  <2>2. SlotsMatchCalls'
    BY <1>4 DEF AcquireSlot, Goto, TypeOK, SlotsMatchCalls, HoldsSlot, Relaying
  <2>3. Only(r)
    BY <1>4 DEF AcquireSlot, Goto, Hears, Flags, TypeOK, Only
  <2>4. Progress(r)'
    BY <1>0, <1>4
    DEF AcquireSlot, Goto, Flags, TypeOK, Progress, Owed, Unordered, Armed, Waiting, Relaying
  <2>5. Accounting(r)'
    BY <1>0, <1>4
    DEF AcquireSlot, TypeOK, Progress, Owed, Unordered, Accounting, Exact, Waiting
  <2>6. Refunding(r)'
    BY <1>0, <1>4
    DEF AcquireSlot, Goto, Hears, Flags, TypeOK, Refunding, Progress, Armed, Waiting, Relaying
  <2>7. QED
    BY <2>1, <2>2, <2>3, <2>4, <2>5, <2>6, Local
<1>5. CASE Enqueue(r)
  <2>1. TypeOK'
    BY <1>a, <1>5 DEF Enqueue, Goto, Hears, Flags, TypeOK, HoldsSlot, Relaying
  <2>2. SlotsMatchCalls'
    BY <1>5 DEF Enqueue, Goto, TypeOK, SlotsMatchCalls, HoldsSlot, Relaying
  <2>3. Only(r)
    BY <1>5 DEF Enqueue, Goto, Hears, Flags, TypeOK, Only
  <2>4. Progress(r)'
    BY <1>0, <1>5
    DEF Enqueue, Goto, Flags, TypeOK, Progress, Owed, Unordered, Armed, Waiting, Relaying
  <2>5. Accounting(r)'
    BY <1>0, <1>5
    DEF Enqueue, TypeOK, Progress, Owed, Unordered, Accounting, Exact, Waiting
  <2>6. Refunding(r)'
    BY <1>0, <1>5
    DEF Enqueue, Goto, Hears, Flags, TypeOK, Refunding, Progress, Armed, Waiting, Relaying
  <2>7. QED
    BY <2>1, <2>2, <2>3, <2>4, <2>5, <2>6, Local
<1>6. CASE QueueFails(r)
  <2>1. /\ pc[r] \in {"reserved", "queued"} /\ Goto(r, "done") /\ Launch(r, Rollback)
        /\ heard' = [heard EXCEPT ![r] = "unsent"]
        /\ UNCHANGED <<sem, usage, armed, exposed, ledger, provider, aged, lost>>
    BY <1>6 DEF QueueFails, Hears
  <2>2. sem = sem \ {r} /\ prov[r] = "unsent" /\ Unordered(r)
    BY <1>0, <2>1 DEF Progress, Unordered, Waiting, SlotsMatchCalls, HoldsSlot, Relaying
  <2>3. /\ armed' \in [Requests -> BOOLEAN] /\ exposed' \in [Requests -> BOOLEAN]
        /\ usage' \in [Requests -> [present : BOOLEAN, seen : 0..MaxBill, bad : BOOLEAN]]
        /\ \A q \in Requests \ {r} : armed'[q] = armed[q] /\ exposed'[q] = exposed[q]
    BY <2>1 DEF TypeOK
  <2>4. QED
    BY <2>1, <2>2, <2>3, OrderFacts, OrderStep
<1>7. CASE Send(r)
  <2>1. TypeOK'
    BY <1>a, <1>7 DEF Send, Goto, Hears, Flags, TypeOK, HoldsSlot, Relaying
  <2>2. SlotsMatchCalls'
    BY <1>7 DEF Send, Goto, TypeOK, SlotsMatchCalls, HoldsSlot, Relaying
  <2>3. Only(r)
    BY <1>7 DEF Send, Goto, Hears, Flags, TypeOK, Only
  <2>4. Progress(r)'
    BY <1>0, <1>7
    DEF Send, Goto, Flags, TypeOK, Progress, Owed, Unordered, Armed, Waiting, Relaying
  <2>5. Accounting(r)'
    BY <1>0, <1>7
    DEF Send, TypeOK, Progress, Owed, Unordered, Accounting, Exact, Waiting
  <2>6. Refunding(r)'
    BY <1>0, <1>7
    DEF Send, Goto, Hears, Flags, TypeOK, Refunding, Progress, Armed, Waiting, Relaying
  <2>7. QED
    BY <2>1, <2>2, <2>3, <2>4, <2>5, <2>6, Local
<1>8. CASE CallUnbilled(r)
  <2>1. TypeOK'
    BY <1>a, <1>8 DEF CallUnbilled, Goto, Hears, Flags, TypeOK, HoldsSlot, Relaying
  <2>2. SlotsMatchCalls'
    BY <1>8 DEF CallUnbilled, Goto, TypeOK, SlotsMatchCalls, HoldsSlot, Relaying
  <2>3. Only(r)
    BY <1>8 DEF CallUnbilled, Goto, Hears, Flags, TypeOK, Only
  <2>4. Progress(r)'
    BY <1>0, <1>8
    DEF CallUnbilled, Goto, Flags, TypeOK, Progress, Owed, Unordered, Armed, Waiting, Relaying
  <2>5. Accounting(r)'
    BY <1>0, <1>8
    DEF CallUnbilled, TypeOK, Progress, Owed, Unordered, Accounting, Exact, Waiting
  <2>6. Refunding(r)'
    BY <1>0, <1>8
    DEF CallUnbilled, Goto, Hears, Flags, TypeOK, Refunding, Progress, Armed, Waiting, Relaying
  <2>7. QED
    BY <2>1, <2>2, <2>3, <2>4, <2>5, <2>6, Local
<1>9. CASE CallAmbiguous(r)
  <2>1. /\ pc[r] = "calling" /\ Goto(r, "returning") /\ Launch(r, Settle(Quote))
        /\ armed' = [armed EXCEPT ![r] = FALSE] /\ exposed' = [exposed EXCEPT ![r] = TRUE]
        /\ UNCHANGED <<sem, usage, heard, ledger, provider, aged, lost>>
    BY <1>9 DEF CallAmbiguous, Flags
  <2>2. /\ armed' \in [Requests -> BOOLEAN] /\ exposed' \in [Requests -> BOOLEAN]
        /\ usage' \in [Requests -> [present : BOOLEAN, seen : 0..MaxBill, bad : BOOLEAN]]
        /\ \A q \in Requests \ {r} : armed'[q] = armed[q] /\ exposed'[q] = exposed[q]
        /\ ~(armed'[r] /\ ~exposed'[r])
    BY <2>1 DEF TypeOK
  <2>3. heard[r] = "nothing" /\ heard' = [heard EXCEPT ![r] = "nothing"]
    BY <1>0, <1>b, <2>1 DEF Refunding
  <2>4. Unordered(r) /\ pc[r] \in HoldsSlot /\ Exact(r, Quote)
    BY <1>a, <2>1 DEF Unordered, Waiting, HoldsSlot, Exact
  <2>5. PICK order \in Orders : order = Settle(Quote) /\ order # Rollback /\ order.amount = Quote
    BY <1>a, <1>c
  <2>6. Launch(r, order) /\ Exact(r, order.amount)
    BY <2>1, <2>4, <2>5
  <2>7. QED
    BY <2>1, <2>2, <2>3, <2>4, <2>5, <2>6, OrderStep
<1>10. CASE CallOpens(r)
  <2>1. TypeOK'
    BY <1>a, <1>10 DEF CallOpens, Goto, Hears, Flags, TypeOK, HoldsSlot, Relaying
  <2>2. SlotsMatchCalls'
    BY <1>10 DEF CallOpens, Goto, TypeOK, SlotsMatchCalls, HoldsSlot, Relaying
  <2>3. Only(r)
    BY <1>10 DEF CallOpens, Goto, Hears, Flags, TypeOK, Only
  <2>4. Progress(r)'
    BY <1>0, <1>10
    DEF CallOpens, Goto, Flags, TypeOK, Progress, Owed, Unordered, Armed, Waiting, Relaying
  <2>5. Accounting(r)'
    BY <1>0, <1>10
    DEF CallOpens, TypeOK, Progress, Owed, Unordered, Accounting, Exact, Waiting
  <2>6. Refunding(r)'
    BY <1>0, <1>10
    DEF CallOpens, Goto, Hears, Flags, TypeOK, Refunding, Progress, Armed, Waiting, Relaying
  <2>7. QED
    BY <2>1, <2>2, <2>3, <2>4, <2>5, <2>6, Local
<1>11. CASE ReadUsage(r) \/ ReadMalformedUsage(r)
  <2>1. PICK u \in [present : BOOLEAN, seen : 0..MaxBill, bad : BOOLEAN] :
          usage' = [usage EXCEPT ![r] = u]
    <3>0. usage[r] \in [present : BOOLEAN, seen : 0..MaxBill, bad : BOOLEAN]
      BY DEF TypeOK
    <3>1. CASE ReadUsage(r)
      <4>1. PICK n \in 1..bill[r] : usage' = [usage EXCEPT ![r] = MergeSnapshot(usage[r], n)]
        BY <3>1 DEF ReadUsage
      <4>2. bill[r] \in 0..MaxBill /\ n \in 0..MaxBill
        BY <1>a DEF TypeOK
      <4>3. (IF n > usage[r].seen THEN n ELSE usage[r].seen) \in 0..MaxBill
        BY <3>0, <4>2
      <4>4. MergeSnapshot(usage[r], n) \in [present : BOOLEAN, seen : 0..MaxBill, bad : BOOLEAN]
        BY <3>0, <4>3 DEF MergeSnapshot
      <4>5. QED
        BY <4>1, <4>4
    <3>2. CASE ReadMalformedUsage(r)
      <4>1. [usage[r] EXCEPT !.bad = TRUE] \in [present : BOOLEAN, seen : 0..MaxBill, bad : BOOLEAN]
        BY <3>0
      <4>2. QED
        BY <3>2, <4>1 DEF ReadMalformedUsage
    <3>3. QED
      BY <1>11, <3>1, <3>2
  <2>2. UNCHANGED <<pc, sem, heard, job, jobs, armed, exposed, ledger, provider, aged, lost>>
    BY <1>11 DEF ReadUsage, ReadMalformedUsage
  <2>3. TypeOK' /\ SlotsMatchCalls'
    BY <2>1, <2>2 DEF TypeOK, SlotsMatchCalls
  <2>4. CallInv'
    BY <2>2 DEF CallInv, Books, Progress, Accounting, Exact, Refunding, Owed, Unordered, Armed
  <2>5. QED
    BY <2>3, <2>4
<1>e. ASSUME NEW a \in Amounts, Exact(r, a), pc[r] \in Relaying, Ends(r, a),
             UNCHANGED <<sem, heard, armed, exposed, ledger, provider, aged, lost>>
      PROVE  ChatInv'
  <2>1. /\ Goto(r, "returning") /\ Launch(r, Settle(a))
        /\ usage' \in [Requests -> [present : BOOLEAN, seen : 0..MaxBill, bad : BOOLEAN]]
    BY <1>d, <1>e DEF Ends, TypeOK
  <2>2. /\ armed' \in [Requests -> BOOLEAN] /\ exposed' \in [Requests -> BOOLEAN]
        /\ \A q \in Requests \ {r} : armed'[q] = armed[q] /\ exposed'[q] = exposed[q]
    BY <1>e DEF TypeOK
  <2>3. ~(armed'[r] /\ ~exposed'[r])
    BY <1>0, <1>e DEF Progress, Armed
  <2>4. heard[r] = "nothing" /\ heard' = [heard EXCEPT ![r] = "nothing"]
    BY <1>0, <1>b, <1>e DEF Refunding, Relaying
  <2>5. Unordered(r) /\ pc[r] \in HoldsSlot
    BY <1>e DEF Unordered, HoldsSlot
  <2>6. QED
    BY <1>c, <1>e, <2>1, <2>2, <2>3, <2>4, <2>5, OrderStep
<1>12. CASE StreamBreaks(r) \/ BodyFails(r)
  <2>1. /\ pc[r] \in Relaying /\ Ends(r, Quote)
        /\ UNCHANGED <<sem, heard, armed, exposed, ledger, provider, aged, lost>>
    BY <1>12 DEF StreamBreaks, BodyFails, Relaying
  <2>2. Exact(r, Quote)
    BY <1>a DEF Exact
  <2>3. QED
    BY <1>a, <1>e, <2>1, <2>2
<1>13. CASE ReadDone(r)
  <2> DEFINE a == Priced(usage[r])
  <2>1. /\ pc[r] \in Relaying /\ Ends(r, a) /\ prov[r] = "finished"
        /\ usage[r].present => usage[r].seen = bill[r]
        /\ UNCHANGED <<sem, heard, armed, exposed, ledger, provider, aged, lost>>
    BY <1>13 DEF ReadDone, Relaying
  <2>2. usage[r] \in [present : BOOLEAN, seen : 0..MaxBill, bad : BOOLEAN]
    BY DEF TypeOK
  <2>3. a \in Amounts /\ Exact(r, a)
    BY <1>a, <2>1, <2>2, AmountFacts DEF Priced, Exact
  <2> HIDE DEF a
  <2>4. QED
    BY <1>e, <2>1, <2>3
<1>14. CASE ReadBody(r)
  <2>1. PICK u \in {NoUsage, MergeSnapshot(NoUsage, bill[r])} : Ends(r, Priced(u))
    BY <1>14 DEF ReadBody
  <2>2. /\ pc[r] \in Relaying /\ prov[r] = "finished" /\ bill[r] \in 0..MaxBill
        /\ UNCHANGED <<sem, heard, armed, exposed, ledger, provider, aged, lost>>
    BY <1>14 DEF ReadBody, Relaying, TypeOK
  <2>3. u = NoUsage \/ u = [present |-> TRUE, seen |-> bill[r], bad |-> FALSE]
    BY <2>2, FirstSnapshot
  <2>4. Priced(u) = Quote \/ Priced(u) = bill[r]
    BY <2>3 DEF Priced, NoUsage
  <2>5. Priced(u) \in Amounts /\ Exact(r, Priced(u))
    BY <1>a, <2>2, <2>4, AmountFacts DEF Exact
  <2>6. QED
    BY <1>e, <2>1, <2>2, <2>5
<1>15. CASE Return(r)
  <2>1. /\ pc[r] = "returning" /\ Goto(r, "done") /\ sem' = sem \ {r}
        /\ UNCHANGED <<usage, heard, armed, exposed, ledger, provider, aged, lost>>
    BY <1>15 DEF Return
  <2>2. CASE Armed(r)
    <3>1. Launch(r, Rollback)
      BY <1>15, <2>2 DEF Return, Armed
    <3>2. /\ armed' \in [Requests -> BOOLEAN] /\ exposed' \in [Requests -> BOOLEAN]
          /\ usage' \in [Requests -> [present : BOOLEAN, seen : 0..MaxBill, bad : BOOLEAN]]
          /\ \A q \in Requests \ {r} : armed'[q] = armed[q] /\ exposed'[q] = exposed[q]
      BY <2>1 DEF TypeOK
    <3>3. Unordered(r) /\ prov[r] \in {"unsent", "refused"}
      BY <1>0, <2>1, <2>2 DEF Unordered, Progress
    <3>4. PICK what \in {"nothing", "unsent", "refused"} : what = heard[r]
      BY <1>b
    <3>5. heard' = [heard EXCEPT ![r] = what] /\ (what # "nothing" => what = prov[r])
      BY <1>0, <1>b, <2>1, <3>4 DEF Refunding
    <3>6. QED
      BY <2>1, <3>1, <3>2, <3>3, <3>5, OrderFacts, OrderStep
  <2>3. CASE ~Armed(r)
    <3>1. UNCHANGED <<job, jobs>>
      BY <1>15, <2>3 DEF Return, Armed
    <3>2. TypeOK'
      BY <2>1, <3>1 DEF Goto, TypeOK
    <3>3. SlotsMatchCalls'
      BY <2>1 DEF Goto, TypeOK, SlotsMatchCalls, HoldsSlot, Relaying
    <3>4. Only(r) /\ pc'[r] = "done"
      BY <2>1, <3>1 DEF Goto, TypeOK, Only
    <3>5. Progress(r)'
      BY <1>0, <2>1, <2>3, <3>1, <3>4 DEF Progress, Owed, Unordered, Waiting, Relaying
    <3>6. Accounting(r)'
      BY <1>0, <2>1, <3>1 DEF Accounting, Exact
    <3>7. Refunding(r)'
      BY <1>0, <2>1, <2>3, <3>1, <3>4 DEF Refunding
    <3>8. QED
      BY <3>2, <3>3, <3>4, <3>5, <3>6, <3>7, Local
  <2>4. QED
    BY <2>2, <2>3
<1>16. QED
  BY <1>1, <1>2, <1>3, <1>4, <1>5, <1>6, <1>7, <1>8, <1>9, <1>10, <1>11, <1>12,
     <1>13, <1>14, <1>15 DEF Handle

-----------------------------------------------------------------------------
(* The accounting goroutine. *)

LEMMA InvRunJob ==
  ASSUME ChatInv, NEW r \in Requests, RunJob(r)
  PROVE  ChatInv'
<1> USE DEF ChatInv, gateway, ledger, provider
<1>0. Progress(r) /\ Accounting(r) /\ Refunding(r)
  BY DEF CallInv, Books
<1>1. PICK o \in job[r] :
        /\ job' = [job EXCEPT ![r] = job[r] \ {o}]
        /\ row[r] = "open" =>
             /\ row' = [row EXCEPT ![r] = IF o = Rollback THEN "rolled_back" ELSE "settled"]
             /\ charge' = [charge EXCEPT ![r] = o.amount]
             /\ aged' = aged \ {r}
        /\ row[r] # "open" => UNCHANGED <<row, charge, aged>>
        /\ UNCHANGED <<pc, sem, usage, heard, jobs, armed, exposed, prov, bill, lost>>
  BY DEF RunJob
<1>2. /\ o \in Orders /\ o.amount \in Amounts /\ job[r] = {o}
      /\ job' \in [Requests -> SUBSET Orders] /\ job'[r] = {}
  BY <1>0, <1>1, OrderFacts DEF Accounting, TypeOK
<1>3. Owed(r) /\ ~Unordered(r) /\ ~Unordered(r)' /\ ~Owed(r)' /\ pc[r] # "start"
  BY <1>0, <1>1, <1>2 DEF Owed, Unordered, Armed, Progress
<1>4. ~(pc[r] = "returning" /\ Armed(r)) /\ ~(pc[r] = "returning" /\ Armed(r))'
  BY <1>3 DEF Unordered
<1>5. row[r] \in {"open", "orphaned"} /\ (prov[r] = "unsent" => row[r] = "open")
  BY <1>0, <1>3 DEF Progress
<1>6. CASE row[r] = "open"
  <2>1. /\ row' = [row EXCEPT ![r] = IF o = Rollback THEN "rolled_back" ELSE "settled"]
        /\ charge' = [charge EXCEPT ![r] = o.amount]
        /\ aged' = aged \ {r}
    BY <1>1, <1>6
  <2>2. TypeOK' /\ SlotsMatchCalls'
    BY <1>1, <1>2, <2>1 DEF TypeOK, Terminal, SlotsMatchCalls
  <2>3. Only(r)
    BY <1>1, <2>1 DEF TypeOK, Only
  <2>4. /\ row'[r] = IF o = Rollback THEN "rolled_back" ELSE "settled"
        /\ charge'[r] = o.amount /\ r \notin aged'
    BY <2>1 DEF TypeOK
  <2>5. Progress(r)'
    BY <1>0, <1>1, <1>3, <1>4, <2>4 DEF Progress, Armed
  <2>6. Accounting(r)'
    BY <1>0, <1>1, <1>2, <2>4 DEF Accounting, Exact
  <2>7. Refunding(r)'
    BY <1>0, <1>1, <1>2, <1>4, <1>6, <2>4 DEF Refunding
  <2>8. QED
    BY <2>2, <2>3, <2>5, <2>6, <2>7, Local
<1>7. CASE row[r] # "open"
  <2>1. UNCHANGED <<row, charge, aged>>
    BY <1>1, <1>7
  <2>2. TypeOK' /\ SlotsMatchCalls'
    BY <1>1, <1>2, <2>1 DEF TypeOK, SlotsMatchCalls
  <2>3. Only(r)
    BY <1>1, <2>1 DEF TypeOK, Only
  <2>4. Progress(r)'
    BY <1>0, <1>1, <1>3, <1>4, <2>1 DEF Progress, Armed
  <2>5. Accounting(r)'
    BY <1>0, <1>1, <1>2, <2>1 DEF Accounting, Exact
  <2>6. Refunding(r)'
    BY <1>0, <1>1, <1>2, <1>4, <1>5, <1>7, <2>1 DEF Refunding, TypeOK
  <2>7. QED
    BY <2>2, <2>3, <2>4, <2>5, <2>6, Local
<1>8. QED
  BY <1>6, <1>7

LEMMA InvJobFails ==
  ASSUME ChatInv, NEW r \in Requests, JobFails(r)
  PROVE  ChatInv'
<1> USE DEF ChatInv, gateway, ledger, provider
<1>0. Progress(r) /\ Accounting(r) /\ Refunding(r)
  BY DEF CallInv, Books
<1>1. PICK o \in job[r] :
        /\ job' = [job EXCEPT ![r] = job[r] \ {o}]
        /\ lost' = lost \cup {r}
        /\ UNCHANGED <<gateway, ledger, provider, aged>>
  BY DEF JobFails
<1>2. job' \in [Requests -> SUBSET Orders] /\ job'[r] \subseteq job[r]
  BY <1>1 DEF TypeOK
<1>3. TypeOK' /\ SlotsMatchCalls'
  BY <1>1, <1>2 DEF TypeOK, SlotsMatchCalls
<1>4. Only(r)
  BY <1>1 DEF TypeOK, Only
<1>5. Progress(r)'
  BY <1>0, <1>1, <1>2 DEF Progress, Owed, Unordered, Armed
<1>6. Accounting(r)'
  BY <1>0, <1>1, <1>2 DEF Accounting, Exact
<1>7. Refunding(r)'
  BY <1>0, <1>1 DEF Refunding
<1>8. QED
  BY <1>3, <1>4, <1>5, <1>6, <1>7, Local

-----------------------------------------------------------------------------
(* The provider, the reconciler and the end of the process. *)

LEMMA InvEnvironment ==
  ASSUME ChatInv, NEW r \in Requests, Environment(r)
  PROVE  ChatInv'
<1> USE DEF ChatInv, gateway, ledger, provider
<1>0. Progress(r) /\ Accounting(r) /\ Refunding(r)
  BY DEF CallInv, Books
<1>1. CASE ProviderAnswers(r)
  <2>1. TypeOK' /\ SlotsMatchCalls' /\ Only(r)
    BY <1>1, AmountFacts DEF ProviderAnswers, TypeOK, Terminal, SlotsMatchCalls, Only
  <2>2. Progress(r)'
    BY <1>0, <1>1 DEF ProviderAnswers, TypeOK, Progress, Owed, Unordered, Armed, Relaying, Waiting
  <2>3. Accounting(r)'
    BY <1>0, <1>1 DEF ProviderAnswers, TypeOK, Accounting, Exact
  <2>4. Refunding(r)'
    BY <1>0, <1>1 DEF ProviderAnswers, TypeOK, Refunding, Progress, Owed, Unordered, Armed
  <2>5. QED
    BY <2>1, <2>2, <2>3, <2>4, Local
<1>2. CASE ProviderBills(r)
  <2>0. bill[r] + 1 \in 0..MaxBill
    <3>1. bill[r] \in 0..MaxBill /\ bill[r] < BillOf[r]
      BY <1>2 DEF ProviderBills, TypeOK
    <3>2. BillOf[r] \in 0..MaxBill /\ MaxBill \in Nat
      BY ChatAssumption DEF ChatAssumption
    <3>3. QED
      BY <3>1, <3>2
  <2>1. TypeOK' /\ SlotsMatchCalls' /\ Only(r)
    BY <2>0, <1>2, AmountFacts DEF ProviderBills, TypeOK, Terminal, SlotsMatchCalls, Only
  <2>2. Progress(r)'
    BY <1>0, <1>2 DEF ProviderBills, TypeOK, Progress, Owed, Unordered, Armed, Relaying, Waiting
  <2>3. Accounting(r)'
    BY <1>0, <1>2 DEF ProviderBills, TypeOK, Accounting, Exact
  <2>4. Refunding(r)'
    BY <1>0, <1>2 DEF ProviderBills, TypeOK, Refunding, Progress, Owed, Unordered, Armed
  <2>5. QED
    BY <2>1, <2>2, <2>3, <2>4, Local
<1>3. CASE ProviderFinishes(r)
  <2>1. TypeOK' /\ SlotsMatchCalls' /\ Only(r)
    BY <1>3, AmountFacts DEF ProviderFinishes, TypeOK, Terminal, SlotsMatchCalls, Only
  <2>2. Progress(r)'
    BY <1>0, <1>3 DEF ProviderFinishes, TypeOK, Progress, Owed, Unordered, Armed, Relaying, Waiting
  <2>3. Accounting(r)'
    BY <1>0, <1>3 DEF ProviderFinishes, TypeOK, Accounting, Exact
  <2>4. Refunding(r)'
    BY <1>0, <1>3 DEF ProviderFinishes, TypeOK, Refunding, Progress, Owed, Unordered, Armed
  <2>5. QED
    BY <2>1, <2>2, <2>3, <2>4, Local
<1>4. CASE Age(r)
  <2>1. TypeOK' /\ SlotsMatchCalls' /\ Only(r)
    BY <1>4, AmountFacts DEF Age, TypeOK, Terminal, SlotsMatchCalls, Only
  <2>2. Progress(r)'
    BY <1>0, <1>4 DEF Age, TypeOK, Progress, Owed, Unordered, Armed, Relaying, Waiting
  <2>3. Accounting(r)'
    BY <1>0, <1>4 DEF Age, TypeOK, Accounting, Exact
  <2>4. Refunding(r)'
    BY <1>0, <1>4 DEF Age, TypeOK, Refunding, Progress, Owed, Unordered, Armed
  <2>5. QED
    BY <2>1, <2>2, <2>3, <2>4, Local
<1>5. CASE ReconcileOrphan(r)
  <2>1. TypeOK' /\ SlotsMatchCalls' /\ Only(r)
    BY <1>5, AmountFacts DEF ReconcileOrphan, TypeOK, Terminal, SlotsMatchCalls, Only
  <2>2. Progress(r)'
    BY <1>0, <1>5 DEF ReconcileOrphan, TypeOK, Progress, Owed, Unordered, Armed, Relaying, Waiting
  <2>3. Accounting(r)'
    BY <1>0, <1>5 DEF ReconcileOrphan, TypeOK, Accounting, Exact
  <2>4. Refunding(r)'
    BY <1>0, <1>5 DEF ReconcileOrphan, TypeOK, Refunding, Progress, Owed, Unordered, Armed
  <2>5. QED
    BY <2>1, <2>2, <2>3, <2>4, Local
<1>6. QED
  BY <1>1, <1>2, <1>3, <1>4, <1>5 DEF Environment

LEMMA InvCrash ==
  ASSUME ChatInv, Crash
  PROVE  ChatInv'
<1> USE DEF ChatInv, gateway, ledger, provider
<1>1. TypeOK'
  BY DEF Crash, TypeOK
<1>2. SlotsMatchCalls'
  BY DEF Crash, TypeOK, SlotsMatchCalls, HoldsSlot, Relaying
<1>3. ASSUME NEW r \in Requests
      PROVE  Books(r)'
  <2>1. Progress(r) /\ Accounting(r) /\ Refunding(r)
    BY DEF CallInv, Books
  <2>2. /\ pc'[r] = IF pc[r] = "start" THEN "start" ELSE "gone"
        /\ job'[r] = {}
        /\ row[r] = "open" => r \in lost'
        /\ r \in lost => r \in lost'
        /\ UNCHANGED <<usage, heard, jobs, armed, exposed, row, charge, prov, bill, aged>>
    BY DEF Crash
  <2>3. Progress(r)'
    BY <2>1, <2>2 DEF Progress, Owed, Unordered, Waiting, Relaying
  <2>4. Accounting(r)'
    BY <2>1, <2>2 DEF Accounting, Exact
  <2>5. Refunding(r)'
    BY <2>1, <2>2 DEF Refunding, Progress, Owed, Unordered, TypeOK
  <2>6. QED
    BY <2>3, <2>4, <2>5 DEF Books
<1>4. QED
  BY <1>1, <1>2, <1>3 DEF CallInv

LEMMA InvNext == ChatInv /\ [Next]_vars => ChatInv'
<1> SUFFICES ASSUME ChatInv, [Next]_vars PROVE ChatInv'
  OBVIOUS
<1>1. CASE UNCHANGED vars
  BY <1>1 DEF vars, gateway, ledger, provider, ChatInv, TypeOK, SlotsMatchCalls, CallInv,
              Books, Progress, Accounting, Exact, Refunding, Owed, Unordered, Armed
<1>2. CASE Next
  BY <1>2, InvHandle, InvRunJob, InvJobFails, InvEnvironment, InvCrash DEF Next
<1>3. QED
  BY <1>1, <1>2

LEMMA Invariant == Spec => []ChatInv
  BY InvInit, InvNext, PTL DEF Spec

-----------------------------------------------------------------------------
(***************************************************************************)
(* Handle and forward keep a call's books on every path: the state is well *)
(* typed, a global slot is held exactly while a call or its relay runs,    *)
(* and a handler that reserved leaves exactly one accounting job, by a     *)
(* settle or by the deferred rollback and never by both.                   *)
(***************************************************************************)
THEOREM CallsKeepBooks == Spec => []CallsAccounted
<1>1. ChatInv => CallsAccounted
  BY DEF ChatInv, CallInv, Books, Progress, CallsAccounted, OneJobPerReservation
<1>2. QED
  BY <1>1, Invariant, PTL

(***************************************************************************)
(* The ledger gives back only what is proven unspent, for every quote and  *)
(* every bill: settleFromUsage, the deferred rollback and the reconciler   *)
(* together never undercharge a call the provider accepted.                *)
(***************************************************************************)
THEOREM RefundsAreProven == Spec => []OnlyProvenRefunds
<1>1. ASSUME ChatInv, NEW r \in Requests, row[r] \in Terminal, charge[r] < Quote
      PROVE  \/ row[r] = "rolled_back" /\ prov[r] \in {"unsent", "refused"} /\ bill[r] = 0
             \/ row[r] = "settled" /\ prov[r] = "finished" /\ charge[r] = bill[r]
  <2>1. Accounting(r) /\ charge[r] \in Nat /\ Quote \in Nat
    BY <1>1, AmountFacts DEF ChatInv, CallInv, Books, TypeOK
  <2>2. CASE row[r] = "settled"
    BY <1>1, <2>1, <2>2 DEF Accounting, Exact
  <2>3. CASE row[r] = "rolled_back"
    BY <2>1, <2>3 DEF Accounting
  <2>4. CASE row[r] = "orphaned"
    BY <1>1, <2>1, <2>4 DEF Accounting
  <2>5. QED
    BY <1>1, <2>2, <2>3, <2>4 DEF Terminal
<1>2. ChatInv => OnlyProvenRefunds
  BY <1>1 DEF OnlyProvenRefunds
<1>3. QED
  BY <1>2, Invariant, PTL

(***************************************************************************)
(* What cost nothing gets its money back, unless a crash or a failed write *)
(* lost the rollback: always when it never left, since the reconciler      *)
(* cannot overtake that rollback; and when the provider refused it, unless *)
(* the reconciler's cutoff passed while the call still ran.                *)
(***************************************************************************)
THEOREM RefusalsAreRefunded == Spec => []RefusalRefunded
<1>1. ASSUME ChatInv, NEW r \in Requests, heard[r] \in {"unsent", "refused"},
             row[r] \in Terminal, r \notin lost
      PROVE  row[r] = "rolled_back" \/ (heard[r] = "refused" /\ row[r] = "orphaned")
  <2>1. Progress(r) /\ Refunding(r)
    BY <1>1 DEF ChatInv, CallInv, Books
  <2>2. CASE Owed(r)
    BY <1>1, <2>1, <2>2 DEF Progress, Refunding, Terminal
  <2>3. CASE ~Owed(r)
    BY <1>1, <2>1, <2>3 DEF Refunding, Owed, Unordered
  <2>4. QED
    BY <2>2, <2>3
<1>2. ChatInv => RefusalRefunded
  BY <1>1 DEF RefusalRefunded
<1>3. QED
  BY <1>2, Invariant, PTL

-----------------------------------------------------------------------------
(***************************************************************************)
(* The refinement of the paid call's promise.  Only the steps below touch  *)
(* what the promise sees; all the others stutter.                          *)
(***************************************************************************)
PhaseOf(s) ==
  CASE s = "absent" -> "new"
    [] s = "open" -> "held"
    [] OTHER -> "closed"

ExposureOf(p) ==
  CASE p = "unsent" -> "none"
    [] p \in {"inflight", "accepted"} -> "open"
    [] p = "finished" -> "final"
    [] OTHER -> "refused"

Phase == [r \in Requests |-> PhaseOf(row[r])]

Exposure == [r \in Requests |-> ExposureOf(prov[r])]

\* One row, or one call at the provider, changes at a time.
LEMMA MappedStep ==
  ASSUME TypeOK, NEW r \in Requests
  PROVE  /\ \A s : row' = [row EXCEPT ![r] = s] => Phase' = [Phase EXCEPT ![r] = PhaseOf(s)]
         /\ \A p : prov' = [prov EXCEPT ![r] = p] =>
                     Exposure' = [Exposure EXCEPT ![r] = ExposureOf(p)]
         /\ row' = row => Phase' = Phase
         /\ prov' = prov => Exposure' = Exposure
  BY DEF TypeOK, Phase, Exposure

\* The initial state promises nothing yet.
LEMMA RefinesInit == Init => Promise!PaidInit
<1> SUFFICES ASSUME Init PROVE Promise!PaidInit
  OBVIOUS
<1>1. Phase = [r \in Requests |-> "new"]
  BY DEF Init, Phase, PhaseOf
<1>2. Exposure = [r \in Requests |-> "none"]
  BY DEF Init, Exposure, ExposureOf
<1>3. QED
  BY <1>1, <1>2 DEF Init, Promise!PaidInit, Phase, PhaseOf, Exposure, ExposureOf

\* Whatever closes an open row does it at an amount the provider justifies.
LEMMA Closes ==
  ASSUME TypeOK, NEW r \in Requests, row[r] = "open",
         NEW s \in Terminal, row' = [row EXCEPT ![r] = s],
         NEW a \in Amounts, charge' = [charge EXCEPT ![r] = a], UNCHANGED provider,
         Exact(r, a) \/ (prov[r] \in {"unsent", "refused"} /\ a = 0)
  PROVE  Promise!PaidNext
<1>1. Phase[r] = "held" /\ Phase' = [Phase EXCEPT ![r] = "closed"]
  BY MappedStep DEF Phase, PhaseOf, Terminal
<1>2. Exposure' = Exposure /\ bill' = bill
  BY MappedStep DEF provider
<1>3. \/ a >= Quote
      \/ Exposure[r] = "final" /\ a = bill[r]
      \/ Exposure[r] \in {"none", "refused"} /\ a = 0
  BY DEF Exact, Exposure, ExposureOf
<1>4. Promise!Close(r, a)
  BY <1>1, <1>2, <1>3
  DEF Promise!Close, Promise!Justified, Phase, PhaseOf, Exposure, ExposureOf
<1>5. QED
  BY <1>4 DEF Promise!PaidNext

\* Every step of a chat call is a step of the promise, or none of its business.
LEMMA RefinesNext == ChatInv /\ [Next]_vars => [Promise!PaidNext]_(Promise!paidVars)
<1> SUFFICES ASSUME ChatInv, [Next]_vars
             PROVE  Promise!PaidNext \/ UNCHANGED Promise!paidVars
  OBVIOUS
<1> USE DEF gateway, ledger, provider
<1>1. ASSUME UNCHANGED <<row, charge, prov, bill>>
      PROVE  UNCHANGED Promise!paidVars
  BY <1>1 DEF Promise!paidVars
<1>2. ASSUME NEW r \in Requests, Reserve(r)
      PROVE  Promise!PaidNext
  <2>1. row[r] = "absent"
    BY <1>2 DEF Reserve, ChatInv, CallInv, Books, Progress
  <2>2. Phase[r] = "new" /\ Phase' = [Phase EXCEPT ![r] = "held"]
    BY <1>2, <2>1, MappedStep DEF Reserve, ChatInv, Phase, PhaseOf
  <2>3. Exposure' = Exposure /\ bill' = bill /\ charge' = [charge EXCEPT ![r] = Quote]
    BY <1>2, MappedStep DEF Reserve, ChatInv
  <2>4. Promise!Hold(r)
    BY <2>2, <2>3 DEF Promise!Hold, Phase, PhaseOf, Exposure, ExposureOf
  <2>5. QED
    BY <2>4 DEF Promise!PaidNext
<1>3. ASSUME NEW r \in Requests, Send(r)
      PROVE  Promise!PaidNext
  <2>1. row[r] = "open" /\ prov[r] = "unsent"
    BY <1>3 DEF Send, ChatInv, CallInv, Books, Progress, Owed, Unordered, Waiting
  <2>2. Phase[r] = "held" /\ Exposure[r] = "none" /\ Exposure' = [Exposure EXCEPT ![r] = "open"]
    BY <1>3, <2>1, MappedStep DEF Send, ChatInv, Phase, PhaseOf, Exposure, ExposureOf
  <2>3. Phase' = Phase /\ bill' = bill /\ charge' = charge
    BY <1>3, MappedStep DEF Send, ChatInv
  <2>4. Promise!Send(r)
    BY <2>2, <2>3 DEF Promise!Send, Phase, PhaseOf, Exposure, ExposureOf
  <2>5. QED
    BY <2>4 DEF Promise!PaidNext
<1>4. ASSUME NEW r \in Requests, ProviderAnswers(r)
      PROVE  Promise!PaidNext \/ UNCHANGED Promise!paidVars
  <2>1. PICK p \in {"accepted", "refused"} : prov' = [prov EXCEPT ![r] = p]
    BY <1>4 DEF ProviderAnswers
  <2>2. /\ prov[r] = "inflight" /\ bill[r] = 0
        /\ row' = row /\ charge' = charge /\ bill' = bill
    BY <1>4 DEF ProviderAnswers, ChatInv, CallInv, Books, Accounting
  <2>3. Exposure[r] = "open" /\ Phase' = Phase
    BY <2>2, MappedStep DEF ChatInv, Exposure, ExposureOf
  <2>4. Exposure' = [Exposure EXCEPT ![r] = ExposureOf(p)]
    BY <2>1, MappedStep DEF ChatInv
  <2>5. CASE p = "accepted"
    <3>1. Exposure' = Exposure
      BY <2>3, <2>4, <2>5 DEF Exposure, ExposureOf
    <3>2. QED
      BY <2>2, <2>3, <3>1 DEF Promise!paidVars, Phase, PhaseOf, Exposure, ExposureOf
  <2>6. CASE p = "refused"
    <3>1. Exposure' = [Exposure EXCEPT ![r] = "refused"]
      BY <2>4, <2>6 DEF ExposureOf
    <3>2. Promise!Refuse(r)
      BY <2>2, <2>3, <3>1 DEF Promise!Refuse, Phase, PhaseOf, Exposure, ExposureOf
    <3>3. QED
      BY <3>2 DEF Promise!PaidNext
  <2>7. QED
    BY <2>5, <2>6
<1>5. ASSUME NEW r \in Requests, ProviderBills(r) \/ ProviderFinishes(r)
      PROVE  Promise!PaidNext
  <2>1. bill[r] \in 0..MaxBill /\ MaxBill \in Nat /\ prov[r] = "accepted"
    BY <1>5, ChatAssumption DEF ProviderBills, ProviderFinishes, ChatInv, TypeOK, ChatAssumption
  <2>2. PICK a \in 0..MaxBill : a >= bill[r] /\ bill' = [bill EXCEPT ![r] = a]
    <3>1. CASE ProviderBills(r)
      <4>1. bill' = [bill EXCEPT ![r] = bill[r] + 1] /\ bill[r] < BillOf[r]
        BY <3>1 DEF ProviderBills
      <4>2. bill[r] + 1 \in 0..MaxBill /\ bill[r] + 1 >= bill[r]
        BY <2>1, <4>1, ChatAssumption DEF ChatAssumption
      <4>3. QED
        BY <4>1, <4>2
    <3>2. CASE ProviderFinishes(r)
      BY <2>1, <3>2 DEF ProviderFinishes, ChatInv, TypeOK
    <3>3. QED
      BY <1>5, <3>1, <3>2
  <2>3. Phase' = Phase /\ charge' = charge
    BY <1>5, MappedStep DEF ProviderBills, ProviderFinishes, ChatInv
  <2>4. Exposure[r] = "open"
    BY <2>1 DEF Exposure, ExposureOf
  <2>5. PICK e \in {"open", "final"} : Exposure' = [Exposure EXCEPT ![r] = e]
    <3>1. CASE ProviderBills(r)
      <4>1. Exposure' = Exposure
        BY <3>1, MappedStep DEF ProviderBills, ChatInv
      <4>2. Exposure' = [Exposure EXCEPT ![r] = "open"]
        BY <2>4, <4>1 DEF Exposure
      <4>3. QED
        BY <4>2
    <3>2. CASE ProviderFinishes(r)
      <4>1. Exposure' = [Exposure EXCEPT ![r] = ExposureOf("finished")]
        BY <3>2, MappedStep DEF ProviderFinishes, ChatInv
      <4>2. QED
        BY <4>1 DEF ExposureOf
    <3>3. QED
      BY <1>5, <3>1, <3>2
  <2>6. Promise!Bill(r, a)
    BY <2>2, <2>3, <2>4, <2>5 DEF Promise!Bill, Phase, PhaseOf, Exposure, ExposureOf
  <2>7. QED
    BY <2>2, <2>6, AmountFacts DEF Promise!PaidNext
<1>6. ASSUME NEW r \in Requests, RunJob(r)
      PROVE  Promise!PaidNext \/ UNCHANGED Promise!paidVars
  <2>1. Accounting(r) /\ TypeOK
    BY DEF ChatInv, CallInv, Books
  <2>2. PICK o \in job[r] :
          /\ row[r] = "open" =>
               /\ row' = [row EXCEPT ![r] = IF o = Rollback THEN "rolled_back" ELSE "settled"]
               /\ charge' = [charge EXCEPT ![r] = o.amount]
          /\ row[r] # "open" => UNCHANGED <<row, charge>>
          /\ UNCHANGED provider
    BY <1>6 DEF RunJob
  <2>3. PICK a \in Amounts : a = o.amount /\ (o = Rollback => a = 0)
    BY <2>1, OrderFacts DEF TypeOK
  <2>4. PICK s \in Terminal : s = IF o = Rollback THEN "rolled_back" ELSE "settled"
    BY DEF Terminal
  <2>5. Exact(r, a) \/ (prov[r] \in {"unsent", "refused"} /\ a = 0)
    BY <2>1, <2>3 DEF Accounting
  <2>6. CASE row[r] = "open"
    BY <2>1, <2>2, <2>3, <2>4, <2>5, <2>6, Closes
  <2>7. CASE row[r] # "open"
    BY <1>1, <2>2, <2>7
  <2>8. QED
    BY <2>6, <2>7
<1>7. ASSUME NEW r \in Requests, ReconcileOrphan(r)
      PROVE  Promise!PaidNext
  <2>1. /\ row[r] = "open" /\ row' = [row EXCEPT ![r] = "orphaned"]
        /\ charge' = [charge EXCEPT ![r] = Quote] /\ UNCHANGED provider
    BY <1>7 DEF ReconcileOrphan
  <2>2. Exact(r, Quote) /\ "orphaned" \in Terminal /\ Quote \in Amounts /\ TypeOK
    BY ChatAssumption, AmountFacts DEF ChatAssumption, Exact, Terminal, ChatInv
  <2>3. QED
    BY <2>1, <2>2, Closes
<1>8. ASSUME NEW r \in Requests, Handle(r)
      PROVE  Promise!PaidNext \/ UNCHANGED Promise!paidVars
  BY <1>1, <1>2, <1>3, <1>8
  DEF Handle, Reject, BreakerOpen, AcquireSlot, Enqueue, QueueFails, CallUnbilled, CallAmbiguous,
      CallOpens, ReadUsage, ReadMalformedUsage, StreamBreaks, ReadDone, ReadBody, BodyFails,
      Return
<1>9. ASSUME NEW r \in Requests, Environment(r)
      PROVE  Promise!PaidNext \/ UNCHANGED Promise!paidVars
  BY <1>1, <1>4, <1>5, <1>7, <1>9 DEF Environment, Age
<1>10. QED
  BY <1>1, <1>6, <1>8, <1>9 DEF Next, vars, JobFails, Crash

(***************************************************************************)
(* A chat call, with its queue, its detached accounting goroutine, the     *)
(* reconciler that may come first and the crashes that lose either,        *)
(* implements the promise of a paid call: nothing is sent that is not      *)
(* held, and no hold is closed twice or at an amount the provider's side   *)
(* does not justify.                                                       *)
(***************************************************************************)
THEOREM ChatImplementsPaidCall == Spec => ImplementsPaidCall
  BY RefinesInit, RefinesNext, Invariant, PTL DEF Spec, ImplementsPaidCall, Promise!PaidSpec
=============================================================================
