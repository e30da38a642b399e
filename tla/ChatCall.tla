------------------------------ MODULE ChatCall ------------------------------
(***************************************************************************)
(* One chat completion through the gateway: app/chat Handle and forward.   *)
(* A request reserves its full quote, passes the breaker and the global    *)
(* concurrency limit, opens the upstream call, relays the answer and       *)
(* leaves one accounting job (settle or rollback) to a goroutine that is   *)
(* detached from the client.  The provider runs on its own and bills       *)
(* whatever it did, whether or not the gateway hears of it.                *)
(***************************************************************************)
EXTENDS Integers, FiniteSets

CONSTANTS
  Requests,  \* request ids
  NGlobal,   \* capacity of the global slot semaphore
  Quote,     \* the reservation: the plan's cost at the model's hard limits
  MaxBill,   \* largest bill of the provider (it may drift above the quote)
  BillOf     \* per request: the largest bill of that call

ASSUME ChatAssumption ==
  /\ IsFiniteSet(Requests)
  /\ NGlobal \in Nat \ {0}
  /\ Quote \in Nat \ {0}
  /\ MaxBill \in Nat
  /\ BillOf \in [Requests -> 0..MaxBill]

VARIABLES
  pc,       \* where the handler of a request is
  sem,      \* requests holding a global slot
  row,      \* the state of the request's ledger row
  charge,   \* what the ledger holds for it
  armed,    \* forward's rollbackArmed: its deferred rollback is to fire
  exposed,  \* forward's accountingExposure: the provider may have charged
  job,      \* the orders of the detached accounting goroutines still to run
  usage,    \* the merged usage snapshots of a stream being relayed
  prov,     \* the provider's side of the call
  bill,     \* what the provider has billed so far
  aged,     \* open rows older than the reconciler's cutoff
  heard,    \* history: why the gateway knows that the call cost nothing
  jobs,     \* history: number of accounting jobs launched
  lost      \* history: a crash or a failed write lost the accounting job

gateway  == <<pc, sem, usage, heard, jobs, armed, exposed>>
ledger   == <<row, charge>>
provider == <<prov, bill>>
vars     == <<gateway, ledger, job, provider, aged, lost>>

Terminal == {"settled", "rolled_back", "orphaned"}
Relaying == {"streaming", "buffering"}
HoldsSlot == {"calling", "returning"} \cup Relaying

\* What a call may be charged: the quote, or a priced usage.
Amounts == {Quote} \cup 0..MaxBill

Rollback == [op |-> "rollback", amount |-> 0]
Settle(amount) == [op |-> "settle", amount |-> amount]
Orders == {Rollback} \cup {Settle(a) : a \in Amounts}

NoUsage == [present |-> FALSE, seen |-> 0, bad |-> FALSE]

TypeOK ==
  /\ pc \in [Requests -> {"start", "reserved", "queued", "done", "gone"} \cup HoldsSlot]
  /\ sem \subseteq Requests
  /\ row \in [Requests -> Terminal \cup {"absent", "open"}]
  /\ charge \in [Requests -> Amounts]
  /\ armed \in [Requests -> BOOLEAN]
  /\ exposed \in [Requests -> BOOLEAN]
  /\ job \in [Requests -> SUBSET Orders]
  /\ usage \in [Requests -> [present : BOOLEAN, seen : 0..MaxBill, bad : BOOLEAN]]
  /\ prov \in [Requests -> {"unsent", "inflight", "accepted", "finished", "refused"}]
  /\ bill \in [Requests -> 0..MaxBill]
  /\ aged \subseteq Requests
  /\ heard \in [Requests -> {"nothing", "unsent", "refused"}]
  /\ jobs \in [Requests -> Nat]
  /\ lost \subseteq Requests

Init ==
  /\ pc = [r \in Requests |-> "start"]
  /\ sem = {}
  /\ row = [r \in Requests |-> "absent"]
  /\ charge = [r \in Requests |-> 0]
  /\ armed = [r \in Requests |-> FALSE]
  /\ exposed = [r \in Requests |-> FALSE]
  /\ job = [r \in Requests |-> {}]
  /\ usage = [r \in Requests |-> NoUsage]
  /\ prov = [r \in Requests |-> "unsent"]
  /\ bill = [r \in Requests |-> 0]
  /\ aged = {}
  /\ heard = [r \in Requests |-> "nothing"]
  /\ jobs = [r \in Requests |-> 0]
  /\ lost = {}

-----------------------------------------------------------------------------
Goto(r, label) == pc' = [pc EXCEPT ![r] = label]

Hears(r, what) == heard' = [heard EXCEPT ![r] = what]

\* settle and rollback only start a goroutine; the row changes later.
Launch(r, order) ==
  /\ job' = [job EXCEPT ![r] = @ \cup {order}]
  /\ jobs' = [jobs EXCEPT ![r] = @ + 1]

Flags(r, rollbackArmed, accountingExposure) ==
  /\ armed' = [armed EXCEPT ![r] = rollbackArmed]
  /\ exposed' = [exposed EXCEPT ![r] = accountingExposure]

(***************************************************************************)
(* Handle up to the reservation.  Every gate before it (identity, ban,     *)
(* rate limit, disk, shape, content, media leases, availability, plan) and *)
(* a denied reservation answer the client and leave nothing behind.        *)
(***************************************************************************)
Reject(r) ==
  /\ pc[r] = "start"
  /\ Goto(r, "done")
  /\ UNCHANGED <<sem, usage, heard, jobs, armed, exposed, ledger, job, provider, aged, lost>>

Reserve(r) ==
  /\ pc[r] = "start"
  /\ Goto(r, "reserved")
  /\ row' = [row EXCEPT ![r] = "open"]
  /\ charge' = [charge EXCEPT ![r] = Quote]
  /\ UNCHANGED <<sem, usage, heard, jobs, armed, exposed, job, provider, aged, lost>>

BreakerOpen(r) ==
  /\ pc[r] = "reserved"
  /\ Goto(r, "done")
  /\ Hears(r, "unsent")
  /\ Launch(r, Rollback)
  /\ UNCHANGED <<sem, usage, armed, exposed, ledger, provider, aged, lost>>

(***************************************************************************)
(* acquireSlot: a free slot at once, else wait in the queue, else give up. *)
(* With a slot the call enters forward, which starts with the rollback     *)
(* armed and no exposure.                                                  *)
(***************************************************************************)
AcquireSlot(r) ==
  /\ pc[r] \in {"reserved", "queued"}
  /\ Cardinality(sem) < NGlobal
  /\ sem' = sem \cup {r}
  /\ Goto(r, "calling")
  /\ Flags(r, TRUE, FALSE)
  /\ UNCHANGED <<usage, heard, jobs, ledger, job, provider, aged, lost>>

Enqueue(r) ==
  /\ pc[r] = "reserved"
  /\ Cardinality(sem) >= NGlobal
  /\ Goto(r, "queued")
  /\ UNCHANGED <<sem, usage, heard, jobs, armed, exposed, ledger, job, provider, aged, lost>>

\* The queue wait ran out, the client left, or queueing is switched off.
QueueFails(r) ==
  /\ \/ pc[r] = "queued"
     \/ pc[r] = "reserved" /\ Cardinality(sem) >= NGlobal
  /\ Goto(r, "done")
  /\ Hears(r, "unsent")
  /\ Launch(r, Rollback)
  /\ UNCHANGED <<sem, usage, armed, exposed, ledger, provider, aged, lost>>

(***************************************************************************)
(* forward: the upstream call and its billing exposure.                    *)
(***************************************************************************)
Send(r) ==
  /\ pc[r] = "calling"
  /\ prov[r] = "unsent"
  /\ prov' = [prov EXCEPT ![r] = "inflight"]
  /\ UNCHANGED <<gateway, ledger, job, bill, aged, lost>>

\* Open failed and proves no charge: nothing is ordered here, the deferred
\* rollback stays armed.
CallUnbilled(r) ==
  /\ pc[r] = "calling"
  /\ prov[r] \in {"unsent", "refused"}
  /\ Hears(r, prov[r])
  /\ Goto(r, "returning")
  /\ UNCHANGED <<sem, usage, jobs, armed, exposed, job, ledger, provider, aged, lost>>

\* Mutant: an ambiguous failure is refunded.
CallAmbiguousRefunds(r) ==
  /\ pc[r] = "calling"
  /\ Goto(r, "returning")
  /\ UNCHANGED <<sem, usage, heard, jobs, armed, exposed, job, ledger, provider, aged, lost>>

\* Mutant: the quote is kept, but the rollback stays armed.
CallAmbiguousArmed(r) ==
  /\ pc[r] = "calling"
  /\ Launch(r, Settle(Quote))
  /\ Goto(r, "returning")
  /\ UNCHANGED <<sem, usage, heard, armed, exposed, ledger, provider, aged, lost>>

\* Timeout, transport error, 5xx, cancel, or an adapter without a stream: the
\* provider may have billed (or may still), so the full quote is kept.  A
\* connection that could not be made is such an error too.
CallAmbiguous(r) ==
  /\ pc[r] = "calling"
  /\ Flags(r, FALSE, TRUE)
  /\ Launch(r, Settle(Quote))
  /\ Goto(r, "returning")
  /\ UNCHANGED <<sem, usage, heard, ledger, provider, aged, lost>>

\* The first byte of a 2xx: from here on the relay settles.
CallOpens(r) ==
  /\ pc[r] = "calling"
  /\ prov[r] \in {"accepted", "finished"}
  /\ \E mode \in Relaying : Goto(r, mode)
  /\ Flags(r, FALSE, TRUE)
  /\ UNCHANGED <<sem, usage, heard, jobs, ledger, job, provider, aged, lost>>

(***************************************************************************)
(* The client has its answer or its error, and forward and Handle return:  *)
(* the deferred functions roll back what is still armed and not exposed,   *)
(* and give the slot back.                                                 *)
(***************************************************************************)
Return(r) ==
  /\ pc[r] = "returning"
  /\ Goto(r, "done")
  /\ IF armed[r] /\ ~exposed[r]
     THEN Launch(r, Rollback)
     ELSE UNCHANGED <<job, jobs>>
  /\ sem' = sem \ {r}
  /\ UNCHANGED <<usage, heard, armed, exposed, ledger, provider, aged, lost>>

(***************************************************************************)
(* streamThrough: frames arrive in order; usage snapshots merge by         *)
(* maximum and a malformed one sticks.  Only a stream read up to [DONE]    *)
(* settles from usage.                                                     *)
(***************************************************************************)
MergeSnapshot(u, n) ==
  [u EXCEPT !.present = TRUE, !.seen = IF n > @ THEN n ELSE @]

\* settleFromUsage: usage that is absent, malformed or contradictory keeps the
\* quote; a priced usage above the quote is settled as a top-up.
Priced(u) == IF u.present /\ ~u.bad THEN u.seen ELSE Quote

\* The relay settles and returns to forward; its usage was its own.
Ends(r, amount) ==
  /\ usage' = [usage EXCEPT ![r] = NoUsage]
  /\ Launch(r, Settle(amount))
  /\ Goto(r, "returning")

ReadUsage(r) ==
  /\ pc[r] = "streaming"
  /\ \E n \in 1..bill[r] : usage' = [usage EXCEPT ![r] = MergeSnapshot(@, n)]
  /\ UNCHANGED <<pc, sem, heard, job, jobs, armed, exposed, ledger, provider, aged, lost>>

ReadMalformedUsage(r) ==
  /\ pc[r] = "streaming"
  /\ usage' = [usage EXCEPT ![r].bad = TRUE]
  /\ UNCHANGED <<pc, sem, heard, job, jobs, armed, exposed, ledger, provider, aged, lost>>

\* An invalid frame, end of file, a read error, or a line that cannot be
\* written because the client is gone or too slow.
StreamBreaks(r) ==
  /\ pc[r] = "streaming"
  /\ Ends(r, Quote)
  /\ UNCHANGED <<sem, heard, armed, exposed, ledger, provider, aged, lost>>

\* A provider that reports usage reports its final bill before [DONE].
ReadDone(r) ==
  /\ pc[r] = "streaming"
  /\ prov[r] = "finished"
  /\ usage[r].present => usage[r].seen = bill[r]
  /\ Ends(r, Priced(usage[r]))
  /\ UNCHANGED <<sem, heard, armed, exposed, ledger, provider, aged, lost>>

(***************************************************************************)
(* nonStreamThrough: one complete, valid JSON object settles from its      *)
(* usage; anything else keeps the quote.                                   *)
(***************************************************************************)
ReadBody(r) ==
  /\ pc[r] = "buffering"
  /\ prov[r] = "finished"
  /\ \E u \in {NoUsage, MergeSnapshot(NoUsage, bill[r])} : Ends(r, Priced(u))
  /\ UNCHANGED <<sem, heard, armed, exposed, ledger, provider, aged, lost>>

BodyFails(r) ==
  /\ pc[r] = "buffering"
  /\ Ends(r, Quote)
  /\ UNCHANGED <<sem, heard, armed, exposed, ledger, provider, aged, lost>>

\* Mutant: the accounting write does not look at the row's state.
RunJobAnyRow(r) ==
  \E order \in job[r] :
    /\ job' = [job EXCEPT ![r] = @ \ {order}]
    /\ row' = [row EXCEPT ![r] = IF order = Rollback THEN "rolled_back" ELSE "settled"]
    /\ charge' = [charge EXCEPT ![r] = order.amount]
    /\ UNCHANGED <<gateway, provider, aged, lost>>

(***************************************************************************)
(* An accounting goroutine: one transaction whose compare-and-set on       *)
(* "open" makes it a no-op when the reconciler came first.                 *)
(***************************************************************************)
RunJob(r) ==
  \E order \in job[r] :
    /\ job' = [job EXCEPT ![r] = @ \ {order}]
    /\ IF row[r] = "open"
       THEN /\ row' = [row EXCEPT ![r] = IF order = Rollback THEN "rolled_back" ELSE "settled"]
            /\ charge' = [charge EXCEPT ![r] = order.amount]
            /\ aged' = aged \ {r}
       ELSE UNCHANGED <<ledger, aged>>
    /\ UNCHANGED <<gateway, provider, lost>>

\* The transaction fails: counted and logged, the row stays open.
JobFails(r) ==
  \E order \in job[r] :
    /\ job' = [job EXCEPT ![r] = @ \ {order}]
    /\ lost' = lost \cup {r}
    /\ UNCHANGED <<gateway, ledger, provider, aged>>

-----------------------------------------------------------------------------
(* The surroundings: provider, reconciler and process.  A client that hangs up
   shows as a queue that fails, an ambiguous call or a relay that breaks. *)

ProviderAnswers(r) ==
  /\ prov[r] = "inflight"
  /\ \E p \in {"accepted", "refused"} : prov' = [prov EXCEPT ![r] = p]
  /\ UNCHANGED <<gateway, ledger, job, bill, aged, lost>>

ProviderBills(r) ==
  /\ prov[r] = "accepted"
  /\ bill[r] < BillOf[r]
  /\ bill' = [bill EXCEPT ![r] = @ + 1]
  /\ UNCHANGED <<gateway, ledger, job, prov, aged, lost>>

ProviderFinishes(r) ==
  /\ prov[r] = "accepted"
  /\ bill[r] > 0
  /\ prov' = [prov EXCEPT ![r] = "finished"]
  /\ UNCHANGED <<gateway, ledger, job, bill, aged, lost>>

(***************************************************************************)
(* The row becomes older than the sweep's ten minutes.  The queue (at most *)
(* a minute), the dial and a database write end before that, so a call     *)
(* that was never sent is over by then, its rollback included.  One that   *)
(* was sent need not be: each attempt may wait ten minutes for its first   *)
(* byte, and a relay has no deadline at all.                               *)
(***************************************************************************)
Age(r) ==
  /\ row[r] = "open"
  /\ \/ prov[r] # "unsent"
     \/ pc[r] \in {"done", "gone"} /\ job[r] = {}
  /\ aged' = aged \cup {r}
  /\ UNCHANGED <<gateway, ledger, job, provider, lost>>

\* Mutant: the sweep takes every open row for an orphan.
ReconcileYoung(r) ==
  /\ row[r] = "open"
  /\ row' = [row EXCEPT ![r] = "orphaned"]
  /\ charge' = [charge EXCEPT ![r] = Quote]
  /\ aged' = aged \ {r}
  /\ UNCHANGED <<gateway, job, provider, lost>>

\* Mutant: the reconciler leaves rows alone whose handler is gone.
ReconcileRunningOnly(r) ==
  /\ r \in aged
  /\ row[r] = "open"
  /\ pc[r] # "gone"
  /\ row' = [row EXCEPT ![r] = "orphaned"]
  /\ charge' = [charge EXCEPT ![r] = Quote]
  /\ aged' = aged \ {r}
  /\ UNCHANGED <<gateway, job, provider, lost>>

ReconcileOrphan(r) ==
  /\ r \in aged
  /\ row[r] = "open"
  /\ row' = [row EXCEPT ![r] = "orphaned"]
  /\ charge' = [charge EXCEPT ![r] = Quote]
  /\ aged' = aged \ {r}
  /\ UNCHANGED <<gateway, job, provider, lost>>

\* Handlers and accounting goroutines die with the process; rows survive.
Crash ==
  /\ pc' = [r \in Requests |-> IF pc[r] = "start" THEN "start" ELSE "gone"]
  /\ sem' = {}
  /\ job' = [r \in Requests |-> {}]
  /\ lost' = lost \cup {r \in Requests : row[r] = "open"}
  /\ UNCHANGED <<usage, heard, jobs, armed, exposed, ledger, provider, aged>>

Handle(r) ==
  \/ Reject(r) \/ Reserve(r)
  \/ BreakerOpen(r) \/ AcquireSlot(r) \/ Enqueue(r) \/ QueueFails(r)
  \/ Send(r) \/ CallUnbilled(r) \/ CallAmbiguous(r) \/ CallOpens(r)
  \/ ReadUsage(r) \/ ReadMalformedUsage(r) \/ StreamBreaks(r) \/ ReadDone(r)
  \/ ReadBody(r) \/ BodyFails(r) \/ Return(r)

Environment(r) ==
  \/ ProviderAnswers(r) \/ ProviderBills(r) \/ ProviderFinishes(r)
  \/ Age(r) \/ ReconcileOrphan(r)

Next ==
  \/ \E r \in Requests : Handle(r)
  \/ \E r \in Requests : RunJob(r)
  \/ \E r \in Requests : JobFails(r)
  \/ \E r \in Requests : Environment(r)
  \/ Crash

Spec == Init /\ [][Next]_vars

-----------------------------------------------------------------------------
(***************************************************************************)
(* The ledger gives back only what is proven unspent: a row charged less   *)
(* than its quote either never reached the provider (or was refused by     *)
(* it), or belongs to a finished answer and is charged exactly the bill.   *)
(* In particular no accepted call is ever free and no bill within the      *)
(* quote is undercharged, however late the provider bills.                 *)
(***************************************************************************)
OnlyProvenRefunds ==
  \A r \in Requests : row[r] \in Terminal /\ charge[r] < Quote =>
    \/ /\ row[r] = "rolled_back"
       /\ prov[r] \in {"unsent", "refused"}
       /\ bill[r] = 0
    \/ /\ row[r] = "settled"
       /\ prov[r] = "finished"
       /\ charge[r] = bill[r]

(***************************************************************************)
(* A global slot is held exactly while a call or its relay runs: no return *)
(* path of Handle or forward leaks one, or gives one back twice.           *)
(***************************************************************************)
SlotsMatchCalls == sem = {r \in Requests : pc[r] \in HoldsSlot}

(***************************************************************************)
(* Every handler that reserved launches one accounting job, whichever of   *)
(* its return paths it takes: with rollbackArmed and accountingExposure as *)
(* forward keeps them, a settle and the deferred rollback neither both     *)
(* fire nor both stay silent.                                              *)
(***************************************************************************)
OneJobPerReservation ==
  \A r \in Requests :
    /\ jobs[r] <= 1
    /\ pc[r] = "done" /\ row[r] # "absent" => jobs[r] = 1

(***************************************************************************)
(* A call's books are in order on every path: well typed, its slot held    *)
(* exactly while it runs, one accounting job for its reservation.          *)
(***************************************************************************)
CallsAccounted == TypeOK /\ SlotsMatchCalls /\ OneJobPerReservation

(***************************************************************************)
(* What cost nothing is refunded, unless a crash or a failed write lost    *)
(* the rollback.  A call that never left (breaker, queue, Open) always is: *)
(* the sweep cannot come first.  A refused one is unless its row passed    *)
(* the sweep's cutoff while the call still ran: the sweep then keeps the   *)
(* quote and the late rollback finds the row closed.                       *)
(***************************************************************************)
RefusalRefunded ==
  \A r \in Requests :
    heard[r] \in {"unsent", "refused"} /\ row[r] \in Terminal /\ r \notin lost =>
      \/ row[r] = "rolled_back"
      \/ heard[r] = "refused" /\ row[r] = "orphaned"

(***************************************************************************)
(* Fairness: the handler's own steps before the relay are bounded by the   *)
(* queue timer and the first-byte timer, goroutines run, time passes and   *)
(* the reconciler ticks.  Nothing is assumed of the provider or the relay. *)
(***************************************************************************)
FairSpec ==
  /\ Spec
  /\ \A r \in Requests :
       /\ WF_vars(BreakerOpen(r) \/ AcquireSlot(r) \/ Enqueue(r) \/ QueueFails(r))
       /\ WF_vars(CallUnbilled(r) \/ CallAmbiguous(r) \/ CallOpens(r))
       /\ WF_vars(Return(r))
       /\ WF_vars(RunJob(r) \/ JobFails(r))
       /\ WF_vars(Age(r))
       /\ WF_vars(ReconcileOrphan(r))

(***************************************************************************)
(* Every reservation is closed, even when its stream never ends, its       *)
(* accounting write fails or the process dies.                             *)
(***************************************************************************)
ReservationsClose ==
  \A r \in Requests : (row[r] = "open") ~> (row[r] \in Terminal)

(***************************************************************************)
(* The chat call implements the promise of a paid call: Handle holds the   *)
(* quote before forward sends, and the accounting goroutine, a late one    *)
(* racing the reconciler included, closes the hold at most once and at an  *)
(* amount the provider's side justifies.  A billed answer is final when    *)
(* the provider has finished it.                                           *)
(***************************************************************************)
Promise ==
  INSTANCE PaidCall WITH
    phase    <- [r \in Requests |->
                   CASE row[r] = "absent" -> "new"
                     [] row[r] = "open" -> "held"
                     [] OTHER -> "closed"],
    exposure <- [r \in Requests |->
                   CASE prov[r] = "unsent" -> "none"
                     [] prov[r] \in {"inflight", "accepted"} -> "open"
                     [] prov[r] = "finished" -> "final"
                     [] OTHER -> "refused"],
    due      <- bill

ImplementsPaidCall == Promise!PaidSpec
=============================================================================
