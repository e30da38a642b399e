------------------------------ MODULE GenCall -------------------------------
(***************************************************************************)
(* A synchronous paid generation (image, speech, video submission): the    *)
(* skeleton app/genrun Do.  It reserves, calls the provider and closes the *)
(* books in the request's own goroutine and under the request's own        *)
(* context, so a client that hangs up also cancels the bookkeeping.  The   *)
(* price is fixed by the plan: the provider bills the quote or nothing.    *)
(***************************************************************************)
EXTENDS Integers, FiniteSets

CONSTANTS
  Requests,  \* request ids
  Speech,    \* the ones the speech adapter serves; image and video the others
  Quote      \* the plan's unit cost, reserved and settled alike

ASSUME GenAssumption ==
  /\ IsFiniteSet(Requests)
  /\ Speech \subseteq Requests
  /\ Quote \in Nat \ {0}

VARIABLES
  pc,      \* where the request is
  live,    \* its context is not cancelled
  row,     \* the state of its ledger row
  charge,  \* what the ledger holds for it
  order,   \* the accounting call about to run: "settle", "rollback" or "none"
  prov,    \* the provider's side of the call
  aged,    \* rows older than the reconciler's cutoff
  heard,   \* history: how the call ended as the gateway saw it
  lost     \* history: a crash or a failed write lost the accounting call

ledger == <<row, charge>>
vars   == <<pc, live, ledger, order, prov, aged, heard, lost>>

Terminal == {"settled", "rolled_back", "orphaned"}

\* The provider owes nothing: the call never left, or was refused with a
\* status every adapter recognises, or declined with one that image and video
\* do not (402).
Costless == {"unsent", "refused", "declined"}

TypeOK ==
  /\ pc \in [Requests -> {"start", "calling", "booking", "done", "gone"}]
  /\ live \in [Requests -> BOOLEAN]
  /\ row \in [Requests -> Terminal \cup {"absent", "open"}]
  /\ charge \in [Requests -> {0, Quote}]
  /\ order \in [Requests -> {"none", "settle", "rollback"}]
  /\ prov \in [Requests -> {"inflight", "accepted"} \cup Costless]
  /\ aged \subseteq Requests
  /\ heard \in [Requests -> {"nothing", "unbilled", "ambiguous", "accepted"}]
  /\ lost \subseteq Requests

Init ==
  /\ pc = [r \in Requests |-> "start"]
  /\ live = [r \in Requests |-> TRUE]
  /\ row = [r \in Requests |-> "absent"]
  /\ charge = [r \in Requests |-> 0]
  /\ order = [r \in Requests |-> "none"]
  /\ prov = [r \in Requests |-> "unsent"]
  /\ aged = {}
  /\ heard = [r \in Requests |-> "nothing"]
  /\ lost = {}

-----------------------------------------------------------------------------
Goto(r, label) == pc' = [pc EXCEPT ![r] = label]

\* The capability is switched off, Authorize refuses the install, the plan
\* cannot be built or the wallet denies the reservation.
Reject(r) ==
  /\ pc[r] = "start"
  /\ Goto(r, "done")
  /\ UNCHANGED <<live, ledger, order, prov, aged, heard, lost>>

Reserve(r) ==
  /\ pc[r] = "start"
  /\ live[r]
  /\ Goto(r, "calling")
  /\ row' = [row EXCEPT ![r] = "open"]
  /\ charge' = [charge EXCEPT ![r] = Quote]
  /\ UNCHANGED <<live, order, prov, aged, heard, lost>>

Send(r) ==
  /\ pc[r] = "calling"
  /\ prov[r] = "unsent"
  /\ prov' = [prov EXCEPT ![r] = "inflight"]
  /\ UNCHANGED <<pc, live, ledger, order, aged, heard, lost>>

\* The call returns and Do picks the accounting call for it.
Returns(r, what, op) ==
  /\ pc[r] = "calling"
  /\ Goto(r, "booking")
  /\ order' = [order EXCEPT ![r] = op]
  /\ heard' = [heard EXCEPT ![r] = what]
  /\ UNCHANGED <<live, ledger, prov, aged, lost>>

(***************************************************************************)
(* What the adapter may report as unbilled.  Speech: nothing left the      *)
(* process, any 4xx of the handshake, a task failed before its first       *)
(* sound.  Image and video: 429, the statuses of rejectedBeforeGeneration  *)
(* and (video) 404, so neither 402 nor a call that never left.             *)
(***************************************************************************)
Refundable(r) == IF r \in Speech THEN Costless ELSE {"refused"}

CallUnbilled(r) ==
  /\ prov[r] \in Refundable(r)
  /\ Returns(r, "unbilled", "rollback")

\* Mutant: a timeout is taken for a refusal.
CallAmbiguousRefunds(r) ==
  Returns(r, "ambiguous", "rollback")

\* Everything else that is not a success keeps the full quote: a timeout, a
\* transport error, a 5xx, a cancel, an answer that cannot be read, and
\* whatever cost nothing without the adapter reporting it.
CallAmbiguous(r) ==
  Returns(r, "ambiguous", "settle")

\* Success settles UnitCost, which equals the reservation.
CallSucceeds(r) ==
  /\ prov[r] = "accepted"
  /\ Returns(r, "accepted", "settle")

\* Runner.Settle and Runner.Rollback under the request's context; losing the
\* compare-and-set to the reconciler is a silent no-op.
RunOrder(r) ==
  /\ pc[r] = "booking"
  /\ live[r]
  /\ Goto(r, "done")
  /\ order' = [order EXCEPT ![r] = "none"]
  /\ IF row[r] = "open"
     THEN IF order[r] = "settle"
          THEN row' = [row EXCEPT ![r] = "settled"] /\ UNCHANGED charge
          ELSE /\ row' = [row EXCEPT ![r] = "rolled_back"]
               /\ charge' = [charge EXCEPT ![r] = 0]
     ELSE UNCHANGED ledger
  /\ UNCHANGED <<live, prov, aged, heard, lost>>

\* A cancelled context cannot begin the transaction: the error is counted and
\* dropped, the row stays open.
OrderCancelled(r) ==
  /\ pc[r] = "booking"
  /\ ~live[r]
  /\ Goto(r, "done")
  /\ order' = [order EXCEPT ![r] = "none"]
  /\ UNCHANGED <<live, ledger, prov, aged, heard, lost>>

OrderFails(r) ==
  /\ pc[r] = "booking"
  /\ Goto(r, "done")
  /\ order' = [order EXCEPT ![r] = "none"]
  /\ lost' = lost \cup {r}
  /\ UNCHANGED <<live, ledger, prov, aged, heard>>

-----------------------------------------------------------------------------
(* The surroundings: client, provider, reconciler and process. *)

ClientLeaves(r) ==
  /\ live[r]
  /\ live' = [live EXCEPT ![r] = FALSE]
  /\ UNCHANGED <<pc, ledger, order, prov, aged, heard, lost>>

ProviderAnswers(r) ==
  /\ prov[r] = "inflight"
  /\ \E p \in {"accepted", "refused", "declined"} : prov' = [prov EXCEPT ![r] = p]
  /\ UNCHANGED <<pc, live, ledger, order, aged, heard, lost>>

\* A call is one attempt of 30 to 120 seconds in all and ends, its accounting
\* included, well inside the reconciler's ten minutes.
Age(r) ==
  /\ row[r] = "open"
  /\ pc[r] \in {"done", "gone"}
  /\ aged' = aged \cup {r}
  /\ UNCHANGED <<pc, live, ledger, order, prov, heard, lost>>

\* Mutant: rows whose bookkeeping was cancelled are not picked up.
ReconcileLiveOnly(r) ==
  /\ r \in aged
  /\ row[r] = "open"
  /\ live[r]
  /\ row' = [row EXCEPT ![r] = "orphaned"]
  /\ UNCHANGED <<pc, live, charge, order, prov, aged, heard, lost>>

\* Mutant: the reconciler takes an abandoned row for an unused one.
ReconcileRefunds(r) ==
  /\ r \in aged
  /\ row[r] = "open"
  /\ row' = [row EXCEPT ![r] = "orphaned"]
  /\ charge' = [charge EXCEPT ![r] = 0]
  /\ UNCHANGED <<pc, live, order, prov, aged, heard, lost>>

ReconcileOrphan(r) ==
  /\ r \in aged
  /\ row[r] = "open"
  /\ row' = [row EXCEPT ![r] = "orphaned"]
  /\ UNCHANGED <<pc, live, charge, order, prov, aged, heard, lost>>

Crash ==
  /\ pc' = [r \in Requests |-> IF pc[r] = "start" THEN "start" ELSE "gone"]
  /\ order' = [r \in Requests |-> "none"]
  /\ lost' = lost \cup {r \in Requests : row[r] = "open"}
  /\ UNCHANGED <<live, ledger, prov, aged, heard>>

Do(r) ==
  \/ Reject(r) \/ Reserve(r) \/ Send(r)
  \/ CallUnbilled(r) \/ CallAmbiguous(r) \/ CallSucceeds(r)
  \/ RunOrder(r) \/ OrderCancelled(r) \/ OrderFails(r)

Next ==
  \/ \E r \in Requests : Do(r)
  \/ \E r \in Requests : ClientLeaves(r) \/ ProviderAnswers(r)
  \/ \E r \in Requests : Age(r) \/ ReconcileOrphan(r)
  \/ Crash

Spec == Init /\ [][Next]_vars

-----------------------------------------------------------------------------
(***************************************************************************)
(* A generation the provider accepted, or may still accept, is never free: *)
(* only a request that was not sent or was turned down ends at charge 0.   *)
(***************************************************************************)
AcceptedIsCharged ==
  \A r \in Requests :
    row[r] \in Terminal /\ prov[r] \in {"inflight", "accepted"} => charge[r] = Quote

(***************************************************************************)
(* A generation's books are in order whoever closed them: well typed, a    *)
(* charge being the unit cost or nothing, and no accepted generation free. *)
(***************************************************************************)
GenerationsAccounted == TypeOK /\ AcceptedIsCharged

(***************************************************************************)
(* A call whose adapter reported it unbilled (an explicit refusal, nothing *)
(* left the process) is rolled back, unless a crash or a failed write lost *)
(* the rollback (GW-INV-50).                                               *)
(***************************************************************************)
RefusalRefunded ==
  \A r \in Requests :
    heard[r] = "unbilled" /\ row[r] \in Terminal /\ r \notin lost =>
      row[r] = "rolled_back"

(***************************************************************************)
(* Fairness: the call is bounded by its timeouts, time passes and the      *)
(* reconciler ticks.                                                       *)
(***************************************************************************)
FairSpec ==
  /\ Spec
  /\ \A r \in Requests :
       /\ WF_vars(CallUnbilled(r) \/ CallAmbiguous(r) \/ CallSucceeds(r))
       /\ WF_vars(RunOrder(r) \/ OrderCancelled(r) \/ OrderFails(r))
       /\ WF_vars(Age(r))
       /\ WF_vars(ReconcileOrphan(r))

(***************************************************************************)
(* Every generation's reservation is closed, also when the client that     *)
(* hung up cancelled its bookkeeping.                                      *)
(***************************************************************************)
ReservationsClose ==
  \A r \in Requests : (row[r] = "open") ~> (row[r] \in Terminal)

(***************************************************************************)
(* A generation implements the promise of a paid call too: Do holds the    *)
(* quote before it sends, and its accounting call or the reconciler closes *)
(* the hold, one of them, at the quote or, for what cost nothing, at zero. *)
(* An accepted generation is billed its quote at once.                     *)
(***************************************************************************)
Promise ==
  INSTANCE PaidCall WITH
    Amounts  <- {0, Quote},
    phase    <- [r \in Requests |->
                   CASE row[r] = "absent" -> "new"
                     [] row[r] = "open" -> "held"
                     [] OTHER -> "closed"],
    exposure <- [r \in Requests |->
                   CASE prov[r] = "unsent" -> "none"
                     [] prov[r] = "inflight" -> "open"
                     [] prov[r] = "accepted" -> "final"
                     [] OTHER -> "refused"],
    due      <- [r \in Requests |-> IF prov[r] = "accepted" THEN Quote ELSE 0]

ImplementsPaidCall == Promise!PaidSpec
=============================================================================
