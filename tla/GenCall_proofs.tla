-------------------------- MODULE GenCall_proofs ----------------------------
(***************************************************************************)
(* Proofs about the synchronous paid generation, for every set of requests *)
(* and every price.                                                        *)
(***************************************************************************)
EXTENDS GenCall, TLAPS

(***************************************************************************)
(* Where Do is, what its row is and which accounting call it has chosen: a *)
(* rollback is only chosen, and a row only rolled back, for a call that    *)
(* provably cost nothing and can no longer be sent; and the reconciler     *)
(* reaches a row only when its request is over.                            *)
(***************************************************************************)
Progress(r) ==
  /\ pc[r] = "start" => row[r] = "absent"
  /\ pc[r] \in {"calling", "booking"} => row[r] = "open"
  /\ pc[r] \in {"start", "calling"} => heard[r] = "nothing"
  /\ order[r] # "none" => pc[r] = "booking"
  /\ pc[r] = "booking" => order[r] # "none"
  /\ r \in aged => pc[r] \in {"done", "gone"}

Accounting(r) ==
  /\ order[r] = "rollback" => prov[r] \in Costless
  /\ row[r] = "rolled_back" => /\ prov[r] \in Costless
                               /\ pc[r] \in {"done", "gone"}
  /\ row[r] \in {"open", "settled", "orphaned"} => charge[r] = Quote
  /\ heard[r] = "unbilled" =>
       order[r] = "rollback" \/ row[r] = "rolled_back" \/ r \in lost \/ ~live[r]

CallInv == \A r \in Requests : Progress(r) /\ Accounting(r)

GenInv == TypeOK /\ CallInv

(***************************************************************************)
(* A call whose adapter reported it unbilled is rolled back unless a       *)
(* crash, a failed write or the departed client's cancelled context lost   *)
(* the rollback: between the report and the ledger Do loses nothing else.  *)
(* What an adapter does not report (402 and unsent calls of the image and  *)
(* video adapters) keeps its quote, live client or not.                    *)
(***************************************************************************)
LiveRefusalRefunded ==
  \A r \in Requests :
    heard[r] = "unbilled" /\ row[r] \in Terminal /\ r \notin lost /\ live[r] =>
      row[r] = "rolled_back"

-----------------------------------------------------------------------------
(* One request's step leaves the others' books alone. *)

Only(r) ==
  \A q \in Requests \ {r} :
    /\ pc'[q] = pc[q] /\ live'[q] = live[q] /\ row'[q] = row[q]
    /\ charge'[q] = charge[q] /\ order'[q] = order[q] /\ prov'[q] = prov[q]
    /\ heard'[q] = heard[q]
    /\ q \in aged' <=> q \in aged
    /\ q \in lost' <=> q \in lost

LEMMA Local ==
  ASSUME CallInv, NEW r \in Requests, Only(r), Progress(r)', Accounting(r)'
  PROVE  CallInv'
<1> SUFFICES ASSUME NEW q \in Requests PROVE Progress(q)' /\ Accounting(q)'
  BY DEF CallInv
<1>1. CASE q = r
  BY <1>1
<1>2. CASE q # r
  BY <1>2 DEF CallInv, Progress, Accounting, Only
<1>3. QED
  BY <1>1, <1>2

LEMMA InvInit == Init => GenInv
  BY GenAssumption DEF GenAssumption, Init, GenInv, TypeOK, CallInv, Progress, Accounting, Costless

LEMMA InvReturns ==
  ASSUME GenInv, NEW r \in Requests,
         NEW what \in {"unbilled", "ambiguous", "accepted"},
         NEW op \in {"settle", "rollback"}, Returns(r, what, op),
         op = "rollback" => prov[r] \in Costless,
         what = "unbilled" => op = "rollback"
  PROVE  GenInv'
<1> USE DEF GenInv, ledger
<1>0. Progress(r) /\ Accounting(r)
  BY DEF CallInv
<1>1. TypeOK' /\ Only(r)
  BY DEF Returns, Goto, TypeOK, Only
<1>2. Progress(r)' /\ Accounting(r)'
  BY <1>0 DEF Returns, Goto, TypeOK, Progress, Accounting
<1>3. QED
  BY <1>1, <1>2, Local

LEMMA InvDo ==
  ASSUME GenInv, NEW r \in Requests, Do(r)
  PROVE  GenInv'
<1> USE DEF GenInv, ledger
<1>0. Progress(r) /\ Accounting(r)
  BY DEF CallInv
<1>1. CASE Reject(r)
  <2>1. TypeOK' /\ Only(r)
    BY <1>1 DEF Reject, Goto, TypeOK, Only
  <2>2. Progress(r)' /\ Accounting(r)'
    BY <1>0, <1>1 DEF Reject, Goto, TypeOK, Progress, Accounting
  <2>3. QED
    BY <2>1, <2>2, Local
<1>2. CASE Reserve(r)
  <2>1. TypeOK' /\ Only(r)
    BY <1>2 DEF Reserve, Goto, TypeOK, Only
  <2>2. Progress(r)' /\ Accounting(r)'
    BY <1>0, <1>2 DEF Reserve, Goto, TypeOK, Progress, Accounting
  <2>3. QED
    BY <2>1, <2>2, Local
<1>3. CASE Send(r)
  <2>1. TypeOK' /\ Only(r)
    BY <1>3 DEF Send, TypeOK, Only
  <2>2. Progress(r)' /\ Accounting(r)'
    BY <1>0, <1>3 DEF Send, TypeOK, Progress, Accounting
  <2>3. QED
    BY <2>1, <2>2, Local
<1>4. CASE CallUnbilled(r)
  BY <1>4, InvReturns DEF CallUnbilled, Refundable, Costless
<1>5. CASE CallAmbiguous(r)
  BY <1>5, InvReturns DEF CallAmbiguous
<1>6. CASE CallSucceeds(r)
  BY <1>6, InvReturns DEF CallSucceeds
<1>7. CASE RunOrder(r)
  <2>1. TypeOK' /\ Only(r)
    BY <1>7, GenAssumption DEF RunOrder, Goto, TypeOK, Terminal, Only, GenAssumption
  <2>2. Progress(r)' /\ Accounting(r)'
    BY <1>0, <1>7 DEF RunOrder, Goto, TypeOK, Progress, Accounting
  <2>3. QED
    BY <2>1, <2>2, Local
<1>8. CASE OrderCancelled(r)
  <2>1. TypeOK' /\ Only(r)
    BY <1>8 DEF OrderCancelled, Goto, TypeOK, Only
  <2>2. Progress(r)' /\ Accounting(r)'
    BY <1>0, <1>8 DEF OrderCancelled, Goto, TypeOK, Progress, Accounting
  <2>3. QED
    BY <2>1, <2>2, Local
<1>9. CASE OrderFails(r)
  <2>1. TypeOK' /\ Only(r)
    BY <1>9 DEF OrderFails, Goto, TypeOK, Only
  <2>2. Progress(r)' /\ Accounting(r)'
    BY <1>0, <1>9 DEF OrderFails, Goto, TypeOK, Progress, Accounting
  <2>3. QED
    BY <2>1, <2>2, Local
<1>10. QED
  BY <1>1, <1>2, <1>3, <1>4, <1>5, <1>6, <1>7, <1>8, <1>9 DEF Do

LEMMA InvSurroundings ==
  ASSUME GenInv, NEW r \in Requests,
         ClientLeaves(r) \/ ProviderAnswers(r) \/ Age(r) \/ ReconcileOrphan(r)
  PROVE  GenInv'
<1> USE DEF GenInv, ledger
<1>0. Progress(r) /\ Accounting(r)
  BY DEF CallInv
<1>1. CASE ClientLeaves(r)
  <2>1. TypeOK' /\ Only(r)
    BY <1>1 DEF ClientLeaves, TypeOK, Only
  <2>2. ~live'[r]
    BY <1>1 DEF ClientLeaves, TypeOK
  <2>3. Progress(r)'
    BY <1>0, <1>1 DEF ClientLeaves, Progress
  <2>4. Accounting(r)'
    BY <1>0, <1>1, <2>2 DEF ClientLeaves, Accounting
  <2>5. QED
    BY <2>1, <2>3, <2>4, Local
<1>2. CASE ProviderAnswers(r)
  <2>1. TypeOK' /\ Only(r)
    BY <1>2 DEF ProviderAnswers, TypeOK, Only, Costless
  <2>2. Progress(r)' /\ Accounting(r)'
    BY <1>0, <1>2 DEF ProviderAnswers, TypeOK, Progress, Accounting, Costless
  <2>3. QED
    BY <2>1, <2>2, Local
<1>3. CASE Age(r)
  BY <1>3 DEF Age, TypeOK, CallInv, Progress, Accounting
<1>4. CASE ReconcileOrphan(r)
  <2>1. TypeOK' /\ Only(r)
    BY <1>4 DEF ReconcileOrphan, TypeOK, Terminal, Only
  <2>2. Progress(r)' /\ Accounting(r)'
    BY <1>0, <1>4 DEF ReconcileOrphan, TypeOK, Progress, Accounting
  <2>3. QED
    BY <2>1, <2>2, Local
<1>5. QED
  BY <1>1, <1>2, <1>3, <1>4

LEMMA InvCrash ==
  ASSUME GenInv, Crash
  PROVE  GenInv'
<1> USE DEF GenInv, ledger
<1>1. TypeOK'
  BY DEF Crash, TypeOK
<1>2. ASSUME NEW r \in Requests
      PROVE  Progress(r)' /\ Accounting(r)'
  <2>1. Progress(r) /\ Accounting(r)
    BY DEF CallInv
  <2>2. QED
    BY <2>1 DEF Crash, TypeOK, Progress, Accounting
<1>3. QED
  BY <1>1, <1>2 DEF CallInv

LEMMA InvNext == GenInv /\ [Next]_vars => GenInv'
<1> SUFFICES ASSUME GenInv, [Next]_vars PROVE GenInv'
  OBVIOUS
<1>1. CASE UNCHANGED vars
  BY <1>1 DEF vars, ledger, GenInv, TypeOK, CallInv, Progress, Accounting
<1>2. CASE Next
  BY <1>2, InvDo, InvSurroundings, InvCrash DEF Next
<1>3. QED
  BY <1>1, <1>2

LEMMA Invariant == Spec => []GenInv
  BY InvInit, InvNext, PTL DEF Spec

-----------------------------------------------------------------------------
(***************************************************************************)
(* Do's books are in order for every price: the state is well typed, and a *)
(* generation the provider accepted, or may still accept, is never free,   *)
(* whatever the client, the ledger's writes, the reconciler and the        *)
(* process do.                                                             *)
(***************************************************************************)
THEOREM GenerationsKeepBooks == Spec => []GenerationsAccounted
<1>1. GenInv => GenerationsAccounted
  BY DEF GenInv, CallInv, Accounting, GenerationsAccounted, AcceptedIsCharged, Terminal, Costless
<1>2. QED
  BY <1>1, Invariant, PTL

(***************************************************************************)
(* Do rolls back every call its adapter reported unbilled and whose client *)
(* is still there, unless a crash or a failed write lost the rollback: the *)
(* reconciler never overtakes it.                                          *)
(***************************************************************************)
THEOREM LiveRefusalIsRefunded == Spec => []LiveRefusalRefunded
<1>1. GenInv => LiveRefusalRefunded
  BY DEF GenInv, CallInv, Progress, Accounting, LiveRefusalRefunded, Terminal
<1>2. QED
  BY <1>1, Invariant, PTL

-----------------------------------------------------------------------------
(***************************************************************************)
(* The refinement of the paid call's promise.                              *)
(***************************************************************************)
PhaseOf(s) ==
  CASE s = "absent" -> "new"
    [] s = "open" -> "held"
    [] OTHER -> "closed"

ExposureOf(p) ==
  CASE p = "unsent" -> "none"
    [] p = "inflight" -> "open"
    [] p = "accepted" -> "final"
    [] OTHER -> "refused"

DueOf(p) == IF p = "accepted" THEN Quote ELSE 0

Phase    == [r \in Requests |-> PhaseOf(row[r])]
Exposure == [r \in Requests |-> ExposureOf(prov[r])]
Due      == [r \in Requests |-> DueOf(prov[r])]

\* One row, or one call at the provider, changes at a time.
LEMMA MappedStep ==
  ASSUME TypeOK, NEW r \in Requests
  PROVE  /\ \A s : row' = [row EXCEPT ![r] = s] => Phase' = [Phase EXCEPT ![r] = PhaseOf(s)]
         /\ \A p : prov' = [prov EXCEPT ![r] = p] =>
                     /\ Exposure' = [Exposure EXCEPT ![r] = ExposureOf(p)]
                     /\ Due' = [Due EXCEPT ![r] = DueOf(p)]
         /\ row' = row => Phase' = Phase
         /\ prov' = prov => Exposure' = Exposure /\ Due' = Due
  BY DEF TypeOK, Phase, Exposure, Due

\* The initial state promises nothing yet.
LEMMA RefinesInit == Init => Promise!PaidInit
<1> SUFFICES ASSUME Init PROVE Promise!PaidInit
  OBVIOUS
<1>1. Phase = [r \in Requests |-> "new"]
  BY DEF Init, Phase, PhaseOf
<1>2. Exposure = [r \in Requests |-> "none"] /\ Due = [r \in Requests |-> 0]
  BY DEF Init, Exposure, ExposureOf, Due, DueOf
<1>3. QED
  BY <1>1, <1>2 DEF Init, Promise!PaidInit, Phase, PhaseOf, Exposure, ExposureOf, Due, DueOf

\* Whatever closes an open row charges the quote, or nothing for what cost nothing.
LEMMA Closes ==
  ASSUME TypeOK, NEW r \in Requests, row[r] = "open",
         NEW s \in Terminal, row' = [row EXCEPT ![r] = s],
         NEW a \in {0, Quote}, charge' = [charge EXCEPT ![r] = a], prov' = prov,
         a = Quote \/ prov[r] \in Costless
  PROVE  Promise!PaidNext
<1>1. Phase[r] = "held" /\ Phase' = [Phase EXCEPT ![r] = "closed"]
  BY MappedStep DEF Phase, PhaseOf, Terminal
<1>2. Exposure' = Exposure /\ Due' = Due
  BY MappedStep
<1>3. \/ a >= Quote
      \/ Exposure[r] \in {"none", "refused"} /\ a = 0
  BY GenAssumption DEF GenAssumption, Exposure, ExposureOf, Costless
<1>4. Promise!Close(r, a)
  BY <1>1, <1>2, <1>3
  DEF Promise!Close, Promise!Justified, Phase, PhaseOf, Exposure, ExposureOf, Due, DueOf
<1>5. QED
  BY <1>4 DEF Promise!PaidNext

\* Every step of a generation is a step of the promise, or none of its business.
LEMMA RefinesNext == GenInv /\ [Next]_vars => [Promise!PaidNext]_(Promise!paidVars)
<1> SUFFICES ASSUME GenInv, [Next]_vars
             PROVE  Promise!PaidNext \/ UNCHANGED Promise!paidVars
  OBVIOUS
<1> USE DEF ledger
<1>1. ASSUME UNCHANGED <<row, charge, prov>>
      PROVE  UNCHANGED Promise!paidVars
  BY <1>1 DEF Promise!paidVars
<1>2. ASSUME NEW r \in Requests, Reserve(r)
      PROVE  Promise!PaidNext
  <2>1. row[r] = "absent"
    BY <1>2 DEF Reserve, GenInv, CallInv, Progress
  <2>2. Phase[r] = "new" /\ Phase' = [Phase EXCEPT ![r] = "held"]
    BY <1>2, <2>1, MappedStep DEF Reserve, GenInv, Phase, PhaseOf
  <2>3. Exposure' = Exposure /\ Due' = Due /\ charge' = [charge EXCEPT ![r] = Quote]
    BY <1>2, MappedStep DEF Reserve, GenInv
  <2>4. Promise!Hold(r)
    BY <2>2, <2>3 DEF Promise!Hold, Phase, PhaseOf, Exposure, ExposureOf, Due, DueOf
  <2>5. QED
    BY <2>4 DEF Promise!PaidNext
<1>3. ASSUME NEW r \in Requests, Send(r)
      PROVE  Promise!PaidNext
  <2>1. row[r] = "open" /\ prov[r] = "unsent" /\ prov' = [prov EXCEPT ![r] = "inflight"]
    BY <1>3 DEF Send, GenInv, CallInv, Progress
  <2>2. Exposure' = [Exposure EXCEPT ![r] = "open"] /\ Due' = [Due EXCEPT ![r] = 0]
    <3>1. /\ Exposure' = [Exposure EXCEPT ![r] = ExposureOf("inflight")]
          /\ Due' = [Due EXCEPT ![r] = DueOf("inflight")]
      BY <2>1, MappedStep DEF GenInv
    <3>2. QED
      BY <3>1 DEF ExposureOf, DueOf
  <2>3. Phase[r] = "held" /\ Exposure[r] = "none" /\ Due[r] = 0
    BY <2>1 DEF Phase, PhaseOf, Exposure, ExposureOf, Due, DueOf
  <2>4. Due' = Due
    BY <2>2, <2>3 DEF Due
  <2>5. Phase' = Phase /\ charge' = charge
    BY <1>3, MappedStep DEF Send, GenInv
  <2>6. Promise!Send(r)
    BY <2>2, <2>3, <2>4, <2>5
    DEF Promise!Send, Phase, PhaseOf, Exposure, ExposureOf, Due, DueOf
  <2>7. QED
    BY <2>6 DEF Promise!PaidNext
<1>4. ASSUME NEW r \in Requests, ProviderAnswers(r)
      PROVE  Promise!PaidNext
  <2>1. PICK p \in {"accepted", "refused", "declined"} : prov' = [prov EXCEPT ![r] = p]
    BY <1>4 DEF ProviderAnswers
  <2>2. prov[r] = "inflight" /\ row' = row /\ charge' = charge
    BY <1>4 DEF ProviderAnswers
  <2>3. Exposure[r] = "open" /\ Due[r] = 0 /\ Phase' = Phase
    BY <2>2, MappedStep DEF GenInv, Exposure, ExposureOf, Due, DueOf
  <2>4. /\ Exposure' = [Exposure EXCEPT ![r] = ExposureOf(p)]
        /\ Due' = [Due EXCEPT ![r] = DueOf(p)]
    BY <2>1, MappedStep DEF GenInv
  <2>5. CASE p = "accepted"
    <3>1. Exposure' = [Exposure EXCEPT ![r] = "final"] /\ Due' = [Due EXCEPT ![r] = Quote]
      BY <2>4, <2>5 DEF ExposureOf, DueOf
    <3>2. Quote >= 0
      BY GenAssumption DEF GenAssumption
    <3>3. Promise!Bill(r, Quote)
      BY <2>2, <2>3, <3>1, <3>2
      DEF Promise!Bill, Phase, PhaseOf, Exposure, ExposureOf, Due, DueOf
    <3>4. QED
      BY <3>3 DEF Promise!PaidNext
  <2>6. CASE p \in {"refused", "declined"}
    <3>1. Exposure' = [Exposure EXCEPT ![r] = "refused"] /\ Due' = [Due EXCEPT ![r] = 0]
      BY <2>4, <2>6 DEF ExposureOf, DueOf
    <3>2. Due' = Due
      BY <2>3, <3>1 DEF Due
    <3>3. Promise!Refuse(r)
      BY <2>2, <2>3, <3>1, <3>2
      DEF Promise!Refuse, Phase, PhaseOf, Exposure, ExposureOf, Due, DueOf
    <3>4. QED
      BY <3>3 DEF Promise!PaidNext
  <2>7. QED
    BY <2>5, <2>6
<1>5. ASSUME NEW r \in Requests, RunOrder(r)
      PROVE  Promise!PaidNext \/ UNCHANGED Promise!paidVars
  <2>1. Progress(r) /\ Accounting(r) /\ TypeOK
    BY DEF GenInv, CallInv
  <2>2. order[r] \in {"settle", "rollback"}
    BY <1>5, <2>1 DEF RunOrder, Progress, TypeOK
  <2>3. CASE row[r] = "open" /\ order[r] = "settle"
    <3>1. row' = [row EXCEPT ![r] = "settled"] /\ charge' = charge /\ prov' = prov
      BY <1>5, <2>3 DEF RunOrder
    <3>2. charge[r] = Quote /\ charge' = [charge EXCEPT ![r] = Quote]
      BY <2>1, <2>3, <3>1 DEF Accounting, TypeOK
    <3>3. QED
      BY <2>1, <2>3, <3>1, <3>2, Closes DEF Terminal
  <2>4. CASE row[r] = "open" /\ order[r] = "rollback"
    <3>1. /\ row' = [row EXCEPT ![r] = "rolled_back"]
          /\ charge' = [charge EXCEPT ![r] = 0] /\ prov' = prov
      BY <1>5, <2>4 DEF RunOrder
    <3>2. prov[r] \in Costless
      BY <2>1, <2>4 DEF Accounting
    <3>3. QED
      BY <2>1, <2>4, <3>1, <3>2, Closes DEF Terminal
  <2>5. CASE row[r] # "open"
    BY <1>1, <1>5, <2>5 DEF RunOrder
  <2>6. QED
    BY <2>2, <2>3, <2>4, <2>5
<1>6. ASSUME NEW r \in Requests, ReconcileOrphan(r)
      PROVE  Promise!PaidNext
  <2>1. /\ row[r] = "open" /\ row' = [row EXCEPT ![r] = "orphaned"]
        /\ charge' = charge /\ prov' = prov
    BY <1>6 DEF ReconcileOrphan
  <2>2. TypeOK /\ charge[r] = Quote
    BY <2>1 DEF GenInv, CallInv, Accounting
  <2>3. charge' = [charge EXCEPT ![r] = Quote]
    BY <2>1, <2>2 DEF TypeOK
  <2>4. QED
    BY <2>1, <2>2, <2>3, Closes DEF Terminal
<1>7. ASSUME NEW r \in Requests, Do(r)
      PROVE  Promise!PaidNext \/ UNCHANGED Promise!paidVars
  BY <1>1, <1>2, <1>3, <1>5, <1>7
  DEF Do, Reject, CallUnbilled, CallAmbiguous, CallSucceeds, Returns, OrderCancelled, OrderFails
<1>8. QED
  BY <1>1, <1>4, <1>6, <1>7 DEF Next, vars, ClientLeaves, Age, Crash

(***************************************************************************)
(* A generation implements the promise of a paid call, for every price:    *)
(* Do, the client that cancels its bookkeeping, the reconciler and the     *)
(* crashes between them never send what is not held and close every hold   *)
(* at most once, at the quote or, for what cost nothing, at zero.          *)
(***************************************************************************)
THEOREM GenerationImplementsPaidCall == Spec => ImplementsPaidCall
  BY RefinesInit, RefinesNext, Invariant, PTL DEF Spec, ImplementsPaidCall, Promise!PaidSpec
=============================================================================
