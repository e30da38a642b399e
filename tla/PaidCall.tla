------------------------------ MODULE PaidCall ------------------------------
(***************************************************************************)
(* What the gateway promises of a paid call, whatever carries it: its full *)
(* quote is held before anything is sent, and the hold is closed at most   *)
(* once, at an amount the call's exposure at the provider justifies.  No   *)
(* handler, queue, goroutine, reconciler or crash is visible here.         *)
(***************************************************************************)
EXTENDS Integers

CONSTANTS
  Requests,
  Quote,     \* what every call holds
  Amounts    \* what a call may be billed or charged

VARIABLES
  phase,     \* "new", "held" or "closed"
  charge,    \* what the wallet holds or has spent for the call
  exposure,  \* at the provider: "none", "open", "refused" or "final"
  due        \* what the provider has billed so far

paidVars == <<phase, charge, exposure, due>>

PaidInit ==
  /\ phase = [r \in Requests |-> "new"]
  /\ charge = [r \in Requests |-> 0]
  /\ exposure = [r \in Requests |-> "none"]
  /\ due = [r \in Requests |-> 0]

Hold(r) ==
  /\ phase[r] = "new"
  /\ phase' = [phase EXCEPT ![r] = "held"]
  /\ charge' = [charge EXCEPT ![r] = Quote]
  /\ UNCHANGED <<exposure, due>>

\* Nothing is sent that is not paid for, and nothing after the books closed.
Send(r) ==
  /\ phase[r] = "held"
  /\ exposure[r] = "none"
  /\ exposure' = [exposure EXCEPT ![r] = "open"]
  /\ UNCHANGED <<phase, charge, due>>

\* A refusal costs nothing.
Refuse(r) ==
  /\ exposure[r] = "open"
  /\ due[r] = 0
  /\ exposure' = [exposure EXCEPT ![r] = "refused"]
  /\ UNCHANGED <<phase, charge, due>>

\* Otherwise the bill grows until it is final, also after the books closed.
Bill(r, amount) ==
  /\ exposure[r] = "open"
  /\ amount >= due[r]
  /\ due' = [due EXCEPT ![r] = amount]
  /\ \E e \in {"open", "final"} : exposure' = [exposure EXCEPT ![r] = e]
  /\ UNCHANGED <<phase, charge>>

\* Less than the quote is charged only when the bill is known to be final, or
\* known never to come.
Justified(r, amount) ==
  \/ amount >= Quote
  \/ exposure[r] = "final" /\ amount = due[r]
  \/ exposure[r] \in {"none", "refused"} /\ amount = 0

Close(r, amount) ==
  /\ phase[r] = "held"
  /\ Justified(r, amount)
  /\ phase' = [phase EXCEPT ![r] = "closed"]
  /\ charge' = [charge EXCEPT ![r] = amount]
  /\ UNCHANGED <<exposure, due>>

PaidNext ==
  \E r \in Requests :
    \/ Hold(r) \/ Send(r) \/ Refuse(r)
    \/ \E amount \in Amounts : Bill(r, amount) \/ Close(r, amount)

PaidSpec == PaidInit /\ [][PaidNext]_paidVars
=============================================================================
