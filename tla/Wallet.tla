------------------------------- MODULE Wallet -------------------------------
(***************************************************************************)
(* What the quota ledger promises of the operator's monthly wallet.  A     *)
(* request holds an amount of a month's wallet, admitted against the exact *)
(* sum of everything held or spent in that month, and is closed once, at   *)
(* any amount.  There are no aggregate tables here: the wallet is the sum. *)
(***************************************************************************)
EXTENDS Integers, FiniteSets, Tally

CONSTANTS
  Requests, Months,
  WalletLimits,  \* the limits that may be configured
  MaxInt,
  None

VARIABLES
  phase,   \* "new", "held" or "closed"
  month,   \* the month whose wallet the request draws on
  amount,  \* what it holds or, once closed, what it spent
  ceiling  \* the largest limit in force so far

walletVars == <<phase, month, amount, ceiling>>

Committed(m) ==
  Total([r \in Requests |-> IF month[r] = m THEN amount[r] ELSE 0], MaxInt)

WalletInit ==
  /\ phase = [r \in Requests |-> "new"]
  /\ month = [r \in Requests |-> None]
  /\ amount = [r \in Requests |-> 0]
  /\ ceiling \in WalletLimits

Hold(r, m, a) ==
  /\ phase[r] = "new"
  /\ Committed(m) + a <= ceiling
  /\ phase' = [phase EXCEPT ![r] = "held"]
  /\ month' = [month EXCEPT ![r] = m]
  /\ amount' = [amount EXCEPT ![r] = a]
  /\ UNCHANGED ceiling

\* A charge may exceed what was held (the provider already spent it), but the
\* sum must stay representable.
Close(r, a) ==
  /\ phase[r] = "held"
  /\ Committed(month[r]) - amount[r] + a <= MaxInt
  /\ phase' = [phase EXCEPT ![r] = "closed"]
  /\ amount' = [amount EXCEPT ![r] = a]
  /\ UNCHANGED <<month, ceiling>>

\* A reload to a larger limit; a smaller one binds later requests only.
Raise(limit) ==
  /\ limit > ceiling
  /\ ceiling' = limit
  /\ UNCHANGED <<phase, month, amount>>

WalletNext ==
  \/ \E r \in Requests :
       \/ \E m \in Months, a \in 1..MaxInt : Hold(r, m, a)
       \/ \E a \in 0..MaxInt : Close(r, a)
  \/ \E limit \in WalletLimits : Raise(limit)

WalletSpec == WalletInit /\ [][WalletNext]_walletVars
=============================================================================
