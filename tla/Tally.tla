------------------------------- MODULE Tally --------------------------------
(***************************************************************************)
(* The sum of a function's values, as the cardinality of a set of coins.   *)
(* A balance column of the gateway's database is a sum over ledger rows;   *)
(* counting coins states that sum without recursion, so the same           *)
(* definition is evaluated by TLC and reasoned about by TLAPS.             *)
(***************************************************************************)
EXTENDS Integers, FiniteSets

\* Element x of w's domain contributes the coins <<x,1>> .. <<x,w[x]>>; every
\* w[x] is in 0..cap.
Coins(w, cap) == {c \in (DOMAIN w) \X (1..cap) : c[2] <= w[c[1]]}

\* The sum of w[x] over the domain of w.
Total(w, cap) == Cardinality(Coins(w, cap))
=============================================================================
