--------------------------- MODULE MCQuotaLedger ----------------------------
(***************************************************************************)
(* Small instances of QuotaLedger for TLC: two requests of two installs,   *)
(* a plan with a category and one without, a day that crosses a month, and *)
(* limits that are reloaded between a snapshot and its transaction.        *)
(***************************************************************************)
EXTENDS QuotaLedger, TLC

\* Day 1 lies in the first month, day 2 in the second.
MCDays == 1..2
MCMonths == {1, 2}
MCMonthOf == [d \in MCDays |-> d]
MCProviders == {"qwen"}

TextPlan == [provider |-> "qwen", class |-> "standard", quote |-> 1, reserved |-> 2]
VideoPlan == [provider |-> "qwen", class |-> "video_seconds", quote |-> 2, reserved |-> 1]

MCPlans == {TextPlan, VideoPlan}

Caps(n) == [c \in Categories |-> n]
Loose == [monthly |-> 2, wallet |-> 4, sublimit |-> 0, cap |-> Caps(0)]
Tight == [monthly |-> 1, wallet |-> 2, sublimit |-> 1, cap |-> Caps(1)]
MCLimitSets == {Loose, Tight}

MCSymmetry == Permutations(Requests) \cup Permutations(Installs)
=============================================================================
