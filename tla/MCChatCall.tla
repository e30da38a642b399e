---------------------------- MODULE MCChatCall -----------------------------
(***************************************************************************)
(* Two chat requests over one global slot: the second queues behind the    *)
(* first.  At a quote of two, the bill of the first may be one below, at   *)
(* or one above it; that of the second is below.                           *)
(***************************************************************************)
EXTENDS ChatCall

CONSTANTS r1, r2

MCBillOf == [r \in Requests |-> IF r = r1 THEN 3 ELSE 1]
=============================================================================
