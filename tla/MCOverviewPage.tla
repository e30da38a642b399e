--------------------------- MODULE MCOverviewPage ---------------------------
(***************************************************************************)
(* Two calls at once: a poll overtaking a poll, and a reset beside a poll  *)
(* or beside the reset of an earlier mount.                                *)
(***************************************************************************)
EXTENDS OverviewPage
=============================================================================
