----------------------------- MODULE MCGenCall ------------------------------
(***************************************************************************)
(* A picture and a spoken text at a quote of one unit; each may be         *)
(* cancelled by its client at any step.                                    *)
(***************************************************************************)
EXTENDS GenCall
=============================================================================
