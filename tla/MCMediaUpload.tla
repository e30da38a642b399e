--------------------------- MODULE MCMediaUpload ----------------------------
(***************************************************************************)
(* A two-byte upload.  A chunk is the right first byte, a damaged byte, or *)
(* both bytes at once; the last one does not fit after the first byte, so  *)
(* oversized requests occur as well.                                       *)
(***************************************************************************)
EXTENDS MediaUpload, TLC

CONSTANTS h1, h2

MCExpected == <<"a", "a">>
MCChunks   == {<<"a">>, <<"b">>, <<"a", "a">>}
MCHandlers == {h1, h2}
Symmetry   == Permutations({h1, h2})
=============================================================================
