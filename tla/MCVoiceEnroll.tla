--------------------------- MODULE MCVoiceEnroll ----------------------------
(***************************************************************************)
(* Two racing enrolments.  Of one install that already holds a voice: for  *)
(* the last place under different names, or, once the earlier voice is     *)
(* deleted, for one name.  Of two installs: only the account ceiling       *)
(* relates them.                                                           *)
(***************************************************************************)
EXTENDS VoiceEnroll, TLC

CONSTANTS r1, r2, e1, i1, i2, n1, n2, n3, s1, s2

MCRequests   == {r1, r2, e1}
MCEarlier    == {e1}
MCOneOwner   == r1 :> i1 @@ r2 :> i1 @@ e1 :> i1
MCNames      == r1 :> {n1} @@ r2 :> {n1, n2} @@ e1 :> {n3}
MCSample     == r1 :> s1 @@ r2 :> s1 @@ e1 :> s2
MCLeaseOwner == s1 :> i1 @@ s2 :> i1

MCTwoRequests == {r1, r2}
MCTwoOwners   == r1 :> i1 @@ r2 :> i2
MCTwoNames    == r1 :> {n1} @@ r2 :> {n1, n2}
MCTwoSample   == r1 :> s1 @@ r2 :> s2
MCTwoLeases   == s1 :> i1 @@ s2 :> i2
=============================================================================
