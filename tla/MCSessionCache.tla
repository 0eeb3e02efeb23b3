---------------------------- MODULE MCSessionCache ----------------------------
(***************************************************************************)
(* Three evaluations of two sessions in packs of two: the first session    *)
(* fills one pack and the whole index needs two.                           *)
(***************************************************************************)
EXTENDS SessionCache, TLC

SomeSessionOf == 1 :> 1 @@ 2 :> 1 @@ 3 :> 2
=============================================================================
