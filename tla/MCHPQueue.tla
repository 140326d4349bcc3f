----------------------------- MODULE MCHPQueue -----------------------------
(* Small instances of HPQueue for TLC.                                     *)
EXTENDS HPQueue, TLC

CONSTANTS b1, b2, t1, t2

OneBean  == b1 :> t1
TwoBeans == b1 :> t1 @@ b2 :> t2
=============================================================================
