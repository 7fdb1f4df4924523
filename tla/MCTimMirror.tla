---------------------------- MODULE MCTimMirror ----------------------------
(***************************************************************************)
(* Instances of TimMirror for TLC.                                         *)
(***************************************************************************)
EXTENDS TimMirror, TLC

CONSTANTS m1, w1, w2

WorkerSymmetry == Permutations(Workers)
=============================================================================
