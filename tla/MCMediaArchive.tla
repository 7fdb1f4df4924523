---------------------------- MODULE MCMediaArchive ---------------------------
(* Instances of MediaArchive for TLC. *)
EXTENDS MediaArchive, TLC

CONSTANTS f1, w1, w2

=============================================================================
