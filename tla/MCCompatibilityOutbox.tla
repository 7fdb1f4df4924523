----------------------- MODULE MCCompatibilityOutbox -----------------------
(***************************************************************************)
(* Instances of CompatibilityOutbox for TLC: a post that is published, and *)
(* then deleted by an operation that needs the id of the published post.   *)
(***************************************************************************)
EXTENDS CompatibilityOutbox, TLC

CONSTANTS publish, delete, w1, w2

WorkerSymmetry == Permutations(Workers)
MCNeeds == [o \in Ops |-> IF o = delete THEN {publish} ELSE {}]
=============================================================================
