------------------------- MODULE MCAutonomyDispatch -------------------------
(***************************************************************************)
(* Instances of AutonomyDispatch for TLC.                                  *)
(***************************************************************************)
EXTENDS AutonomyDispatch, TLC

CONSTANTS t1, t2, w1, w2

ReplyTask == [t \in Tasks |-> "reply_to_message"]
BrowseThenReply == [t \in Tasks |-> IF t = t1 THEN "browse_online"
                                    ELSE "reply_to_message"]

\* Later versions of the setting allow fewer actions.
ShrinkingTotal == [v \in Versions |-> IF v = 1 THEN 2 ELSE 1]
ShrinkingCategory == [v \in Versions |-> [c \in Categories |->
                        IF v = 1 THEN 2 ELSE 1]]

WorkerSymmetry == Permutations(Workers)
=============================================================================
