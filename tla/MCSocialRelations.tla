------------------------- MODULE MCSocialRelations -------------------------
(***************************************************************************)
(* An instance of SocialRelations for TLC: two accounts, of which one may  *)
(* send an operation_id again, and legacy rows that can contradict local   *)
(* ones.                                                                   *)
(***************************************************************************)
EXTENDS SocialRelations

CONSTANTS u1, u2, op

RetriedOps == {<<u1, op>>}
ReportedRows == {<<u1, u2, "blacklist">>, <<u2, u1, "blacklisted_by">>,
                 <<u2, u1, "friend">>, <<u1, u2, "mirror">>}
=============================================================================
