------------------------------ MODULE MCWebLogin ------------------------------
(* Instances of WebLogin for TLC. *)
EXTENDS WebLogin, TLC

CONSTANTS s1, s2, u1, u2, p1, p2, r1, r2

OneUse == [i \in Invites |-> 1]
Symmetries == Permutations(Requests) \cup Permutations(Sids)

=============================================================================
