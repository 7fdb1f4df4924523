---------------------------- MODULE MCNativeMedia ----------------------------
(* Instances of NativeMedia for TLC. *)
EXTENDS NativeMedia, TLC

CONSTANTS u1, u2, a1, alice, bob, r1, r2

\* The archived file of another user competes for the system-wide quota only.
MCOwner == (u1 :> alice) @@ (u2 :> alice) @@ (a1 :> bob)
MCLimit == (System :> 2) @@ (alice :> 2) @@ (bob :> 1)
MCSlotOwner == [s \in Slots |-> alice]
RequestSymmetry == Permutations({r1, r2})

=============================================================================
