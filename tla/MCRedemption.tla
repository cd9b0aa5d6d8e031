---------------------------- MODULE MCRedemption ----------------------------
(* Small instances of Redemption for TLC. *)
EXTENDS Redemption, TLC

CONSTANTS a1, r1, r2, t1, t2

\* Each redemption is worked on by one terminal.
PartitionedHandles == (t1 :> {r1}) @@ (t2 :> {r2})

\* Both terminals work on both redemptions.
SharedHandles == [t \in Terminal |-> Redemption]

\* A correction of the available points, and one that takes from the reserved
\* bucket, so that a later capture or release can be refused.
AdjustmentDeltas ==
    {[available |-> 1, reserved |-> 0, expired |-> 0],
     [available |-> 0, reserved |-> -1, expired |-> 0]}

ClawbackAndEarn == {-1, 3}

\* With shared handles neither terminals nor redemptions can be told apart.
Symmetry == Permutations(Terminal) \cup Permutations(Redemption)
=============================================================================
