---------------------------- MODULE MCSeatLease ----------------------------
EXTENDS SeatLease, TLC
CONSTANTS a, b, facilitator, notetaker
\* A role with one place, such as a facilitator, and a notetaker role with two.
MCCapacity == (facilitator :> 1) @@ (notetaker :> 2)
PeopleSymmetry == Permutations(People)
MCOnePlace == facilitator :> 1
=============================================================================
