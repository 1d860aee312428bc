--------------------------- MODULE MCScopedNotes ---------------------------
(* Instances of ScopedNotes for TLC. *)
EXTENDS ScopedNotes, TLC

Symmetry == Permutations(Tabs) \cup Permutations(Texts) \cup Permutations(Moves)
=============================================================================
