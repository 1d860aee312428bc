------------------------- MODULE MCRequestWorkflow -------------------------
(* Instances of RequestWorkflow for TLC. *)
EXTENDS RequestWorkflow, TLC

Symmetry == Permutations(Facilitators) \cup Permutations(Reviewers)
              \cup Permutations(Questions) \cup Permutations(Keys)
              \cup Permutations(Requests)
=============================================================================
