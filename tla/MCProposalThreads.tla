------------------------- MODULE MCProposalThreads -------------------------
(* Instances of ProposalThreads for TLC. *)
EXTENDS ProposalThreads, TLC

RecipientSymmetry == Permutations(Recipients)
=============================================================================
