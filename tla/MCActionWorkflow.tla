-------------------------- MODULE MCActionWorkflow --------------------------
(* Instances of ActionWorkflow, with its notifications, for TLC. *)
EXTENDS ActionNotifications, TLC

CONSTANTS green, industry

ReviewerSymmetry == Permutations(Reviewers)

\* The first text asks for both teams, and each later one for another choice.
MCRequested ==
    [text \in 0..MaxVersion |->
        CASE text % 3 = 0 -> {} [] text % 3 = 1 -> {green, industry} [] text % 3 = 2 -> {green}]
=============================================================================
