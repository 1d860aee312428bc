-------------------------- MODULE ActionLifecycle --------------------------
(***************************************************************************)
(* What the workflow promises about an action artifact, whoever asks for   *)
(* what and in whatever order: the text is the team's while the artifact   *)
(* is open, nobody's while White Cell has it, and every return opens the   *)
(* next revision of the same artifact.                                     *)
(***************************************************************************)
EXTENDS Naturals

CONSTANTS
    Actions,    \* artifact ids
    Texts       \* what an artifact can say

VARIABLES
    stage,      \* where each artifact stands
    revision,   \* which revision of it
    text        \* what it says

Stages == {"absent", "open", "review", "judged", "completed", "discarded"}

TypeOK ==
    /\ stage \in [Actions -> Stages]
    /\ revision \in [Actions -> Nat]
    /\ text \in [Actions -> Texts]

Init ==
    /\ stage = [a \in Actions |-> "absent"]
    /\ revision = [a \in Actions |-> 0]
    /\ text \in [Actions -> Texts]

Move(a, from, to) ==
    /\ stage[a] \in from
    /\ stage' = [stage EXCEPT ![a] = to]

\* The team starts an artifact.
Open(a) ==
    /\ Move(a, {"absent"}, "open")
    /\ revision' = [revision EXCEPT ![a] = 1]
    /\ \E t \in Texts : text' = [text EXCEPT ![a] = t]

\* The team rewrites it.
Edit(a) ==
    /\ stage[a] = "open"
    /\ \E t \in Texts : text' = [text EXCEPT ![a] = t]
    /\ UNCHANGED <<stage, revision>>

\* The team drops it.
Discard(a) == Move(a, {"open"}, "discarded") /\ UNCHANGED <<revision, text>>

\* The team hands it to White Cell as it stands.
Submit(a) == Move(a, {"open"}, "review") /\ UNCHANGED <<revision, text>>

\* White Cell records an outcome for it.
Judge(a) == Move(a, {"review"}, "judged") /\ UNCHANGED <<revision, text>>

\* White Cell sends it back.
Return(a) ==
    /\ Move(a, {"review", "judged"}, "open")
    /\ revision' = [revision EXCEPT ![a] = @ + 1]
    /\ UNCHANGED text

\* White Cell accepts it: nothing moves it any more.
Complete(a) == Move(a, {"review"}, "completed") /\ UNCHANGED <<revision, text>>

Next ==
    \E a \in Actions :
        \/ Open(a) \/ Edit(a) \/ Discard(a) \/ Submit(a)
        \/ Judge(a) \/ Return(a) \/ Complete(a)

Spec == Init /\ [][Next]_<<stage, revision, text>>
=============================================================================
