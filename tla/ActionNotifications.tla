------------------------ MODULE ActionNotifications ------------------------
(***************************************************************************)
(* ActionWorkflow with the notifications that an action may ask White Cell *)
(* to send when it is accepted: the completion of such an action and the   *)
(* messages to the teams that its reviewer approved are one transaction.   *)
(*                                                                         *)
(* A message has two accounts of the action: its content, which the        *)
(* reviewer's browser wrote from the copy its modal shows, and a snapshot  *)
(* that the database takes of the row.  The messages of one transaction    *)
(* differ in their team only and are one entry here.                       *)
(***************************************************************************)
EXTENDS ActionWorkflow

CONSTANTS
    Teams,              \* those that can be informed: Green and Industry
    Requested           \* the teams that each text of the details asks to inform

ASSUME RequestedAssumption == Requested \in [0..MaxVersion -> SUBSET Teams]

VARIABLES
    communications      \* the ACTION_NOTIFICATION messages sent about each action

notifyingVars == <<vars, communications>>

Messages == [teams : SUBSET Teams, revision : Nat,
             content : Nat \X Nat \X BOOLEAN, snapshot : Nat \X Nat \X BOOLEAN]

NotifyingInit == Init /\ communications = [a \in Actions |-> <<>>]

RequestedBy(row) == Requested[row.details]

Notification(r, approved) ==
    [teams |-> approved, revision |-> calls[r].seen.revision_number,
     content |-> CoreFields(calls[r].seen),
     snapshot |-> CoreFields(actions[calls[r].action])]

\* handleArtifactReview and completeArtifact, for an action that informs nobody.
CompleteQuietly(r) ==
    /\ RequestedBy(calls[r].seen) = {}
    /\ Complete(r)
    /\ UNCHANGED communications

\* handleArtifactReview and operator_complete_action_with_notifications: the boxes
\* are those of the modal's copy, the database asks the row.
CompleteWithNotifications(r, approved) ==
    LET a == calls[r].action
    IN  /\ RequestedBy(calls[r].seen) # {}
        /\ approved \subseteq RequestedBy(calls[r].seen)
        /\ approved \subseteq RequestedBy(actions[a])
        /\ Complete(r)
        /\ communications' =
             IF approved = {} THEN communications
             ELSE [communications EXCEPT ![a] = Append(@, Notification(r, approved))]

NotifyingNext ==
    \/ StepButComplete /\ UNCHANGED communications
    \/ \E r \in Reviewers :
          \/ CompleteQuietly(r)
          \/ \E approved \in SUBSET Teams : CompleteWithNotifications(r, approved)

NotifyingSpec == NotifyingInit /\ [][NotifyingNext]_notifyingVars

-----------------------------------------------------------------------------
(* Properties.                                                              *)

\* "Atomically completes one submitted Blue/Red action and sends White Cell-approved
\* Green/Industry notifications requested by that action": teams are informed of an
\* action once at most, however often its completion is sent and by however many
\* reviewers, and only if it is completed; what they read, in the words of a browser as
\* in the snapshot, is the text it was completed with, and it asked for every one of
\* them.
InformsOnceAndTruly ==
    \A a \in Actions :
        LET sent == communications[a]
            row == actions[a]
        IN  /\ Len(sent) <= 1
            /\ \A i \in 1..Len(sent) :
                 /\ row.workflow_state = "completed"
                 /\ sent[i].revision = row.revision_number
                 /\ sent[i].content = CoreFields(row)
                 /\ sent[i].snapshot = CoreFields(row)
                 /\ sent[i].teams \subseteq RequestedBy(row)
=============================================================================
