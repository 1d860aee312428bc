----------------------------- MODULE ActionRow -----------------------------
(***************************************************************************)
(* One row of public.actions, and what the database makes of a write to    *)
(* it: the BEFORE trigger normalize_action_workflow_write (which status    *)
(* changes it admits, which workflow_state, revision and row_version it    *)
(* stores) and the row level security policies of the two participant      *)
(* surfaces.  Everything here is a function of rows; ActionWorkflow adds   *)
(* the sessions that read and write them.                                  *)
(*                                                                         *)
(* A row's text is abstracted to a stamp, the row_version of the write     *)
(* that last set it, kept for the two parts that different seats write:    *)
(* "goal" stands for goal, expected_outcomes, mechanism, ... (the columns  *)
(* of the Scribe's form), "details" for the structured block in            *)
(* ally_contingencies, and "handoff" for that block's "Scribe Handoff"     *)
(* line (TRUE when it says Forwarded).                                     *)
(***************************************************************************)
EXTENDS Naturals

Statuses == {"absent", "draft", "submitted", "adjudicated"}

WorkflowStates ==
    {"none", "draft", "forwarded_to_facilitator", "submitted_to_white_cell",
     "returned_to_team", "resubmitted", "adjudicated", "completed"}

Rows == [status : Statuses, workflow_state : WorkflowStates,
         revision_number : Nat, row_version : Nat,
         goal : Nat, details : Nat, handoff : BOOLEAN, is_deleted : BOOLEAN]

\* A row that has not been inserted.
AbsentRow == [status |-> "absent", workflow_state |-> "none",
              revision_number |-> 0, row_version |-> 0,
              goal |-> 0, details |-> 0, handoff |-> FALSE, is_deleted |-> FALSE]

\* The columns the trigger compares to decide that the content changed.
CoreFields(row) == <<row.goal, row.details, row.handoff>>

\* The artifact is before White Cell and can be completed.
UnderReview(row) ==
    /\ row.status = "submitted"
    /\ row.workflow_state \in {"submitted_to_white_cell", "resubmitted"}

-----------------------------------------------------------------------------
(* The insert path: a draft of revision 1 and version 1.                    *)

InsertedDraft(handoff) ==
    [status |-> "draft",
     workflow_state |-> IF handoff THEN "forwarded_to_facilitator" ELSE "draft",
     revision_number |-> 1, row_version |-> 1,
     goal |-> 1, details |-> 1, handoff |-> handoff, is_deleted |-> FALSE]

-----------------------------------------------------------------------------
(* The update path.  "old" is the stored row, "new" the row the statement   *)
(* asks for, "reviewer" whether the session is an authorized White Cell     *)
(* operator.                                                                *)

ReturningToTeam(old, new, reviewer) ==
    /\ old.status \in {"submitted", "adjudicated"}
    /\ new.status = "draft"
    /\ new.workflow_state = "returned_to_team"
    /\ reviewer

StatusChangeAllowed(old, new, reviewer) ==
    \/ new.status = old.status
    \/ old.status = "draft" /\ new.status = "submitted"
    \/ old.status = "submitted" /\ new.status = "adjudicated"
    \/ ReturningToTeam(old, new, reviewer)

\* Mutant: the trigger without its soft-delete check.
UpdateAcceptedWithoutDeleteCheck(old, new, reviewer) ==
    /\ old.workflow_state # "completed"
    /\ old.status \in {"submitted", "adjudicated"} /\ new.status = old.status
         => CoreFields(new) = CoreFields(old)
    /\ StatusChangeAllowed(old, new, reviewer)

\* The writes the trigger does not reject with SQLSTATE 23514.
UpdateAccepted(old, new, reviewer) ==
    /\ old.workflow_state # "completed"
    /\ old.status \in {"submitted", "adjudicated"} /\ new.status = old.status
         => CoreFields(new) = CoreFields(old)
    /\ StatusChangeAllowed(old, new, reviewer)
    /\ old.is_deleted => new.is_deleted
    /\ new.is_deleted /\ ~old.is_deleted => old.status = "draft"

\* Mutant: the workflow state of the first review workflow, which the team-neutral
\* one no longer writes.
DraftStateLegacy(old, new, reviewer) ==
    IF ReturningToTeam(old, new, reviewer) THEN "returned_to_blue"
    ELSE IF new.handoff THEN "forwarded_to_facilitator" ELSE "draft"

DraftState(old, new, reviewer) ==
    IF ReturningToTeam(old, new, reviewer) \/ old.workflow_state = "returned_to_team"
    THEN "returned_to_team"
    ELSE IF new.handoff THEN "forwarded_to_facilitator" ELSE "draft"

SubmittedState(old) ==
    IF old.workflow_state \in {"returned_to_team", "resubmitted"}
    THEN "resubmitted" ELSE "submitted_to_white_cell"

AdjudicatedState(new, reviewer) ==
    IF new.workflow_state = "completed" /\ reviewer THEN "completed" ELSE "adjudicated"

\* Mutant: a write that takes no version.
NextRowVersionKept(old) == old.row_version

NextRowVersion(old) == old.row_version + 1

\* The workflow state is the server's, whatever the client sent.
WorkflowState(old, new, reviewer) ==
    CASE new.status = "draft" -> DraftState(old, new, reviewer)
      [] new.status = "submitted" -> SubmittedState(old)
      [] new.status = "adjudicated" -> AdjudicatedState(new, reviewer)
      [] OTHER -> "none"

\* The row the trigger lets through: every write takes the next row_version.
Normalized(old, new, reviewer) ==
    [new EXCEPT !.workflow_state = WorkflowState(old, new, reviewer),
                !.row_version = NextRowVersion(old)]

-----------------------------------------------------------------------------
(* Policy actions_live_demo_update.  The database calls the Scribe seat     *)
(* "facilitator" and the Facilitator seat "scribe".                         *)

ScribeMayUpdate(old, new) == new.status # "adjudicated"

FacilitatorMayUpdate(old, new) ==
    /\ old.status = "draft" /\ old.handoff
    /\ new.status \in {"draft", "submitted"} /\ new.handoff
=============================================================================
