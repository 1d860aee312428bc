--------------------------- MODULE ActionWorkflow ---------------------------
(***************************************************************************)
(* The action artifacts of one team as Scribe, Facilitator and White Cell  *)
(* sessions work on them at once: each session reads, lets its user think, *)
(* and writes later, against the rows of public.actions.                   *)
(*                                                                         *)
(* A session's call walks through the awaits of the client code.  "seen"   *)
(* is the copy in the local store its form or review modal was opened      *)
(* from, "read" the row getAction returned to the call.  A call can fail   *)
(* at each await and a write can be applied without its answer arriving;   *)
(* the user then tries again from the same form, or closes it.             *)
(***************************************************************************)
EXTENDS ActionRow, Sequences

CONSTANTS
    Actions,            \* ids of action rows
    NeedsSelections,    \* those that are team actions, whose Facilitator adds
                        \* selections to the details while submitting; the
                        \* others are proposals and orientations
    Scribes,            \* sessions on the Scribe surface
    Facilitators,       \* sessions on the Facilitator surface
    Reviewers,          \* sessions on the White Cell surface
    MaxVersion          \* bound on row_version: no row is written more often

ASSUME NeedsSelectionsAssumption == NeedsSelections \subseteq Actions
ASSUME SurfacesAssumption ==
    /\ Scribes \cap Facilitators = {}
    /\ Scribes \cap Reviewers = {}
    /\ Facilitators \cap Reviewers = {}
ASSUME ActionsAssumption == Actions # {}
ASSUME MaxVersionAssumption == MaxVersion \in Nat

VARIABLES
    actions,            \* public.actions
    action_logs,        \* public.action_logs, one append-only sequence per action
    reviews,            \* public.artifact_workflow_reviews, likewise
    calls               \* what each session is in the middle of

vars == <<actions, action_logs, reviews, calls>>

Sessions == Scribes \cup Facilitators \cup Reviewers

Ops == {"none", "edit", "forward", "delete", "submit", "review"}
Steps == {"idle", "open", "read", "drafted", "submitting"}

Calls == [op : Ops, step : Steps, action : Actions, seen : Rows, read : Rows]

LogEntries == [status_from : Statuses, status_to : Statuses, row_version : Nat]

ReviewRows == [decision : {"complete", "return_to_team"},
               revision_number : Nat, next_revision_number : Nat,
               prior_status : Statuses]

NoCall == [op |-> "none", step |-> "idle", action |-> CHOOSE a \in Actions : TRUE,
           seen |-> AbsentRow, read |-> AbsentRow]

TypeOK ==
    /\ actions \in [Actions -> Rows]
    /\ action_logs \in [Actions -> Seq(LogEntries)]
    /\ reviews \in [Actions -> Seq(ReviewRows)]
    /\ calls \in [Sessions -> Calls]

Init ==
    /\ actions = [a \in Actions |-> AbsentRow]
    /\ action_logs = [a \in Actions |-> <<>>]
    /\ reviews = [a \in Actions |-> <<>>]
    /\ calls = [s \in Sessions |-> NoCall]

-----------------------------------------------------------------------------
(* Writing a row: the trigger, the row, and the audit trigger's log entry.  *)

LogEntry(old, new, version) ==
    [status_from |-> old.status, status_to |-> new.status, row_version |-> version]

\* Mutant: the trigger logs the adjudications too.
AuditedLogAlways(log, old, new) == Append(log, LogEntry(old, new, new.row_version))

\* The AFTER trigger logs every write but submitted -> adjudicated, which the RPC
\* that makes it logs itself.
AuditedLog(log, old, new) ==
    IF old.status = "submitted" /\ new.status = "adjudicated"
    THEN log ELSE Append(log, LogEntry(old, new, new.row_version))

CanWrite(a, requested, reviewer) ==
    /\ actions[a].row_version < MaxVersion
    /\ UpdateAccepted(actions[a], requested, reviewer)

\* An UPDATE of the row by a participant's session.
UpdateRow(a, requested) ==
    LET stored == Normalized(actions[a], requested, FALSE)
    IN  /\ CanWrite(a, requested, FALSE)
        /\ actions' = [actions EXCEPT ![a] = stored]
        /\ action_logs' =
             [action_logs EXCEPT ![a] = AuditedLog(@, actions[a], stored)]
        /\ UNCHANGED reviews

\* Mutant: updateAction without its row_version filter.
UnconditionalUpdate(a, expectedRowVersion, requested) == UpdateRow(a, requested)

\* updateAction with expectedRowVersion: the statement matches no row when the
\* row has another version by now.
ConditionalUpdate(a, expectedRowVersion, requested) ==
    /\ actions[a].row_version = expectedRowVersion
    /\ UpdateRow(a, requested)

-----------------------------------------------------------------------------
(* The steps every call shares.                                             *)

Idle(s) == calls[s].op = "none"

At(s, op, step) == calls[s].op = op /\ calls[s].step = step

Opened(op, a) ==
    [op |-> op, step |-> "open", action |-> a,
     seen |-> actions[a], read |-> AbsentRow]

IsLive(row) == row.status # "absent" /\ ~row.is_deleted

IsDraft(row) == IsLive(row) /\ row.status = "draft"

\* Where a call stands after a getAction, from where it stood before.
StepAfterRead(call) ==
    IF call.op # "submit" THEN "read"
    ELSE IF call.step = "open" /\ call.action \in NeedsSelections THEN "read"
    ELSE "submitting"

Reads(call) ==
    \/ call.step = "open" /\ call.op # "review"
    \/ call.step = "drafted"

\* getAction, and the isDraftAction guard that follows it.
ReadDraft(s) ==
    /\ Reads(calls[s])
    /\ IsDraft(actions[calls[s].action])
    /\ calls' = [calls EXCEPT ![s] =
                    [@ EXCEPT !.step = StepAfterRead(calls[s]),
                              !.read = actions[calls[s].action]]]
    /\ UNCHANGED <<actions, action_logs, reviews>>

\* A call fails before it changes anything: a lost request, a refused write, a row
\* that is no longer a draft.  The form stays, with the copy it was opened from.
Fail(s) ==
    /\ calls[s].step \in {"read", "drafted", "submitting"}
    /\ calls' = [calls EXCEPT ![s].step = "open", ![s].read = AbsentRow]
    /\ UNCHANGED <<actions, action_logs, reviews>>

\* The user closes the form or the modal.
Close(s) ==
    /\ calls[s].step = "open"
    /\ calls' = [calls EXCEPT ![s] = NoCall]
    /\ UNCHANGED <<actions, action_logs, reviews>>

\* After a write: its answer moves the call on; when the answer is lost the user
\* is back at the form, not knowing that the write was applied.
Answered(s, next) ==
    \/ calls' = [calls EXCEPT ![s] = next]
    \/ calls' = [calls EXCEPT ![s] = [@ EXCEPT !.step = "open", !.read = AbsentRow]]

-----------------------------------------------------------------------------
(* The Scribe.                                                              *)

\* createAction, as a draft of the team's own or forwarded at once.
Create(s, a, handoff) ==
    /\ Idle(s)
    /\ actions[a].status = "absent"
    /\ MaxVersion > 0
    /\ actions' = [actions EXCEPT ![a] = InsertedDraft(handoff)]
    /\ action_logs' = [action_logs EXCEPT ![a] =
                          Append(@, LogEntry(AbsentRow, InsertedDraft(handoff), 1))]
    /\ UNCHANGED <<reviews, calls>>

\* Open the form, or ask to forward or to delete: all three are offered for what
\* the local store holds as a draft.
OpenDraft(s, op, a) ==
    /\ Idle(s)
    /\ IsDraft(actions[a])
    /\ calls' = [calls EXCEPT ![s] = Opened(op, a)]
    /\ UNCHANGED <<actions, action_logs, reviews>>

\* saveBlueActionChanges: the whole form, with the hand-off the local copy had.
SaveEdit(s) ==
    LET call == calls[s]
        a == call.action
        stamp == NextRowVersion(call.read)
        requested == [actions[a] EXCEPT !.goal = stamp, !.details = stamp,
                                        !.handoff = call.seen.handoff]
    IN  /\ At(s, "edit", "read")
        /\ ScribeMayUpdate(actions[a], requested)
        /\ ConditionalUpdate(a, call.read.row_version, requested)
        /\ Answered(s, NoCall)

\* forwardActionToScribe: the details of the local copy, marked Forwarded.
Forward(s) ==
    LET call == calls[s]
        a == call.action
        requested == [actions[a] EXCEPT !.details = call.seen.details,
                                        !.handoff = TRUE]
    IN  /\ At(s, "forward", "read")
        /\ ScribeMayUpdate(actions[a], requested)
        /\ ConditionalUpdate(a, call.read.row_version, requested)
        /\ Answered(s, NoCall)

\* deleteDraftAction: the draft was checked, but deleteAction writes without a
\* version, on whatever the row has become.
Delete(s) ==
    LET a == calls[s].action
        requested == [actions[a] EXCEPT !.is_deleted = TRUE]
    IN  /\ At(s, "delete", "read")
        /\ ScribeMayUpdate(actions[a], requested)
        /\ UpdateRow(a, requested)
        /\ Answered(s, NoCall)

-----------------------------------------------------------------------------
(* The Facilitator.                                                         *)

\* confirmSubmitScribeAction, on a forwarded draft of the local store.
OpenSubmit(f, a) ==
    /\ Idle(f)
    /\ IsDraft(actions[a]) /\ actions[a].handoff
    /\ calls' = [calls EXCEPT ![f] = Opened("submit", a)]
    /\ UNCHANGED <<actions, action_logs, reviews>>

\* submitScribeAction, first half: the completed details are built from the
\* local copy and saved.
CompleteDetails(f) ==
    LET call == calls[f]
        a == call.action
        requested == [actions[a] EXCEPT !.details = call.seen.details,
                                        !.handoff = TRUE]
    IN  /\ At(f, "submit", "read")
        /\ FacilitatorMayUpdate(actions[a], requested)
        /\ ConditionalUpdate(a, call.read.row_version, requested)
        /\ Answered(f, [call EXCEPT !.step = "drafted", !.read = AbsentRow])

\* Second half, and all of it for a proposal or an orientation: submitAction.
Submit(f) ==
    LET call == calls[f]
        a == call.action
        requested == [actions[a] EXCEPT !.status = "submitted"]
    IN  /\ At(f, "submit", "submitting")
        /\ FacilitatorMayUpdate(actions[a], requested)
        /\ ConditionalUpdate(a, call.read.row_version, requested)
        /\ Answered(f, NoCall)

-----------------------------------------------------------------------------
(* White Cell.                                                              *)

\* The review modal, opened on a submitted artifact of the local store.
OpenReview(r, a) ==
    /\ Idle(r)
    /\ IsLive(actions[a]) /\ actions[a].status = "submitted"
    /\ calls' = [calls EXCEPT ![r] = Opened("review", a)]
    /\ UNCHANGED <<actions, action_logs, reviews>>

\* Mutant: the review without its stale revision check.
ReviewAdmittedStale(row, expectedRevision) ==
    IsLive(row) /\ row.workflow_state # "completed"

\* The guard of operator_review_artifact: the row, locked, is live, not completed,
\* and of the revision the reviewer had on screen.
ReviewAdmitted(row, expectedRevision) ==
    /\ IsLive(row)
    /\ row.workflow_state # "completed"
    /\ row.revision_number = expectedRevision

\* Mutant: a return that keeps the revision.
NextRevisionKept(row) == row.revision_number

NextRevision(row) == row.revision_number + 1

\* operator_review_artifact, decision complete.
Complete(r) ==
    LET a == calls[r].action
        row == actions[a]
        requested == [row EXCEPT !.status = "adjudicated", !.workflow_state = "completed"]
        stored == Normalized(row, requested, TRUE)
    IN  /\ At(r, "review", "open")
        /\ ReviewAdmitted(row, calls[r].seen.revision_number)
        /\ UnderReview(row)
        /\ CanWrite(a, requested, TRUE)
        /\ actions' = [actions EXCEPT ![a] = stored]
        /\ action_logs' = [action_logs EXCEPT ![a] =
             Append(AuditedLog(@, row, stored), LogEntry(row, stored, stored.row_version))]
        /\ reviews' = [reviews EXCEPT ![a] = Append(@,
             [decision |-> "complete", revision_number |-> row.revision_number,
              next_revision_number |-> row.revision_number,
              prior_status |-> row.status])]
        /\ Answered(r, NoCall)

\* operator_review_artifact, decision return_to_team: the next revision opens.
ReturnToTeam(r) ==
    LET a == calls[r].action
        row == actions[a]
        requested == [row EXCEPT !.status = "draft", !.workflow_state = "returned_to_team",
                                 !.revision_number = NextRevision(row)]
        stored == Normalized(row, requested, TRUE)
    IN  /\ At(r, "review", "open")
        /\ ReviewAdmitted(row, calls[r].seen.revision_number)
        /\ row.status \in {"submitted", "adjudicated"}
        /\ CanWrite(a, requested, TRUE)
        /\ actions' = [actions EXCEPT ![a] = stored]
        /\ action_logs' = [action_logs EXCEPT ![a] = AuditedLog(@, row, stored)]
        /\ reviews' = [reviews EXCEPT ![a] = Append(@,
             [decision |-> "return_to_team", revision_number |-> row.revision_number,
              next_revision_number |-> NextRevision(row),
              prior_status |-> row.status])]
        /\ Answered(r, NoCall)

\* operator_adjudicate_action, the older decision: any submitted row, of whatever
\* revision.  Its log entry carries no row_version.
Adjudicate(r) ==
    LET a == calls[r].action
        row == actions[a]
        requested == [row EXCEPT !.status = "adjudicated"]
        stored == Normalized(row, requested, TRUE)
    IN  /\ At(r, "review", "open")
        /\ IsLive(row) /\ row.status = "submitted"
        /\ CanWrite(a, requested, TRUE)
        /\ actions' = [actions EXCEPT ![a] = stored]
        /\ action_logs' = [action_logs EXCEPT ![a] =
             Append(AuditedLog(@, row, stored), LogEntry(row, stored, 0))]
        /\ Answered(r, NoCall)
        /\ UNCHANGED reviews

-----------------------------------------------------------------------------
ScribeStep(s) ==
    \/ \E a \in Actions, handoff \in BOOLEAN : Create(s, a, handoff)
    \/ \E a \in Actions, op \in {"edit", "forward", "delete"} : OpenDraft(s, op, a)
    \/ SaveEdit(s)
    \/ Forward(s)
    \/ Delete(s)

FacilitatorStep(f) ==
    \/ \E a \in Actions : OpenSubmit(f, a)
    \/ CompleteDetails(f)
    \/ Submit(f)

ReviewerStep(r) ==
    \/ \E a \in Actions : OpenReview(r, a)
    \/ ReturnToTeam(r)
    \/ Adjudicate(r)

StepButComplete ==
    \/ \E s \in Scribes : ScribeStep(s)
    \/ \E f \in Facilitators : FacilitatorStep(f)
    \/ \E r \in Reviewers : ReviewerStep(r)
    \/ \E s \in Sessions : ReadDraft(s) \/ Fail(s) \/ Close(s)

Next == StepButComplete \/ \E r \in Reviewers : Complete(r)

Spec == Init /\ [][Next]_vars

-----------------------------------------------------------------------------
(* Properties.                                                              *)

\* What a decision falls on is what the reviewer read: as long as the row would
\* still pass the review's checks with the revision a modal shows, its content is
\* the modal's, however many drafts, submissions and decisions of others came in
\* between (the revision check and the immutability of submitted content).
DecidesWhatWasRead ==
    \A r \in Reviewers :
        LET call == calls[r]
            row == actions[call.action]
        IN  call.op = "review"
              /\ ReviewAdmitted(row, call.seen.revision_number)
            => CoreFields(row) = CoreFields(call.seen)

\* The review history is one chain: the i-th decision is about revision i, only
\* the last can be the completion, and the row stands where the chain ends, so no
\* revision is decided twice whatever reviewers race or retry.
ReviewChain ==
    \A a \in Actions :
        LET chain == reviews[a]
            row == actions[a]
        IN  /\ \A i \in 1..Len(chain) :
                 /\ chain[i].revision_number = i
                 /\ chain[i].decision = "complete" => i = Len(chain)
            /\ row.workflow_state = "completed" <=>
                 chain # <<>> /\ chain[Len(chain)].decision = "complete"
            /\ row.status # "absent" =>
                 row.revision_number = IF row.workflow_state = "completed"
                                       THEN Len(chain) ELSE Len(chain) + 1

\* Every write of a row is in its log exactly once, by the audit trigger or by the
\* RPC that the trigger leaves it to, and each entry starts where the one before
\* it ended.
LogIsComplete ==
    \A a \in Actions :
        LET log == action_logs[a]
        IN  /\ Len(log) = actions[a].row_version
            /\ \A i \in 2..Len(log) : log[i].status_from = log[i - 1].status_to
            /\ log # <<>> => log[Len(log)].status_to = actions[a].status

\* A conditional write lands on the row its getAction returned: a version that is
\* still current stands for the very row that was read.
VersionIdentifiesRow ==
    \A s \in Sessions :
        LET call == calls[s]
        IN  call.step \in {"read", "submitting"}
              /\ call.read.row_version = actions[call.action].row_version
            => call.read = actions[call.action]

\* A completed artifact never changes again, and a deleted one is never taken up
\* again: not by a call that read it before, nor by one retried after.
TerminalIsFinal ==
    [][\A a \in Actions :
          /\ actions[a].workflow_state = "completed" => actions'[a] = actions[a]
          /\ actions[a].is_deleted =>
               /\ actions'[a].is_deleted
               /\ CoreFields(actions'[a]) = CoreFields(actions[a])
               /\ actions'[a].status = actions[a].status]_vars

-----------------------------------------------------------------------------
(* The rows implement the lifecycle the workflow promises.                  *)

Stage(row) ==
    IF row.status = "absent" THEN "absent"
    ELSE IF row.is_deleted THEN "discarded"
    ELSE IF row.workflow_state = "completed" THEN "completed"
    ELSE CASE row.status = "draft" -> "open"
           [] row.status = "submitted" -> "review"
           [] row.status = "adjudicated" -> "judged"

Lifecycle == INSTANCE ActionLifecycle WITH
    Texts <- (0..MaxVersion) \X (0..MaxVersion) \X BOOLEAN,
    stage <- [a \in Actions |-> Stage(actions[a])],
    revision <- [a \in Actions |-> actions[a].revision_number],
    text <- [a \in Actions |-> CoreFields(actions[a])]

\* Every write of a row is one step of ActionLifecycle: no race of reads and
\* writes deletes an artifact under review, edits one White Cell has, or leaves
\* its revision behind.
LifecycleSpec == Lifecycle!Spec
=============================================================================
