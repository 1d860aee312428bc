----------------------- MODULE ActionWorkflowProofs -----------------------
(***************************************************************************)
(* Theorems about ActionWorkflow for any sets of artifacts and sessions    *)
(* and any MaxVersion.                                                     *)
(***************************************************************************)
EXTENDS ActionWorkflow, TLAPS

-----------------------------------------------------------------------------
(* The trigger.                                                             *)

\* The trigger stores a row: normalize_action_workflow_write never leaves a
\* workflow_state outside its CHECK constraint.
LEMMA NormalizedIsRow ==
    ASSUME NEW old \in Rows, NEW new \in Rows, NEW reviewer \in BOOLEAN
    PROVE  Normalized(old, new, reviewer) \in Rows
<1>1. WorkflowState(old, new, reviewer) \in WorkflowStates
    BY DEF WorkflowState, WorkflowStates, DraftState, SubmittedState, AdjudicatedState
<1>2. NextRowVersion(old) \in Nat
    BY DEF NextRowVersion, Rows
<1>3. QED
    BY <1>1, <1>2 DEF Normalized, Rows

\* What the trigger leaves to the client, and what it does not.
LEMMA NormalizedFields ==
    ASSUME NEW old \in Rows, NEW new \in Rows, NEW reviewer \in BOOLEAN
    PROVE  LET row == Normalized(old, new, reviewer)
           IN  /\ row.status = new.status
               /\ row.revision_number = new.revision_number
               /\ row.row_version = old.row_version + 1
               /\ row.goal = new.goal
               /\ row.details = new.details
               /\ row.handoff = new.handoff
               /\ row.is_deleted = new.is_deleted
BY DEF Normalized, Rows, NextRowVersion

LEMMA AbsentRowIsRow == AbsentRow \in Rows
BY DEF AbsentRow, Rows, Statuses, WorkflowStates

LEMMA InsertedDraftIsRow ==
    ASSUME NEW handoff \in BOOLEAN
    PROVE  InsertedDraft(handoff) \in Rows
BY DEF InsertedDraft, Rows, Statuses, WorkflowStates

LEMMA NoCallIsCall == NoCall \in Calls
BY ActionsAssumption, AbsentRowIsRow DEF NoCall, Calls, Ops, Steps

LEMMA AuditedLogIsLog ==
    ASSUME NEW log \in Seq(LogEntries), NEW old \in Rows, NEW new \in Rows
    PROVE  AuditedLog(log, old, new) \in Seq(LogEntries)
<1>1. LogEntry(old, new, new.row_version) \in LogEntries
    BY DEF LogEntry, LogEntries, Rows
<1>2. Append(log, LogEntry(old, new, new.row_version)) \in Seq(LogEntries)
    BY <1>1
<1>3. QED
    BY <1>2 DEF AuditedLog

-----------------------------------------------------------------------------
(* Type correctness.                                                        *)

\* What a participant's update leaves behind is well typed.
LEMMA UpdateRowType ==
    ASSUME TypeOK, NEW a \in Actions, NEW requested \in Rows,
           UpdateRow(a, requested)
    PROVE  /\ actions' \in [Actions -> Rows]
           /\ action_logs' \in [Actions -> Seq(LogEntries)]
           /\ reviews' \in [Actions -> Seq(ReviewRows)]
<1> DEFINE stored == Normalized(actions[a], requested, FALSE)
<1>1. actions[a] \in Rows /\ action_logs[a] \in Seq(LogEntries)
    BY DEF TypeOK
<1>2. stored \in Rows
    BY <1>1, NormalizedIsRow
<1>3. AuditedLog(action_logs[a], actions[a], stored) \in Seq(LogEntries)
    BY <1>1, <1>2, AuditedLogIsLog
<1> HIDE DEF stored
<1>4. QED
    BY <1>2, <1>3 DEF UpdateRow, TypeOK, stored

\* So are the two ways an answered or unanswered write leaves its call.
LEMMA AnsweredType ==
    ASSUME TypeOK, NEW s \in Sessions, NEW next \in Calls, Answered(s, next)
    PROVE  calls' \in [Sessions -> Calls]
<1>1. calls[s] \in Calls
    BY DEF TypeOK
<1>2. [calls[s] EXCEPT !.step = "open", !.read = AbsentRow] \in Calls
    BY <1>1, AbsentRowIsRow DEF Calls, Steps
<1>3. QED
    BY <1>2 DEF Answered, TypeOK

\* The row a step asks for is typed when the row it starts from is.
LEMMA CallIsTyped ==
    ASSUME TypeOK, NEW s \in Sessions
    PROVE  /\ calls[s] \in Calls
           /\ calls[s].action \in Actions
           /\ actions[calls[s].action] \in Rows
           /\ calls[s].seen \in Rows
           /\ calls[s].read \in Rows
           /\ [calls[s] EXCEPT !.step = "drafted", !.read = AbsentRow] \in Calls
BY AbsentRowIsRow DEF TypeOK, Calls, Steps

LEMMA ParticipantStepType ==
    ASSUME TypeOK, NEW s \in Sessions,
           SaveEdit(s) \/ Forward(s) \/ Delete(s) \/ CompleteDetails(s) \/ Submit(s)
    PROVE  TypeOK'
<1> DEFINE a == calls[s].action
           call == calls[s]
           edited == [actions[a] EXCEPT !.goal = NextRowVersion(call.read),
                                        !.details = NextRowVersion(call.read),
                                        !.handoff = call.seen.handoff]
           forwarded == [actions[a] EXCEPT !.details = call.seen.details,
                                           !.handoff = TRUE]
           deleted == [actions[a] EXCEPT !.is_deleted = TRUE]
           submitted == [actions[a] EXCEPT !.status = "submitted"]
           drafted == [call EXCEPT !.step = "drafted", !.read = AbsentRow]
<1>1. /\ a \in Actions /\ edited \in Rows /\ forwarded \in Rows
      /\ deleted \in Rows /\ submitted \in Rows
      /\ drafted \in Calls /\ NoCall \in Calls
    <2>1. a \in Actions /\ actions[a] \in Rows /\ call.seen \in Rows /\ call.read \in Rows
        BY CallIsTyped
    <2>2. drafted \in Calls /\ NoCall \in Calls
        BY CallIsTyped, NoCallIsCall
    <2> HIDE DEF a, call
    <2>3. edited \in Rows
        <3>1. NextRowVersion(call.read) \in Nat
            BY <2>1 DEF Rows, NextRowVersion
        <3>2. QED
            BY <2>1, <3>1 DEF Rows
    <2>4. forwarded \in Rows
        BY <2>1 DEF Rows
    <2>5. deleted \in Rows
        BY <2>1 DEF Rows
    <2>6. submitted \in Rows
        BY <2>1 DEF Rows, Statuses
    <2> HIDE DEF edited, forwarded, deleted, submitted, drafted
    <2>7. QED
        BY <2>1, <2>2, <2>3, <2>4, <2>5, <2>6
<1>2. /\ \/ UpdateRow(a, edited) \/ UpdateRow(a, forwarded)
         \/ UpdateRow(a, deleted) \/ UpdateRow(a, submitted)
      /\ Answered(s, NoCall) \/ Answered(s, drafted)
    BY DEF SaveEdit, Forward, Delete, CompleteDetails, Submit, ConditionalUpdate
<1> HIDE DEF a, call, edited, forwarded, deleted, submitted, drafted
<1>3. /\ actions' \in [Actions -> Rows]
      /\ action_logs' \in [Actions -> Seq(LogEntries)]
      /\ reviews' \in [Actions -> Seq(ReviewRows)]
    BY <1>1, <1>2, UpdateRowType
<1>4. calls' \in [Sessions -> Calls]
    BY <1>1, <1>2, AnsweredType
<1>5. QED
    BY <1>3, <1>4 DEF TypeOK

LEMMA ReviewerStepType ==
    ASSUME TypeOK, NEW r \in Sessions,
           Complete(r) \/ ReturnToTeam(r) \/ Adjudicate(r)
    PROVE  TypeOK'
<1> DEFINE a == calls[r].action
           row == actions[a]
           completed == [row EXCEPT !.status = "adjudicated", !.workflow_state = "completed"]
           returned == [row EXCEPT !.status = "draft", !.workflow_state = "returned_to_team",
                                   !.revision_number = NextRevision(row)]
           adjudicated == [row EXCEPT !.status = "adjudicated"]
           stored(requested) == Normalized(row, requested, TRUE)
           decided(decision, next) ==
               [decision |-> decision, revision_number |-> row.revision_number,
                next_revision_number |-> next, prior_status |-> row.status]
<1>1. /\ a \in Actions /\ row \in Rows /\ action_logs[a] \in Seq(LogEntries)
      /\ reviews[a] \in Seq(ReviewRows)
    BY CallIsTyped DEF TypeOK
<1>2. /\ completed \in Rows /\ returned \in Rows /\ adjudicated \in Rows
      /\ decided("complete", row.revision_number) \in ReviewRows
      /\ decided("return_to_team", NextRevision(row)) \in ReviewRows
    <2> HIDE DEF row
    <2>1. completed \in Rows
        BY <1>1 DEF Rows, Statuses, WorkflowStates
    <2>2. returned \in Rows
        <3>1. NextRevision(row) \in Nat
            BY <1>1 DEF Rows, NextRevision
        <3>2. QED
            BY <1>1, <3>1 DEF Rows, Statuses, WorkflowStates
    <2>3. adjudicated \in Rows
        BY <1>1 DEF Rows, Statuses
    <2>4. /\ decided("complete", row.revision_number) \in ReviewRows
          /\ decided("return_to_team", NextRevision(row)) \in ReviewRows
        BY <1>1 DEF Rows, NextRevision, ReviewRows
    <2> HIDE DEF completed, returned, adjudicated, decided
    <2>5. QED
        BY <2>1, <2>2, <2>3, <2>4
<1>3. /\ stored(completed) \in Rows /\ stored(returned) \in Rows
      /\ stored(adjudicated) \in Rows
    BY <1>1, <1>2, NormalizedIsRow
<1>4. calls' \in [Sessions -> Calls]
    BY NoCallIsCall, AnsweredType DEF Complete, ReturnToTeam, Adjudicate
<1>5. ASSUME NEW new \in Rows, NEW version \in Nat
      PROVE  /\ AuditedLog(action_logs[a], row, new) \in Seq(LogEntries)
             /\ LogEntry(row, new, version) \in LogEntries
             /\ Append(AuditedLog(action_logs[a], row, new), LogEntry(row, new, version))
                  \in Seq(LogEntries)
    <2>1. AuditedLog(action_logs[a], row, new) \in Seq(LogEntries)
        BY <1>1, AuditedLogIsLog
    <2>2. LogEntry(row, new, version) \in LogEntries
        BY <1>1 DEF LogEntry, LogEntries, Rows
    <2>3. QED
        BY <2>1, <2>2
<1>6. /\ stored(completed).row_version \in Nat
      /\ Append(reviews[a], decided("complete", row.revision_number)) \in Seq(ReviewRows)
      /\ Append(reviews[a], decided("return_to_team", NextRevision(row))) \in Seq(ReviewRows)
    <2>1. stored(completed).row_version \in Nat
        <3> HIDE DEF stored
        <3>1. QED
            BY <1>3 DEF Rows
    <2> HIDE DEF decided, stored
    <2>2. QED
        BY <1>1, <1>2, <2>1
<1>7. CASE Complete(r)
    <2>1. /\ actions' = [actions EXCEPT ![a] = stored(completed)]
          /\ action_logs' = [action_logs EXCEPT ![a] =
                Append(AuditedLog(@, row, stored(completed)),
                       LogEntry(row, stored(completed), stored(completed).row_version))]
          /\ reviews' = [reviews EXCEPT ![a] =
                Append(@, decided("complete", row.revision_number))]
        BY <1>7 DEF Complete
    <2> HIDE DEF a, row, completed, stored, decided
    <2>2. QED
        BY <2>1, <1>1, <1>3, <1>4, <1>5, <1>6 DEF TypeOK
<1>8. CASE ReturnToTeam(r)
    <2>1. /\ actions' = [actions EXCEPT ![a] = stored(returned)]
          /\ action_logs' = [action_logs EXCEPT ![a] =
                AuditedLog(@, row, stored(returned))]
          /\ reviews' = [reviews EXCEPT ![a] =
                Append(@, decided("return_to_team", NextRevision(row)))]
        BY <1>8 DEF ReturnToTeam
    <2>2. 0 \in Nat
        OBVIOUS
    <2> HIDE DEF a, row, returned, stored, decided
    <2>3. QED
        BY <2>1, <2>2, <1>1, <1>3, <1>4, <1>5, <1>6 DEF TypeOK
<1>9. CASE Adjudicate(r)
    <2>1. /\ actions' = [actions EXCEPT ![a] = stored(adjudicated)]
          /\ action_logs' = [action_logs EXCEPT ![a] =
                Append(AuditedLog(@, row, stored(adjudicated)),
                       LogEntry(row, stored(adjudicated), 0))]
          /\ reviews' = reviews
        BY <1>9 DEF Adjudicate
    <2>2. 0 \in Nat
        OBVIOUS
    <2> HIDE DEF a, row, adjudicated, stored
    <2>3. QED
        BY <2>1, <2>2, <1>1, <1>3, <1>4, <1>5 DEF TypeOK
<1>10. QED
    BY <1>7, <1>8, <1>9

\* The steps that write no row.
LEMMA ClientStepType ==
    ASSUME TypeOK, NEW s \in Sessions,
           \/ \E a \in Actions, op \in {"edit", "forward", "delete"} : OpenDraft(s, op, a)
           \/ \E a \in Actions : OpenSubmit(s, a) \/ OpenReview(s, a)
           \/ ReadDraft(s) \/ Fail(s) \/ Close(s)
    PROVE  TypeOK'
<1>1. UNCHANGED <<actions, action_logs, reviews>>
    BY DEF OpenDraft, OpenSubmit, OpenReview, ReadDraft, Fail, Close
<1>2. \A a \in Actions, op \in Ops : Opened(op, a) \in Calls
    BY AbsentRowIsRow DEF Opened, TypeOK, Calls, Steps
<1>3. /\ [calls[s] EXCEPT !.step = StepAfterRead(calls[s]),
                          !.read = actions[calls[s].action]] \in Calls
      /\ [calls[s] EXCEPT !.step = "open", !.read = AbsentRow] \in Calls
    <2>1. StepAfterRead(calls[s]) \in Steps
        BY DEF StepAfterRead, Steps
    <2>2. QED
        BY <2>1, CallIsTyped, AbsentRowIsRow DEF Calls, Steps
<1>4. calls' \in [Sessions -> Calls]
    <2>1. CASE \/ \E a \in Actions, op \in {"edit", "forward", "delete"} : OpenDraft(s, op, a)
               \/ \E a \in Actions : OpenSubmit(s, a) \/ OpenReview(s, a)
        BY <2>1, <1>2 DEF OpenDraft, OpenSubmit, OpenReview, TypeOK, Ops
    <2>2. CASE ReadDraft(s)
        BY <2>2, <1>3 DEF ReadDraft, TypeOK
    <2>3. CASE Fail(s)
        <3>1. calls' = [calls EXCEPT ![s] = [@ EXCEPT !.step = "open", !.read = AbsentRow]]
            BY <2>3 DEF Fail, TypeOK
        <3>2. QED
            BY <3>1, <1>3 DEF TypeOK
    <2>4. CASE Close(s)
        BY <2>4, NoCallIsCall DEF Close, TypeOK
    <2>5. QED
        BY <2>1, <2>2, <2>3, <2>4
<1>5. QED
    BY <1>1, <1>4 DEF TypeOK

LEMMA CreateType ==
    ASSUME TypeOK, NEW s \in Sessions, NEW a \in Actions, NEW handoff \in BOOLEAN,
           Create(s, a, handoff)
    PROVE  TypeOK'
<1>1. InsertedDraft(handoff) \in Rows
    BY InsertedDraftIsRow
<1>2. LogEntry(AbsentRow, InsertedDraft(handoff), 1) \in LogEntries
    BY DEF LogEntry, LogEntries, AbsentRow, InsertedDraft, Statuses
<1>3. QED
    BY <1>1, <1>2 DEF Create, TypeOK

LEMMA TypeInvariance == TypeOK /\ [Next]_vars => TypeOK'
<1> SUFFICES ASSUME TypeOK, [Next]_vars PROVE TypeOK'
    OBVIOUS
<1>1. CASE UNCHANGED vars
    BY <1>1 DEF vars, TypeOK
<1>2. CASE Next
    BY <1>2, CreateType, ClientStepType, ParticipantStepType, ReviewerStepType
       DEF Next, StepButComplete, ScribeStep, FacilitatorStep, ReviewerStep, Sessions
<1>3. QED
    BY <1>1, <1>2

\* Every row, log, review and call of every reachable state is one the tables and
\* the client can hold.
THEOREM TypeCorrect == Spec => []TypeOK
<1>1. Init => TypeOK
    BY AbsentRowIsRow, NoCallIsCall DEF Init, TypeOK
<1>2. QED
    BY <1>1, TypeInvariance, PTL DEF Spec

-----------------------------------------------------------------------------
(* What a step does to one row and to one call.  The safety theorems below  *)
(* look at steps only through these two relations.                          *)

\* Every write takes a version; content leaves White Cell unchanged or with the
\* next revision; a completed row is not written.
RowEffect(old, new) ==
    \/ new = old
    \/ /\ old.status = "absent"
       /\ \E handoff \in BOOLEAN : new = InsertedDraft(handoff)
    \/ /\ old.status # "absent" /\ new.status # "absent"
       /\ old.workflow_state # "completed"
       /\ new.row_version = old.row_version + 1
       /\ \/ /\ new.revision_number = old.revision_number + 1
             /\ new.status = "draft"
             /\ ~old.is_deleted
          \/ /\ new.revision_number = old.revision_number
             /\ old.status \in {"submitted", "adjudicated"} =>
                  /\ new.status \in {"submitted", "adjudicated"}
                  /\ CoreFields(new) = CoreFields(old)

\* A call keeps its form and, until it reads again, what it read.
CallEffect(old, new) ==
    \/ new = NoCall
    \/ new = old
    \/ /\ old # NoCall
       /\ new.op = old.op /\ new.action = old.action /\ new.seen = old.seen
       /\ \/ new.step \in {"open", "drafted"}
          \/ actions' = actions /\ new.read = actions[new.action] /\ IsDraft(new.read)
    \/ /\ actions' = actions
       /\ new.seen = actions[new.action] /\ IsLive(new.seen)
       /\ new.op = "review" => new.seen.status = "submitted"
       /\ new.step = "open"

LEMMA ParticipantRowEffect ==
    ASSUME NEW old \in Rows, NEW new \in Rows, old.status # "absent",
           new.status \in {old.status, "submitted"},
           new.revision_number = old.revision_number,
           UpdateAccepted(old, new, FALSE)
    PROVE  RowEffect(old, Normalized(old, new, FALSE))
<1> DEFINE row == Normalized(old, new, FALSE)
<1>1. /\ row.status = new.status /\ row.revision_number = new.revision_number
      /\ row.row_version = old.row_version + 1
      /\ CoreFields(row) = CoreFields(new)
    BY NormalizedFields DEF CoreFields
<1>2. old.status = "adjudicated" => new.status = "adjudicated"
    BY DEF UpdateAccepted, StatusChangeAllowed, ReturningToTeam
<1>3. old.status \in {"submitted", "adjudicated"} =>
        new.status = old.status /\ CoreFields(new) = CoreFields(old)
    BY <1>2 DEF UpdateAccepted
<1>4. new.status # "absent"
    OBVIOUS
<1> HIDE DEF row
<1>5. RowEffect(old, row)
    BY <1>1, <1>3, <1>4 DEF RowEffect, UpdateAccepted
<1>6. QED
    BY <1>5 DEF row

LEMMA ReviewerRowEffect ==
    ASSUME NEW old \in Rows, NEW new \in Rows,
           IsLive(old), UpdateAccepted(old, new, TRUE),
           \/ new = [old EXCEPT !.status = "adjudicated", !.workflow_state = "completed"]
                /\ old.status = "submitted"
           \/ new = [old EXCEPT !.status = "adjudicated"] /\ old.status = "submitted"
           \/ new = [old EXCEPT !.status = "draft", !.workflow_state = "returned_to_team",
                                !.revision_number = NextRevision(old)]
    PROVE  RowEffect(old, Normalized(old, new, TRUE))
<1> DEFINE row == Normalized(old, new, TRUE)
<1>1. /\ row.status = new.status /\ row.revision_number = new.revision_number
      /\ row.row_version = old.row_version + 1
      /\ CoreFields(row) = CoreFields(new)
    BY NormalizedFields DEF CoreFields
<1>2. CoreFields(new) = CoreFields(old)
    BY DEF CoreFields, Rows
<1>3. \/ /\ new.status = "adjudicated"
         /\ new.revision_number = old.revision_number
      \/ /\ new.status = "draft"
         /\ new.revision_number = old.revision_number + 1
    BY DEF Rows, NextRevision
<1> HIDE DEF row
<1>4. RowEffect(old, row)
    BY <1>1, <1>2, <1>3 DEF RowEffect, UpdateAccepted, IsLive
<1>5. QED
    BY <1>4 DEF row

\* A call is about a row that exists.
CallsOnRows ==
    \A s \in Sessions :
        calls[s] = NoCall \/ actions[calls[s].action].status # "absent"

\* However a write ends, it leaves the forms as they were.
LEMMA AnsweredEffect ==
    ASSUME TypeOK, NEW s \in Sessions, calls[s].op # "none",
           \/ Answered(s, NoCall)
           \/ Answered(s, [calls[s] EXCEPT !.step = "drafted", !.read = AbsentRow])
    PROVE  \A t \in Sessions : CallEffect(calls[t], calls'[t])
<1> DEFINE new(step) == [calls[s] EXCEPT !.step = step, !.read = AbsentRow]
<1>1. \A t \in Sessions \ {s} : calls'[t] = calls[t]
    BY DEF TypeOK, Answered
<1>2. calls'[s] = NoCall \/ calls'[s] = new("open") \/ calls'[s] = new("drafted")
    BY DEF TypeOK, Answered
<1>3. ASSUME NEW step \in {"open", "drafted"}
      PROVE  /\ new(step).op = calls[s].op /\ new(step).action = calls[s].action
             /\ new(step).seen = calls[s].seen /\ new(step).step = step
    BY CallIsTyped DEF Calls
<1>4. calls[s] # NoCall
    BY DEF NoCall
<1> HIDE DEF new
<1>5. CallEffect(calls[s], calls'[s])
    BY <1>2, <1>3, <1>4 DEF CallEffect
<1>6. QED
    BY <1>1, <1>5 DEF CallEffect

LEMMA ParticipantStepEffect ==
    ASSUME TypeOK, CallsOnRows, NEW s \in Sessions,
           SaveEdit(s) \/ Forward(s) \/ Delete(s) \/ CompleteDetails(s) \/ Submit(s)
    PROVE  /\ \A a \in Actions : RowEffect(actions[a], actions'[a])
           /\ \A t \in Sessions : CallEffect(calls[t], calls'[t])
<1> DEFINE a == calls[s].action
<1>1. /\ a \in Actions /\ actions[a] \in Rows /\ actions[a].status # "absent"
      /\ calls[s].seen \in Rows /\ calls[s].read \in Rows
    <2>1. calls[s].op # "none"
        BY DEF SaveEdit, Forward, Delete, CompleteDetails, Submit, At
    <2>2. calls[s] # NoCall
        BY <2>1 DEF NoCall
    <2>3. QED
        BY <2>2, CallIsTyped DEF CallsOnRows
<1>2. PICK requested \in Rows :
        /\ requested.status \in {actions[a].status, "submitted"}
        /\ requested.revision_number = actions[a].revision_number
        /\ UpdateRow(a, requested)
    <2> DEFINE row == actions[a]
               edited == [row EXCEPT !.goal = NextRowVersion(calls[s].read),
                                     !.details = NextRowVersion(calls[s].read),
                                     !.handoff = calls[s].seen.handoff]
               forwarded == [row EXCEPT !.details = calls[s].seen.details, !.handoff = TRUE]
               deleted == [row EXCEPT !.is_deleted = TRUE]
               submitted == [row EXCEPT !.status = "submitted"]
    <2>1. NextRowVersion(calls[s].read) \in Nat
        BY <1>1 DEF NextRowVersion, Rows
    <2>2. CASE SaveEdit(s)
        <3>1. UpdateRow(a, edited)
            BY <2>2 DEF SaveEdit, ConditionalUpdate
        <3>2. edited \in Rows /\ edited.status = row.status
              /\ edited.revision_number = row.revision_number
            BY <1>1, <2>1 DEF Rows
        <3>3. QED
            BY <3>1, <3>2
    <2>3. CASE Forward(s) \/ CompleteDetails(s)
        <3>1. UpdateRow(a, forwarded)
            BY <2>3 DEF Forward, CompleteDetails, ConditionalUpdate
        <3>2. forwarded \in Rows /\ forwarded.status = row.status
              /\ forwarded.revision_number = row.revision_number
            BY <1>1 DEF Rows
        <3>3. QED
            BY <3>1, <3>2
    <2>4. CASE Delete(s)
        <3>1. UpdateRow(a, deleted)
            BY <2>4 DEF Delete
        <3>2. deleted \in Rows /\ deleted.status = row.status
              /\ deleted.revision_number = row.revision_number
            BY <1>1 DEF Rows
        <3>3. QED
            BY <3>1, <3>2
    <2>5. CASE Submit(s)
        <3>1. UpdateRow(a, submitted)
            BY <2>5 DEF Submit, ConditionalUpdate
        <3>2. submitted \in Rows /\ submitted.status = "submitted"
              /\ submitted.revision_number = row.revision_number
            BY <1>1 DEF Rows, Statuses
        <3>3. QED
            BY <3>1, <3>2
    <2>6. QED
        BY <2>2, <2>3, <2>4, <2>5
<1>3. RowEffect(actions[a], Normalized(actions[a], requested, FALSE))
    BY <1>1, <1>2, ParticipantRowEffect DEF UpdateRow, CanWrite
<1>4. \A b \in Actions : RowEffect(actions[b], actions'[b])
    <2>1. actions' = [actions EXCEPT ![a] = Normalized(actions[a], requested, FALSE)]
        BY <1>2 DEF UpdateRow
    <2>2. \A b \in Actions \ {a} : actions'[b] = actions[b]
        BY <2>1, <1>1 DEF TypeOK
    <2>3. actions'[a] = Normalized(actions[a], requested, FALSE)
        BY <2>1, <1>1 DEF TypeOK
    <2>4. QED
        BY <2>2, <2>3, <1>3 DEF RowEffect
<1>5. \A t \in Sessions : CallEffect(calls[t], calls'[t])
    BY AnsweredEffect DEF SaveEdit, Forward, Delete, CompleteDetails, Submit, At
<1>6. QED
    BY <1>4, <1>5

LEMMA ReviewerStepEffect ==
    ASSUME TypeOK, CallsOnRows, NEW r \in Sessions,
           Complete(r) \/ ReturnToTeam(r) \/ Adjudicate(r)
    PROVE  /\ \A a \in Actions : RowEffect(actions[a], actions'[a])
           /\ \A t \in Sessions : CallEffect(calls[t], calls'[t])
<1> DEFINE a == calls[r].action
           row == actions[a]
           completed == [row EXCEPT !.status = "adjudicated", !.workflow_state = "completed"]
           returned == [row EXCEPT !.status = "draft", !.workflow_state = "returned_to_team",
                                   !.revision_number = NextRevision(row)]
           adjudicated == [row EXCEPT !.status = "adjudicated"]
<1>1. a \in Actions /\ row \in Rows
    BY CallIsTyped
<1>2. IsLive(row)
    BY DEF Complete, ReturnToTeam, Adjudicate, ReviewAdmitted
<1>3. completed \in Rows /\ returned \in Rows /\ adjudicated \in Rows
    <2>1. NextRevision(row) \in Nat
        BY <1>1 DEF NextRevision, Rows
    <2> HIDE DEF row
    <2>2. completed \in Rows
        BY <1>1 DEF Rows, Statuses, WorkflowStates
    <2>3. returned \in Rows
        BY <1>1, <2>1 DEF Rows, Statuses, WorkflowStates
    <2>4. adjudicated \in Rows
        BY <1>1 DEF Rows, Statuses
    <2>5. QED
        BY <2>2, <2>3, <2>4
<1>4. PICK requested \in Rows :
        /\ UpdateAccepted(row, requested, TRUE)
        /\ \/ requested = completed /\ row.status = "submitted"
           \/ requested = adjudicated /\ row.status = "submitted"
           \/ requested = returned
        /\ actions' = [actions EXCEPT ![a] = Normalized(row, requested, TRUE)]
    <2>1. CASE Complete(r)
        BY <2>1, <1>3 DEF Complete, CanWrite, UnderReview
    <2>2. CASE ReturnToTeam(r)
        BY <2>2, <1>3 DEF ReturnToTeam, CanWrite
    <2>3. CASE Adjudicate(r)
        BY <2>3, <1>3 DEF Adjudicate, CanWrite
    <2>4. QED
        BY <2>1, <2>2, <2>3
<1>5. RowEffect(row, Normalized(row, requested, TRUE))
    BY <1>1, <1>2, <1>4, ReviewerRowEffect
<1>6. \A b \in Actions : RowEffect(actions[b], actions'[b])
    <2>1. \A b \in Actions \ {a} : actions'[b] = actions[b]
        BY <1>4, <1>1 DEF TypeOK
    <2>2. actions'[a] = Normalized(row, requested, TRUE)
        BY <1>4, <1>1 DEF TypeOK
    <2>3. QED
        BY <2>1, <2>2, <1>5 DEF RowEffect
<1>7. \A t \in Sessions : CallEffect(calls[t], calls'[t])
    BY AnsweredEffect DEF Complete, ReturnToTeam, Adjudicate, At
<1>8. QED
    BY <1>6, <1>7

LEMMA ClientStepEffect ==
    ASSUME TypeOK, NEW s \in Sessions,
           \/ \E a \in Actions, op \in {"edit", "forward", "delete"} : OpenDraft(s, op, a)
           \/ \E a \in Actions : OpenSubmit(s, a) \/ OpenReview(s, a)
           \/ ReadDraft(s) \/ Fail(s) \/ Close(s)
    PROVE  /\ \A a \in Actions : RowEffect(actions[a], actions'[a])
           /\ \A t \in Sessions : CallEffect(calls[t], calls'[t])
<1>1. actions' = actions
    BY DEF OpenDraft, OpenSubmit, OpenReview, ReadDraft, Fail, Close
<1>2. \A t \in Sessions \ {s} : calls'[t] = calls[t]
    BY DEF TypeOK, OpenDraft, OpenSubmit, OpenReview, ReadDraft, Fail, Close
<1>3. CallEffect(calls[s], calls'[s])
    <2>1. CASE \/ \E a \in Actions, op \in {"edit", "forward", "delete"} : OpenDraft(s, op, a)
               \/ \E a \in Actions : OpenSubmit(s, a)
        <3>1. PICK a \in Actions, op \in {"edit", "forward", "delete", "submit"} :
                IsLive(actions[a]) /\ calls'[s] = Opened(op, a)
            BY <2>1 DEF OpenDraft, OpenSubmit, IsDraft, TypeOK
        <3>2. QED
            BY <3>1, <1>1 DEF CallEffect, Opened
    <2>2. CASE \E a \in Actions : OpenReview(s, a)
        <3>1. PICK a \in Actions :
                /\ IsLive(actions[a]) /\ actions[a].status = "submitted"
                /\ calls'[s] = Opened("review", a)
            BY <2>2 DEF OpenReview, TypeOK
        <3>2. QED
            BY <3>1, <1>1 DEF CallEffect, Opened
    <2>3. CASE ReadDraft(s)
        <3>1. /\ IsDraft(actions[calls[s].action])
              /\ calls'[s] = [calls[s] EXCEPT !.step = StepAfterRead(calls[s]),
                                              !.read = actions[calls[s].action]]
            BY <2>3 DEF ReadDraft, TypeOK
        <3>2. /\ calls'[s].op = calls[s].op /\ calls'[s].action = calls[s].action
              /\ calls'[s].seen = calls[s].seen
              /\ calls'[s].read = actions[calls[s].action]
            BY <3>1, CallIsTyped DEF Calls
        <3>3. calls[s] # NoCall
            BY <2>3 DEF ReadDraft, Reads, NoCall
        <3>4. QED
            BY <3>1, <3>2, <3>3, <1>1 DEF CallEffect
    <2>4. CASE Fail(s)
        <3>1. /\ calls'[s].op = calls[s].op /\ calls'[s].action = calls[s].action
              /\ calls'[s].seen = calls[s].seen /\ calls'[s].step = "open"
            BY <2>4, CallIsTyped DEF Fail, TypeOK, Calls
        <3>2. calls[s] # NoCall
            BY <2>4 DEF Fail, NoCall
        <3>3. QED
            BY <3>1, <3>2 DEF CallEffect
    <2>5. CASE Close(s)
        BY <2>5 DEF Close, TypeOK, CallEffect
    <2>6. QED
        BY <2>1, <2>2, <2>3, <2>4, <2>5
<1>4. QED
    BY <1>1, <1>2, <1>3 DEF RowEffect, CallEffect

LEMMA StepEffect ==
    ASSUME TypeOK, CallsOnRows, [Next]_vars
    PROVE  /\ \A a \in Actions : RowEffect(actions[a], actions'[a])
           /\ \A t \in Sessions : CallEffect(calls[t], calls'[t])
<1>1. CASE UNCHANGED vars
    BY <1>1 DEF vars, RowEffect, CallEffect
<1>2. ASSUME NEW s \in Scribes, NEW a \in Actions, NEW handoff \in BOOLEAN,
             Create(s, a, handoff)
      PROVE  /\ \A b \in Actions : RowEffect(actions[b], actions'[b])
             /\ \A t \in Sessions : CallEffect(calls[t], calls'[t])
    BY <1>2 DEF Create, TypeOK, RowEffect, CallEffect
<1>3. CASE Next
    BY <1>2, <1>3, ClientStepEffect, ParticipantStepEffect, ReviewerStepEffect
       DEF Next, StepButComplete, ScribeStep, FacilitatorStep, ReviewerStep, Sessions
<1>4. QED
    BY <1>1, <1>3

-----------------------------------------------------------------------------
(* The inductive invariant.                                                 *)

\* What a call is about to write on is at least as old as the row, and it is the
\* row itself when the version still agrees.
ReadIsVersioned(call, row) ==
    call.step \in {"read", "submitting"} =>
      /\ IsDraft(call.read)
      /\ call.read.row_version <= row.row_version
      /\ call.read.row_version = row.row_version => call.read = row

\* A revision a reviewer has on screen is either history, or still with White Cell
\* and unchanged.
ReviewerKeepsUp(call, row) ==
    call.op = "review" =>
      \/ call.seen.revision_number < row.revision_number
      \/ /\ call.seen.revision_number = row.revision_number
         /\ row.status \in {"submitted", "adjudicated"}
         /\ CoreFields(row) = CoreFields(call.seen)

CallInv(call, row) ==
    /\ call = NoCall \/ row.status # "absent"
    /\ ReadIsVersioned(call, row)
    /\ ReviewerKeepsUp(call, row)

IInv == TypeOK /\ \A s \in Sessions : CallInv(calls[s], actions[calls[s].action])

LEMMA NoCallInv == \A row : CallInv(NoCall, row)
BY DEF CallInv, NoCall, ReadIsVersioned, ReviewerKeepsUp

LEMMA IInvInit == Init => IInv
BY NoCallInv, AbsentRowIsRow, NoCallIsCall DEF IInv, Init, TypeOK

\* A call that keeps its form keeps its invariant whatever is done to the row.
LEMMA CallInvKept ==
    ASSUME NEW was \in Calls, NEW call \in Calls, NEW old \in Rows, NEW new \in Rows,
           was # NoCall, CallInv(was, old), RowEffect(old, new),
           call.op = was.op, call.seen = was.seen,
           \/ call.read = was.read /\ call.step = was.step
           \/ call.step \in {"open", "drafted"}
           \/ new = old /\ call.read = old /\ IsDraft(call.read)
    PROVE  CallInv(call, new)
<1>1. /\ old.revision_number \in Nat /\ new.revision_number \in Nat
      /\ old.row_version \in Nat /\ new.row_version \in Nat
      /\ was.seen.revision_number \in Nat /\ was.read.row_version \in Nat
    BY DEF Calls, Rows
<1>2. old.status # "absent" /\ new.status # "absent"
    BY DEF CallInv, RowEffect
<1>3. ReadIsVersioned(call, new)
    <2>1. CASE call.read = was.read /\ call.step = was.step
        <3>1. new = old \/ new.row_version = old.row_version + 1
            BY <1>2 DEF RowEffect
        <3>2. QED
            BY <2>1, <3>1, <1>1 DEF CallInv, ReadIsVersioned
    <2>2. CASE call.step \in {"open", "drafted"}
        BY <2>2 DEF ReadIsVersioned
    <2>3. CASE new = old /\ call.read = old /\ IsDraft(call.read)
        BY <2>3, <1>1 DEF ReadIsVersioned
    <2>4. QED
        BY <2>1, <2>2, <2>3
<1>4. ReviewerKeepsUp(call, new)
    <2>1. \/ new = old
          \/ new.revision_number = old.revision_number + 1
          \/ /\ new.revision_number = old.revision_number
             /\ old.status \in {"submitted", "adjudicated"} =>
                  /\ new.status \in {"submitted", "adjudicated"}
                  /\ CoreFields(new) = CoreFields(old)
        BY <1>2 DEF RowEffect
    <2>2. QED
        BY <2>1, <1>1 DEF CallInv, ReviewerKeepsUp
<1>5. QED
    BY <1>2, <1>3, <1>4 DEF CallInv

LEMMA IInvStep == IInv /\ [Next]_vars => IInv'
<1> SUFFICES ASSUME IInv, [Next]_vars PROVE IInv'
    OBVIOUS
<1>1. TypeOK /\ TypeOK' /\ CallsOnRows
    BY TypeInvariance DEF IInv, CallInv, CallsOnRows
<1>2. ASSUME NEW s \in Sessions
      PROVE  CallInv(calls'[s], actions'[calls'[s].action])
    <2> DEFINE was == calls[s]
               call == calls'[s]
               old == actions[call.action]
               new == actions'[call.action]
    <2>1. old \in Rows /\ new \in Rows /\ was \in Calls /\ call \in Calls
        BY <1>1 DEF TypeOK, Calls
    <2>2. RowEffect(old, new) /\ CallEffect(was, call)
        <3>1. call.action \in Actions
            BY <1>1 DEF TypeOK, Calls
        <3>2. QED
            BY <1>1, <3>1, StepEffect
    <2>3. CallInv(was, actions[was.action])
        BY DEF IInv
    <2>4. actions' = actions => new = old
        OBVIOUS
    <2>5. CASE call = NoCall
        BY <2>5, NoCallInv
    <2>6. CASE call # NoCall /\ call = was
        <3>1. was # NoCall /\ was.action = call.action
            BY <2>6
        <3>2. QED
            BY <2>6, <3>1, <2>1, <2>2, <2>3, CallInvKept
    <2>7. CASE /\ was # NoCall
               /\ call.op = was.op /\ call.action = was.action /\ call.seen = was.seen
               /\ \/ call.step \in {"open", "drafted"}
                  \/ actions' = actions /\ call.read = actions[call.action]
                       /\ IsDraft(call.read)
        <3>1. CallInv(was, old)
            BY <2>3, <2>7
        <3>2. \/ call.step \in {"open", "drafted"}
              \/ new = old /\ call.read = old /\ IsDraft(call.read)
            BY <2>7, <2>4
        <3> HIDE DEF was, call, old, new
        <3>3. CallInv(call, new)
            BY <2>7, <3>1, <3>2, <2>1, <2>2, CallInvKept
        <3>4. QED
            BY <3>3 DEF call, new
    <2>8. CASE /\ actions' = actions
               /\ call.seen = actions[call.action] /\ IsLive(call.seen)
               /\ call.op = "review" => call.seen.status = "submitted"
               /\ call.step = "open"
        <3>1. new = old /\ call.seen = old
            BY <2>8
        <3> HIDE DEF call, old, new
        <3>2. CallInv(call, old)
            BY <2>8, <3>1, <2>1 DEF CallInv, ReadIsVersioned, ReviewerKeepsUp, IsLive, Rows
        <3>3. QED
            BY <3>1, <3>2 DEF call, new
    <2>9. QED
        BY <2>2, <2>5, <2>6, <2>7, <2>8 DEF CallEffect
<1>3. QED
    BY <1>1, <1>2 DEF IInv

\* The invariant the two theorems below read off.
THEOREM InductiveInvariant == Spec => []IInv
BY IInvInit, IInvStep, PTL DEF Spec

\* A decision falls on the content the reviewer had on screen: whoever edits,
\* submits or decides meanwhile, a row that operator_review_artifact still admits
\* with the modal's revision says what the modal says.
THEOREM DecisionsAreInformed == Spec => []DecidesWhatWasRead
<1>1. IInv => DecidesWhatWasRead
    <2> SUFFICES ASSUME IInv, NEW r \in Reviewers, calls[r].op = "review",
                        ReviewAdmitted(actions[calls[r].action],
                                       calls[r].seen.revision_number)
                 PROVE  CoreFields(actions[calls[r].action]) = CoreFields(calls[r].seen)
        BY DEF DecidesWhatWasRead
    <2>1. r \in Sessions /\ calls[r].seen.revision_number \in Nat
        BY CallIsTyped DEF Sessions, IInv, Rows
    <2>2. QED
        BY <2>1 DEF IInv, CallInv, ReviewerKeepsUp, ReviewAdmitted
<1>2. QED
    BY <1>1, InductiveInvariant, PTL

\* The row_version condition of updateAction is enough to know the row: a
\* conditional write lands on the row its own getAction returned, or nowhere.
THEOREM VersionsIdentifyRows == Spec => []VersionIdentifiesRow
<1>1. IInv => VersionIdentifiesRow
    BY DEF IInv, CallInv, ReadIsVersioned, VersionIdentifiesRow
<1>2. QED
    BY <1>1, InductiveInvariant, PTL
=============================================================================
