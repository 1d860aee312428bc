------------------------ MODULE ActionHistoryProofs ------------------------
(***************************************************************************)
(* Theorems about the history of the artifacts of ActionWorkflow: their    *)
(* reviews form a chain, their log is complete, what is terminal stays,    *)
(* the workflow implements ActionLifecycle, and the teams are informed     *)
(* truly.  All of them look at a step only through the one row it writes   *)
(* (Writes).                                                               *)
(***************************************************************************)
EXTENDS ActionWorkflowProofs, ActionNotifications

-----------------------------------------------------------------------------
(* What a step writes.                                                      *)

Creates(old, new) ==
    /\ old.status = "absent"
    /\ \E handoff \in BOOLEAN : new = InsertedDraft(handoff)

\* A draft is rewritten.
Rewrites(old, new) == IsDraft(old) /\ IsDraft(new)

Submits(old, new) ==
    /\ IsDraft(old) /\ IsLive(new) /\ new.status = "submitted"
    /\ CoreFields(new) = CoreFields(old)

\* A draft is deleted, or a deleted row once more.
Drops(old, new) ==
    /\ old.is_deleted \/ old.status = "draft"
    /\ new.is_deleted /\ new.status = old.status
    /\ CoreFields(new) = CoreFields(old)

Judges(old, new) ==
    /\ IsLive(old) /\ old.status = "submitted"
    /\ IsLive(new) /\ new.status = "adjudicated"
    /\ CoreFields(new) = CoreFields(old)

\* The writes that are no decision of a review.
WritesQuietly(old, new) ==
    /\ old.status # "absent" /\ new.status # "absent"
    /\ old.workflow_state # "completed" /\ new.workflow_state # "completed"
    /\ new.row_version = old.row_version + 1
    /\ new.revision_number = old.revision_number
    /\ Rewrites(old, new) \/ Submits(old, new) \/ Drops(old, new) \/ Judges(old, new)

Completes(old, new) ==
    /\ IsLive(old) /\ old.status = "submitted" /\ old.workflow_state # "completed"
    /\ IsLive(new) /\ new.status = "adjudicated" /\ new.workflow_state = "completed"
    /\ new.row_version = old.row_version + 1
    /\ new.revision_number = old.revision_number
    /\ CoreFields(new) = CoreFields(old)

Returns(old, new) ==
    /\ IsLive(old) /\ old.status \in {"submitted", "adjudicated"}
    /\ old.workflow_state # "completed"
    /\ IsLive(new) /\ new.status = "draft" /\ new.workflow_state # "completed"
    /\ new.row_version = old.row_version + 1
    /\ new.revision_number = old.revision_number + 1
    /\ CoreFields(new) = CoreFields(old)

\* The text of a row or of a copy of it is of some write.
TextFits(row) == row.goal \in 0..MaxVersion /\ row.details \in 0..MaxVersion

\* The reviews grow by a decision on the revision that the row has.
Decides(a, decision) ==
    \E made \in ReviewRows :
        /\ made.decision = decision
        /\ made.revision_number = actions[a].revision_number
        /\ reviews' = [reviews EXCEPT ![a] = Append(reviews[a], made)]

Writes(a, new) ==
    /\ actions' = [actions EXCEPT ![a] = new]
    /\ TextFits(new)
    /\ \E version \in Nat :
          action_logs' = [action_logs EXCEPT ![a] =
                             Append(action_logs[a], LogEntry(actions[a], new, version))]
    /\ \/ Creates(actions[a], new) /\ reviews' = reviews
       \/ WritesQuietly(actions[a], new) /\ reviews' = reviews
       \/ Completes(actions[a], new) /\ Decides(a, "complete")
       \/ Returns(actions[a], new) /\ Decides(a, "return_to_team")

TextInv ==
    /\ \A a \in Actions : TextFits(actions[a])
    /\ \A s \in Sessions : TextFits(calls[s].seen)

-----------------------------------------------------------------------------
(* Every step writes one row in one of these ways, or none.                 *)

\* The workflow_state that the trigger stores is "completed" only for a White Cell
\* session that asks for it.
LEMMA NormalizedState ==
    ASSUME NEW old \in Rows, NEW new \in Rows, NEW reviewer \in BOOLEAN,
           new.status # "absent"
    PROVE  /\ Normalized(old, new, reviewer).workflow_state = "completed" <=>
                new.status = "adjudicated" /\ new.workflow_state = "completed" /\ reviewer
<1>1. Normalized(old, new, reviewer).workflow_state = WorkflowState(old, new, reviewer)
    BY NormalizedIsRow DEF Normalized, Rows
<1>2. new.status \in {"draft", "submitted", "adjudicated"}
    BY DEF Rows, Statuses
<1>3. CASE new.status = "draft"
    <2>1. WorkflowState(old, new, reviewer) = DraftState(old, new, reviewer)
        BY <1>3, Zenon DEF WorkflowState
    <2>2. QED BY <1>1, <1>3, <2>1 DEF DraftState
<1>4. CASE new.status = "submitted"
    <2>1. WorkflowState(old, new, reviewer) = SubmittedState(old)
        BY <1>4, Zenon DEF WorkflowState
    <2>2. QED BY <1>1, <1>4, <2>1 DEF SubmittedState
<1>5. CASE new.status = "adjudicated"
    <2>1. WorkflowState(old, new, reviewer) = AdjudicatedState(new, reviewer)
        BY <1>5, Zenon DEF WorkflowState
    <2>2. QED BY <1>1, <1>5, <2>1 DEF AdjudicatedState
<1>6. QED BY <1>2, <1>3, <1>4, <1>5

\* A participant's update is logged once and is no review.
LEMMA UpdateRowWrites ==
    ASSUME TypeOK, NEW a \in Actions, NEW requested \in Rows,
           UpdateRow(a, requested), requested.status # "absent",
           requested.status \in {actions[a].status, "submitted"},
           requested.revision_number = actions[a].revision_number,
           TextFits(requested),
           \/ Rewrites(actions[a], requested) \/ Submits(actions[a], requested)
           \/ Drops(actions[a], requested)
    PROVE  \E new \in Rows : Writes(a, new)
<1> DEFINE old == actions[a]
           new == Normalized(old, requested, FALSE)
<1>1. old \in Rows BY DEF TypeOK
<1>2. new \in Rows BY <1>1, NormalizedIsRow
<1>3. /\ new.status = requested.status
      /\ new.revision_number = requested.revision_number
      /\ new.row_version = old.row_version + 1
      /\ new.is_deleted = requested.is_deleted
      /\ CoreFields(new) = CoreFields(requested)
      /\ new.goal = requested.goal /\ new.details = requested.details
    BY <1>1, NormalizedFields DEF CoreFields
<1>4. new.workflow_state # "completed"
    BY <1>1, NormalizedState
<1>5. /\ actions' = [actions EXCEPT ![a] = new]
      /\ action_logs' = [action_logs EXCEPT ![a] = AuditedLog(action_logs[a], old, new)]
      /\ reviews' = reviews
      /\ old.workflow_state # "completed"
    BY Zenon DEF UpdateRow, CanWrite, UpdateAccepted
<1>6. AuditedLog(action_logs[a], old, new)
        = Append(action_logs[a], LogEntry(old, new, new.row_version))
    BY <1>3 DEF AuditedLog
<1>7. new.row_version \in Nat BY <1>2 DEF Rows
<1>8. TextFits(new) BY <1>3 DEF TextFits
<1>9. old.status # "absent" BY DEF Rewrites, Submits, Drops, IsDraft, IsLive
<1>10. WritesQuietly(old, new)
    <2> HIDE DEF old, new
    <2>1. CASE Rewrites(old, requested)
        BY <2>1, <1>3, <1>4, <1>5, <1>9 DEF WritesQuietly, Rewrites, IsDraft, IsLive, old
    <2>2. CASE Submits(old, requested)
        BY <2>2, <1>3, <1>4, <1>5, <1>9 DEF WritesQuietly, Submits, IsLive, old
    <2>3. CASE Drops(old, requested)
        BY <2>3, <1>3, <1>4, <1>5, <1>9 DEF WritesQuietly, Drops, old
    <2>4. QED BY <2>1, <2>2, <2>3 DEF old
<1>11. Writes(a, new)
    <2> HIDE DEF new
    <2>1. QED BY <1>5, <1>6, <1>7, <1>8, <1>10, Zenon DEF Writes
<1>12. QED BY <1>2, <1>11, Zenon

LEMMA ParticipantWrites ==
    ASSUME IInv, TextInv, NEW s \in Sessions,
           SaveEdit(s) \/ Forward(s) \/ Delete(s) \/ CompleteDetails(s) \/ Submit(s)
    PROVE  \E a \in Actions : \E new \in Rows : Writes(a, new)
<1> DEFINE a == calls[s].action
           row == actions[a]
           edited == [row EXCEPT !.goal = NextRowVersion(calls[s].read),
                                 !.details = NextRowVersion(calls[s].read),
                                 !.handoff = calls[s].seen.handoff]
           forwarded == [row EXCEPT !.details = calls[s].seen.details, !.handoff = TRUE]
           deleted == [row EXCEPT !.is_deleted = TRUE]
           submitted == [row EXCEPT !.status = "submitted"]
<1>1. /\ TypeOK /\ a \in Actions /\ row \in Rows
      /\ calls[s].seen \in Rows /\ calls[s].read \in Rows
    BY CallIsTyped DEF IInv
<1>2. row.status # "absent"
    <2>1. calls[s] # NoCall
        BY DEF SaveEdit, Forward, Delete, CompleteDetails, Submit, At, NoCall
    <2>2. QED BY <2>1 DEF IInv, CallInv
<1>3. TextFits(row) /\ TextFits(calls[s].seen)
    BY <1>1 DEF TextInv
<1>4. ASSUME calls[s].step \in {"read", "submitting"},
             row.row_version = calls[s].read.row_version
      PROVE  IsDraft(row)
    BY <1>4 DEF IInv, CallInv, ReadIsVersioned
<1>5. PICK requested \in Rows :
        /\ UpdateRow(a, requested)
        /\ requested.status # "absent"
        /\ requested.status \in {row.status, "submitted"}
        /\ requested.revision_number = row.revision_number
        /\ TextFits(requested)
        /\ Rewrites(row, requested) \/ Submits(row, requested) \/ Drops(row, requested)
    <2>1. CASE SaveEdit(s)
        <3>1. /\ UpdateRow(a, edited) /\ row.row_version = calls[s].read.row_version
              /\ calls[s].step = "read"
            BY <2>1 DEF SaveEdit, ConditionalUpdate, At
        <3>2. IsDraft(row) BY <3>1, <1>4
        <3>3. row.row_version < MaxVersion BY <3>1, Zenon DEF UpdateRow, CanWrite
        <3>4. NextRowVersion(calls[s].read) \in 0..MaxVersion
            BY <3>1, <3>3, <1>1, MaxVersionAssumption DEF NextRowVersion, Rows
        <3>9. NextRowVersion(calls[s].read) \in Nat BY <3>4, MaxVersionAssumption
        <3> HIDE DEF row, a
        <3>5. /\ edited \in Rows /\ edited.status = row.status
              /\ edited.revision_number = row.revision_number
              /\ edited.goal = NextRowVersion(calls[s].read)
              /\ edited.details = NextRowVersion(calls[s].read)
              /\ edited.is_deleted = row.is_deleted
            BY <3>9, <1>1 DEF Rows
        <3> HIDE DEF edited
        <3>6. TextFits(edited) BY <3>4, <3>5 DEF TextFits
        <3>7. Rewrites(row, edited) BY <3>2, <3>5 DEF Rewrites, IsDraft, IsLive
        <3>8. QED BY <3>1, <3>5, <3>6, <3>7, <1>2
    <2>2. CASE Forward(s) \/ CompleteDetails(s)
        <3>1. /\ UpdateRow(a, forwarded) /\ row.row_version = calls[s].read.row_version
              /\ calls[s].step = "read"
            BY <2>2 DEF Forward, CompleteDetails, ConditionalUpdate, At
        <3>2. IsDraft(row) BY <3>1, <1>4
        <3> HIDE DEF row, a
        <3>3. /\ forwarded \in Rows /\ forwarded.status = row.status
              /\ forwarded.revision_number = row.revision_number
              /\ forwarded.goal = row.goal
              /\ forwarded.details = calls[s].seen.details
              /\ forwarded.is_deleted = row.is_deleted
            BY <1>1 DEF Rows
        <3> HIDE DEF forwarded
        <3>4. TextFits(forwarded) BY <3>3, <1>3 DEF TextFits
        <3>5. Rewrites(row, forwarded) BY <3>2, <3>3 DEF Rewrites, IsDraft, IsLive
        <3>6. QED BY <3>1, <3>3, <3>4, <3>5, <1>2
    <2>3. CASE Delete(s)
        <3>1. UpdateRow(a, deleted) BY <2>3 DEF Delete
        <3> HIDE DEF row, a
        <3>2. /\ deleted \in Rows /\ deleted.status = row.status
              /\ deleted.revision_number = row.revision_number
              /\ deleted.goal = row.goal /\ deleted.details = row.details
              /\ deleted.handoff = row.handoff
              /\ deleted.is_deleted
            BY <1>1 DEF Rows
        <3>3. row.is_deleted \/ row.status = "draft"
            BY <3>1, <3>2 DEF UpdateRow, CanWrite, UpdateAccepted, row, a
        <3> HIDE DEF deleted
        <3>4. TextFits(deleted) BY <3>2, <1>3 DEF TextFits
        <3>5. Drops(row, deleted) BY <3>2, <3>3 DEF Drops, CoreFields
        <3>6. QED BY <3>1, <3>2, <3>4, <3>5, <1>2
    <2>4. CASE Submit(s)
        <3>1. /\ UpdateRow(a, submitted) /\ row.row_version = calls[s].read.row_version
              /\ calls[s].step = "submitting"
            BY <2>4 DEF Submit, ConditionalUpdate, At
        <3>2. IsDraft(row) BY <3>1, <1>4
        <3> HIDE DEF row, a
        <3>3. /\ submitted \in Rows /\ submitted.status = "submitted"
              /\ submitted.revision_number = row.revision_number
              /\ submitted.goal = row.goal /\ submitted.details = row.details
              /\ submitted.handoff = row.handoff
              /\ submitted.is_deleted = row.is_deleted
            BY <1>1 DEF Rows, Statuses
        <3> HIDE DEF submitted
        <3>4. TextFits(submitted) BY <3>3, <1>3 DEF TextFits
        <3>5. Submits(row, submitted)
            BY <3>2, <3>3 DEF Submits, IsDraft, IsLive, CoreFields
        <3>6. QED BY <3>1, <3>3, <3>4, <3>5
    <2>5. QED BY <2>1, <2>2, <2>3, <2>4
<1>6. \E new \in Rows : Writes(a, new)
    BY <1>1, <1>5, UpdateRowWrites
<1>7. QED BY <1>1, <1>6

LEMMA ReviewerWrites ==
    ASSUME IInv, TextInv, NEW r \in Sessions,
           Complete(r) \/ ReturnToTeam(r) \/ Adjudicate(r)
    PROVE  \E a \in Actions : \E new \in Rows : Writes(a, new)
<1> DEFINE a == calls[r].action
           row == actions[a]
           completed == [row EXCEPT !.status = "adjudicated", !.workflow_state = "completed"]
           returned == [row EXCEPT !.status = "draft", !.workflow_state = "returned_to_team",
                                   !.revision_number = NextRevision(row)]
           adjudicated == [row EXCEPT !.status = "adjudicated"]
           stored(requested) == Normalized(row, requested, TRUE)
           decided(decision, next) ==
               [decision |-> decision, revision_number |-> row.revision_number,
                next_revision_number |-> next, prior_status |-> row.status]
<1>1. /\ TypeOK /\ a \in Actions /\ row \in Rows
    BY CallIsTyped DEF IInv
<1>2. IsLive(row)
    BY DEF Complete, ReturnToTeam, Adjudicate, ReviewAdmitted
<1>3. TextFits(row) BY <1>1 DEF TextInv
<1>4. row.workflow_state # "completed"
    BY Zenon DEF Complete, ReturnToTeam, Adjudicate, CanWrite, UpdateAccepted
<1> HIDE DEF row
<1>5. /\ completed \in Rows /\ adjudicated \in Rows
      /\ decided("complete", row.revision_number) \in ReviewRows
      /\ row.revision_number \in Nat
    <2>1. row.revision_number \in Nat BY <1>1 DEF Rows
    <2>2. decided("complete", row.revision_number) \in ReviewRows
        BY <1>1, <2>1, Zenon DEF Rows, ReviewRows
    <2>3. QED BY <1>1, <2>1, <2>2, Zenon DEF Rows, Statuses, WorkflowStates
<1>6. returned \in Rows /\ decided("return_to_team", NextRevision(row)) \in ReviewRows
    <2>1. NextRevision(row) \in Nat BY <1>1 DEF Rows, NextRevision
    <2>2. returned \in Rows BY <1>1, <2>1, Zenon DEF Rows, Statuses, WorkflowStates
    <2>3. decided("return_to_team", NextRevision(row)) \in ReviewRows
        BY <1>1, <2>1, Zenon DEF Rows, ReviewRows
    <2>4. QED BY <2>2, <2>3
<1>7. ASSUME NEW requested \in Rows, requested.status # "absent",
             requested.is_deleted = row.is_deleted,
             requested.goal = row.goal, requested.details = row.details,
             requested.handoff = row.handoff
      PROVE  /\ stored(requested) \in Rows
             /\ stored(requested).status = requested.status
             /\ stored(requested).revision_number = requested.revision_number
             /\ stored(requested).row_version = row.row_version + 1
             /\ stored(requested).row_version \in Nat
             /\ IsLive(stored(requested))
             /\ CoreFields(stored(requested)) = CoreFields(row)
             /\ TextFits(stored(requested))
             /\ stored(requested).workflow_state = "completed" <=>
                  requested.status = "adjudicated" /\ requested.workflow_state = "completed"
    <2>1. stored(requested) \in Rows BY <1>1, <1>7, NormalizedIsRow
    <2>2. /\ stored(requested).status = requested.status
          /\ stored(requested).revision_number = requested.revision_number
          /\ stored(requested).row_version = row.row_version + 1
          /\ stored(requested).is_deleted = requested.is_deleted
          /\ stored(requested).goal = requested.goal
          /\ stored(requested).details = requested.details
          /\ stored(requested).handoff = requested.handoff
        BY <1>1, <1>7, NormalizedFields
    <2>3. stored(requested).workflow_state = "completed" <=>
                  requested.status = "adjudicated" /\ requested.workflow_state = "completed"
        BY <1>1, <1>7, NormalizedState
    <2> HIDE DEF stored
    <2>4. stored(requested).row_version \in Nat BY <2>1 DEF Rows
    <2>5. QED BY <1>2, <1>3, <1>7, <2>1, <2>2, <2>3, <2>4 DEF IsLive, CoreFields, TextFits
<1>8. CASE Complete(r)
    <2> DEFINE new == stored(completed)
               made == decided("complete", row.revision_number)
    <2>1. /\ actions' = [actions EXCEPT ![a] = new]
          /\ action_logs' = [action_logs EXCEPT ![a] =
                Append(AuditedLog(action_logs[a], row, new),
                       LogEntry(row, new, new.row_version))]
          /\ reviews' = [reviews EXCEPT ![a] = Append(reviews[a], made)]
          /\ row.status = "submitted"
        BY <1>8, Zenon DEF Complete, UnderReview, row
    <2>2. /\ completed.status = "adjudicated" /\ completed.workflow_state = "completed"
          /\ completed.revision_number = row.revision_number
          /\ completed.is_deleted = row.is_deleted
          /\ completed.goal = row.goal /\ completed.details = row.details
          /\ completed.handoff = row.handoff
        BY <1>1 DEF Rows
    <2> HIDE DEF completed, stored
    <2>3. /\ new \in Rows /\ new.status = "adjudicated" /\ new.workflow_state = "completed"
          /\ new.revision_number = row.revision_number
          /\ new.row_version = row.row_version + 1 /\ new.row_version \in Nat
          /\ IsLive(new) /\ CoreFields(new) = CoreFields(row) /\ TextFits(new)
        BY <1>5, <1>7, <2>2
    <2>4. /\ made.decision = "complete" /\ made.revision_number = row.revision_number
        OBVIOUS
    <2> HIDE DEF new, made
    <2>5. AuditedLog(action_logs[a], row, new) = action_logs[a]
        BY <2>1, <2>3 DEF AuditedLog
    <2>6. Completes(row, new)
        BY <1>2, <1>4, <2>1, <2>3 DEF Completes
    <2>7. Decides(a, "complete")
        BY <2>1, <2>4, <1>5, Zenon DEF Decides, made, row
    <2>8. Writes(a, new)
        BY <2>1, <2>3, <2>5, <2>6, <2>7, Zenon DEF Writes, row
    <2>9. QED BY <1>1, <2>3, <2>8
<1>9. CASE ReturnToTeam(r)
    <2> DEFINE new == stored(returned)
               made == decided("return_to_team", NextRevision(row))
    <2>1. /\ actions' = [actions EXCEPT ![a] = new]
          /\ action_logs' = [action_logs EXCEPT ![a] =
                AuditedLog(action_logs[a], row, new)]
          /\ reviews' = [reviews EXCEPT ![a] = Append(reviews[a], made)]
          /\ row.status \in {"submitted", "adjudicated"}
        BY <1>9, Zenon DEF ReturnToTeam, row
    <2>2. /\ returned.status = "draft"
          /\ returned.revision_number = row.revision_number + 1
          /\ returned.is_deleted = row.is_deleted
          /\ returned.goal = row.goal /\ returned.details = row.details
          /\ returned.handoff = row.handoff
        BY <1>1 DEF Rows, NextRevision
    <2> HIDE DEF returned, stored
    <2>3. /\ new \in Rows /\ new.status = "draft" /\ new.workflow_state # "completed"
          /\ new.revision_number = row.revision_number + 1
          /\ new.row_version = row.row_version + 1 /\ new.row_version \in Nat
          /\ IsLive(new) /\ CoreFields(new) = CoreFields(row) /\ TextFits(new)
        BY <1>6, <1>7, <2>2
    <2>4. /\ made.decision = "return_to_team" /\ made.revision_number = row.revision_number
        OBVIOUS
    <2> HIDE DEF new, made
    <2>5. AuditedLog(action_logs[a], row, new)
            = Append(action_logs[a], LogEntry(row, new, new.row_version))
        BY <2>1, <2>3 DEF AuditedLog
    <2>6. Returns(row, new)
        BY <1>2, <1>4, <2>1, <2>3 DEF Returns
    <2>7. Decides(a, "return_to_team")
        BY <2>1, <2>4, <1>6, Zenon DEF Decides, made, row
    <2>8. Writes(a, new)
        BY <2>1, <2>3, <2>5, <2>6, <2>7, Zenon DEF Writes, row
    <2>9. QED BY <1>1, <2>3, <2>8
<1>10. CASE Adjudicate(r)
    <2> DEFINE new == stored(adjudicated)
    <2>1. /\ actions' = [actions EXCEPT ![a] = new]
          /\ action_logs' = [action_logs EXCEPT ![a] =
                Append(AuditedLog(action_logs[a], row, new), LogEntry(row, new, 0))]
          /\ reviews' = reviews
          /\ row.status = "submitted"
        BY <1>10, Zenon DEF Adjudicate, row
    <2>2. /\ adjudicated.status = "adjudicated"
          /\ adjudicated.workflow_state = row.workflow_state
          /\ adjudicated.revision_number = row.revision_number
          /\ adjudicated.is_deleted = row.is_deleted
          /\ adjudicated.goal = row.goal /\ adjudicated.details = row.details
          /\ adjudicated.handoff = row.handoff
        BY <1>1 DEF Rows
    <2> HIDE DEF adjudicated, stored
    <2>3. /\ new \in Rows /\ new.status = "adjudicated" /\ new.workflow_state # "completed"
          /\ new.revision_number = row.revision_number
          /\ new.row_version = row.row_version + 1
          /\ IsLive(new) /\ CoreFields(new) = CoreFields(row) /\ TextFits(new)
        BY <1>4, <1>5, <1>7, <2>2
    <2> HIDE DEF new
    <2>4. AuditedLog(action_logs[a], row, new) = action_logs[a]
        BY <2>1, <2>3 DEF AuditedLog
    <2>5. WritesQuietly(row, new)
        BY <1>2, <1>4, <2>1, <2>3 DEF WritesQuietly, Judges, IsLive
    <2>6. 0 \in Nat OBVIOUS
    <2>7. Writes(a, new)
        BY <2>1, <2>3, <2>4, <2>5, <2>6, Zenon DEF Writes, row
    <2>8. QED BY <1>1, <2>3, <2>7
<1>11. QED BY <1>8, <1>9, <1>10

LEMMA CreateWrites ==
    ASSUME TypeOK, NEW s \in Sessions, NEW a \in Actions, NEW handoff \in BOOLEAN,
           Create(s, a, handoff), actions[a] = AbsentRow
    PROVE  Writes(a, InsertedDraft(handoff))
<1> DEFINE new == InsertedDraft(handoff)
<1>1. TextFits(new)
    BY MaxVersionAssumption DEF TextFits, InsertedDraft, Create
<1> HIDE DEF new
<1>2. 1 \in Nat OBVIOUS
<1>3. /\ actions' = [actions EXCEPT ![a] = new]
      /\ action_logs' = [action_logs EXCEPT ![a] =
            Append(action_logs[a], LogEntry(actions[a], new, 1))]
      /\ reviews' = reviews
    BY Zenon DEF Create, new
<1>4. Creates(actions[a], new) BY Zenon DEF Create, Creates, new
<1>5. Writes(a, new) BY <1>1, <1>2, <1>3, <1>4, Zenon DEF Writes
<1>6. QED BY <1>5 DEF new

\* A step that writes no row.
Rests == UNCHANGED <<actions, action_logs, reviews>>

\* A row that was never written.
AbsentInv ==
    \A a \in Actions : actions[a].status = "absent" =>
        actions[a] = AbsentRow /\ reviews[a] = <<>>

LEMMA StepWrites ==
    ASSUME IInv, TextInv, AbsentInv, [Next]_vars
    PROVE  Rests \/ \E a \in Actions : \E new \in Rows : Writes(a, new)
<1>1. CASE UNCHANGED vars BY <1>1 DEF vars, Rests
<1>2. ASSUME NEW s \in Scribes, NEW a \in Actions, NEW handoff \in BOOLEAN,
             Create(s, a, handoff)
      PROVE  \E new \in Rows : Writes(a, new)
    <2>1. s \in Sessions BY DEF Sessions
    <2>2. actions[a] = AbsentRow BY <1>2 DEF Create, AbsentInv
    <2>3. Writes(a, InsertedDraft(handoff)) BY <1>2, <2>1, <2>2, CreateWrites DEF IInv
    <2>4. QED BY <2>3, InsertedDraftIsRow
<1>3. ASSUME NEW s \in Sessions,
             \/ \E a \in Actions, op \in {"edit", "forward", "delete"} : OpenDraft(s, op, a)
             \/ \E a \in Actions : OpenSubmit(s, a) \/ OpenReview(s, a)
             \/ ReadDraft(s) \/ Fail(s) \/ Close(s)
      PROVE  Rests
    BY <1>3 DEF OpenDraft, OpenSubmit, OpenReview, ReadDraft, Fail, Close, Rests
<1>4. ASSUME NEW s \in Scribes, ScribeStep(s)
      PROVE  Rests \/ \E a \in Actions : \E new \in Rows : Writes(a, new)
    <2>1. s \in Sessions BY DEF Sessions
    <2>2. QED BY <1>2, <1>3, <1>4, <2>1, ParticipantWrites DEF ScribeStep
<1>5. ASSUME NEW f \in Facilitators, FacilitatorStep(f)
      PROVE  Rests \/ \E a \in Actions : \E new \in Rows : Writes(a, new)
    <2>1. f \in Sessions BY DEF Sessions
    <2>2. QED BY <1>3, <1>5, <2>1, ParticipantWrites DEF FacilitatorStep
<1>6. ASSUME NEW r \in Reviewers, ReviewerStep(r)
      PROVE  Rests \/ \E a \in Actions : \E new \in Rows : Writes(a, new)
    <2>1. r \in Sessions BY DEF Sessions
    <2>2. QED BY <1>3, <1>6, <2>1, ReviewerWrites DEF ReviewerStep
<1>7. ASSUME NEW r \in Reviewers, Complete(r)
      PROVE  \E a \in Actions : \E new \in Rows : Writes(a, new)
    <2>1. r \in Sessions BY DEF Sessions
    <2>2. QED BY <1>7, <2>1, ReviewerWrites
<1>8. QED BY <1>1, <1>3, <1>4, <1>5, <1>6, <1>7 DEF Next, StepButComplete

-----------------------------------------------------------------------------
(* The histories, row by row.                                               *)

ChainFits(row, chain) ==
    /\ \A i \in 1..Len(chain) :
         /\ chain[i].revision_number = i
         /\ chain[i].decision = "complete" => i = Len(chain)
    /\ row.workflow_state = "completed" <=>
         chain # <<>> /\ chain[Len(chain)].decision = "complete"
    /\ row.status # "absent" =>
         row.revision_number = IF row.workflow_state = "completed"
                               THEN Len(chain) ELSE Len(chain) + 1

LogFits(row, log) ==
    /\ Len(log) = row.row_version
    /\ \A i \in 2..Len(log) : log[i].status_from = log[i - 1].status_to
    /\ log # <<>> => log[Len(log)].status_to = row.status

\* A decision on the revision that the row has continues the chain.
LEMMA ChainGrows ==
    ASSUME NEW old \in Rows, NEW new \in Rows, NEW chain \in Seq(ReviewRows),
           ChainFits(old, chain), NEW made \in ReviewRows,
           made.revision_number = old.revision_number,
           \/ Completes(old, new) /\ made.decision = "complete"
           \/ Returns(old, new) /\ made.decision = "return_to_team"
    PROVE  ChainFits(new, Append(chain, made))
<1> DEFINE next == Append(chain, made)
           n == Len(chain)
<1>1. /\ n \in Nat /\ Len(next) = n + 1 /\ next[n + 1] = made /\ next # <<>>
      /\ \A i \in 1..n : next[i] = chain[i]
    OBVIOUS
<1>2. old.revision_number = n + 1
    BY DEF ChainFits, Completes, Returns, IsLive
<1>3. \A i \in 1..n : chain[i].decision # "complete"
    <2> SUFFICES ASSUME NEW i \in 1..n, chain[i].decision = "complete" PROVE FALSE
        OBVIOUS
    <2>1. i = n /\ chain # <<>> BY <1>1 DEF ChainFits
    <2>2. old.workflow_state = "completed" BY <2>1 DEF ChainFits
    <2>3. QED BY <2>2 DEF Completes, Returns
<1>4. \A i \in 1..n : chain[i].revision_number = i
    BY DEF ChainFits
<1> HIDE DEF next, n
<1>5. \A i \in 1..Len(next) :
        /\ next[i].revision_number = i
        /\ next[i].decision = "complete" => i = Len(next)
    <2> SUFFICES ASSUME NEW i \in 1..(n + 1)
                 PROVE  /\ next[i].revision_number = i
                        /\ next[i].decision = "complete" => i = n + 1
        BY <1>1
    <2>1. CASE i = n + 1 BY <2>1, <1>1, <1>2
    <2>2. CASE i \in 1..n BY <2>2, <1>1, <1>3, <1>4
    <2>3. QED BY <2>1, <2>2, <1>1
<1>6. new.workflow_state = "completed" <=>
        next # <<>> /\ next[Len(next)].decision = "complete"
    BY <1>1 DEF Completes, Returns
<1>7. new.revision_number = IF new.workflow_state = "completed"
                            THEN Len(next) ELSE Len(next) + 1
    BY <1>1, <1>2 DEF Completes, Returns
<1>8. ChainFits(new, next) BY <1>5, <1>6, <1>7, Zenon DEF ChainFits
<1>9. QED BY <1>8 DEF next

\* Every other write leaves it where it is.
LEMMA ChainStays ==
    ASSUME NEW old \in Rows, NEW new \in Rows, NEW chain \in Seq(ReviewRows),
           ChainFits(old, chain), old.status = "absent" => chain = <<>>,
           Creates(old, new) \/ WritesQuietly(old, new)
    PROVE  ChainFits(new, chain)
<1>1. CASE Creates(old, new)
    <2>1. /\ new.workflow_state # "completed" /\ new.revision_number = 1
        BY <1>1 DEF Creates, InsertedDraft
    <2>2. chain = <<>> /\ Len(chain) = 0 BY <1>1 DEF Creates
    <2>3. QED BY <2>1, <2>2 DEF ChainFits
<1>2. CASE WritesQuietly(old, new)
    BY <1>2 DEF ChainFits, WritesQuietly
<1>3. QED BY <1>1, <1>2

\* Every write adds one entry that starts where the one before it ended.
LEMMA LogGrows ==
    ASSUME NEW old \in Rows, NEW new \in Rows, NEW log \in Seq(LogEntries),
           LogFits(old, log), NEW version \in Nat,
           new.row_version = old.row_version + 1
    PROVE  LogFits(new, Append(log, LogEntry(old, new, version)))
<1> DEFINE entry == LogEntry(old, new, version)
           next == Append(log, entry)
           n == Len(log)
<1>1. entry.status_from = old.status /\ entry.status_to = new.status
    BY DEF LogEntry
<1>2. entry \in LogEntries BY DEF LogEntry, LogEntries, Rows
<1> HIDE DEF entry
<1>3. /\ n \in Nat /\ Len(next) = n + 1 /\ next[n + 1] = entry
      /\ \A i \in 1..n : next[i] = log[i]
    BY <1>2
<1>4. /\ n = old.row_version
      /\ \A i \in 2..n : log[i].status_from = log[i - 1].status_to
      /\ n # 0 => log[n].status_to = old.status
    BY DEF LogFits
<1> HIDE DEF next, n
<1>5. \A i \in 2..Len(next) : next[i].status_from = next[i - 1].status_to
    <2> SUFFICES ASSUME NEW i \in 2..(n + 1)
                 PROVE  next[i].status_from = next[i - 1].status_to
        BY <1>3
    <2>1. CASE i = n + 1
        <3>1. n \in 1..n /\ i - 1 = n /\ n # 0 BY <2>1, <1>3
        <3>2. QED BY <3>1, <2>1, <1>1, <1>3, <1>4
    <2>2. CASE i \in 2..n
        <3>1. i \in 1..n /\ i - 1 \in 1..n BY <2>2, <1>3
        <3>2. QED BY <3>1, <2>2, <1>3, <1>4
    <2>3. QED BY <2>1, <2>2, <1>3
<1>6. Len(next) = new.row_version BY <1>3, <1>4
<1>7. next[Len(next)].status_to = new.status BY <1>1, <1>3
<1>8. LogFits(new, next) BY <1>5, <1>6, <1>7 DEF LogFits
<1>9. QED BY <1>8 DEF next, entry

-----------------------------------------------------------------------------
(* The inductive invariant.                                                 *)

HistoryInv ==
    /\ IInv
    /\ TextInv
    /\ AbsentInv
    /\ \A a \in Actions : ChainFits(actions[a], reviews[a])
    /\ \A a \in Actions : LogFits(actions[a], action_logs[a])

LEMMA HistoryInit == Init => HistoryInv
<1> SUFFICES ASSUME Init PROVE HistoryInv OBVIOUS
<1>1. IInv BY IInvInit
<1>2. TextFits(AbsentRow) BY MaxVersionAssumption DEF TextFits, AbsentRow
<1>3. ChainFits(AbsentRow, <<>>) BY DEF ChainFits, AbsentRow
<1>4. LogFits(AbsentRow, <<>>) BY DEF LogFits, AbsentRow
<1>5. NoCall.seen = AbsentRow BY DEF NoCall
<1>6. TextInv BY <1>2, <1>5, Zenon DEF Init, TextInv
<1>7. AbsentInv BY Zenon DEF Init, AbsentInv
<1>8. \A a \in Actions : ChainFits(actions[a], reviews[a]) BY <1>3, Zenon DEF Init
<1>9. \A a \in Actions : LogFits(actions[a], action_logs[a]) BY <1>4, Zenon DEF Init
<1>10. QED BY <1>1, <1>6, <1>7, <1>8, <1>9 DEF HistoryInv

LEMMA HistoryStep == HistoryInv /\ [Next]_vars => HistoryInv'
<1> SUFFICES ASSUME HistoryInv, [Next]_vars PROVE HistoryInv' OBVIOUS
<1>1. IInv /\ IInv' /\ TypeOK /\ TypeOK' BY IInvStep DEF HistoryInv, IInv
<1>2. TextInv /\ AbsentInv BY DEF HistoryInv
<1>3. Rests \/ \E a \in Actions : \E new \in Rows : Writes(a, new)
    BY <1>1, <1>2, StepWrites
<1>4. \A s \in Sessions : CallEffect(calls[s], calls'[s])
    <2>1. CallsOnRows BY <1>1 DEF IInv, CallInv, CallsOnRows
    <2>2. QED BY <1>1, <2>1, StepEffect
<1>5. TextFits(AbsentRow) BY MaxVersionAssumption DEF TextFits, AbsentRow
<1>6. \A s \in Sessions : TextFits(calls'[s].seen)
    <2> TAKE s \in Sessions
    <2>1. calls[s].action \in Actions /\ calls'[s].action \in Actions
        BY <1>1 DEF TypeOK, Calls
    <2>2. TextFits(calls[s].seen) /\ TextFits(actions[calls'[s].action])
        BY <2>1, <1>2 DEF TextInv
    <2>3. NoCall.seen = AbsentRow BY DEF NoCall
    <2>4. QED BY <2>2, <2>3, <1>4, <1>5, Zenon DEF CallEffect
<1>7. CASE Rests
    <2>1. actions' = actions /\ reviews' = reviews /\ action_logs' = action_logs
        BY <1>7 DEF Rests
    <2>2. TextInv' BY <2>1, <1>2, <1>6 DEF TextInv
    <2>3. AbsentInv' BY <2>1, <1>2 DEF AbsentInv
    <2>4. QED BY <2>1, <2>2, <2>3, <1>1 DEF HistoryInv
<1>8. CASE \E a \in Actions : \E new \in Rows : Writes(a, new)
    <2>1. PICK a \in Actions, new \in Rows : Writes(a, new) BY <1>8
    <2> DEFINE old == actions[a]
    <2>2. /\ old \in Rows /\ reviews[a] \in Seq(ReviewRows)
          /\ action_logs[a] \in Seq(LogEntries)
        BY <1>1 DEF TypeOK
    <2>3. actions'[a] = new /\ \A b \in Actions \ {a} : actions'[b] = actions[b]
        <3>1. actions' = [actions EXCEPT ![a] = new] BY <2>1, Zenon DEF Writes
        <3>2. QED BY <3>1, <1>1 DEF TypeOK
    <2>4. PICK version \in Nat :
            action_logs' = [action_logs EXCEPT ![a] =
                               Append(action_logs[a], LogEntry(old, new, version))]
        BY <2>1, Zenon DEF Writes
    <2>5. /\ action_logs'[a] = Append(action_logs[a], LogEntry(old, new, version))
          /\ \A b \in Actions \ {a} : action_logs'[b] = action_logs[b]
        BY <2>4, <1>1 DEF TypeOK
    <2>6. \/ (Creates(old, new) \/ WritesQuietly(old, new)) /\ reviews' = reviews
          \/ Completes(old, new) /\ Decides(a, "complete")
          \/ Returns(old, new) /\ Decides(a, "return_to_team")
        BY <2>1, Zenon DEF Writes
    <2>7. TextFits(new) BY <2>1, Zenon DEF Writes
    <2>8. /\ new.status # "absent"
          /\ new.row_version = old.row_version + 1
        <3>1. CASE Creates(old, new)
            <4>1. old = AbsentRow BY <3>1, <1>2 DEF Creates, AbsentInv
            <4>2. QED BY <3>1, <4>1 DEF Creates, InsertedDraft, AbsentRow
        <3>2. CASE WritesQuietly(old, new) \/ Completes(old, new) \/ Returns(old, new)
            BY <3>2 DEF WritesQuietly, Completes, Returns
        <3>3. QED BY <2>6, <3>1, <3>2
    <2>9. ChainFits(old, reviews[a]) /\ LogFits(old, action_logs[a])
        BY DEF HistoryInv
    <2>10. old.status = "absent" => reviews[a] = <<>> BY <1>2 DEF AbsentInv
    <2> HIDE DEF old
    <2>11. ChainFits(new, reviews'[a]) /\ \A b \in Actions \ {a} : reviews'[b] = reviews[b]
        <3>1. CASE (Creates(old, new) \/ WritesQuietly(old, new)) /\ reviews' = reviews
            BY <3>1, <2>2, <2>9, <2>10, ChainStays
        <3>2. ASSUME NEW decision, Decides(a, decision),
                     \/ Completes(old, new) /\ decision = "complete"
                     \/ Returns(old, new) /\ decision = "return_to_team"
              PROVE  /\ ChainFits(new, reviews'[a])
                     /\ \A b \in Actions \ {a} : reviews'[b] = reviews[b]
            <4>1. PICK made \in ReviewRows :
                    /\ made.decision = decision
                    /\ made.revision_number = old.revision_number
                    /\ reviews' = [reviews EXCEPT ![a] = Append(reviews[a], made)]
                BY <3>2, Zenon DEF Decides, old
            <4>2. ChainFits(new, Append(reviews[a], made))
                BY <3>2, <4>1, <2>2, <2>9, ChainGrows
            <4>3. /\ reviews'[a] = Append(reviews[a], made)
                  /\ \A b \in Actions \ {a} : reviews'[b] = reviews[b]
                BY <4>1, <1>1 DEF TypeOK
            <4>4. QED BY <4>2, <4>3
        <3>3. QED BY <2>6, <3>1, <3>2
    <2>12. LogFits(new, action_logs'[a])
        <3>1. LogFits(new, Append(action_logs[a], LogEntry(old, new, version)))
            BY <2>2, <2>8, <2>9, LogGrows
        <3>2. QED BY <3>1, <2>5
    <2>13. TextInv' BY <1>2, <1>6, <2>3, <2>7, Zenon DEF TextInv
    <2>14. AbsentInv' BY <1>2, <2>3, <2>8, <2>11 DEF AbsentInv
    <2>15. \A b \in Actions : /\ ChainFits(actions'[b], reviews'[b])
                              /\ LogFits(actions'[b], action_logs'[b])
        <3> TAKE b \in Actions
        <3>1. CASE b = a BY <3>1, <2>3, <2>11, <2>12
        <3>2. CASE b # a
            <4>1. /\ actions'[b] = actions[b] /\ reviews'[b] = reviews[b]
                  /\ action_logs'[b] = action_logs[b]
                BY <3>2, <2>3, <2>5, <2>11
            <4>2. QED BY <4>1 DEF HistoryInv
        <3>3. QED BY <3>1, <3>2
    <2>16. QED BY <1>1, <2>13, <2>14, <2>15 DEF HistoryInv
<1>9. QED BY <1>3, <1>7, <1>8

\* A row stands where its reviews and its log put it, and every text in it or in a
\* copy of it is of some write.
THEOREM HistoryHolds == Spec => []HistoryInv
BY HistoryInit, HistoryStep, PTL DEF Spec

\* The reviews of an artifact are one decision for each of its revisions, in order, and
\* only the last can be a completion, whatever operator_review_artifact is raced or sent
\* again with.
THEOREM ReviewsChain == Spec => []ReviewChain
<1>1. HistoryInv => ReviewChain
    BY Zenon DEF HistoryInv, ChainFits, ReviewChain
<1>2. QED BY <1>1, HistoryHolds, PTL

\* The audit trigger and the reviews between them log every write of a row once, and
\* the log leads from status to status without a gap.
THEOREM EveryWriteIsLogged == Spec => []LogIsComplete
<1>1. HistoryInv => LogIsComplete
    BY Zenon DEF HistoryInv, LogFits, LogIsComplete
<1>2. QED BY <1>1, HistoryHolds, PTL

-----------------------------------------------------------------------------
(* What is terminal.                                                        *)

\* A completed row keeps every field, a deleted one its text and status.
Keeps(a) ==
    /\ actions[a].workflow_state = "completed" => actions'[a] = actions[a]
    /\ actions[a].is_deleted =>
         /\ actions'[a].is_deleted
         /\ CoreFields(actions'[a]) = CoreFields(actions[a])
         /\ actions'[a].status = actions[a].status

LEMMA TerminalStep ==
    ASSUME HistoryInv, [Next]_vars, NEW a \in Actions
    PROVE  Keeps(a)
<1>1. TypeOK /\ IInv /\ TextInv /\ AbsentInv BY DEF HistoryInv, IInv
<1>2. ASSUME NEW b \in Actions, NEW new \in Rows, Writes(b, new) PROVE Keeps(a)
    <2>1. actions' = [actions EXCEPT ![b] = new] BY <1>2, Zenon DEF Writes
    <2>2. CASE a # b
        <3>1. actions'[a] = actions[a] BY <2>1, <2>2, <1>1 DEF TypeOK
        <3>2. QED BY <3>1 DEF Keeps
    <2>3. CASE a = b
        <3>1. actions'[a] = new BY <2>1, <2>3, <1>1 DEF TypeOK
        <3> DEFINE old == actions[a]
        <3>2. \/ Creates(old, new) \/ WritesQuietly(old, new)
              \/ Completes(old, new) \/ Returns(old, new)
            BY <1>2, <2>3, Zenon DEF Writes
        <3>3. CASE Creates(old, new)
            <4>1. old = AbsentRow BY <3>3, <1>1 DEF Creates, AbsentInv
            <4>2. old.workflow_state # "completed" /\ ~old.is_deleted
                BY <4>1 DEF AbsentRow
            <4>3. QED BY <4>2 DEF Keeps
        <3>4. CASE WritesQuietly(old, new) \/ Completes(old, new) \/ Returns(old, new)
            <4>1. old.workflow_state # "completed"
                BY <3>4 DEF WritesQuietly, Completes, Returns
            <4>2. old.is_deleted =>
                    /\ new.is_deleted /\ new.status = old.status
                    /\ CoreFields(new) = CoreFields(old)
                BY <3>4 DEF WritesQuietly, Completes, Returns, IsLive, Rewrites,
                            IsDraft, Submits, Drops, Judges
            <4>3. QED BY <3>1, <4>1, <4>2 DEF Keeps
        <3>5. QED BY <3>2, <3>3, <3>4
    <2>4. QED BY <2>2, <2>3
<1>3. CASE Rests BY <1>3 DEF Rests, Keeps
<1>4. QED BY <1>1, <1>2, <1>3, StepWrites

\* A completed row is not written by any call, however old, and a deleted one keeps its
\* text and status through any further writes.
THEOREM TerminalStays == Spec => TerminalIsFinal
<1>1. HistoryInv /\ [Next]_vars =>
        [\A a \in Actions :
          /\ actions[a].workflow_state = "completed" => actions'[a] = actions[a]
          /\ actions[a].is_deleted =>
               /\ actions'[a].is_deleted
               /\ CoreFields(actions'[a]) = CoreFields(actions[a])
               /\ actions'[a].status = actions[a].status]_vars
    BY TerminalStep, Zenon DEF Keeps
<1>2. QED BY <1>1, HistoryHolds, PTL DEF Spec, TerminalIsFinal

-----------------------------------------------------------------------------
(* The refinement of ActionLifecycle.                                       *)

LEMMA StageOfLive ==
    ASSUME NEW row \in Rows, IsLive(row)
    PROVE  /\ row.workflow_state = "completed" => Stage(row) = "completed"
           /\ row.workflow_state # "completed" =>
                /\ row.status = "draft" => Stage(row) = "open"
                /\ row.status = "submitted" => Stage(row) = "review"
                /\ row.status = "adjudicated" => Stage(row) = "judged"
<1>1. row.status # "absent" /\ ~row.is_deleted BY DEF IsLive
<1>2. CASE row.workflow_state = "completed" BY <1>1, <1>2 DEF Stage
<1>3. CASE row.workflow_state # "completed"
    <2>1. row.status = "draft" => Stage(row) = "open" BY <1>1, <1>3 DEF Stage
    <2>2. row.status = "submitted" => Stage(row) = "review" BY <1>1, <1>3 DEF Stage
    <2>3. row.status = "adjudicated" => Stage(row) = "judged" BY <1>1, <1>3 DEF Stage
    <2>4. QED BY <1>3, <2>1, <2>2, <2>3
<1>4. QED BY <1>2, <1>3

LEMMA StageOfOthers ==
    ASSUME NEW row \in Rows
    PROVE  /\ row.status = "absent" => Stage(row) = "absent"
           /\ row.status # "absent" /\ row.is_deleted => Stage(row) = "discarded"
BY DEF Stage

\* The text of a row that fits is one that the lifecycle knows.
LEMMA TextIsText ==
    ASSUME NEW row \in Rows, TextFits(row)
    PROVE  CoreFields(row) \in (0..MaxVersion) \X (0..MaxVersion) \X BOOLEAN
<1>1. row.handoff \in BOOLEAN BY Zenon DEF Rows
<1>2. QED BY <1>1, Zenon DEF TextFits, CoreFields

\* What one write is to the lifecycle.
LEMMA WriteIsLifecycleStep ==
    ASSUME NEW old \in Rows, NEW new \in Rows, old.status = "absent" => old = AbsentRow,
           \/ Creates(old, new) \/ WritesQuietly(old, new)
           \/ Completes(old, new) \/ Returns(old, new)
    PROVE  \/ Stage(old) = "absent" /\ Stage(new) = "open" /\ new.revision_number = 1
           \/ /\ Stage(old) = "open" /\ Stage(new) = "open"
              /\ new.revision_number = old.revision_number
           \/ /\ new.revision_number = old.revision_number
              /\ CoreFields(new) = CoreFields(old)
              /\ <<Stage(old), Stage(new)>> \in
                   {<<"open", "discarded">>, <<"discarded", "discarded">>,
                    <<"open", "review">>, <<"review", "judged">>,
                    <<"review", "completed">>}
           \/ /\ Stage(old) \in {"review", "judged"} /\ Stage(new) = "open"
              /\ new.revision_number = old.revision_number + 1
              /\ CoreFields(new) = CoreFields(old)
<1>1. CASE Creates(old, new)
    <2>1. new.status = "draft" /\ IsLive(new) /\ new.workflow_state # "completed"
          /\ new.revision_number = 1
        BY <1>1 DEF Creates, InsertedDraft, IsLive
    <2>2. Stage(new) = "open" BY <2>1, StageOfLive
    <2>3. Stage(old) = "absent" BY <1>1, StageOfOthers DEF Creates
    <2>4. QED BY <2>1, <2>2, <2>3
<1>2. CASE WritesQuietly(old, new)
    <2>1. /\ old.workflow_state # "completed" /\ new.workflow_state # "completed"
          /\ new.revision_number = old.revision_number
          /\ old.status # "absent" /\ new.status # "absent"
        BY <1>2 DEF WritesQuietly
    <2>2. CASE Rewrites(old, new)
        <3>1. Stage(old) = "open" /\ Stage(new) = "open"
            BY <2>1, <2>2, StageOfLive DEF Rewrites, IsDraft
        <3>2. QED BY <2>1, <3>1
    <2>3. CASE Submits(old, new)
        <3>1. Stage(old) = "open" /\ Stage(new) = "review"
              /\ CoreFields(new) = CoreFields(old)
            BY <2>1, <2>3, StageOfLive DEF Submits, IsDraft
        <3>2. QED BY <2>1, <3>1
    <2>4. CASE Drops(old, new)
        <3>1. Stage(new) = "discarded" /\ CoreFields(new) = CoreFields(old)
            BY <2>1, <2>4, StageOfOthers DEF Drops
        <3>2. Stage(old) \in {"open", "discarded"}
            <4>1. CASE old.is_deleted BY <2>1, <4>1, StageOfOthers
            <4>2. CASE ~old.is_deleted
                BY <2>1, <2>4, <4>2, StageOfLive DEF Drops, IsLive
            <4>3. QED BY <4>1, <4>2
        <3>3. QED BY <2>1, <3>1, <3>2
    <2>5. CASE Judges(old, new)
        <3>1. Stage(old) = "review" /\ Stage(new) = "judged"
              /\ CoreFields(new) = CoreFields(old)
            BY <2>1, <2>5, StageOfLive DEF Judges
        <3>2. QED BY <2>1, <3>1
    <2>6. QED BY <1>2, <2>2, <2>3, <2>4, <2>5 DEF WritesQuietly
<1>3. CASE Completes(old, new)
    <2>1. Stage(old) = "review" /\ Stage(new) = "completed"
        BY <1>3, StageOfLive DEF Completes
    <2>2. QED BY <1>3, <2>1 DEF Completes
<1>4. CASE Returns(old, new)
    <2>1. Stage(old) \in {"review", "judged"} /\ Stage(new) = "open"
        BY <1>4, StageOfLive DEF Returns
    <2>2. QED BY <1>4, <2>1 DEF Returns
<1>5. QED BY <1>1, <1>2, <1>3, <1>4

LEMMA LifecycleInit == Init => Lifecycle!Init
<1> SUFFICES ASSUME Init PROVE Lifecycle!Init OBVIOUS
<1>1. \A a \in Actions : actions[a] = AbsentRow BY Zenon DEF Init
<1>2. Stage(AbsentRow) = "absent" BY StageOfOthers, AbsentRowIsRow DEF AbsentRow
<1>3. AbsentRow.revision_number = 0 BY DEF AbsentRow
<1>4. TextFits(AbsentRow) BY MaxVersionAssumption DEF TextFits, AbsentRow
<1>5. CoreFields(AbsentRow) \in (0..MaxVersion) \X (0..MaxVersion) \X BOOLEAN
    BY <1>4, TextIsText, AbsentRowIsRow
<1>6. [a \in Actions |-> Stage(actions[a])] = [a \in Actions |-> "absent"]
    BY <1>1, <1>2
<1>7. [a \in Actions |-> actions[a].revision_number] = [a \in Actions |-> 0]
    BY <1>1, <1>3
<1>8. [a \in Actions |-> CoreFields(actions[a])]
        \in [Actions -> (0..MaxVersion) \X (0..MaxVersion) \X BOOLEAN]
    BY <1>1, <1>5
<1>9. QED BY <1>6, <1>7, <1>8, Zenon DEF Lifecycle!Init

LEMMA LifecycleStep ==
    ASSUME HistoryInv, [Next]_vars
    PROVE  [Lifecycle!Next]_(<<[a \in Actions |-> Stage(actions[a])],
                              [a \in Actions |-> actions[a].revision_number],
                              [a \in Actions |-> CoreFields(actions[a])]>>)
<1> DEFINE stage == [a \in Actions |-> Stage(actions[a])]
           revision == [a \in Actions |-> actions[a].revision_number]
           text == [a \in Actions |-> CoreFields(actions[a])]
           Texts == (0..MaxVersion) \X (0..MaxVersion) \X BOOLEAN
<1>1. TypeOK /\ IInv /\ TextInv /\ AbsentInv BY DEF HistoryInv, IInv
<1>2. CASE Rests
    <2>1. actions' = actions BY <1>2 DEF Rests
    <2>2. stage' = stage /\ revision' = revision /\ text' = text BY <2>1
    <2>3. QED BY <2>2
<1>3. ASSUME NEW a \in Actions, NEW new \in Rows, Writes(a, new)
      PROVE  Lifecycle!Next \/ UNCHANGED <<stage, revision, text>>
    <2> DEFINE old == actions[a]
    <2>1. actions' = [actions EXCEPT ![a] = new] /\ TextFits(new)
        BY <1>3, Zenon DEF Writes
    <2>2. old \in Rows BY <1>1 DEF TypeOK
    <2>3. actions'[a] = new /\ \A b \in Actions \ {a} : actions'[b] = actions[b]
        BY <2>1, <1>1 DEF TypeOK
    <2>4. /\ stage' = [stage EXCEPT ![a] = Stage(new)]
          /\ revision' = [revision EXCEPT ![a] = new.revision_number]
          /\ text' = [text EXCEPT ![a] = CoreFields(new)]
        BY <2>3
    <2>5. /\ stage[a] = Stage(old) /\ revision[a] = old.revision_number
          /\ text[a] = CoreFields(old)
        OBVIOUS
    <2>6. /\ Stage(new) = Stage(old) => stage' = stage
          /\ new.revision_number = old.revision_number => revision' = revision
          /\ CoreFields(new) = CoreFields(old) => text' = text
        BY <2>3
    <2>7. CoreFields(new) \in Texts BY <2>1, TextIsText
    <2>8. \/ Creates(old, new) \/ WritesQuietly(old, new)
          \/ Completes(old, new) \/ Returns(old, new)
        BY <1>3, Zenon DEF Writes
    <2>9. old.status = "absent" => old = AbsentRow BY <1>1 DEF AbsentInv
    <2>10. \/ Stage(old) = "absent" /\ Stage(new) = "open" /\ new.revision_number = 1
           \/ /\ Stage(old) = "open" /\ Stage(new) = "open"
              /\ new.revision_number = old.revision_number
           \/ /\ new.revision_number = old.revision_number
              /\ CoreFields(new) = CoreFields(old)
              /\ <<Stage(old), Stage(new)>> \in
                   {<<"open", "discarded">>, <<"discarded", "discarded">>,
                    <<"open", "review">>, <<"review", "judged">>,
                    <<"review", "completed">>}
           \/ /\ Stage(old) \in {"review", "judged"} /\ Stage(new) = "open"
              /\ new.revision_number = old.revision_number + 1
              /\ CoreFields(new) = CoreFields(old)
        BY <2>2, <2>8, <2>9, WriteIsLifecycleStep
    <2> HIDE DEF stage, revision, text, Texts, old
    <2>11. CASE Stage(old) = "absent" /\ Stage(new) = "open" /\ new.revision_number = 1
        <3>1. Lifecycle!Open(a)
            BY <2>4, <2>5, <2>7, <2>11, Zenon
               DEF Lifecycle!Open, Lifecycle!Move, stage, revision, text, Texts
        <3>2. QED BY <3>1, Zenon DEF Lifecycle!Next
    <2>12. CASE /\ Stage(old) = "open" /\ Stage(new) = "open"
                /\ new.revision_number = old.revision_number
        <3>1. stage' = stage /\ revision' = revision BY <2>6, <2>12
        <3>2. Lifecycle!Edit(a)
            BY <2>4, <2>5, <2>7, <2>12, <3>1, Zenon
               DEF Lifecycle!Edit, stage, revision, text, Texts
        <3>3. QED BY <3>2, Zenon DEF Lifecycle!Next
    <2>13. CASE /\ new.revision_number = old.revision_number
                /\ CoreFields(new) = CoreFields(old)
                /\ <<Stage(old), Stage(new)>> \in
                     {<<"open", "discarded">>, <<"discarded", "discarded">>,
                      <<"open", "review">>, <<"review", "judged">>,
                      <<"review", "completed">>}
        <3>1. revision' = revision /\ text' = text BY <2>6, <2>13
        <3>2. CASE Stage(old) = "open" /\ Stage(new) = "discarded"
            <4>1. Lifecycle!Discard(a)
                BY <2>4, <2>5, <3>1, <3>2, Zenon
                   DEF Lifecycle!Discard, Lifecycle!Move, stage, revision, text
            <4>2. QED BY <4>1, Zenon DEF Lifecycle!Next
        <3>3. CASE Stage(old) = "discarded" /\ Stage(new) = "discarded"
            <4>1. stage' = stage BY <2>6, <3>3
            <4>2. QED BY <4>1, <3>1
        <3>4. CASE Stage(old) = "open" /\ Stage(new) = "review"
            <4>1. Lifecycle!Submit(a)
                BY <2>4, <2>5, <3>1, <3>4, Zenon
                   DEF Lifecycle!Submit, Lifecycle!Move, stage, revision, text
            <4>2. QED BY <4>1, Zenon DEF Lifecycle!Next
        <3>5. CASE Stage(old) = "review" /\ Stage(new) = "judged"
            <4>1. Lifecycle!Judge(a)
                BY <2>4, <2>5, <3>1, <3>5, Zenon
                   DEF Lifecycle!Judge, Lifecycle!Move, stage, revision, text
            <4>2. QED BY <4>1, Zenon DEF Lifecycle!Next
        <3>6. CASE Stage(old) = "review" /\ Stage(new) = "completed"
            <4>1. Lifecycle!Complete(a)
                BY <2>4, <2>5, <3>1, <3>6, Zenon
                   DEF Lifecycle!Complete, Lifecycle!Move, stage, revision, text
            <4>2. QED BY <4>1, Zenon DEF Lifecycle!Next
        <3>7. QED BY <2>13, <3>2, <3>3, <3>4, <3>5, <3>6
    <2>14. CASE /\ Stage(old) \in {"review", "judged"} /\ Stage(new) = "open"
                /\ new.revision_number = old.revision_number + 1
                /\ CoreFields(new) = CoreFields(old)
        <3>1. text' = text BY <2>6, <2>14
        <3>2. revision' = [revision EXCEPT ![a] = revision[a] + 1]
            BY <2>4, <2>5, <2>14
        <3>3. Lifecycle!Return(a)
            BY <2>4, <2>5, <2>14, <3>1, <3>2, Zenon
               DEF Lifecycle!Return, Lifecycle!Move, stage, revision, text
        <3>4. QED BY <3>3, Zenon DEF Lifecycle!Next
    <2>15. QED BY <2>10, <2>11, <2>12, <2>13, <2>14
<1>4. Rests \/ \E a \in Actions : \E new \in Rows : Writes(a, new)
    BY <1>1, StepWrites
<1>5. QED BY <1>2, <1>3, <1>4

\* Every write that a page or a review makes of an artifact is one step of its
\* lifecycle, for any number of artifacts, pages and races between them.
THEOREM WorkflowImplementsLifecycle == Spec => LifecycleSpec
BY LifecycleInit, LifecycleStep, HistoryHolds, PTL DEF Spec, LifecycleSpec, Lifecycle!Spec
-----------------------------------------------------------------------------
(* The notifications.                                                       *)

\* The messages about one row.
Informs(row, sent) ==
    /\ Len(sent) <= 1
    /\ \A i \in 1..Len(sent) :
         /\ row.workflow_state = "completed"
         /\ sent[i].revision = row.revision_number
         /\ sent[i].content = CoreFields(row)
         /\ sent[i].snapshot = CoreFields(row)
         /\ sent[i].teams \subseteq RequestedBy(row)

NotifyingInv ==
    /\ HistoryInv
    /\ communications \in [Actions -> Seq(Messages)]
    /\ \A a \in Actions : Informs(actions[a], communications[a])

LEMMA CoreFieldsAreTexts ==
    ASSUME NEW row \in Rows
    PROVE  CoreFields(row) \in Nat \X Nat \X BOOLEAN
BY Zenon DEF CoreFields, Rows

LEMMA NotifyingStepIsStep ==
    ASSUME [NotifyingNext]_notifyingVars
    PROVE  [Next]_vars
BY Zenon DEF NotifyingNext, notifyingVars, vars, Next, CompleteQuietly, CompleteWithNotifications

\* A row keeps its messages as it keeps its completion.
LEMMA MessagesStay ==
    ASSUME HistoryInv, [Next]_vars, NEW a \in Actions,
           communications[a] \in Seq(Messages), communications'[a] = communications[a],
           Informs(actions[a], communications[a])
    PROVE  Informs(actions'[a], communications'[a])
<1>1. CASE Len(communications[a]) = 0 BY <1>1 DEF Informs
<1>2. CASE Len(communications[a]) # 0
    <2>1. 1 \in 1..Len(communications[a]) BY <1>2
    <2>2. actions[a].workflow_state = "completed" BY <2>1 DEF Informs
    <2>3. actions'[a] = actions[a] BY <2>2, TerminalStep DEF Keeps
    <2>4. QED BY <2>3
<1>3. QED BY <1>1, <1>2

\* A completion stores the row that it locked, and that the reviewer read.
LEMMA CompletesWhatWasRead ==
    ASSUME IInv, NEW r \in Sessions, Complete(r)
    PROVE  LET old == actions[calls[r].action]
               new == actions'[calls[r].action]
               seen == calls[r].seen
           IN  /\ old.workflow_state # "completed"
               /\ new.workflow_state = "completed"
               /\ seen.revision_number = new.revision_number
               /\ CoreFields(seen) = CoreFields(new)
               /\ CoreFields(old) = CoreFields(new)
               /\ old.details = new.details
<1> DEFINE a == calls[r].action
           old == actions[a]
           seen == calls[r].seen
           requested == [old EXCEPT !.status = "adjudicated", !.workflow_state = "completed"]
           new == Normalized(old, requested, TRUE)
<1>1. /\ TypeOK /\ a \in Actions /\ old \in Rows /\ seen \in Rows
    BY CallIsTyped DEF IInv
<1>2. actions'[a] = new
    <2>1. actions' = [actions EXCEPT ![a] = new] BY Zenon DEF Complete
    <2>2. QED BY <1>1, <2>1 DEF TypeOK
<1>3. /\ old.workflow_state # "completed" /\ old.revision_number = seen.revision_number
      /\ calls[r].op = "review"
    BY Zenon DEF Complete, ReviewAdmitted, At
<1>4. CoreFields(old) = CoreFields(seen)
    <2>1. ReviewerKeepsUp(calls[r], old) BY DEF IInv, CallInv
    <2>2. old.revision_number \in Nat BY <1>1 DEF Rows
    <2>3. QED BY <1>3, <2>1, <2>2 DEF ReviewerKeepsUp
<1>5. /\ requested \in Rows
      /\ requested.status = "adjudicated" /\ requested.workflow_state = "completed"
      /\ requested.revision_number = old.revision_number
      /\ CoreFields(requested) = CoreFields(old) /\ requested.details = old.details
    BY <1>1 DEF Rows, Statuses, WorkflowStates, CoreFields
<1> HIDE DEF requested, old
<1>6. /\ new.revision_number = requested.revision_number
      /\ CoreFields(new) = CoreFields(requested) /\ new.details = requested.details
    BY <1>1, <1>5, NormalizedFields DEF CoreFields
<1>7. new.workflow_state = "completed"
    BY <1>1, <1>5, NormalizedState
<1> HIDE DEF new
<1>8. QED BY <1>2, <1>3, <1>4, <1>5, <1>6, <1>7 DEF old

LEMMA NotifyingInvInit == NotifyingInit => NotifyingInv
<1> SUFFICES ASSUME NotifyingInit PROVE NotifyingInv OBVIOUS
<1>1. HistoryInv BY HistoryInit DEF NotifyingInit
<1>2. communications = [a \in Actions |-> <<>>] BY DEF NotifyingInit
<1>3. communications \in [Actions -> Seq(Messages)] BY <1>2
<1>4. \A a \in Actions : Informs(actions[a], communications[a])
    BY <1>2 DEF Informs
<1>5. QED BY <1>1, <1>3, <1>4 DEF NotifyingInv

LEMMA NotifyingInvStep == NotifyingInv /\ [NotifyingNext]_notifyingVars => NotifyingInv'
<1> SUFFICES ASSUME NotifyingInv, [NotifyingNext]_notifyingVars PROVE NotifyingInv'
    OBVIOUS
<1>1. [Next]_vars BY NotifyingStepIsStep
<1>2. HistoryInv /\ HistoryInv' BY <1>1, HistoryStep DEF NotifyingInv
<1>3. \A a \in Actions : communications[a] \in Seq(Messages)
    BY DEF NotifyingInv
<1>4. CASE communications' = communications
    <2>1. \A a \in Actions : Informs(actions'[a], communications'[a])
        BY <1>1, <1>2, <1>3, <1>4, MessagesStay DEF NotifyingInv
    <2>2. QED BY <1>2, <1>4, <2>1 DEF NotifyingInv
<1>5. ASSUME NEW r \in Reviewers, NEW approved \in SUBSET Teams, approved # {},
             CompleteWithNotifications(r, approved)
      PROVE  NotifyingInv'
    <2> DEFINE a == calls[r].action
               old == actions[a]
               new == actions'[a]
               note == Notification(r, approved)
    <2>1. r \in Sessions /\ Complete(r) /\ approved \subseteq RequestedBy(old)
        BY <1>5, Zenon DEF Sessions, CompleteWithNotifications
    <2>2. IInv /\ TypeOK BY <1>2 DEF HistoryInv, IInv
    <2>3. a \in Actions /\ old \in Rows /\ calls[r].seen \in Rows
        BY <2>1, <2>2, CallIsTyped
    <2>4. /\ old.workflow_state # "completed" /\ new.workflow_state = "completed"
          /\ calls[r].seen.revision_number = new.revision_number
          /\ CoreFields(calls[r].seen) = CoreFields(new)
          /\ CoreFields(old) = CoreFields(new) /\ old.details = new.details
        BY <2>1, <2>2, CompletesWhatWasRead
    <2>5. communications' = [communications EXCEPT ![a] = Append(communications[a], note)]
        BY <1>5, Zenon DEF CompleteWithNotifications
    <2>6. communications[a] = <<>>
        <3>1. Informs(old, communications[a]) BY <2>3 DEF NotifyingInv
        <3>2. Len(communications[a]) = 0 BY <1>3, <2>3, <2>4, <3>1 DEF Informs
        <3>3. QED BY <1>3, <2>3, <3>2
    <2>7. note \in Messages
        <3>1. calls[r].seen.revision_number \in Nat BY <2>3 DEF Rows
        <3>2. QED BY <2>3, <3>1, CoreFieldsAreTexts, Zenon DEF Notification, Messages
    <2>8. /\ note.teams = approved /\ note.revision = calls[r].seen.revision_number
          /\ note.content = CoreFields(calls[r].seen) /\ note.snapshot = CoreFields(old)
        BY DEF Notification
    <2>9. communications'[a] = <<note>> /\ \A b \in Actions \ {a} :
            communications'[b] = communications[b]
        <3> HIDE DEF note, a
        <3>1. Append(communications[a], note) = <<note>> BY <2>6
        <3>2. QED BY <2>3, <2>5, <3>1 DEF NotifyingInv
    <2> HIDE DEF note
    <2>10. Informs(new, communications'[a])
        <3>1. RequestedBy(new) = RequestedBy(old) BY <2>4 DEF RequestedBy
        <3>2. QED BY <2>1, <2>4, <2>8, <2>9, <3>1 DEF Informs
    <2>11. \A b \in Actions : Informs(actions'[b], communications'[b])
        <3> TAKE b \in Actions
        <3>1. CASE b = a BY <3>1, <2>10
        <3>2. CASE b # a
            BY <3>2, <1>1, <1>2, <1>3, <2>9, MessagesStay DEF NotifyingInv
        <3>3. QED BY <3>1, <3>2
    <2>12. communications' \in [Actions -> Seq(Messages)]
        <3>1. <<note>> \in Seq(Messages) BY <2>7
        <3> HIDE DEF a
        <3>2. Append(communications[a], note) \in Seq(Messages) BY <2>6, <3>1
        <3>3. QED BY <2>5, <3>2 DEF NotifyingInv
    <2>13. QED BY <1>2, <2>11, <2>12 DEF NotifyingInv
<1>6. \/ communications' = communications
      \/ \E r \in Reviewers, approved \in SUBSET Teams :
            approved # {} /\ CompleteWithNotifications(r, approved)
    BY DEF NotifyingNext, notifyingVars, CompleteQuietly, CompleteWithNotifications
<1>7. QED BY <1>4, <1>5, <1>6

\* Whatever holds of the workflow holds of it with notifications.
THEOREM NotifyingIsWorkflow == NotifyingSpec => Spec
<1>1. NotifyingInit => Init BY DEF NotifyingInit
<1>2. QED BY <1>1, NotifyingStepIsStep, PTL DEF NotifyingSpec, Spec

\* Completing an action and informing the teams it asked for, with the text that the
\* reviewer's browser has and the one that the database has, informs each of them once
\* and of what was completed, whoever completes it and however often.
THEOREM TeamsInformedTruly == NotifyingSpec => []InformsOnceAndTruly
<1>1. NotifyingInv => InformsOnceAndTruly
    BY Zenon DEF NotifyingInv, Informs, InformsOnceAndTruly
<1>2. QED BY <1>1, NotifyingInvInit, NotifyingInvStep, PTL DEF NotifyingSpec
=============================================================================
