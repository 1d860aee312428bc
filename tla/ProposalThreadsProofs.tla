------------------------ MODULE ProposalThreadsProofs -----------------------
(***************************************************************************)
(* Theorems about ProposalThreads for any recipients, sessions and bounds. *)
(***************************************************************************)
EXTENDS ProposalThreads, FiniteSetTheorems, SequenceTheorems, TLAPS

-----------------------------------------------------------------------------
(* The rows that writes leave behind, field by field.                       *)

LEMMA StateType ==
    ASSUME NEW old \in Proposals, NEW new \in Proposals, NEW reviewer \in BOOLEAN
    PROVE  WorkflowState(old, new, reviewer) \in WorkflowStates
BY DEF WorkflowState, WorkflowStates, DraftState, SubmittedState, AdjudicatedState

\* The trigger takes the next version, decides the state and keeps the rest.
Stores(row, old, new) ==
    /\ row \in Proposals
    /\ row.status = new.status
    /\ row.revision_number = new.revision_number
    /\ row.row_version = old.row_version + 1
    /\ row.content = new.content
    /\ row.recipients = new.recipients
    /\ row.proposal_handoff_revision = new.proposal_handoff_revision
    /\ row.recipient_reviews = new.recipient_reviews
    /\ row.review_history = new.review_history

LEMMA NormalizedFields ==
    ASSUME NEW old \in Proposals, NEW new \in Proposals, NEW reviewer \in BOOLEAN
    PROVE  /\ Stores(Normalized(old, new, reviewer), old, new)
           /\ Normalized(old, new, reviewer).workflow_state = WorkflowState(old, new, reviewer)
<1>1. WorkflowState(old, new, reviewer) \in WorkflowStates BY StateType
<1>2. NextRowVersion(old) \in Nat /\ NextRowVersion(old) = old.row_version + 1
    BY DEF NextRowVersion, Proposals
<1>3. QED
    BY <1>1, <1>2 DEF Normalized, Proposals, Stores

\* The same for the two kinds of sessions.
LEMMA StoredFields ==
    ASSUME NEW old \in Proposals, NEW new \in Proposals
    PROVE  /\ Stores(Normalized(old, new, FALSE), old, new)
           /\ Normalized(old, new, FALSE).workflow_state = WorkflowState(old, new, FALSE)
           /\ Stores(Normalized(old, new, TRUE), old, new)
           /\ Normalized(old, new, TRUE).workflow_state = WorkflowState(old, new, TRUE)
<1>1. FALSE \in BOOLEAN /\ TRUE \in BOOLEAN OBVIOUS
<1>2. QED BY <1>1, NormalizedFields, Zenon

LEMMA RewrittenFields ==
    ASSUME NEW handoff \in BOOLEAN, proposal \in Proposals,
           NEW recipients \in SUBSET Recipients, NEW handoffRevision \in Nat
    PROVE  LET row == Rewritten(handoff, recipients, handoffRevision)
           IN  /\ row \in Proposals
               /\ row.status = proposal.status
               /\ row.revision_number = proposal.revision_number
               /\ row.row_version = proposal.row_version + 1
               /\ row.content = proposal.row_version + 1
               /\ row.recipients = recipients
               /\ row.proposal_handoff_revision = handoffRevision
               /\ row.recipient_reviews = proposal.recipient_reviews
               /\ row.review_history = proposal.review_history
               /\ proposal.status = "draft" => row.workflow_state # "completed"
<1> DEFINE asked == [proposal EXCEPT !.content = NextRowVersion(proposal),
                                     !.recipients = recipients, !.handoff = handoff,
                                     !.proposal_handoff_revision = handoffRevision]
<1>1. NextRowVersion(proposal) \in Nat /\ NextRowVersion(proposal) = proposal.row_version + 1
    BY DEF NextRowVersion, Proposals
<1>2. /\ asked \in Proposals
      /\ asked.status = proposal.status
      /\ asked.revision_number = proposal.revision_number
      /\ asked.content = NextRowVersion(proposal)
      /\ asked.recipients = recipients
      /\ asked.proposal_handoff_revision = handoffRevision
      /\ asked.recipient_reviews = proposal.recipient_reviews
      /\ asked.review_history = proposal.review_history
    BY <1>1 DEF Proposals
<1>3. Rewritten(handoff, recipients, handoffRevision) = Normalized(proposal, asked, FALSE)
    BY DEF Rewritten
<1> HIDE DEF asked
<1>4. /\ Stores(Normalized(proposal, asked, FALSE), proposal, asked)
      /\ Normalized(proposal, asked, FALSE).workflow_state = WorkflowState(proposal, asked, FALSE)
    BY <1>2, StoredFields
<1>5. ASSUME proposal.status = "draft"
      PROVE  WorkflowState(proposal, asked, FALSE) # "completed"
    <2>1. WorkflowState(proposal, asked, FALSE) = DraftState(proposal, asked, FALSE)
        BY <1>2, <1>5, Zenon DEF WorkflowState
    <2>2. QED BY <2>1 DEF DraftState
<1>6. QED
    BY <1>1, <1>2, <1>3, <1>4, <1>5 DEF Stores

LEMMA SubmittedFields ==
    ASSUME proposal \in Proposals
    PROVE  LET row == Normalized(proposal, [proposal EXCEPT !.status = "submitted"], FALSE)
           IN  /\ row \in Proposals
               /\ row.status = "submitted"
               /\ row.workflow_state = SubmittedState(proposal)
               /\ row.revision_number = proposal.revision_number
               /\ row.row_version = proposal.row_version + 1
               /\ row.content = proposal.content
               /\ row.recipients = proposal.recipients
               /\ row.proposal_handoff_revision = proposal.proposal_handoff_revision
               /\ row.recipient_reviews = proposal.recipient_reviews
               /\ row.review_history = proposal.review_history
<1> DEFINE asked == [proposal EXCEPT !.status = "submitted"]
<1>1. /\ asked \in Proposals
      /\ asked.status = "submitted"
      /\ asked.revision_number = proposal.revision_number
      /\ asked.content = proposal.content
      /\ asked.recipients = proposal.recipients
      /\ asked.proposal_handoff_revision = proposal.proposal_handoff_revision
      /\ asked.recipient_reviews = proposal.recipient_reviews
      /\ asked.review_history = proposal.review_history
    BY DEF Proposals, Statuses
<1> HIDE DEF asked
<1>2. /\ Stores(Normalized(proposal, asked, FALSE), proposal, asked)
      /\ Normalized(proposal, asked, FALSE).workflow_state = WorkflowState(proposal, asked, FALSE)
    BY <1>1, StoredFields
<1>3. WorkflowState(proposal, asked, FALSE) = SubmittedState(proposal)
    BY <1>1, Zenon DEF WorkflowState
<1>4. QED
    BY <1>1, <1>2, <1>3 DEF Stores, asked

LEMMA ApprovedFields ==
    ASSUME proposal \in Proposals, UnderReview(proposal), NEW t \in Recipients,
           Len(communications) \in Nat
    PROVE  LET row == ApprovedRow(t)
           IN  /\ row \in Proposals
               /\ UnderReview(row)
               /\ row.revision_number = proposal.revision_number
               /\ row.row_version = proposal.row_version + 1
               /\ row.content = proposal.content
               /\ row.recipients = proposal.recipients
               /\ row.proposal_handoff_revision = proposal.proposal_handoff_revision
               /\ row.recipient_reviews
                    = [proposal.recipient_reviews EXCEPT ![t] = Len(communications) + 1]
               /\ row.review_history = proposal.review_history
<1> DEFINE reviews == [proposal.recipient_reviews EXCEPT ![t] = Len(communications) + 1]
           asked == [proposal EXCEPT !.recipient_reviews = reviews]
<1>1. /\ asked \in Proposals
      /\ asked.status = proposal.status
      /\ asked.revision_number = proposal.revision_number
      /\ asked.content = proposal.content
      /\ asked.recipients = proposal.recipients
      /\ asked.proposal_handoff_revision = proposal.proposal_handoff_revision
      /\ asked.recipient_reviews = reviews
      /\ asked.review_history = proposal.review_history
    <2>1. proposal.recipient_reviews \in [Recipients -> Nat] BY DEF Proposals
    <2>2. Len(communications) + 1 \in Nat OBVIOUS
    <2>3. reviews \in [Recipients -> Nat] BY <2>1, <2>2, Zenon
    <2> HIDE DEF reviews
    <2>4. QED BY <2>3 DEF Proposals
<1>2. ApprovedRow(t) = Normalized(proposal, asked, TRUE) BY Zenon DEF ApprovedRow
<1> HIDE DEF asked
<1>3. /\ Stores(Normalized(proposal, asked, TRUE), proposal, asked)
      /\ Normalized(proposal, asked, TRUE).workflow_state = WorkflowState(proposal, asked, TRUE)
    BY <1>1, StoredFields
<1>4. asked.status = "submitted" BY <1>1 DEF UnderReview
<1>5. WorkflowState(proposal, asked, TRUE) = SubmittedState(proposal)
    BY <1>4, Zenon DEF WorkflowState
<1>6. SubmittedState(proposal) \in {"submitted_to_white_cell", "resubmitted"}
    BY DEF SubmittedState
<1>7. QED
    BY <1>1, <1>2, <1>3, <1>4, <1>5, <1>6 DEF Stores, UnderReview

LEMMA CompletedFields ==
    ASSUME NEW old \in Proposals
    PROVE  LET row == CompletedRow(old)
           IN  /\ row \in Proposals
               /\ row.status = "adjudicated" /\ row.workflow_state = "completed"
               /\ row.revision_number = old.revision_number
               /\ row.row_version = old.row_version + 1
               /\ row.content = old.content
               /\ row.recipients = old.recipients
               /\ row.proposal_handoff_revision = old.proposal_handoff_revision
               /\ row.recipient_reviews = old.recipient_reviews
               /\ row.review_history = old.review_history
<1> DEFINE asked == [old EXCEPT !.status = "adjudicated", !.workflow_state = "completed"]
<1>1. /\ asked \in Proposals
      /\ asked.status = "adjudicated" /\ asked.workflow_state = "completed"
      /\ asked.revision_number = old.revision_number
      /\ asked.content = old.content
      /\ asked.recipients = old.recipients
      /\ asked.proposal_handoff_revision = old.proposal_handoff_revision
      /\ asked.recipient_reviews = old.recipient_reviews
      /\ asked.review_history = old.review_history
    BY DEF Proposals, Statuses, WorkflowStates
<1>2. CompletedRow(old) = Normalized(old, asked, TRUE) BY DEF CompletedRow
<1> HIDE DEF asked
<1>3. /\ Stores(Normalized(old, asked, TRUE), old, asked)
      /\ Normalized(old, asked, TRUE).workflow_state = WorkflowState(old, asked, TRUE)
    BY <1>1, StoredFields
<1>4. WorkflowState(old, asked, TRUE) = AdjudicatedState(asked, TRUE)
    BY <1>1, Zenon DEF WorkflowState
<1>5. AdjudicatedState(asked, TRUE) = "completed" BY <1>1, Zenon DEF AdjudicatedState
<1>6. QED
    BY <1>1, <1>2, <1>3, <1>4, <1>5 DEF Stores

LEMMA ReturnedFields ==
    ASSUME proposal \in Proposals, proposal.status \in {"submitted", "adjudicated"}
    PROVE  LET row == TakenBack(Normalized(proposal,
                        [proposal EXCEPT !.status = "draft",
                                         !.workflow_state = "returned_to_team",
                                         !.revision_number = @ + 1], TRUE))
           IN  /\ row \in Proposals
               /\ row.status = "draft" /\ row.workflow_state = "returned_to_team"
               /\ row.revision_number = proposal.revision_number + 1
               /\ row.row_version = proposal.row_version + 1
               /\ row.content = proposal.content
               /\ row.recipients = proposal.recipients
               /\ row.proposal_handoff_revision = 0
               /\ row.recipient_reviews = NoApprovals
               /\ row.review_history
                    = Append(proposal.review_history, proposal.recipient_reviews)
<1> DEFINE asked == [proposal EXCEPT !.status = "draft", !.workflow_state = "returned_to_team",
                                     !.revision_number = @ + 1]
           stored == Normalized(proposal, asked, TRUE)
           row == TakenBack(stored)
<1>1. /\ asked \in Proposals
      /\ asked.status = "draft" /\ asked.workflow_state = "returned_to_team"
      /\ asked.revision_number = proposal.revision_number + 1
      /\ asked.content = proposal.content
      /\ asked.recipients = proposal.recipients
      /\ asked.recipient_reviews = proposal.recipient_reviews
      /\ asked.review_history = proposal.review_history
    <2>1. /\ proposal.revision_number + 1 \in Nat
          /\ "draft" \in Statuses /\ "returned_to_team" \in WorkflowStates
        BY DEF Proposals, Statuses, WorkflowStates
    <2>2. QED BY <2>1 DEF Proposals
<1> HIDE DEF asked
<1>2. /\ Stores(stored, proposal, asked)
      /\ stored.workflow_state = WorkflowState(proposal, asked, TRUE)
    BY <1>1, StoredFields
<1>3. WorkflowState(proposal, asked, TRUE) = DraftState(proposal, asked, TRUE)
    BY <1>1, Zenon DEF WorkflowState
<1>4. DraftState(proposal, asked, TRUE) = "returned_to_team"
    BY <1>1, Zenon DEF DraftState, ReturningToTeam
<1> HIDE DEF stored
<1>5. /\ stored \in Proposals
      /\ stored.recipient_reviews \in [Recipients -> Nat]
      /\ Append(stored.review_history, stored.recipient_reviews) \in Seq([Recipients -> Nat])
      /\ NoApprovals \in [Recipients -> Nat]
    BY <1>2 DEF Stores, Proposals, NoApprovals
<1>6. /\ row \in Proposals
      /\ row.status = stored.status /\ row.workflow_state = stored.workflow_state
      /\ row.revision_number = stored.revision_number
      /\ row.row_version = stored.row_version
      /\ row.content = stored.content
      /\ row.recipients = stored.recipients
      /\ row.proposal_handoff_revision = 0
      /\ row.recipient_reviews = NoApprovals
      /\ row.review_history = Append(stored.review_history, stored.recipient_reviews)
    BY <1>5 DEF TakenBack, Proposals
<1> HIDE DEF row
<1>7. /\ row \in Proposals
      /\ row.status = "draft" /\ row.workflow_state = "returned_to_team"
      /\ row.revision_number = proposal.revision_number + 1
      /\ row.row_version = proposal.row_version + 1
      /\ row.content = proposal.content
      /\ row.recipients = proposal.recipients
      /\ row.proposal_handoff_revision = 0
      /\ row.recipient_reviews = NoApprovals
      /\ row.review_history = Append(proposal.review_history, proposal.recipient_reviews)
    BY <1>1, <1>2, <1>3, <1>4, <1>6 DEF Stores
<1>8. QED BY <1>7, Zenon DEF row, stored, asked

LEMMA CreatedFields ==
    ASSUME NEW forwarded \in BOOLEAN, NEW recipients \in SUBSET Recipients
    PROVE  LET row == Created(forwarded, recipients)
           IN  /\ row \in Proposals
               /\ row.status = "draft"
               /\ row.workflow_state \in {"draft", "forwarded_to_facilitator"}
               /\ row.revision_number = 1 /\ row.row_version = 1 /\ row.content = 1
               /\ row.recipients = recipients
               /\ row.recipient_reviews = NoApprovals
               /\ row.review_history = <<>>
<1>1. NoApprovals \in [Recipients -> Nat] BY DEF NoApprovals
<1>2. (IF forwarded THEN 1 ELSE 0) \in Nat OBVIOUS
<1>3. (IF forwarded THEN "forwarded_to_facilitator" ELSE "draft")
        \in {"draft", "forwarded_to_facilitator"}
    OBVIOUS
<1>4. QED BY <1>1, <1>2, <1>3 DEF Created, Proposals, Statuses, WorkflowStates

LEMMA NoProposalFields ==
    /\ NoProposal \in Proposals
    /\ NoProposal.status = "absent" /\ NoProposal.revision_number = 0
    /\ NoProposal.row_version = 0 /\ NoProposal.content = 0
    /\ NoProposal.review_history = <<>>
<1>1. NoApprovals \in [Recipients -> Nat] BY DEF NoApprovals
<1>2. QED BY <1>1 DEF NoProposal, Proposals, Statuses, WorkflowStates

-----------------------------------------------------------------------------
(* The invariant.                                                           *)

\* A proposal that has not been created has no history; otherwise the history has an
\* entry for each revision before the current one.
ProposalInv ==
    /\ proposal.status = "absent" =>
          proposal.revision_number = 0 /\ proposal.row_version = 0 /\ proposal.review_history = <<>>
    /\ proposal.status # "absent" =>
          Len(proposal.review_history) + 1 = proposal.revision_number

\* A form's copy is the row at its version.
FormsInv ==
    \A s \in Authors : forms[s].open =>
        /\ forms[s].row_version <= proposal.row_version
        /\ forms[s].row_version = proposal.row_version => forms[s].content = proposal.content

\* The text of a revision that White Cell has before it does not change any more.
ModalsInv ==
    \A r \in Reviewers :
        /\ modals[r].sending # {} => modals[r].open
        /\ modals[r].open =>
              /\ modals[r].seen.revision_number <= proposal.revision_number
              /\ modals[r].seen.revision_number = proposal.revision_number =>
                    /\ modals[r].seen.content = proposal.content
                    /\ proposal.status \in {"submitted", "adjudicated"}

\* A thread is named by its first message, and what is released under review is the answer.
ThreadsInv ==
    /\ \A m \in Ids : communications[m].thread \in 1..m
    /\ RoundsChain

RootsInv ==
    /\ \A m \in Roots : communications[m].source_revision \in 1..proposal.revision_number
    /\ ApprovalsAreKept

IInv ==
    /\ TypeOK
    /\ ProposalInv
    /\ FormsInv
    /\ ModalsInv
    /\ ThreadsInv
    /\ RootsInv

-----------------------------------------------------------------------------
(* Messages.                                                                *)

LEMMA MessageFields ==
    ASSUME TypeOK, NEW m \in Ids
    PROVE  /\ communications[m] \in Messages
           /\ m \in 1..Len(communications) /\ m \in Nat /\ Len(communications) \in Nat
           /\ communications[m].thread \in Nat /\ communications[m].round \in Nat
           /\ communications[m].parent \in Nat /\ communications[m].recipient \in Recipients
           /\ communications[m].source_revision \in Nat
           /\ communications[m].content \in Nat
<1>1. communications \in Seq(Messages) BY DEF TypeOK
<1>2. /\ communications[m] \in Messages /\ m \in 1..Len(communications) /\ m \in Nat
      /\ Len(communications) \in Nat
    BY <1>1 DEF Ids
<1>3. QED BY <1>2 DEF Messages

LEMMA RootFields ==
    ASSUME TypeOK, NEW t \in Recipients
    PROVE  /\ Root(t) \in Messages
           /\ Root(t).type = "PROPOSAL_FORWARDED"
           /\ Root(t).thread = Len(communications) + 1
           /\ Root(t).recipient = t
           /\ Root(t).source_revision = proposal.revision_number
           /\ Root(t).content = proposal.content
<1>1. Len(communications) + 1 \in Nat BY DEF TypeOK
<1>2. proposal.revision_number \in Nat /\ proposal.content \in Nat
    BY DEF TypeOK, Proposals
<1>3. QED BY <1>1, <1>2 DEF Root, Messages

LEMMA ReplyFields ==
    ASSUME TypeOK, NEW side \in {"source", "recipient"}, NEW p \in Ids, NEW closes \in BOOLEAN
    PROVE  /\ Reply(side, p, closes) \in Messages
           /\ Reply(side, p, closes).type = "PROPOSAL_RESPONSE_REVIEW"
           /\ Reply(side, p, closes).thread = communications[p].thread
           /\ Reply(side, p, closes).round = communications[p].round + 1
           /\ Reply(side, p, closes).parent = p
           /\ Reply(side, p, closes).sender = side
<1>1. communications[p].round + 1 \in Nat /\ p \in Nat BY MessageFields
<1>2. QED BY <1>1, MessageFields DEF Reply, Messages

LEMMA ForwardedFields ==
    ASSUME TypeOK, NEW m \in Ids
    PROVE  LET sent == [communications[m] EXCEPT !.type = "PROPOSAL_RESPONSE", !.review_request = m]
           IN  /\ sent \in Messages
               /\ sent.type = "PROPOSAL_RESPONSE"
               /\ sent.thread = communications[m].thread
               /\ sent.round = communications[m].round
               /\ sent.parent = communications[m].parent
               /\ sent.sender = communications[m].sender
BY MessageFields DEF Messages

\* What sending a message leaves as it was.
LEMMA Sent ==
    ASSUME TypeOK, NEW message \in Messages, communications' = Append(communications, message)
    PROVE  /\ communications' \in Seq(Messages)
           /\ Len(communications) \in Nat
           /\ Ids = 1..Len(communications)
           /\ Ids' = Ids \cup {Len(communications) + 1}
           /\ Len(communications) + 1 \notin Ids
           /\ \A m \in Ids : communications'[m] = communications[m]
           /\ communications'[Len(communications) + 1] = message
<1>1. communications \in Seq(Messages) BY DEF TypeOK
<1>2. /\ communications' \in Seq(Messages) /\ Len(communications) \in Nat
      /\ Len(communications') = Len(communications) + 1
      /\ \A m \in 1..Len(communications) : communications'[m] = communications[m]
      /\ communications'[Len(communications) + 1] = message
    BY <1>1
<1>3. DOMAIN communications = 1..Len(communications)
      /\ DOMAIN communications' = 1..Len(communications) + 1
    BY <1>1, <1>2
<1>4. 1..Len(communications) + 1 = 1..Len(communications) \cup {Len(communications) + 1}
    BY <1>2
<1>5. QED BY <1>2, <1>3, <1>4 DEF Ids

\* A message that answers one of the round before, and is the first of its kind to do so,
\* or that opens a thread of its own.
LEMMA ThreadsGrow ==
    ASSUME TypeOK, ThreadsInv, NEW message \in Messages,
           communications' = Append(communications, message),
           message.thread \in 1..Len(communications) + 1,
           message.type # "PROPOSAL_FORWARDED" =>
              /\ message.parent \in Released
              /\ communications[message.parent].thread = message.thread
              /\ communications[message.parent].round + 1 = message.round
              /\ communications[message.parent].sender # message.sender
              /\ ~communications[message.parent].closes,
           \A m \in Ids : ~ /\ communications[m].type = message.type
                            /\ communications[m].thread = message.thread
                            /\ communications[m].round = message.round
    PROVE  ThreadsInv'
<1> DEFINE new == Len(communications) + 1
<1>1. /\ Len(communications) \in Nat /\ Ids = 1..Len(communications)
      /\ Ids' = Ids \cup {new} /\ new \notin Ids
      /\ \A m \in Ids : communications'[m] = communications[m]
      /\ communications'[new] = message
    BY Sent
<1>2. \A m \in Ids' : communications'[m].thread \in 1..m
    BY <1>1 DEF ThreadsInv
<1>3. \A m \in Ids : m \in Released => m \in Released'
    BY <1>1 DEF Released
<1>4. ASSUME NEW m \in Ids', communications'[m].type # "PROPOSAL_FORWARDED"
      PROVE  /\ communications'[m].parent \in Released' /\ communications'[m].parent < m
             /\ communications'[communications'[m].parent].thread = communications'[m].thread
             /\ communications'[communications'[m].parent].round + 1 = communications'[m].round
             /\ communications'[communications'[m].parent].sender # communications'[m].sender
             /\ ~communications'[communications'[m].parent].closes
    <2>1. CASE m \in Ids
        <3> DEFINE old == communications[m].parent
        <3>1. communications'[m] = communications[m] BY <1>1, <2>1
        <3>2. /\ old \in Released /\ old < m
              /\ communications[old].thread = communications[m].thread
              /\ communications[old].round + 1 = communications[m].round
              /\ communications[old].sender # communications[m].sender
              /\ ~communications[old].closes
            BY <1>4, <2>1, <3>1 DEF ThreadsInv, RoundsChain
        <3>3. old \in Ids /\ old \in Released' /\ communications'[old] = communications[old]
            BY <1>1, <1>3, <3>2 DEF Released
        <3>4. QED BY <3>1, <3>2, <3>3
    <2>2. CASE m = new
        <3>1. communications'[m] = message BY <1>1, <2>2
        <3>2. message.parent \in Ids /\ message.parent \in Released'
              /\ communications'[message.parent] = communications[message.parent]
              /\ message.parent < m
            BY <1>1, <1>3, <1>4, <2>2, <3>1 DEF Released
        <3>3. QED BY <1>4, <3>1, <3>2
    <2>3. QED BY <1>1, <2>1, <2>2
<1>5. ASSUME NEW m \in Ids', NEW n \in Ids',
             communications'[m].type = communications'[n].type,
             communications'[m].thread = communications'[n].thread,
             communications'[m].round = communications'[n].round
      PROVE  m = n
    <2>1. CASE m \in Ids /\ n \in Ids BY <1>1, <1>5, <2>1 DEF ThreadsInv, RoundsChain
    <2>2. CASE m \in Ids /\ n = new BY <1>1, <1>5, <2>2
    <2>3. CASE m = new /\ n \in Ids BY <1>1, <1>5, <2>3
    <2>4. QED BY <1>1, <2>1, <2>2, <2>3
<1> HIDE DEF new
<1>6. RoundsChain' BY <1>4, <1>5 DEF RoundsChain
<1>7. QED BY <1>2, <1>6 DEF ThreadsInv

-----------------------------------------------------------------------------
(* The threads.                                                             *)

LEMMA ReplyThreads ==
    ASSUME TypeOK, ThreadsInv, NEW side \in {"source", "recipient"}, NEW p \in Ids,
           NEW closes \in BOOLEAN, AppendMessage(side, p, closes)
    PROVE  TypeOK' /\ ThreadsInv'
<1> DEFINE message == Reply(side, p, closes)
<1>1. /\ message \in Messages
      /\ message.type = "PROPOSAL_RESPONSE_REVIEW"
      /\ message.thread = communications[p].thread
      /\ message.round = communications[p].round + 1
      /\ message.parent = p /\ message.sender = side
    BY ReplyFields
<1>2. communications' = Append(communications, message) /\ UNCHANGED <<proposal, forms, known, modals>>
    BY DEF AppendMessage
<1> HIDE DEF message
<1>3. /\ p \in Released /\ side # communications[p].sender /\ ~communications[p].closes
      /\ \A m \in InThread(communications[p].thread) :
            communications[m].round <= communications[p].round
    BY DEF AppendMessage, MayAnswer, IsLatest
<1>4. \A m \in Ids : communications[m].thread = message.thread =>
                        communications[m].round # message.round
    BY <1>1, <1>3, MessageFields DEF InThread
<1>5. message.thread \in 1..Len(communications) + 1
    <2>1. communications[p].thread \in 1..p BY DEF ThreadsInv
    <2>2. QED BY <1>1, <2>1, MessageFields
<1>6. ThreadsInv'
    BY <1>1, <1>2, <1>3, <1>4, <1>5, ThreadsGrow
<1>7. TypeOK' BY <1>1, <1>2, Sent DEF TypeOK
<1>8. QED BY <1>6, <1>7

LEMMA ForwardThreads ==
    ASSUME TypeOK, ThreadsInv, NEW m \in Ids, ForwardResponse(m)
    PROVE  TypeOK' /\ ThreadsInv'
<1> DEFINE review == communications[m]
           message == [review EXCEPT !.type = "PROPOSAL_RESPONSE", !.review_request = m]
<1>1. /\ message \in Messages
      /\ message.type = "PROPOSAL_RESPONSE"
      /\ message.thread = review.thread /\ message.round = review.round
      /\ message.parent = review.parent /\ message.sender = review.sender
    BY ForwardedFields
<1>2. communications' = Append(communications, message) /\ UNCHANGED <<proposal, forms, known, modals>>
    BY DEF ForwardResponse
<1> HIDE DEF message
<1>3. /\ review.type = "PROPOSAL_RESPONSE_REVIEW"
      /\ HeadsReleased(review.parent)
      /\ review.round = communications[review.parent].round + 1
    BY DEF ForwardResponse, Released
<1>4. /\ review.parent \in Released
      /\ communications[review.parent].thread = review.thread
      /\ communications[review.parent].round + 1 = review.round
      /\ communications[review.parent].sender # review.sender
      /\ ~communications[review.parent].closes
    BY <1>3 DEF ThreadsInv, RoundsChain
<1>5. \A n \in Ids : ~ /\ communications[n].type = message.type
                       /\ communications[n].thread = message.thread
                       /\ communications[n].round = message.round
    <2> SUFFICES ASSUME NEW n \in Ids, communications[n].type = "PROPOSAL_RESPONSE",
                        communications[n].thread = review.thread,
                        communications[n].round = review.round
                 PROVE  FALSE
        BY <1>1
    <2>1. n \in InThread(communications[review.parent].thread) \cap Released
        BY <1>4 DEF InThread, Released
    <2>2. communications[n].round <= communications[review.parent].round
        BY <1>3, <2>1 DEF HeadsReleased
    <2>3. review.parent \in Ids BY <1>4 DEF Released
    <2>4. communications[review.parent].round \in Nat BY <2>3, MessageFields
    <2>5. QED BY <1>3, <2>2, <2>4
<1>6. message.thread \in 1..Len(communications) + 1
    <2>1. review.thread \in 1..m BY DEF ThreadsInv
    <2>2. QED BY <1>1, <2>1, MessageFields
<1> HIDE DEF review
<1>7. ThreadsInv' BY <1>1, <1>2, <1>4, <1>5, <1>6, ThreadsGrow
<1>8. TypeOK' BY <1>1, <1>2, Sent DEF TypeOK
<1>9. QED BY <1>7, <1>8

LEMMA RootThreads ==
    ASSUME TypeOK, ThreadsInv, NEW t \in Recipients,
           communications' = Append(communications, Root(t))
    PROVE  ThreadsInv'
<1>1. /\ Root(t) \in Messages /\ Root(t).type = "PROPOSAL_FORWARDED"
      /\ Root(t).thread = Len(communications) + 1
    BY RootFields
<1>2. \A m \in Ids : communications[m].thread # Root(t).thread
    BY <1>1, MessageFields DEF ThreadsInv
<1>3. Root(t).thread \in 1..Len(communications) + 1
    BY <1>1, Sent
<1>4. QED BY <1>1, <1>2, <1>3, ThreadsGrow

LEMMA SameThreads ==
    ASSUME ThreadsInv, UNCHANGED communications
    PROVE  ThreadsInv'
BY DEF ThreadsInv, RoundsChain, Ids, Released

-----------------------------------------------------------------------------
(* The approvals.                                                           *)

\* A step that leaves revision, approvals and history as they are, and sends no approval.
LEMMA SameRoots ==
    ASSUME RootsInv, Roots' = Roots, \A m \in Roots : communications'[m] = communications[m],
           proposal'.revision_number = proposal.revision_number,
           proposal'.recipient_reviews = proposal.recipient_reviews,
           proposal'.review_history = proposal.review_history
    PROVE  RootsInv'
BY DEF RootsInv, ApprovalsAreKept

\* A message under review, or one released to the other side, approves nothing.
LEMMA MessageRoots ==
    ASSUME TypeOK, RootsInv, NEW message \in Messages, message.type # "PROPOSAL_FORWARDED",
           communications' = Append(communications, message), UNCHANGED proposal
    PROVE  RootsInv'
<1>1. Roots' = Roots /\ \A m \in Roots : communications'[m] = communications[m]
    BY Sent DEF Roots
<1>2. QED BY <1>1, SameRoots

\* The first approval of a recipient in its revision goes into the row.
LEMMA ApprovalRootsInv ==
    ASSUME TypeOK, RootsInv, ProposalInv, NEW t \in Recipients, UnderReview(proposal),
           ApprovalRoots(t) = {},
           communications' = Append(communications, Root(t)),
           proposal'.revision_number = proposal.revision_number,
           proposal'.recipient_reviews
             = [proposal.recipient_reviews EXCEPT ![t] = Len(communications) + 1],
           proposal'.review_history = proposal.review_history
    PROVE  RootsInv'
<1> DEFINE new == Len(communications) + 1
           revision == proposal.revision_number
<1>1. /\ Root(t) \in Messages /\ Root(t).type = "PROPOSAL_FORWARDED"
      /\ Root(t).recipient = t /\ Root(t).source_revision = revision
    BY RootFields
<1>2. /\ Len(communications) \in Nat
      /\ Ids' = Ids \cup {new} /\ new \notin Ids
      /\ \A m \in Ids : communications'[m] = communications[m]
      /\ communications'[new] = Root(t)
    BY <1>1, Sent
<1>3. Roots' = Roots \cup {new} BY <1>1, <1>2 DEF Roots
<1>4. /\ revision \in Nat \ {0} /\ proposal.recipient_reviews \in [Recipients -> Nat]
    <2>1. /\ revision \in Nat /\ proposal.recipient_reviews \in [Recipients -> Nat]
          /\ Len(proposal.review_history) \in Nat
        BY DEF TypeOK, Proposals
    <2>2. revision = Len(proposal.review_history) + 1 BY DEF ProposalInv, UnderReview
    <2>3. QED BY <2>1, <2>2
<1>5. ASSUME NEW m \in Roots'
      PROVE  /\ communications'[m].source_revision \in 1..revision
             /\ IF communications'[m].source_revision = revision
                THEN proposal'.recipient_reviews[communications'[m].recipient] = m
                ELSE /\ communications'[m].source_revision \in DOMAIN proposal.review_history
                     /\ proposal.review_history[communications'[m].source_revision]
                          [communications'[m].recipient] = m
    <2>1. CASE m = new BY <1>1, <1>2, <1>4, <2>1
    <2>2. CASE m \in Roots
        <3>1. m \in Ids /\ communications'[m] = communications[m] BY <1>2, <2>2 DEF Roots
        <3>2. /\ communications[m].source_revision \in 1..revision
              /\ communications[m].recipient \in Recipients
            BY <2>2, <3>1, MessageFields DEF RootsInv
        <3>3. communications[m].source_revision = revision => communications[m].recipient # t
            BY <2>2 DEF ApprovalRoots
        <3>4. IF communications[m].source_revision = revision
              THEN proposal.recipient_reviews[communications[m].recipient] = m
              ELSE /\ communications[m].source_revision \in DOMAIN proposal.review_history
                   /\ proposal.review_history[communications[m].source_revision]
                        [communications[m].recipient] = m
            BY <2>2 DEF RootsInv, ApprovalsAreKept
        <3>5. communications[m].source_revision = revision =>
                 proposal'.recipient_reviews[communications[m].recipient] = m
            BY <1>4, <3>2, <3>3, <3>4
        <3>6. QED BY <3>1, <3>2, <3>4, <3>5
    <2>3. QED BY <1>3, <2>1, <2>2
<1>6. QED BY <1>5 DEF RootsInv, ApprovalsAreKept

\* A return moves the approvals of the revision that ends into the history.
LEMMA ReturnRootsInv ==
    ASSUME TypeOK, RootsInv, ProposalInv, UNCHANGED communications,
           proposal.status # "absent",
           proposal'.revision_number = proposal.revision_number + 1,
           proposal'.review_history
             = Append(proposal.review_history, proposal.recipient_reviews)
    PROVE  RootsInv'
<1> DEFINE revision == proposal.revision_number
           history == proposal.review_history
           reviews == proposal.recipient_reviews
<1>1. /\ revision \in Nat /\ Len(history) \in Nat /\ history \in Seq([Recipients -> Nat])
      /\ reviews \in [Recipients -> Nat]
    BY DEF TypeOK, Proposals
<1>2. Len(history) + 1 = revision BY DEF ProposalInv
<1>3. /\ DOMAIN history = 1..Len(history) /\ DOMAIN Append(history, reviews) = 1..revision
      /\ \A i \in 1..Len(history) : Append(history, reviews)[i] = history[i]
      /\ Append(history, reviews)[revision] = reviews
    BY <1>1, <1>2
<1>4. Roots' = Roots BY DEF Roots, Ids
<1>5. ASSUME NEW m \in Roots
      PROVE  LET root == communications[m]
             IN  /\ root.source_revision \in 1..revision + 1
                 /\ root.source_revision # revision + 1
                 /\ root.source_revision \in DOMAIN Append(history, reviews)
                 /\ Append(history, reviews)[root.source_revision][root.recipient] = m
    <2> DEFINE source == communications[m].source_revision
    <2>1. source \in 1..revision BY DEF RootsInv
    <2>2. source = revision => reviews[communications[m].recipient] = m
        BY DEF RootsInv, ApprovalsAreKept
    <2>3. source # revision => /\ source \in DOMAIN history
                               /\ history[source][communications[m].recipient] = m
        BY DEF RootsInv, ApprovalsAreKept
    <2> HIDE DEF source, history, reviews, revision
    <2>4. Append(history, reviews)[source][communications[m].recipient] = m
        BY <1>3, <2>2, <2>3
    <2>5. QED BY <1>1, <1>3, <2>1, <2>4 DEF source
<1>6. QED BY <1>1, <1>4, <1>5 DEF RootsInv, ApprovalsAreKept

-----------------------------------------------------------------------------
(* The copies in forms and modals.                                          *)

\* How a write moves the row: the version grows, and within a revision the text changes
\* only while it is a draft.
Progress ==
    \/ UNCHANGED proposal
    \/ /\ proposal.row_version < proposal'.row_version
       /\ \/ proposal.revision_number < proposal'.revision_number
          \/ /\ proposal'.revision_number = proposal.revision_number
             /\ \/ proposal.status \notin {"submitted", "adjudicated"}
                \/ /\ proposal'.content = proposal.content
                   /\ proposal'.status \in {"submitted", "adjudicated"}

FormsKept ==
    \A s \in Authors :
        \/ forms'[s] = forms[s]
        \/ ~forms'[s].open
        \/ /\ forms'[s].row_version = proposal'.row_version
           /\ forms'[s].content = proposal'.content

ModalsKept ==
    \A r \in Reviewers :
        \/ modals'[r] = modals[r]
        \/ ~modals'[r].open /\ modals'[r].sending = {}
        \/ modals[r].open /\ modals'[r].open /\ modals'[r].seen = modals[r].seen
        \/ modals'[r].open /\ modals'[r].seen = proposal' /\ proposal'.status = "submitted"

LEMMA CopiesInv ==
    ASSUME TypeOK, TypeOK', FormsInv, ModalsInv, Progress, FormsKept, ModalsKept
    PROVE  FormsInv' /\ ModalsInv'
<1>1. /\ proposal \in Proposals /\ proposal' \in Proposals
      /\ forms \in [Authors -> Forms] /\ forms' \in [Authors -> Forms]
      /\ modals \in [Reviewers -> Modals] /\ modals' \in [Reviewers -> Modals]
    BY DEF TypeOK
<1>2. /\ proposal.row_version \in Nat /\ proposal'.row_version \in Nat
      /\ proposal.revision_number \in Nat /\ proposal'.revision_number \in Nat
    BY <1>1 DEF Proposals
<1>3. ASSUME NEW s \in Authors, forms'[s].open
      PROVE  /\ forms'[s].row_version <= proposal'.row_version
             /\ forms'[s].row_version = proposal'.row_version =>
                   forms'[s].content = proposal'.content
    <2>1. CASE forms'[s] = forms[s]
        <3>1. forms[s].open /\ forms[s].row_version \in Nat BY <1>1, <1>3, <2>1 DEF Forms
        <3>2. /\ forms[s].row_version <= proposal.row_version
              /\ forms[s].row_version = proposal.row_version => forms[s].content = proposal.content
            BY <3>1 DEF FormsInv
        <3>3. CASE UNCHANGED proposal BY <2>1, <3>2, <3>3
        <3>4. CASE proposal.row_version < proposal'.row_version
            BY <1>2, <2>1, <3>1, <3>2, <3>4
        <3>5. QED BY <3>3, <3>4 DEF Progress
    <2>2. CASE /\ forms'[s].row_version = proposal'.row_version
               /\ forms'[s].content = proposal'.content
        BY <1>2, <2>2
    <2>3. QED BY <1>3, <2>1, <2>2 DEF FormsKept
<1>4. ASSUME NEW r \in Reviewers
      PROVE  /\ modals'[r].sending # {} => modals'[r].open
             /\ modals'[r].open =>
                   /\ modals'[r].seen.revision_number <= proposal'.revision_number
                   /\ modals'[r].seen.revision_number = proposal'.revision_number =>
                         /\ modals'[r].seen.content = proposal'.content
                         /\ proposal'.status \in {"submitted", "adjudicated"}
    <2>1. modals[r].sending # {} => modals[r].open BY DEF ModalsInv
    <2>2. CASE modals'[r].open /\ modals[r].open /\ modals'[r].seen = modals[r].seen
        <3> DEFINE seen == modals[r].seen
        <3>1. seen.revision_number \in Nat
            <4>1. modals[r] \in Modals BY <1>1
            <4>2. seen \in Proposals BY <4>1 DEF Modals
            <4>3. QED BY <4>2 DEF Proposals
        <3>2. /\ seen.revision_number <= proposal.revision_number
              /\ seen.revision_number = proposal.revision_number =>
                    /\ seen.content = proposal.content
                    /\ proposal.status \in {"submitted", "adjudicated"}
            BY <2>2 DEF ModalsInv
        <3> HIDE DEF seen
        <3>3. /\ seen.revision_number <= proposal'.revision_number
              /\ seen.revision_number = proposal'.revision_number =>
                    /\ seen.content = proposal'.content
                    /\ proposal'.status \in {"submitted", "adjudicated"}
            <4>1. CASE UNCHANGED proposal BY <3>2, <4>1
            <4>2. CASE proposal.revision_number < proposal'.revision_number
                BY <1>2, <3>1, <3>2, <4>2
            <4>3. CASE /\ proposal'.revision_number = proposal.revision_number
                       /\ \/ proposal.status \notin {"submitted", "adjudicated"}
                          \/ /\ proposal'.content = proposal.content
                             /\ proposal'.status \in {"submitted", "adjudicated"}
                BY <3>2, <4>3
            <4>4. QED BY <4>1, <4>2, <4>3 DEF Progress
        <3>4. QED BY <2>2, <3>3 DEF seen
    <2>3. CASE modals'[r].open /\ modals'[r].seen = proposal' /\ proposal'.status = "submitted"
        BY <1>2, <2>3
    <2>4. CASE ~modals'[r].open /\ modals'[r].sending = {} BY <2>4
    <2>5. CASE modals'[r] = modals[r] /\ ~modals[r].open BY <2>1, <2>5
    <2>6. CASE modals'[r] = modals[r] /\ modals[r].open BY <2>2, <2>6
    <2>7. QED BY <2>2, <2>3, <2>4, <2>5, <2>6 DEF ModalsKept
<1>5. QED BY <1>3, <1>4 DEF FormsInv, ModalsInv

-----------------------------------------------------------------------------
(* The delegation's steps.                                                  *)

LEMMA NoFormType == NoForm \in Forms /\ ~NoForm.open
<1>1. NoForm \in Forms BY SMT DEF NoForm, Forms
<1>2. NoForm.open = FALSE BY Zenon DEF NoForm
<1>3. QED BY <1>1, <1>2, Zenon

LEMMA SavedForms ==
    ASSUME TypeOK, NEW s \in Authors, Saved(s)
    PROVE  forms' \in [Authors -> Forms] /\ FormsKept
<1>1. forms \in [Authors -> Forms] BY DEF TypeOK
<1>2. NoForm \in Forms /\ ~NoForm.open BY NoFormType
<1>3. CASE UNCHANGED forms BY <1>1, <1>3 DEF FormsKept
<1>4. CASE forms' = [forms EXCEPT ![s] = NoForm] BY <1>1, <1>2, <1>4 DEF FormsKept
<1>5. QED BY <1>3, <1>4 DEF Saved

LEMMA SameModals ==
    ASSUME UNCHANGED modals
    PROVE  ModalsKept
BY DEF ModalsKept

LEMMA SameForms ==
    ASSUME UNCHANGED forms
    PROVE  FormsKept
BY DEF FormsKept

LEMMA OpenFormInv ==
    ASSUME IInv, NEW s \in Authors, OpenForm(s)
    PROVE  IInv'
<1> DEFINE form == [open |-> TRUE, revision_number |-> proposal.revision_number,
                    row_version |-> proposal.row_version, content |-> proposal.content]
<1>1. TypeOK /\ proposal \in Proposals /\ forms \in [Authors -> Forms] BY DEF IInv, TypeOK
<1>2. form \in Forms BY <1>1 DEF Forms, Proposals
<1>3. form.row_version = proposal.row_version /\ form.content = proposal.content OBVIOUS
<1>4. forms' = [forms EXCEPT ![s] = form] /\ UNCHANGED <<proposal, communications, known, modals>>
    BY DEF OpenForm
<1> HIDE DEF form
<1>5. TypeOK' BY <1>1, <1>2, <1>4 DEF TypeOK
<1>6. FormsKept BY <1>1, <1>3, <1>4 DEF FormsKept
<1>7. Progress BY <1>4 DEF Progress
<1>8. ProposalInv' BY <1>4 DEF IInv, ProposalInv
<1>9. ThreadsInv' BY <1>4, SameThreads DEF IInv
<1>10. RootsInv' BY <1>4, SameRoots DEF IInv, Roots, Ids
<1>11. FormsInv' /\ ModalsInv' BY <1>4, <1>5, <1>6, <1>7, CopiesInv, SameModals DEF IInv
<1>12. QED BY <1>5, <1>8, <1>9, <1>10, <1>11 DEF IInv

LEMMA CloseFormInv ==
    ASSUME IInv, NEW s \in Authors, CloseForm(s)
    PROVE  IInv'
<1>1. TypeOK BY DEF IInv
<1>2. Saved(s) /\ UNCHANGED <<proposal, communications, known, modals>> BY DEF CloseForm, Saved
<1>3. forms' \in [Authors -> Forms] /\ FormsKept BY <1>1, <1>2, SavedForms
<1>4. TypeOK' BY <1>1, <1>2, <1>3 DEF TypeOK
<1>5. Progress BY <1>2 DEF Progress
<1>6. ProposalInv' BY <1>2 DEF IInv, ProposalInv
<1>7. ThreadsInv' BY <1>2, SameThreads DEF IInv
<1>8. RootsInv' BY <1>2, SameRoots DEF IInv, Roots, Ids
<1>9. FormsInv' /\ ModalsInv' BY <1>2, <1>3, <1>4, <1>5, CopiesInv, SameModals DEF IInv
<1>10. QED BY <1>4, <1>6, <1>7, <1>8, <1>9 DEF IInv

\* A write from a form leaves the threads and what has been approved as they are.
LEMMA WriteInv ==
    ASSUME IInv, NEW s \in Authors, Saved(s), proposal' \in Proposals, Progress, ProposalInv',
           proposal'.revision_number = proposal.revision_number,
           proposal'.recipient_reviews = proposal.recipient_reviews,
           proposal'.review_history = proposal.review_history,
           UNCHANGED <<communications, known, modals>>
    PROVE  IInv'
<1>1. forms' \in [Authors -> Forms] /\ FormsKept BY SavedForms DEF IInv
<1>2. TypeOK' BY <1>1 DEF IInv, TypeOK
<1>3. ThreadsInv' BY SameThreads DEF IInv
<1>4. RootsInv' BY SameRoots DEF IInv, Roots, Ids
<1>5. FormsInv' /\ ModalsInv' BY <1>1, <1>2, CopiesInv, SameModals DEF IInv
<1>6. QED BY <1>2, <1>3, <1>4, <1>5 DEF IInv

LEMMA CreateInv ==
    ASSUME IInv, NEW s \in Authors, NEW forwarded \in BOOLEAN,
           NEW recipients \in SUBSET Recipients, CreateProposal(s, forwarded, recipients)
    PROVE  IInv'
<1>1. /\ proposal' = Created(forwarded, recipients) /\ proposal.status = "absent"
      /\ Saved(s) /\ UNCHANGED <<communications, known, modals>>
    BY DEF CreateProposal
<1>2. /\ proposal' \in Proposals
      /\ proposal'.status = "draft"
      /\ proposal'.revision_number = 1 /\ proposal'.row_version = 1
      /\ proposal'.review_history = <<>>
    BY <1>1, CreatedFields
<1>3. proposal.revision_number = 0 /\ proposal.row_version = 0
    BY <1>1 DEF IInv, ProposalInv
<1>4. Roots = {}
    <2>1. \A m \in Roots : communications[m].source_revision \in 1..0
        BY <1>3 DEF IInv, RootsInv
    <2>2. QED BY <2>1
<1>5. forms' \in [Authors -> Forms] /\ FormsKept BY <1>1, SavedForms DEF IInv
<1>6. TypeOK' BY <1>1, <1>2, <1>5 DEF IInv, TypeOK
<1>7. ProposalInv'
    <2>1. Len(proposal'.review_history) = 0 BY <1>2
    <2>2. QED BY <1>2, <2>1 DEF ProposalInv
<1>8. ThreadsInv' BY <1>1, SameThreads DEF IInv
<1>9. RootsInv'
    <2>1. Roots' = {} BY <1>1, <1>4 DEF Roots, Ids
    <2>2. QED BY <2>1 DEF RootsInv, ApprovalsAreKept
<1>10. Progress BY <1>2, <1>3 DEF Progress
<1>11. FormsInv' /\ ModalsInv' BY <1>1, <1>5, <1>6, <1>10, CopiesInv, SameModals DEF IInv
<1>12. QED BY <1>6, <1>7, <1>8, <1>9, <1>11 DEF IInv

\* Saving, forwarding or editing a draft.
LEMMA RewriteInv ==
    ASSUME IInv, NEW s \in Authors, NEW handoff \in BOOLEAN,
           NEW recipients \in SUBSET Recipients, NEW handoffRevision \in Nat,
           Writable(s), Saved(s), proposal' = Rewritten(handoff, recipients, handoffRevision),
           UNCHANGED <<communications, known, modals>>
    PROVE  IInv'
<1>1. proposal \in Proposals /\ proposal.status = "draft" BY DEF IInv, TypeOK, Writable
<1>2. /\ proposal' \in Proposals
      /\ proposal'.status = proposal.status
      /\ proposal'.revision_number = proposal.revision_number
      /\ proposal'.row_version = proposal.row_version + 1
      /\ proposal'.recipient_reviews = proposal.recipient_reviews
      /\ proposal'.review_history = proposal.review_history
    BY <1>1, RewrittenFields
<1>3. proposal.row_version < proposal'.row_version BY <1>1, <1>2 DEF Proposals
<1>4. Progress BY <1>1, <1>2, <1>3 DEF Progress
<1>5. ProposalInv' BY <1>1, <1>2 DEF IInv, ProposalInv
<1>6. QED BY <1>2, <1>4, <1>5, WriteInv

LEMMA SubmitInv ==
    ASSUME IInv, NEW s \in Authors, SubmitProposal(s)
    PROVE  IInv'
<1>1. /\ proposal \in Proposals /\ proposal.status = "draft"
      /\ proposal' = Normalized(proposal, [proposal EXCEPT !.status = "submitted"], FALSE)
      /\ Saved(s) /\ UNCHANGED <<communications, known, modals>>
    BY DEF IInv, TypeOK, SubmitProposal, Writable
<1>2. /\ proposal' \in Proposals
      /\ proposal'.status = "submitted"
      /\ proposal'.revision_number = proposal.revision_number
      /\ proposal'.row_version = proposal.row_version + 1
      /\ proposal'.recipient_reviews = proposal.recipient_reviews
      /\ proposal'.review_history = proposal.review_history
    BY <1>1, SubmittedFields
<1>3. proposal.row_version < proposal'.row_version
    <2>1. proposal.row_version \in Nat BY DEF IInv, TypeOK, Proposals
    <2>2. QED BY <1>2, <2>1
<1>4. Progress BY <1>1, <1>2, <1>3 DEF Progress
<1>5. ProposalInv' BY <1>1, <1>2 DEF IInv, ProposalInv
<1>6. QED BY <1>1, <1>2, <1>4, <1>5, WriteInv

LEMMA AuthorInv ==
    ASSUME IInv, NEW s \in Authors, AuthorStep(s)
    PROVE  IInv'
<1>1. CASE OpenForm(s) BY <1>1, OpenFormInv
<1>2. CASE CloseForm(s) BY <1>2, CloseFormInv
<1>3. CASE SubmitProposal(s) BY <1>3, SubmitInv
<1>4. ASSUME NEW recipients \in SUBSET Recipients, EditProposal(s, recipients) PROVE IInv'
    <2>1. proposal.proposal_handoff_revision \in Nat /\ TRUE \in BOOLEAN
        BY DEF IInv, TypeOK, Proposals
    <2>2. QED BY <1>4, <2>1, RewriteInv, Zenon DEF EditProposal
<1>5. ASSUME NEW recipients \in SUBSET Recipients, NEW forwarded \in BOOLEAN,
             CreateProposal(s, forwarded, recipients)
      PROVE  IInv'
    BY <1>5, CreateInv
<1>6. ASSUME NEW recipients \in SUBSET Recipients, NEW forwarded \in BOOLEAN,
             WriteAsScribe(s, forwarded, recipients)
      PROVE  IInv'
    <2> DEFINE handoffRevision == IF forwarded THEN proposal.revision_number ELSE 0
    <2>1. handoffRevision \in Nat BY DEF IInv, TypeOK, Proposals
    <2>2. /\ Writable(s) /\ Saved(s) /\ proposal' = Rewritten(forwarded, recipients, handoffRevision)
          /\ UNCHANGED <<communications, known, modals>>
        BY <1>6, Zenon DEF WriteAsScribe
    <2> HIDE DEF handoffRevision
    <2>3. QED BY <2>1, <2>2, RewriteInv
<1>7. QED BY <1>1, <1>2, <1>3, <1>4, <1>5, <1>6 DEF AuthorStep

-----------------------------------------------------------------------------
(* White Cell's steps.                                                      *)

LEMMA NoModalType ==
    /\ NoModal \in Modals
    /\ ~NoModal.open /\ NoModal.sending = {}
<1>1. NoModal \in Modals BY NoProposalFields, SMT DEF NoModal, Modals
<1>2. NoModal.open = FALSE BY Zenon DEF NoModal
<1>3. NoModal.sending = {} BY Zenon DEF NoModal
<1>4. QED BY <1>1, <1>2, <1>3, Zenon

\* A modal goes on with fewer recipients to send, or others.
LEMMA SendingType ==
    ASSUME NEW modal \in Modals, NEW sending \in SUBSET Recipients
    PROVE  /\ [modal EXCEPT !.sending = sending] \in Modals
           /\ [modal EXCEPT !.sending = sending].open = modal.open
           /\ [modal EXCEPT !.sending = sending].seen = modal.seen
           /\ [modal EXCEPT !.sending = sending].sending = sending
BY DEF Modals

\* A step of one reviewer that writes nothing.
LEMMA ReviewerOnly ==
    ASSUME IInv, NEW r \in Reviewers, NEW modal \in Modals,
           modals' = [modals EXCEPT ![r] = modal],
           known' \in [Reviewers -> SUBSET Nat],
           \/ ~modal.open /\ modal.sending = {}
           \/ modals[r].open /\ modal.open /\ modal.seen = modals[r].seen
           \/ modal.open /\ modal.seen = proposal /\ proposal.status = "submitted",
           UNCHANGED <<proposal, communications, forms>>
    PROVE  IInv'
<1>1. modals \in [Reviewers -> Modals] BY DEF IInv, TypeOK
<1>2. modals' \in [Reviewers -> Modals] BY <1>1
<1>3. TypeOK' BY <1>2 DEF IInv, TypeOK
<1>4. ModalsKept BY <1>1 DEF ModalsKept
<1>5. Progress BY DEF Progress
<1>6. ProposalInv' BY DEF IInv, ProposalInv
<1>7. ThreadsInv' BY SameThreads DEF IInv
<1>8. RootsInv' BY SameRoots DEF IInv, Roots, Ids
<1>9. FormsInv' /\ ModalsInv' BY <1>3, <1>4, <1>5, CopiesInv, SameForms DEF IInv
<1>10. QED BY <1>3, <1>6, <1>7, <1>8, <1>9 DEF IInv

LEMMA LearnInv ==
    ASSUME IInv, NEW r \in Reviewers, NEW m \in Ids, Learn(r, m)
    PROVE  IInv'
<1>1. TypeOK /\ UNCHANGED <<proposal, communications, forms, modals>> BY DEF IInv, Learn
<1>2. known' \in [Reviewers -> SUBSET Nat]
    <2>1. m \in Nat BY <1>1, MessageFields
    <2>2. QED BY <1>1, <2>1 DEF Learn, TypeOK
<1>3. TypeOK' BY <1>1, <1>2 DEF TypeOK
<1>4. Progress BY <1>1 DEF Progress
<1>5. ProposalInv' BY <1>1 DEF IInv, ProposalInv
<1>6. ThreadsInv' BY <1>1, SameThreads DEF IInv
<1>7. RootsInv' BY <1>1, SameRoots DEF IInv, Roots, Ids
<1>8. FormsInv' /\ ModalsInv' BY <1>1, <1>3, <1>4, CopiesInv, SameForms, SameModals DEF IInv
<1>9. QED BY <1>3, <1>5, <1>6, <1>7, <1>8 DEF IInv

LEMMA OpenReviewInv ==
    ASSUME IInv, NEW r \in Reviewers, OpenReview(r)
    PROVE  IInv'
<1> DEFINE pending == proposal.recipients \ SeenApproved(r, proposal)
           modal == [open |-> TRUE, seen |-> proposal, pending |-> pending, sending |-> {}]
<1>1. proposal \in Proposals /\ known \in [Reviewers -> SUBSET Nat] BY DEF IInv, TypeOK
<1>2. pending \in SUBSET Recipients BY <1>1 DEF Proposals
<1>3. /\ modals' = [modals EXCEPT ![r] = modal] /\ proposal.status = "submitted"
      /\ UNCHANGED <<proposal, communications, forms, known>>
    BY DEF OpenReview
<1> HIDE DEF pending
<1>4. modal \in Modals /\ modal.seen = proposal BY <1>1, <1>2, SMT DEF Modals
<1>5. modal.open
    <2>1. modal.open = TRUE BY Zenon
    <2>2. QED BY <2>1, Zenon
<1> HIDE DEF modal
<1>6. QED BY <1>1, <1>3, <1>4, <1>5, ReviewerOnly

LEMMA CloseReviewInv ==
    ASSUME IInv, NEW r \in Reviewers, CloseReview(r)
    PROVE  IInv'
BY NoModalType, ReviewerOnly DEF CloseReview, IInv, TypeOK

LEMMA ModalIsTyped ==
    ASSUME IInv, NEW r \in Reviewers
    PROVE  /\ modals[r] \in Modals /\ modals[r].sending \in SUBSET Recipients
           /\ modals[r].pending \in SUBSET Recipients /\ modals[r].seen \in Proposals
           /\ modals[r].sending # {} => modals[r].open
<1>1. modals[r] \in Modals BY DEF IInv, TypeOK
<1>2. QED BY <1>1 DEF Modals, IInv, ModalsInv

LEMMA SelectInv ==
    ASSUME IInv, NEW r \in Reviewers, NEW teams \in SUBSET Recipients, SelectRecipients(r, teams)
    PROVE  IInv'
<1> DEFINE modal == [modals[r] EXCEPT !.sending = teams]
<1>1. modal \in Modals /\ modal.open = modals[r].open /\ modal.seen = modals[r].seen
    BY ModalIsTyped, SendingType
<1>2. /\ modals' = [modals EXCEPT ![r] = modal] /\ modals[r].open
      /\ UNCHANGED <<proposal, communications, forms, known>>
    BY Zenon DEF SelectRecipients
<1> HIDE DEF modal
<1>3. known' \in [Reviewers -> SUBSET Nat] BY <1>2 DEF IInv, TypeOK
<1>4. QED BY <1>1, <1>2, <1>3, ReviewerOnly

LEMMA ApprovalFailsInv ==
    ASSUME IInv, NEW r \in Reviewers, ApprovalFails(r)
    PROVE  IInv'
<1> DEFINE modal == [modals[r] EXCEPT !.sending = {}]
<1>1. modal \in Modals /\ modal.open = modals[r].open /\ modal.seen = modals[r].seen
    BY ModalIsTyped, SendingType
<1>2. /\ modals' = [modals EXCEPT ![r] = modal] /\ modals[r].open
      /\ UNCHANGED <<proposal, communications, forms, known>>
    BY ModalIsTyped, Zenon DEF ApprovalFails
<1> HIDE DEF modal
<1>3. known' \in [Reviewers -> SUBSET Nat] BY <1>2 DEF IInv, TypeOK
<1>4. QED BY <1>1, <1>2, <1>3, ReviewerOnly

\* However an approval is answered, the modal is closed or goes on showing what it showed.
LEMMA AnsweredModals ==
    ASSUME IInv, NEW r \in Reviewers, NEW t \in modals[r].sending, NEW root \in Nat,
           ApprovalAnswered(r, t, root)
    PROVE  /\ known' \in [Reviewers -> SUBSET Nat]
           /\ \E modal \in Modals :
                 /\ modals' = [modals EXCEPT ![r] = modal]
                 /\ \/ ~modal.open /\ modal.sending = {}
                    \/ modals[r].open /\ modal.open /\ modal.seen = modals[r].seen
<1>1. /\ modals[r] \in Modals /\ modals[r].sending \in SUBSET Recipients /\ modals[r].open
      /\ modals[r].sending \ {t} \in SUBSET Recipients
    BY ModalIsTyped
<1>2. known \in [Reviewers -> SUBSET Nat] BY DEF IInv, TypeOK
<1>3. known' \in [Reviewers -> SUBSET Nat] BY <1>2 DEF ApprovalAnswered
<1> DEFINE fewer == [modals[r] EXCEPT !.sending = modals[r].sending \ {t}]
           none == [modals[r] EXCEPT !.sending = {}]
<1>4. /\ fewer \in Modals /\ fewer.open = modals[r].open /\ fewer.seen = modals[r].seen
      /\ none \in Modals /\ none.open = modals[r].open /\ none.seen = modals[r].seen
    BY <1>1, SendingType
<1>5. \/ modals' = [modals EXCEPT ![r] = NoModal]
      \/ modals' = [modals EXCEPT ![r] = fewer]
      \/ modals' = [modals EXCEPT ![r] = none]
    BY Zenon DEF ApprovalAnswered
<1> HIDE DEF fewer, none
<1>6. QED BY <1>1, <1>3, <1>4, <1>5, NoModalType, Zenon

LEMMA ApproveAgainInv ==
    ASSUME IInv, NEW r \in Reviewers, NEW t \in Recipients, ApproveAgain(r, t)
    PROVE  IInv'
<1>1. PICK root \in ApprovalRoots(t) : ApprovalAnswered(r, t, root) BY DEF ApproveAgain
<1>2. root \in Nat
    <2>1. root \in Ids /\ TypeOK BY DEF ApprovalRoots, Roots, IInv
    <2>2. QED BY <2>1, MessageFields
<1>3. t \in modals[r].sending /\ UNCHANGED <<proposal, communications, forms>>
    BY DEF ApproveAgain
<1>4. QED BY <1>1, <1>2, <1>3, AnsweredModals, ReviewerOnly

\* The first approval of a recipient in its revision.
LEMMA ApproveInv ==
    ASSUME IInv, NEW r \in Reviewers, NEW t \in Recipients, Approve(r, t)
    PROVE  IInv'
<1>1. /\ TypeOK /\ proposal \in Proposals /\ UnderReview(proposal) /\ ApprovalRoots(t) = {}
      /\ communications' = Append(communications, Root(t)) /\ UNCHANGED forms
      /\ t \in modals[r].sending /\ ApprovalAnswered(r, t, Len(communications) + 1)
      /\ proposal' = IF CompletesWith(t) THEN CompletedRow(ApprovedRow(t)) ELSE ApprovedRow(t)
    BY DEF IInv, TypeOK, Approve
<1>2. Len(communications) \in Nat /\ Len(communications) + 1 \in Nat BY <1>1 DEF TypeOK
<1>3. LET row == ApprovedRow(t)
      IN  /\ row \in Proposals
          /\ UnderReview(row)
          /\ row.revision_number = proposal.revision_number
          /\ row.row_version = proposal.row_version + 1
          /\ row.content = proposal.content
          /\ row.recipients = proposal.recipients
          /\ row.recipient_reviews
               = [proposal.recipient_reviews EXCEPT ![t] = Len(communications) + 1]
          /\ row.review_history = proposal.review_history
    BY <1>1, <1>2, ApprovedFields
<1>4. /\ proposal' \in Proposals
      /\ proposal'.status \in {"submitted", "adjudicated"}
      /\ proposal'.revision_number = proposal.revision_number
      /\ proposal'.row_version > proposal.row_version
      /\ proposal'.content = proposal.content
      /\ proposal'.recipient_reviews
           = [proposal.recipient_reviews EXCEPT ![t] = Len(communications) + 1]
      /\ proposal'.review_history = proposal.review_history
    <2>1. proposal.row_version \in Nat BY <1>1 DEF Proposals
    <2>2. CASE CompletesWith(t)
        <3>1. proposal' = CompletedRow(ApprovedRow(t)) BY <1>1, <2>2
        <3>2. /\ proposal' \in Proposals /\ proposal'.status = "adjudicated"
              /\ proposal'.revision_number = ApprovedRow(t).revision_number
              /\ proposal'.row_version = ApprovedRow(t).row_version + 1
              /\ proposal'.content = ApprovedRow(t).content
              /\ proposal'.recipient_reviews = ApprovedRow(t).recipient_reviews
              /\ proposal'.review_history = ApprovedRow(t).review_history
            BY <1>3, <3>1, CompletedFields
        <3>3. QED BY <1>3, <2>1, <3>2
    <2>3. CASE ~CompletesWith(t)
        <3>1. proposal' = ApprovedRow(t) BY <1>1, <2>3
        <3>2. QED BY <1>3, <2>1, <3>1 DEF UnderReview
    <2>4. QED BY <2>2, <2>3
<1>5. /\ known' \in [Reviewers -> SUBSET Nat]
      /\ \E modal \in Modals :
            /\ modals' = [modals EXCEPT ![r] = modal]
            /\ \/ ~modal.open /\ modal.sending = {}
               \/ modals[r].open /\ modal.open /\ modal.seen = modals[r].seen
    BY <1>1, <1>2, AnsweredModals
<1>6. modals' \in [Reviewers -> Modals] /\ ModalsKept
    <2>1. modals \in [Reviewers -> Modals] BY <1>1 DEF TypeOK
    <2>2. QED BY <1>5, <2>1 DEF ModalsKept
<1>7. communications' \in Seq(Messages) BY <1>1, RootFields, Sent
<1>8. TypeOK' BY <1>1, <1>4, <1>5, <1>6, <1>7 DEF TypeOK
<1>9. Progress BY <1>4 DEF Progress
<1>10. ProposalInv' BY <1>1, <1>4 DEF IInv, ProposalInv, UnderReview
<1>11. ThreadsInv' BY <1>1, RootThreads DEF IInv
<1>12. RootsInv' BY <1>1, <1>4, ApprovalRootsInv DEF IInv
<1>13. FormsInv' /\ ModalsInv' BY <1>1, <1>6, <1>8, <1>9, CopiesInv, SameForms DEF IInv
<1>14. QED BY <1>8, <1>10, <1>11, <1>12, <1>13 DEF IInv

LEMMA ReturnInv ==
    ASSUME IInv, NEW r \in Reviewers, ReturnProposal(r)
    PROVE  IInv'
<1>1. TypeOK /\ proposal \in Proposals /\ proposal.status \in {"submitted", "adjudicated"}
      /\ UNCHANGED <<communications, forms, known>>
    BY DEF IInv, TypeOK, ReturnProposal
<1>2. /\ proposal' \in Proposals
      /\ proposal'.status = "draft"
      /\ proposal'.revision_number = proposal.revision_number + 1
      /\ proposal'.row_version = proposal.row_version + 1
      /\ proposal'.review_history
           = Append(proposal.review_history, proposal.recipient_reviews)
    <2> HIDE DEF IInv
    <2>1. proposal' = TakenBack(Normalized(proposal,
                        [proposal EXCEPT !.status = "draft",
                                         !.workflow_state = "returned_to_team",
                                         !.revision_number = @ + 1], TRUE))
        BY Zenon DEF ReturnProposal
    <2>2. QED BY <1>1, <2>1, ReturnedFields, Zenon
<1>3. proposal.row_version \in Nat /\ proposal.revision_number \in Nat BY <1>1 DEF Proposals
<1>4. Progress BY <1>2, <1>3 DEF Progress
<1>5. modals' \in [Reviewers -> Modals] /\ ModalsKept
    <2>1. modals \in [Reviewers -> Modals] BY <1>1 DEF TypeOK
    <2>2. modals' = [modals EXCEPT ![r] = NoModal] \/ UNCHANGED modals
        BY DEF ReturnProposal
    <2>3. QED BY <2>1, <2>2, NoModalType, SameModals DEF ModalsKept
<1>6. TypeOK' BY <1>1, <1>2, <1>5 DEF TypeOK
<1>7. ProposalInv'
    <2>1. /\ proposal.review_history \in Seq([Recipients -> Nat])
          /\ proposal.recipient_reviews \in [Recipients -> Nat]
        BY <1>1 DEF Proposals
    <2>2. Len(proposal'.review_history) = Len(proposal.review_history) + 1 BY <1>2, <2>1
    <2>3. Len(proposal.review_history) + 1 = proposal.revision_number
        BY <1>1 DEF IInv, ProposalInv
    <2>4. QED BY <1>2, <2>2, <2>3 DEF ProposalInv
<1>8. ThreadsInv' BY <1>1, SameThreads DEF IInv
<1>9. RootsInv'
    <2>1. proposal.status # "absent" BY <1>1
    <2>2. QED BY <1>1, <1>2, <2>1, ReturnRootsInv DEF IInv
<1>10. FormsInv' /\ ModalsInv' BY <1>1, <1>4, <1>5, <1>6, CopiesInv, SameForms DEF IInv
<1>11. QED BY <1>6, <1>7, <1>8, <1>9, <1>10 DEF IInv

-----------------------------------------------------------------------------
(* The invariant holds from the start and through every step.               *)

LEMMA ReviewerInv ==
    ASSUME IInv, NEW r \in Reviewers, ReviewerStep(r)
    PROVE  IInv'
BY OpenReviewInv, CloseReviewInv, ApprovalFailsInv, ReturnInv, LearnInv, SelectInv,
   ApproveInv, ApproveAgainInv, Zenon DEF ReviewerStep

\* A message in a thread leaves the proposal and every copy of it alone.
LEMMA MessageInv ==
    ASSUME IInv, TypeOK', ThreadsInv', RootsInv', UNCHANGED <<proposal, forms, known, modals>>
    PROVE  IInv'
<1>1. Progress BY DEF Progress
<1>2. ProposalInv' BY DEF IInv, ProposalInv
<1>3. FormsInv' /\ ModalsInv' BY <1>1, CopiesInv, SameForms, SameModals DEF IInv
<1>4. QED BY <1>2, <1>3 DEF IInv

LEMMA AppendInv ==
    ASSUME IInv, NEW side \in {"source", "recipient"}, NEW p \in Ids, NEW closes \in BOOLEAN,
           AppendMessage(side, p, closes)
    PROVE  IInv'
<1>1. TypeOK /\ TypeOK' /\ ThreadsInv' BY ReplyThreads DEF IInv
<1>2. /\ communications' = Append(communications, Reply(side, p, closes))
      /\ UNCHANGED <<proposal, forms, known, modals>>
    BY DEF AppendMessage
<1>3. /\ Reply(side, p, closes) \in Messages
      /\ Reply(side, p, closes).type # "PROPOSAL_FORWARDED"
    BY <1>1, ReplyFields
<1>4. RootsInv' BY <1>1, <1>2, <1>3, MessageRoots DEF IInv
<1>5. QED BY <1>1, <1>2, <1>4, MessageInv

LEMMA ForwardInv ==
    ASSUME IInv, NEW m \in Ids, ForwardResponse(m)
    PROVE  IInv'
<1> DEFINE sent == [communications[m] EXCEPT !.type = "PROPOSAL_RESPONSE", !.review_request = m]
<1>1. TypeOK /\ TypeOK' /\ ThreadsInv' BY ForwardThreads DEF IInv
<1>2. communications' = Append(communications, sent) /\ UNCHANGED <<proposal, forms, known, modals>>
    BY DEF ForwardResponse
<1>3. sent \in Messages /\ sent.type # "PROPOSAL_FORWARDED" BY <1>1, ForwardedFields
<1> HIDE DEF sent
<1>4. RootsInv' BY <1>1, <1>2, <1>3, MessageRoots DEF IInv
<1>5. QED BY <1>1, <1>2, <1>4, MessageInv

LEMMA InitInv == Init => IInv
<1> SUFFICES ASSUME Init PROVE IInv OBVIOUS
<1>1. /\ proposal = NoProposal /\ communications = <<>>
      /\ forms = [s \in Authors |-> NoForm] /\ modals = [r \in Reviewers |-> NoModal]
      /\ known = [r \in Reviewers |-> {}]
    BY DEF Init
<1>2. TypeOK BY <1>1, NoProposalFields, NoFormType, NoModalType DEF TypeOK
<1>3. ProposalInv BY <1>1, NoProposalFields DEF ProposalInv
<1>4. FormsInv BY <1>1, NoFormType DEF FormsInv
<1>5. ModalsInv BY <1>1, NoModalType DEF ModalsInv
<1>6. Ids = {} BY <1>1 DEF Ids
<1>7. ThreadsInv BY <1>6 DEF ThreadsInv, RoundsChain
<1>8. RootsInv BY <1>6 DEF RootsInv, ApprovalsAreKept, Roots
<1>9. QED BY <1>2, <1>3, <1>4, <1>5, <1>7, <1>8 DEF IInv

LEMMA StutterInv ==
    ASSUME IInv, UNCHANGED vars
    PROVE  IInv'
<1>1. UNCHANGED <<proposal, communications, forms, known, modals>> BY DEF vars
<1>2. TypeOK' BY <1>1 DEF IInv, TypeOK
<1>3. ThreadsInv' BY <1>1, SameThreads DEF IInv
<1>4. RootsInv' BY <1>1, SameRoots DEF IInv, Roots, Ids
<1>5. QED BY <1>1, <1>2, <1>3, <1>4, MessageInv

LEMMA NextInv == IInv /\ [Next]_vars => IInv'
<1> SUFFICES ASSUME IInv, [Next]_vars PROVE IInv' OBVIOUS
<1>1. CASE \E s \in Authors : AuthorStep(s) BY <1>1, AuthorInv
<1>2. CASE \E r \in Reviewers : ReviewerStep(r) BY <1>2, ReviewerInv
<1>3. CASE ThreadStep BY <1>3, AppendInv, ForwardInv DEF ThreadStep
<1>4. CASE UNCHANGED vars BY <1>4, StutterInv
<1>5. QED BY <1>1, <1>2, <1>3, <1>4 DEF Next

-----------------------------------------------------------------------------
(* The theorems.                                                            *)

\* Whatever write_regional_proposal, the reviews of White Cell and the thread functions
\* do, in any order, copies are of the row they were read from and the approvals and
\* threads are as they are recorded.
THEOREM InductiveInvariant == Spec => []IInv
BY InitInv, NextInv, PTL DEF Spec

\* The proposal, its messages, forms and modals keep their types.
THEOREM TypesHold == Spec => []TypeOK
<1>1. IInv => TypeOK BY DEF IInv
<1>2. QED BY <1>1, InductiveInvariant, PTL

\* No session of the delegation overwrites a text of the proposal that its form does not
\* show.
THEOREM WritesWhatWasShown == Spec => []OverwritesWhatWasShown
<1>1. IInv => OverwritesWhatWasShown
    BY DEF IInv, FormsInv, OverwritesWhatWasShown, FormIsCurrent
<1>2. QED BY <1>1, InductiveInvariant, PTL

\* An approval that operator_review_proposal still admits is of the text the reviewer saw,
\* after however many returns and rewrites.
THEOREM ApprovedAsSeen == Spec => []ApprovesWhatWasSeen
<1>1. IInv => ApprovesWhatWasSeen
    BY Zenon DEF IInv, ModalsInv, ApprovesWhatWasSeen, ApprovalAdmitted
<1>2. QED BY <1>1, InductiveInvariant, PTL

\* Each first message of a thread is the one approval of its recipient and revision, in
\* the row or in its history.
THEOREM ApprovalsOnRecord == Spec => []ApprovalsAreKept
<1>1. IInv => ApprovalsAreKept BY DEF IInv, RootsInv
<1>2. QED BY <1>1, InductiveInvariant, PTL

\* In every thread the sides alternate, each message answers the one before it, and
\* nothing is answered or released twice.
THEOREM ThreadsChain == Spec => []RoundsChain
<1>1. IInv => RoundsChain BY DEF IInv, ThreadsInv
<1>2. QED BY <1>1, InductiveInvariant, PTL

-----------------------------------------------------------------------------
(* Completion.                                                              *)

\* What CompletedIsApproved needs to know of the texts: a draft has no approval of its
\* revision yet; once it is handed off and submitted, its text is newer than any that was
\* approved before; and as long as White Cell has it, the approvals are of that text.
TextInv ==
    /\ proposal.content <= proposal.row_version
    /\ proposal.status # "absent" => proposal.recipients # {}
    /\ \A m \in Roots : communications[m].content <= proposal.content
    /\ proposal.status = "draft" =>
          /\ \A m \in Roots : communications[m].source_revision # proposal.revision_number
          /\ proposal.proposal_handoff_revision = proposal.revision_number =>
                \A m \in Roots : communications[m].content < proposal.content
    /\ proposal.status \in {"submitted", "adjudicated"} =>
          \A m \in Roots :
             IF communications[m].source_revision = proposal.revision_number
             THEN communications[m].content = proposal.content
             ELSE communications[m].content < proposal.content
    /\ UnderReview(proposal) => \E t \in proposal.recipients : ApprovalRoots(t) = {}
    /\ proposal.workflow_state = "completed" =>
          /\ proposal.status = "adjudicated"
          /\ \A t \in proposal.recipients : ApprovalRoots(t) # {}

\* A step that neither writes the proposal nor sends an approval.
LEMMA SameText ==
    ASSUME TextInv, UNCHANGED proposal, Roots' = Roots,
           \A m \in Roots : communications'[m] = communications[m]
    PROVE  TextInv'
<1>1. \A t : ApprovalRoots(t)' = ApprovalRoots(t) BY DEF ApprovalRoots
<1>2. QED BY <1>1 DEF TextInv

\* The same for a message of a thread.
LEMMA MessageText ==
    ASSUME TypeOK, TextInv, NEW message \in Messages, message.type # "PROPOSAL_FORWARDED",
           communications' = Append(communications, message), UNCHANGED proposal
    PROVE  TextInv'
<1>1. Roots' = Roots /\ \A m \in Roots : communications'[m] = communications[m]
    BY Sent DEF Roots
<1>2. QED BY <1>1, SameText

LEMMA CreateText ==
    ASSUME IInv, NEW s \in Authors, NEW forwarded \in BOOLEAN,
           NEW recipients \in (SUBSET Recipients) \ {{}}, CreateProposal(s, forwarded, recipients)
    PROVE  TextInv'
<1>1. proposal.status = "absent" /\ proposal' = Created(forwarded, recipients) /\ UNCHANGED communications
    BY DEF CreateProposal
<1>2. /\ proposal'.status = "draft"
      /\ proposal'.workflow_state \in {"draft", "forwarded_to_facilitator"}
      /\ proposal'.row_version = 1 /\ proposal'.content = 1
      /\ proposal'.recipients = recipients
    BY <1>1, CreatedFields
<1>3. Roots = {}
    <2>1. proposal.revision_number = 0 BY <1>1 DEF IInv, ProposalInv
    <2>2. QED BY <2>1 DEF IInv, RootsInv
<1>4. Roots' = {} BY <1>1, <1>3 DEF Roots, Ids
<1>5. QED BY <1>2, <1>4 DEF TextInv, UnderReview

LEMMA RewriteText ==
    ASSUME IInv, TextInv, NEW s \in Authors, NEW handoff \in BOOLEAN,
           NEW recipients \in (SUBSET Recipients) \ {{}}, NEW handoffRevision \in Nat,
           Writable(s), proposal' = Rewritten(handoff, recipients, handoffRevision),
           UNCHANGED communications
    PROVE  TextInv'
<1>1. TypeOK /\ proposal \in Proposals /\ proposal.status = "draft"
    BY DEF IInv, TypeOK, Writable
<1>2. /\ proposal'.status = "draft"
      /\ proposal'.revision_number = proposal.revision_number
      /\ proposal'.row_version = proposal.row_version + 1
      /\ proposal'.content = proposal.row_version + 1
      /\ proposal'.recipients = recipients
    BY <1>1, RewrittenFields
<1>3. proposal'.workflow_state # "completed" BY <1>1, RewrittenFields
<1>4. /\ proposal.row_version \in Nat /\ proposal.content \in Nat BY <1>1 DEF Proposals
<1>5. Roots' = Roots /\ \A m \in Roots : communications'[m] = communications[m] /\ communications[m].content \in Nat
    BY <1>1, MessageFields DEF Roots, Ids
<1>6. \A m \in Roots' : /\ communications'[m].content < proposal'.content
                        /\ communications'[m].source_revision # proposal'.revision_number
    BY <1>1, <1>2, <1>4, <1>5 DEF TextInv
<1>7. \A m \in Roots' : communications'[m].content <= proposal'.content
    BY <1>2, <1>4, <1>5 DEF TextInv
<1>8. QED BY <1>2, <1>3, <1>4, <1>6, <1>7 DEF TextInv, UnderReview

LEMMA SubmitText ==
    ASSUME IInv, TextInv, NEW s \in Authors, SubmitProposal(s)
    PROVE  TextInv'
<1>1. /\ TypeOK /\ proposal \in Proposals /\ proposal.status = "draft"
      /\ proposal.proposal_handoff_revision = proposal.revision_number
      /\ proposal' = Normalized(proposal, [proposal EXCEPT !.status = "submitted"], FALSE)
      /\ UNCHANGED communications
    BY DEF IInv, TypeOK, SubmitProposal, Writable
<1>2. /\ proposal'.status = "submitted"
      /\ proposal'.workflow_state = SubmittedState(proposal)
      /\ proposal'.revision_number = proposal.revision_number
      /\ proposal'.row_version = proposal.row_version + 1
      /\ proposal'.content = proposal.content
      /\ proposal'.recipients = proposal.recipients
    BY <1>1, SubmittedFields
<1>3. proposal'.workflow_state # "completed" BY <1>2 DEF SubmittedState
<1>4. proposal.row_version \in Nat /\ proposal.content \in Nat BY <1>1 DEF Proposals
<1>5. Roots' = Roots /\ \A m \in Roots : communications'[m] = communications[m]
    BY <1>1 DEF Roots, Ids
<1>6. \A m \in Roots' : /\ communications'[m].source_revision # proposal'.revision_number
                        /\ communications'[m].content < proposal'.content
    BY <1>1, <1>2, <1>5 DEF TextInv
<1>7. \A m \in Roots' : communications'[m].content <= proposal'.content
    BY <1>2, <1>5 DEF TextInv
<1>8. \A t : ApprovalRoots(t)' = {} BY <1>6 DEF ApprovalRoots
<1>9. \E t \in proposal'.recipients : ApprovalRoots(t)' = {} BY <1>1, <1>2, <1>8 DEF TextInv
<1>10. QED BY <1>2, <1>3, <1>4, <1>6, <1>7, <1>9 DEF TextInv

\* The approval of t, with what it leaves of the proposal.
LEMMA ApproveText ==
    ASSUME IInv, TextInv, NEW r \in Reviewers, NEW t \in Recipients, Approve(r, t)
    PROVE  TextInv'
<1>1. /\ TypeOK /\ proposal \in Proposals /\ UnderReview(proposal) /\ ApprovalRoots(t) = {}
      /\ communications' = Append(communications, Root(t))
      /\ proposal' = IF CompletesWith(t) THEN CompletedRow(ApprovedRow(t)) ELSE ApprovedRow(t)
    BY DEF IInv, TypeOK, Approve
<1> DEFINE id == Len(communications) + 1
<1>2. id \in Nat /\ Len(communications) \in Nat BY <1>1 DEF TypeOK
<1>3. LET row == ApprovedRow(t)
      IN  /\ row \in Proposals
          /\ UnderReview(row)
          /\ row.revision_number = proposal.revision_number
          /\ row.row_version = proposal.row_version + 1
          /\ row.content = proposal.content
          /\ row.recipients = proposal.recipients
    BY <1>1, <1>2, ApprovedFields
<1>4. /\ proposal'.revision_number = proposal.revision_number
      /\ proposal'.row_version >= proposal.row_version
      /\ proposal'.content = proposal.content
      /\ proposal'.recipients = proposal.recipients
      /\ IF CompletesWith(t) THEN proposal'.status = "adjudicated" /\ proposal'.workflow_state = "completed"
                             ELSE UnderReview(proposal')
    <2>1. proposal.row_version \in Nat BY <1>1 DEF Proposals
    <2>2. CASE CompletesWith(t)
        <3>1. proposal' = CompletedRow(ApprovedRow(t)) BY <1>1, <2>2
        <3>2. QED BY <1>3, <2>1, <2>2, <3>1, CompletedFields
    <2>3. CASE ~CompletesWith(t)
        <3>1. proposal' = ApprovedRow(t) BY <1>1, <2>3
        <3>2. QED BY <1>3, <2>1, <2>3, <3>1
    <2>4. QED BY <2>2, <2>3
<1>5. /\ Root(t) \in Messages /\ Root(t).type = "PROPOSAL_FORWARDED" /\ Root(t).recipient = t
      /\ Root(t).source_revision = proposal.revision_number /\ Root(t).content = proposal.content
    BY <1>1, RootFields
<1>6. /\ Ids' = Ids \cup {id} /\ id \notin Ids
      /\ \A m \in Ids : communications'[m] = communications[m]
      /\ communications'[id] = Root(t)
    BY <1>1, <1>5, Sent
<1>7. Roots' = Roots \cup {id} /\ \A m \in Roots : communications'[m] = communications[m]
    BY <1>5, <1>6 DEF Roots
<1>8. \A other : ApprovalRoots(other)' = IF other = t THEN ApprovalRoots(other) \cup {id}
                                                      ELSE ApprovalRoots(other)
    <2> SUFFICES ASSUME NEW other
                 PROVE  ApprovalRoots(other)' = IF other = t THEN ApprovalRoots(other) \cup {id}
                                                             ELSE ApprovalRoots(other)
        OBVIOUS
    <2>1. \A m \in Roots : m # id BY <1>6 DEF Roots
    <2> HIDE DEF id
    <2>2. QED BY <1>4, <1>5, <1>6, <1>7, <2>1 DEF ApprovalRoots
<1> HIDE DEF id
<1>9. /\ proposal.content \in Nat /\ proposal.row_version \in Nat /\ proposal'.row_version \in Nat
    <2>1. IInv' BY ApproveInv
    <2>2. QED BY <1>1, <2>1 DEF IInv, TypeOK, Proposals
<1>10. proposal'.content <= proposal'.row_version BY <1>4, <1>9 DEF TextInv
<1>11. proposal'.status \in {"submitted", "adjudicated"} /\ proposal'.recipients # {}
    BY <1>1, <1>4 DEF TextInv, UnderReview
<1>12. \A m \in Roots' :
          /\ IF communications'[m].source_revision = proposal'.revision_number
             THEN communications'[m].content = proposal'.content
             ELSE communications'[m].content < proposal'.content
          /\ communications'[m].content <= proposal'.content
    <2>1. proposal.status = "submitted" BY <1>1 DEF UnderReview
    <2>2. ASSUME NEW m \in Roots
          PROVE  /\ IF communications[m].source_revision = proposal.revision_number
                    THEN communications[m].content = proposal.content
                    ELSE communications[m].content < proposal.content
                 /\ communications[m].content <= proposal.content
        BY <2>1 DEF TextInv
    <2>3. communications'[id].content = proposal.content
          /\ communications'[id].source_revision = proposal.revision_number
        BY <1>5, <1>6
    <2>4. QED BY <1>4, <1>7, <1>9, <2>2, <2>3
<1>13. UnderReview(proposal') => \E other \in proposal'.recipients : ApprovalRoots(other)' = {}
    <2> SUFFICES ASSUME UnderReview(proposal')
                 PROVE  \E other \in proposal'.recipients : ApprovalRoots(other)' = {}
        OBVIOUS
    <2>1. ~CompletesWith(t) BY <1>4 DEF UnderReview
    <2>2. PICK other \in proposal.recipients \ {t} : ApprovalRoots(other) = {}
        BY <2>1 DEF CompletesWith
    <2>3. QED BY <1>4, <1>8, <2>2
<1>14. proposal'.workflow_state = "completed" =>
          /\ proposal'.status = "adjudicated"
          /\ \A other \in proposal'.recipients : ApprovalRoots(other)' # {}
    <2> SUFFICES ASSUME proposal'.workflow_state = "completed"
                 PROVE  /\ proposal'.status = "adjudicated"
                        /\ \A other \in proposal'.recipients : ApprovalRoots(other)' # {}
        OBVIOUS
    <2>1. CompletesWith(t) BY <1>4 DEF UnderReview
    <2>2. QED BY <1>4, <1>8, <2>1 DEF CompletesWith
<1>15. proposal'.status # "draft" BY <1>11
<1>16. QED BY <1>10, <1>11, <1>12, <1>13, <1>14, <1>15 DEF TextInv

LEMMA ReturnText ==
    ASSUME IInv, TextInv, NEW r \in Reviewers, ReturnProposal(r)
    PROVE  TextInv'
<1>1. TypeOK /\ proposal \in Proposals /\ proposal.status \in {"submitted", "adjudicated"}
      /\ UNCHANGED communications
    BY DEF IInv, TypeOK, ReturnProposal
<1>2. /\ proposal'.status = "draft" /\ proposal'.workflow_state = "returned_to_team"
      /\ proposal'.revision_number = proposal.revision_number + 1
      /\ proposal'.row_version = proposal.row_version + 1
      /\ proposal'.content = proposal.content
      /\ proposal'.recipients = proposal.recipients
      /\ proposal'.proposal_handoff_revision = 0
    <2> HIDE DEF IInv
    <2>1. proposal' = TakenBack(Normalized(proposal,
                        [proposal EXCEPT !.status = "draft",
                                         !.workflow_state = "returned_to_team",
                                         !.revision_number = @ + 1], TRUE))
        BY Zenon DEF ReturnProposal
    <2>2. QED BY <1>1, <2>1, ReturnedFields, Zenon
<1>3. /\ proposal.revision_number \in Nat /\ proposal.row_version \in Nat
      /\ proposal.content \in Nat
    BY <1>1 DEF Proposals
<1>4. Roots' = Roots /\ \A m \in Roots : communications'[m] = communications[m]
    BY <1>1 DEF Roots, Ids
<1>5. \A m \in Roots' : /\ communications'[m].source_revision # proposal'.revision_number
                        /\ communications'[m].content <= proposal'.content
    <2>1. \A m \in Roots : communications[m].source_revision \in 1..proposal.revision_number
        BY DEF IInv, RootsInv
    <2>2. QED BY <1>2, <1>3, <1>4, <2>1 DEF TextInv
<1>6. proposal.recipients # {} BY <1>1 DEF TextInv
<1>7. proposal'.content <= proposal'.row_version BY <1>2, <1>3 DEF TextInv
<1>8. QED BY <1>2, <1>3, <1>5, <1>6, <1>7 DEF TextInv, UnderReview

LEMMA AuthorText ==
    ASSUME IInv, TextInv, NEW s \in Authors, AuthorStep(s)
    PROVE  TextInv'
<1>1. CASE OpenForm(s) \/ CloseForm(s)
    <2>1. UNCHANGED <<proposal, communications>> BY <1>1 DEF OpenForm, CloseForm
    <2>2. QED BY <2>1, SameText DEF Roots, Ids
<1>2. CASE SubmitProposal(s) BY <1>2, SubmitText
<1>3. ASSUME NEW recipients \in (SUBSET Recipients) \ {{}}, EditProposal(s, recipients)
      PROVE  TextInv'
    <2>1. /\ Writable(s) /\ UNCHANGED communications
          /\ proposal' = Rewritten(TRUE, recipients, proposal.proposal_handoff_revision)
        BY <1>3 DEF EditProposal
    <2>2. proposal.proposal_handoff_revision \in Nat /\ TRUE \in BOOLEAN
        BY DEF IInv, TypeOK, Proposals
    <2>3. QED BY <2>1, <2>2, RewriteText, Zenon
<1>4. ASSUME NEW recipients \in (SUBSET Recipients) \ {{}}, NEW forwarded \in BOOLEAN,
             CreateProposal(s, forwarded, recipients)
      PROVE  TextInv'
    BY <1>4, CreateText
<1>5. ASSUME NEW recipients \in (SUBSET Recipients) \ {{}}, NEW forwarded \in BOOLEAN,
             WriteAsScribe(s, forwarded, recipients)
      PROVE  TextInv'
    <2> DEFINE handoffRevision == IF forwarded THEN proposal.revision_number ELSE 0
    <2>1. /\ Writable(s) /\ UNCHANGED communications
          /\ proposal' = Rewritten(forwarded, recipients, handoffRevision)
        BY <1>5 DEF WriteAsScribe
    <2>2. handoffRevision \in Nat BY DEF IInv, TypeOK, Proposals
    <2> HIDE DEF handoffRevision
    <2>3. QED BY <2>1, <2>2, RewriteText, Zenon
<1>6. QED BY <1>1, <1>2, <1>3, <1>4, <1>5 DEF AuthorStep

LEMMA ReviewerText ==
    ASSUME IInv, TextInv, NEW r \in Reviewers, ReviewerStep(r)
    PROVE  TextInv'
<1>1. ASSUME UNCHANGED <<proposal, communications>> PROVE TextInv'
    BY <1>1, SameText DEF Roots, Ids
<1>2. CASE OpenReview(r) \/ CloseReview(r) \/ ApprovalFails(r)
    BY <1>1, <1>2 DEF OpenReview, CloseReview, ApprovalFails
<1>3. CASE ReturnProposal(r) BY <1>3, ReturnText
<1>4. CASE \E m \in Ids : Learn(r, m) BY <1>1, <1>4 DEF Learn
<1>5. CASE \E teams \in SUBSET Recipients : SelectRecipients(r, teams)
    BY <1>1, <1>5 DEF SelectRecipients
<1>6. ASSUME NEW t \in Recipients, Approve(r, t) \/ ApproveAgain(r, t) PROVE TextInv'
    <2>1. CASE Approve(r, t) BY <2>1, ApproveText
    <2>2. CASE ApproveAgain(r, t) BY <1>1, <2>2 DEF ApproveAgain
    <2>3. QED BY <1>6, <2>1, <2>2
<1>7. QED BY <1>2, <1>3, <1>4, <1>5, <1>6 DEF ReviewerStep

LEMMA ThreadText ==
    ASSUME IInv, TextInv, ThreadStep
    PROVE  TextInv'
<1>1. TypeOK BY DEF IInv
<1>2. ASSUME NEW side \in {"source", "recipient"}, NEW p \in Ids, NEW closes \in BOOLEAN,
             AppendMessage(side, p, closes)
      PROVE  TextInv'
    <2>1. communications' = Append(communications, Reply(side, p, closes)) /\ UNCHANGED proposal
        BY <1>2 DEF AppendMessage
    <2>2. Reply(side, p, closes) \in Messages /\ Reply(side, p, closes).type # "PROPOSAL_FORWARDED"
        BY <1>1, ReplyFields
    <2>3. QED BY <1>1, <2>1, <2>2, MessageText
<1>3. ASSUME NEW m \in Ids, ForwardResponse(m) PROVE TextInv'
    <2> DEFINE sent == [communications[m] EXCEPT !.type = "PROPOSAL_RESPONSE", !.review_request = m]
    <2>1. communications' = Append(communications, sent) /\ UNCHANGED proposal
        BY <1>3 DEF ForwardResponse
    <2>2. sent \in Messages /\ sent.type # "PROPOSAL_FORWARDED" BY <1>1, ForwardedFields
    <2> HIDE DEF sent
    <2>3. QED BY <1>1, <2>1, <2>2, MessageText
<1>4. QED BY <1>2, <1>3 DEF ThreadStep

LEMMA TextStep == IInv /\ TextInv /\ [Next]_vars => TextInv'
<1> SUFFICES ASSUME IInv, TextInv, [Next]_vars PROVE TextInv' OBVIOUS
<1>1. CASE \E s \in Authors : AuthorStep(s) BY <1>1, AuthorText
<1>2. CASE \E r \in Reviewers : ReviewerStep(r) BY <1>2, ReviewerText
<1>3. CASE ThreadStep BY <1>3, ThreadText
<1>4. CASE UNCHANGED vars
    <2>1. UNCHANGED <<proposal, communications>> BY <1>4 DEF vars
    <2>2. QED BY <2>1, SameText DEF Roots, Ids
<1>5. QED BY <1>1, <1>2, <1>3, <1>4 DEF Next

LEMMA TextInit == Init => TextInv
<1> SUFFICES ASSUME Init PROVE TextInv OBVIOUS
<1>1. proposal = NoProposal /\ communications = <<>> BY DEF Init
<1>2. Roots = {} BY <1>1 DEF Roots, Ids
<1>3. NoProposal.workflow_state = "none" BY DEF NoProposal
<1>4. QED BY <1>1, <1>2, <1>3, NoProposalFields DEF TextInv, UnderReview

\* operator_review_proposal completes a proposal with, and not before, the approval of its
\* final text for the last of its recipients, whatever was approved, returned and rewritten
\* before.
THEOREM CompletionIsApproval == Spec => []CompletedIsApproved
<1>1. IInv /\ TextInv => CompletedIsApproved
    <2> SUFFICES ASSUME IInv, TextInv PROVE CompletedIsApproved OBVIOUS
    <2> DEFINE sentTo(t) == \E m \in Roots :
            communications[m].recipient = t /\ communications[m].content = proposal.content
    <2>1. ASSUME proposal.workflow_state = "completed", NEW t \in proposal.recipients
          PROVE  sentTo(t)
        <3>1. proposal.status = "adjudicated" /\ ApprovalRoots(t) # {} BY <2>1 DEF TextInv
        <3>2. PICK m \in Roots : /\ communications[m].recipient = t
                                 /\ communications[m].source_revision = proposal.revision_number
            BY <3>1 DEF ApprovalRoots
        <3>3. communications[m].content = proposal.content BY <3>1, <3>2 DEF TextInv
        <3>4. QED BY <3>2, <3>3
    <2>2. ASSUME UnderReview(proposal)
          PROVE  \E t \in proposal.recipients : ~sentTo(t)
        <3>1. PICK t \in proposal.recipients : ApprovalRoots(t) = {} BY <2>2 DEF TextInv
        <3>2. proposal.content \in Nat BY DEF IInv, TypeOK, Proposals
        <3>3. \A m \in Roots : communications[m].recipient = t => communications[m].content < proposal.content
            BY <2>2, <3>1 DEF TextInv, UnderReview, ApprovalRoots
        <3>4. \A m \in Roots : communications[m].recipient = t => communications[m].content # proposal.content
            BY <3>2, <3>3
        <3>5. QED BY <3>4
    <2>3. QED BY <2>1, <2>2 DEF CompletedIsApproved
<1>2. QED BY <1>1, InductiveInvariant, TextInit, TextStep, PTL DEF Spec

-----------------------------------------------------------------------------
(* Negotiation.                                                             *)

\* A message belongs to the thread, and is about the proposal, of its root; the sides take
\* turns; and what was released has been under review.
InLine(m) ==
    LET message == communications[m]
        root == communications[message.thread]
    IN  /\ message.thread \in Roots
        /\ message.source_revision = root.source_revision
        /\ message.recipient = root.recipient
        /\ IF m \in Roots
           THEN message.thread = m /\ message.round = 0
           ELSE message.sender = IF message.round % 2 = 1 THEN "recipient" ELSE "source"
        /\ IF message.type = "PROPOSAL_RESPONSE"
           THEN /\ message.review_request \in InThread(message.thread) \ Released
                /\ communications[message.review_request].round = message.round
           ELSE message.review_request = 0

\* The turns of a thread are numbered without a gap, and what is under review has the
\* number of one of them or the next.
Numbered(t, n) ==
    /\ Rounds(t) = 1..n
    /\ \A m \in InThread(t) : communications[m].round \in 0..n + 1

LinesInv ==
    /\ Len(communications) <= MaxMessages
    /\ \A m \in Ids : InLine(m)
    /\ \A t \in Roots : \E n \in Nat : Numbered(t, n)

\* What sending a message does to the threads.
LEMMA SentThreads ==
    ASSUME TypeOK, NEW message \in Messages, communications' = Append(communications, message)
    PROVE  LET new == Len(communications) + 1
           IN  /\ Released' = IF message.type = "PROPOSAL_RESPONSE_REVIEW" THEN Released
                              ELSE Released \cup {new}
               /\ Roots' = IF message.type = "PROPOSAL_FORWARDED" THEN Roots \cup {new} ELSE Roots
               /\ \A t : InThread(t)' = IF message.thread = t THEN InThread(t) \cup {new}
                                        ELSE InThread(t)
               /\ \A t : Responses(t)' = IF message.thread = t /\ message.type = "PROPOSAL_RESPONSE"
                                         THEN Responses(t) \cup {new} ELSE Responses(t)
               /\ \A t : Rounds(t)' = IF message.thread = t /\ message.type = "PROPOSAL_RESPONSE"
                                      THEN Rounds(t) \cup {message.round} ELSE Rounds(t)
<1> DEFINE new == Len(communications) + 1
<1>1. /\ Ids' = Ids \cup {new} /\ new \notin Ids
      /\ \A m \in Ids : communications'[m] = communications[m]
      /\ communications'[new] = message
    BY Sent
<1> HIDE DEF new
<1>2. Released' = IF message.type = "PROPOSAL_RESPONSE_REVIEW" THEN Released
                  ELSE Released \cup {new}
    BY <1>1 DEF Released
<1>3. Roots' = IF message.type = "PROPOSAL_FORWARDED" THEN Roots \cup {new} ELSE Roots
    BY <1>1 DEF Roots
<1>4. \A t : InThread(t)' = IF message.thread = t THEN InThread(t) \cup {new} ELSE InThread(t)
    BY <1>1 DEF InThread
<1>5. ASSUME NEW t
      PROVE  /\ Responses(t)' = IF message.thread = t /\ message.type = "PROPOSAL_RESPONSE"
                                THEN Responses(t) \cup {new} ELSE Responses(t)
             /\ Rounds(t)' = IF message.thread = t /\ message.type = "PROPOSAL_RESPONSE"
                             THEN Rounds(t) \cup {message.round} ELSE Rounds(t)
    <2>1. InThread(t) \subseteq Ids BY DEF InThread
    <2>2. Responses(t)' = IF message.thread = t /\ message.type = "PROPOSAL_RESPONSE"
                          THEN Responses(t) \cup {new} ELSE Responses(t)
        BY <1>1, <1>4, <2>1 DEF Responses
    <2>3. \A m \in Responses(t) : communications'[m] = communications[m]
        BY <1>1, <2>1 DEF Responses
    <2>4. QED BY <1>1, <2>2, <2>3 DEF Rounds
<1>6. QED BY <1>2, <1>3, <1>4, <1>5 DEF new

\* A sent message leaves those before it in line.
LEMMA LinesKept ==
    ASSUME TypeOK, LinesInv, NEW message \in Messages,
           communications' = Append(communications, message),
           NEW new, new = Len(communications) + 1,
           message.thread \in Roots \cup {new}, InLine(new)'
    PROVE  \A m \in Ids' : InLine(m)'
<1>1. /\ Ids' = Ids \cup {new} /\ new \notin Ids
      /\ \A m \in Ids : communications'[m] = communications[m]
      /\ communications'[new] = message
    BY Sent
<1>2. /\ Roots' \in {Roots, Roots \cup {new}} /\ Released' \in {Released, Released \cup {new}}
      /\ \A t : InThread(t)' \in {InThread(t), InThread(t) \cup {new}}
    BY SentThreads
<1>3. ASSUME NEW m \in Ids
      PROVE  InLine(m)'
    <2> DEFINE t == communications[m].thread
               review == communications[m].review_request
    <2>1. InLine(m) BY DEF LinesInv
    <2>2. t \in Roots /\ t \in Ids BY <2>1 DEF InLine, Roots
    <2>3. communications'[m] = communications[m] /\ communications'[t] = communications[t]
        BY <1>1, <2>2
    <2>4. t \in Roots' /\ (m \in Roots' <=> m \in Roots) BY <1>1, <1>2, <2>2
    <2>5. ASSUME communications[m].type = "PROPOSAL_RESPONSE"
          PROVE  /\ review \in InThread(t)' \ Released'
                 /\ communications'[review].round = communications[m].round
        <3>1. review \in InThread(t) \ Released /\ communications[review].round = communications[m].round
            BY <2>1, <2>5 DEF InLine
        <3>2. review \in Ids /\ review # new BY <1>1, <3>1 DEF InThread
        <3>3. QED BY <1>1, <1>2, <3>1, <3>2
    <2>6. QED BY <2>1, <2>3, <2>4, <2>5 DEF InLine
<1>4. QED BY <1>1, <1>3

LEMMA SameLines ==
    ASSUME LinesInv, UNCHANGED communications
    PROVE  LinesInv'
<1>1. Ids' = Ids /\ Roots' = Roots /\ Released' = Released BY DEF Ids, Roots, Released
<1>2. \A t : InThread(t)' = InThread(t) /\ Responses(t)' = Responses(t)
    BY <1>1 DEF InThread, Responses
<1>3. \A t : Rounds(t)' = Rounds(t) BY <1>2 DEF Rounds
<1>4. \A t, n : Numbered(t, n) => Numbered(t, n)' BY <1>2, <1>3 DEF Numbered
<1>5. \A m : InLine(m) => InLine(m)' BY <1>1, <1>2 DEF InLine
<1>6. QED BY <1>1, <1>4, <1>5 DEF LinesInv

LEMMA RootLines ==
    ASSUME IInv, LinesInv, NEW t \in Recipients, Len(communications) < MaxMessages,
           communications' = Append(communications, Root(t))
    PROVE  LinesInv'
<1>0. PICK new : new = Len(communications) + 1 OBVIOUS
<1>1. TypeOK /\ Root(t) \in Messages BY RootFields DEF IInv
<1>2. /\ Root(t).type = "PROPOSAL_FORWARDED" /\ Root(t).thread = new
      /\ Root(t).round = 0 /\ Root(t).review_request = 0
    BY <1>0 DEF Root
<1>3. /\ Len(communications) \in Nat /\ Ids = 1..Len(communications)
      /\ Ids' = Ids \cup {new} /\ new \notin Ids
      /\ \A m \in Ids : communications'[m] = communications[m]
      /\ communications'[new] = Root(t)
      /\ communications' \in Seq(Messages)
    BY <1>0, <1>1, Sent
<1>4. Len(communications') = new /\ Len(communications') <= MaxMessages
    BY <1>0, <1>1, <1>3, MaxMessagesAssumption DEF TypeOK
<1>5. /\ Roots' = Roots \cup {new}
      /\ \A u : InThread(u)' = IF new = u THEN InThread(u) \cup {new} ELSE InThread(u)
      /\ \A u : Rounds(u)' = Rounds(u) /\ Responses(u)' = Responses(u)
    BY <1>1, <1>2, <1>0, SentThreads
<1>6. InLine(new)' BY <1>2, <1>3, <1>5 DEF InLine
<1>7. \A m \in Ids' : InLine(m)' BY <1>1, <1>2, <1>6, <1>0, LinesKept
<1>8. InThread(new) = {}
    <2>1. \A m \in Ids : communications[m].thread \in Ids BY DEF LinesInv, InLine, Roots
    <2>2. QED BY <1>3, <2>1 DEF InThread
<1>9. Numbered(new, 0)'
    <2>1. Responses(new) = {} BY <1>8 DEF Responses
    <2>2. Rounds(new)' = {} BY <1>5, <2>1 DEF Rounds
    <2>3. InThread(new)' = {new} BY <1>5, <1>8
    <2>4. 1..0 = {} /\ communications'[new].round \in 0..0 + 1 BY <1>2, <1>3
    <2>5. QED BY <2>2, <2>3, <2>4 DEF Numbered
<1>10. ASSUME NEW u \in Roots PROVE \E n \in Nat : Numbered(u, n)'
    <2>1. u \in Ids /\ u # new BY <1>3 DEF Roots
    <2>2. PICK n \in Nat : Numbered(u, n) BY DEF LinesInv
    <2>3. InThread(u)' = InThread(u) /\ Rounds(u)' = Rounds(u) BY <1>5, <2>1
    <2>4. \A m \in InThread(u) : communications'[m] = communications[m]
        BY <1>3 DEF InThread
    <2>5. QED BY <2>2, <2>3, <2>4 DEF Numbered
<1>11. \A u \in Roots' : \E n \in Nat : Numbered(u, n)' BY <1>5, <1>9, <1>10
<1>12. QED BY <1>4, <1>7, <1>11 DEF LinesInv

\* The head of a thread has the number of the last turn, and nothing waits after it.
LEMMA ParentRound ==
    ASSUME IInv, LinesInv, NEW p \in Released
    PROVE  LET t == communications[p].thread
           IN  /\ p \in Ids /\ t \in Roots /\ InLine(p)
               /\ p \in Roots \/ (p \in Responses(t) /\ communications[p].round \in Rounds(t))
<1> DEFINE t == communications[p].thread
<1>1. p \in Ids /\ communications[p] \in Messages BY MessageFields DEF IInv, Released
<1>2. InLine(p) BY <1>1 DEF LinesInv
<1>3. t \in Roots BY <1>2 DEF InLine
<1>4. ASSUME p \notin Roots
      PROVE  p \in Responses(t) /\ communications[p].round \in Rounds(t)
    <2>1. communications[p].type = "PROPOSAL_RESPONSE"
        BY <1>1, <1>4 DEF Released, Roots, Messages
    <2>2. QED BY <1>1, <2>1 DEF Responses, InThread, Rounds
<1>5. QED BY <1>1, <1>2, <1>3, <1>4

LEMMA ReplyLines ==
    ASSUME IInv, LinesInv, NEW side \in {"source", "recipient"}, NEW p \in Ids,
           NEW closes \in BOOLEAN, AppendMessage(side, p, closes)
    PROVE  LinesInv'
<1>0. PICK new : new = Len(communications) + 1 OBVIOUS
<1> DEFINE message == Reply(side, p, closes)
           t == communications[p].thread
<1>1. /\ TypeOK /\ message \in Messages
      /\ message.type = "PROPOSAL_RESPONSE_REVIEW" /\ message.thread = t
      /\ message.round = communications[p].round + 1
      /\ message.sender = side /\ communications[p].round \in Nat
    BY ReplyFields, MessageFields DEF IInv
<1>2. /\ message.recipient = communications[p].recipient
      /\ message.source_revision = communications[p].source_revision
      /\ message.review_request = 0
    BY DEF Reply
<1>3. /\ p \in Released /\ side # communications[p].sender
      /\ communications[p].round = 0 => side = "recipient"
      /\ Len(communications) < MaxMessages
      /\ communications' = Append(communications, message)
    BY DEF AppendMessage, MayAnswer
<1> HIDE DEF message
<1>4. /\ t \in Roots /\ InLine(p)
      /\ p \in Roots \/ (p \in Responses(t) /\ communications[p].round \in Rounds(t))
    BY <1>3, ParentRound
<1> HIDE DEF t
<1>5. /\ Len(communications) \in Nat /\ Ids = 1..Len(communications)
      /\ Ids' = Ids \cup {new} /\ new \notin Ids
      /\ \A m \in Ids : communications'[m] = communications[m]
      /\ communications'[new] = message
      /\ communications' \in Seq(Messages)
    BY <1>0, <1>1, <1>3, Sent
<1>6. Len(communications') <= MaxMessages
    <2>1. Len(communications') = new BY <1>0, <1>1, <1>3 DEF TypeOK
    <2>2. QED BY <1>0, <1>3, <1>5, <2>1, MaxMessagesAssumption
<1>7. /\ Roots' = Roots
      /\ \A u : InThread(u)' = IF t = u THEN InThread(u) \cup {new} ELSE InThread(u)
      /\ \A u : Rounds(u)' = Rounds(u) /\ Responses(u)' = Responses(u)
    BY <1>1, <1>3, <1>0, SentThreads
<1>8. message.sender = IF message.round % 2 = 1 THEN "recipient" ELSE "source"
    <2> DEFINE k == communications[p].round
    <2>1. k \in Nat /\ (k % 2 = 1 <=> (k + 1) % 2 # 1) BY <1>1
    <2>2. CASE p \in Roots
        <3>1. k = 0 BY <1>4, <2>2 DEF InLine
        <3>2. QED BY <1>1, <1>3, <2>1, <3>1
    <2>3. CASE p \notin Roots
        <3>1. communications[p].sender = IF k % 2 = 1 THEN "recipient" ELSE "source"
            BY <1>4, <2>3 DEF InLine
        <3>2. QED BY <1>1, <1>3, <2>1, <3>1
    <2>4. QED BY <2>2, <2>3
<1>9. InLine(new)'
    <2>1. t \in Ids /\ communications'[t] = communications[t] BY <1>4, <1>5 DEF Roots
    <2>2. /\ communications[p].source_revision = communications[t].source_revision
          /\ communications[p].recipient = communications[t].recipient
        BY <1>4 DEF InLine, t
    <2>3. new \notin Roots' BY <1>5, <1>7 DEF Roots
    <2>4. QED BY <1>1, <1>2, <1>4, <1>5, <1>7, <1>8, <2>1, <2>2, <2>3 DEF InLine
<1>10. \A m \in Ids' : InLine(m)' BY <1>1, <1>3, <1>4, <1>9, <1>0, LinesKept
<1>11. ASSUME NEW u \in Roots PROVE \E n \in Nat : Numbered(u, n)'
    <2>1. PICK n \in Nat : Numbered(u, n) BY DEF LinesInv
    <2>2. \A m \in InThread(u) : communications'[m] = communications[m]
        BY <1>5 DEF InThread
    <2>3. ASSUME u = t PROVE message.round \in 0..n + 1
        <3>1. communications[p].round \in 0..n
            <4>1. CASE p \in Roots
                <5>1. communications[p].round = 0 BY <1>4, <4>1 DEF InLine
                <5>2. QED BY <5>1
            <4>2. CASE p \notin Roots BY <1>4, <2>1, <2>3, <4>2 DEF Numbered
            <4>3. QED BY <4>1, <4>2
        <3>2. QED BY <1>1, <3>1
    <2>4. QED BY <1>5, <1>7, <2>1, <2>2, <2>3 DEF Numbered
<1>12. QED BY <1>6, <1>7, <1>10, <1>11 DEF LinesInv

LEMMA ReviewRound ==
    ASSUME IInv, LinesInv, NEW m \in Ids \ Released, NEW n \in Nat,
           Numbered(communications[m].thread, n),
           \A other \in Ids : communications[other].review_request # m
    PROVE  communications[m].round = n + 1
<1> DEFINE t == communications[m].thread
<1>1. /\ communications[m].type = "PROPOSAL_RESPONSE_REVIEW"
      /\ m \in InThread(t) /\ communications[m].round \in Nat
    BY MessageFields DEF IInv, Released, InThread
<1>2. communications[m].round \in 1..n + 1
    <2>1. /\ communications[m].parent \in Released
          /\ communications[communications[m].parent].round + 1 = communications[m].round
        BY <1>1 DEF IInv, ThreadsInv, RoundsChain
    <2>2. communications[communications[m].parent].round \in Nat
        BY <2>1, MessageFields DEF IInv, Released
    <2>3. communications[m].round \in 0..n + 1 BY <1>1 DEF Numbered
    <2>4. QED BY <2>1, <2>2, <2>3
<1>3. ASSUME communications[m].round \in 1..n PROVE FALSE
    <2>1. PICK sent \in Responses(t) : communications[sent].round = communications[m].round
        BY <1>3 DEF Numbered, Rounds
    <2>2. sent \in Ids /\ communications[sent].thread = t
          /\ communications[sent].type = "PROPOSAL_RESPONSE"
        BY <2>1 DEF Responses, InThread
    <2>3. InLine(sent) BY <2>2 DEF LinesInv
    <2> DEFINE review == communications[sent].review_request
    <2>4. /\ review \in Ids \ Released /\ communications[review].thread = t
          /\ communications[review].round = communications[m].round
        BY <2>1, <2>2, <2>3 DEF InLine, InThread
    <2>5. communications[review].type = "PROPOSAL_RESPONSE_REVIEW" BY <2>4 DEF Released
    <2> HIDE DEF review
    <2>6. review = m BY <1>1, <2>4, <2>5 DEF IInv, ThreadsInv, RoundsChain
    <2>7. QED BY <2>2, <2>6 DEF review
<1>4. QED BY <1>2, <1>3

LEMMA ForwardLines ==
    ASSUME IInv, LinesInv, NEW m \in Ids, ForwardResponse(m)
    PROVE  LinesInv'
<1>0. PICK new : new = Len(communications) + 1 OBVIOUS
<1> DEFINE review == communications[m]
           message == [review EXCEPT !.type = "PROPOSAL_RESPONSE", !.review_request = m]
           t == review.thread
<1>1. TypeOK /\ review \in Messages BY MessageFields DEF IInv
<1>2. /\ message \in Messages /\ message.type = "PROPOSAL_RESPONSE"
      /\ message.thread = t /\ message.round = review.round
      /\ message.sender = review.sender
    BY <1>1, ForwardedFields
<1>3. /\ message.recipient = review.recipient
      /\ message.source_revision = review.source_revision
      /\ message.review_request = m
    BY <1>1 DEF Messages
<1>4. /\ m \notin Released /\ Len(communications) < MaxMessages
      /\ \A other \in Ids : communications[other].review_request # m
      /\ communications' = Append(communications, message)
    BY DEF ForwardResponse
<1> HIDE DEF message
<1>5. /\ Len(communications) \in Nat /\ Ids = 1..Len(communications)
      /\ Ids' = Ids \cup {new} /\ new \notin Ids
      /\ \A other \in Ids : communications'[other] = communications[other]
      /\ communications'[new] = message
    BY <1>0, <1>1, <1>2, <1>4, Sent
<1>6. Len(communications') <= MaxMessages
    <2>1. Len(communications') = new BY <1>0, <1>1, <1>2, <1>4 DEF TypeOK
    <2>2. QED BY <1>0, <1>4, <1>5, <2>1, MaxMessagesAssumption
<1>7. InLine(m) /\ t \in Roots /\ t \in Ids BY DEF LinesInv, InLine, Roots
<1>8. /\ Roots' = Roots /\ Released' = Released \cup {new}
      /\ \A u : InThread(u)' = IF t = u THEN InThread(u) \cup {new} ELSE InThread(u)
      /\ \A u : Rounds(u)' = IF t = u THEN Rounds(u) \cup {review.round} ELSE Rounds(u)
    BY <1>0, <1>1, <1>2, <1>4, SentThreads
<1>9. InLine(new)'
    <2>1. communications'[t] = communications[t] /\ communications'[m] = review
        BY <1>5, <1>7
    <2>2. m \notin Roots /\ new \notin Roots' BY <1>4, <1>5, <1>8 DEF Roots, Released
    <2>3. m \in InThread(t) BY DEF InThread
    <2>4. \A u : u = t => m \in InThread(u)' \ Released' BY <1>4, <1>5, <1>8, <2>3
    <2>5. /\ review.source_revision = communications[t].source_revision
          /\ review.recipient = communications[t].recipient
          /\ review.sender = IF review.round % 2 = 1 THEN "recipient" ELSE "source"
        BY <1>7, <2>2 DEF InLine
    <2>6. communications'[m].round = communications'[new].round BY <1>2, <1>5, <2>1
    <2> HIDE DEF review, t
    <2>7. /\ communications'[new].thread = t /\ t \in Roots' /\ new \notin Roots'
          /\ communications'[new].source_revision = communications'[t].source_revision
          /\ communications'[new].recipient = communications'[t].recipient
          /\ communications'[new].type = "PROPOSAL_RESPONSE"
          /\ communications'[new].review_request = m
        BY <1>2, <1>3, <1>5, <1>7, <1>8, <2>1, <2>2, <2>5
    <2>8. communications'[new].sender
            = IF communications'[new].round % 2 = 1 THEN "recipient" ELSE "source"
        BY <1>2, <1>5, <2>5
    <2>9. QED BY <2>4, <2>6, <2>7, <2>8 DEF InLine
<1> HIDE DEF t, review
<1>10. \A other \in Ids' : InLine(other)' BY <1>0, <1>1, <1>2, <1>4, <1>7, <1>9, LinesKept
<1>11. ASSUME NEW u \in Roots PROVE \E n \in Nat : Numbered(u, n)'
    <2>1. PICK n \in Nat : Numbered(u, n) BY DEF LinesInv
    <2>2. \A other \in InThread(u) : communications'[other] = communications[other]
        BY <1>5 DEF InThread
    <2>3. CASE u = t
        <3>1. review.round = n + 1 BY <1>4, <2>1, <2>3, ReviewRound DEF t, review
        <3>2. 1..n + 1 = 1..n \cup {n + 1} OBVIOUS
        <3>3. Rounds(u)' = 1..n + 1 BY <1>8, <2>1, <2>3, <3>1, <3>2 DEF Numbered
        <3>4. \A other \in InThread(u)' : communications'[other].round \in 0..(n + 1) + 1
            <4>1. \A other \in InThread(u) : communications[other].round \in 0..n + 1
                BY <2>1 DEF Numbered
            <4>2. communications'[new].round = n + 1 BY <1>2, <1>5, <3>1
            <4>3. InThread(u)' = InThread(u) \cup {new} BY <1>8, <2>3
            <4>4. 0..n + 1 \subseteq 0..(n + 1) + 1 /\ n + 1 \in 0..(n + 1) + 1 OBVIOUS
            <4>5. QED BY <2>2, <4>1, <4>2, <4>3, <4>4
        <3>5. Numbered(u, n + 1)' BY <3>3, <3>4 DEF Numbered
        <3>6. QED BY <3>5
    <2>4. CASE u # t BY <1>8, <2>1, <2>2, <2>4 DEF Numbered
    <2>5. QED BY <2>3, <2>4
<1>12. QED BY <1>6, <1>8, <1>10, <1>11 DEF LinesInv

LEMMA LinesInit == Init => LinesInv
<1> SUFFICES ASSUME Init PROVE LinesInv OBVIOUS
<1>1. communications = <<>> BY DEF Init
<1>2. Ids = {} /\ Len(communications) = 0 BY <1>1 DEF Ids
<1>3. QED BY <1>2, MaxMessagesAssumption DEF LinesInv, Roots

\* Only approvals and the two thread functions send messages.
LEMMA OnlySending ==
    ASSUME [Next]_vars
    PROVE  \/ UNCHANGED communications
           \/ \E r \in Reviewers, t \in Recipients : Approve(r, t)
           \/ ThreadStep
<1>1. ASSUME NEW s \in Authors, AuthorStep(s) PROVE UNCHANGED communications
    BY <1>1 DEF AuthorStep, OpenForm, CloseForm, SubmitProposal, EditProposal, CreateProposal,
                WriteAsScribe
<1>2. ASSUME NEW r \in Reviewers, ReviewerStep(r)
      PROVE  UNCHANGED communications \/ \E t \in Recipients : Approve(r, t)
    BY <1>2 DEF ReviewerStep, OpenReview, CloseReview, ApprovalFails, ReturnProposal, Learn,
                SelectRecipients, ApproveAgain
<1>3. QED BY <1>1, <1>2 DEF Next, vars

LEMMA LinesStep == IInv /\ LinesInv /\ [Next]_vars => LinesInv'
<1> SUFFICES ASSUME IInv, LinesInv, [Next]_vars PROVE LinesInv' OBVIOUS
<1>1. CASE UNCHANGED communications BY <1>1, SameLines
<1>2. ASSUME NEW r \in Reviewers, NEW t \in Recipients, Approve(r, t) PROVE LinesInv'
    BY <1>2, RootLines DEF Approve
<1>3. CASE ThreadStep BY <1>3, ReplyLines, ForwardLines DEF ThreadStep
<1>4. QED BY <1>1, <1>2, <1>3, OnlySending

\* A root is live as long as the proposal is at the revision that it approved.
ByRevision(t) ==
    IF t \notin Roots THEN "none"
    ELSE IF communications[t].source_revision = proposal.revision_number THEN "live" ELSE "over"

LEMMA StandingNow == IInv /\ TextInv /\ LinesInv => \A t : Standing(t) = ByRevision(t)
<1> SUFFICES ASSUME IInv, TextInv, LinesInv, NEW t PROVE Standing(t) = ByRevision(t)
    OBVIOUS
<1>1. ASSUME t \in Roots, communications[t].source_revision = proposal.revision_number
      PROVE  ThreadIsCurrent(communications[t])
    <2>1. proposal.recipient_reviews[communications[t].recipient] = t
        BY <1>1 DEF IInv, RootsInv, ApprovalsAreKept
    <2>2. communications[t].source_revision \in 1..proposal.revision_number
        BY <1>1 DEF IInv, RootsInv
    <2>3. proposal.revision_number # 0 BY <2>2 DEF IInv, TypeOK, Proposals
    <2>4. proposal.status # "absent" /\ proposal.status # "draft"
        BY <1>1, <2>3 DEF IInv, ProposalInv, TextInv
    <2>5. proposal.status \in {"submitted", "adjudicated"}
        BY <2>4 DEF IInv, TypeOK, Proposals, Statuses
    <2>6. communications[t].thread = t
        BY <1>1 DEF LinesInv, InLine, Roots
    <2>7. QED BY <1>1, <2>1, <2>5, <2>6 DEF ThreadIsCurrent
<1>2. QED BY <1>1 DEF Standing, ByRevision, ThreadIsCurrent

LEMMA StandingNext == (IInv /\ TextInv /\ LinesInv)' => (\A t : Standing(t) = ByRevision(t))'
BY StandingNow, PTL

\* As many turns as are waiting: none, or that of the one message.
LEMMA TurnsWaiting ==
    ASSUME NEW log, NEW W
    PROVE  LET turns == [i \in 1..Cardinality(W) |-> Turn(log[CHOOSE m \in W : TRUE])]
           IN  /\ W = {} => turns = <<>>
               /\ \A m : W = {m} => turns = <<Turn(log[m])>>
<1> DEFINE turns == [i \in 1..Cardinality(W) |-> Turn(log[CHOOSE m \in W : TRUE])]
<1>1. ASSUME W = {} PROVE turns = <<>>
    <2>1. Cardinality(W) = 0 BY <1>1, FS_EmptySet
    <2>2. QED BY <2>1
<1>2. ASSUME NEW m, W = {m} PROVE turns = <<Turn(log[m])>>
    <2>1. Cardinality(W) = 1 BY <1>2, FS_Singleton
    <2>2. (CHOOSE k \in W : TRUE) = m BY <1>2
    <2>3. \A turn : [i \in 1..1 |-> turn] = <<turn>> OBVIOUS
    <2>4. turns = [i \in 1..1 |-> Turn(log[CHOOSE k \in W : TRUE])] BY <2>1, Zenon
    <2>5. turns = <<Turn(log[CHOOSE k \in W : TRUE])>> BY <2>3, <2>4, Zenon
    <2>6. QED BY <2>2, <2>5, Zenon
<1>3. QED BY <1>1, <1>2

\* Turns that are numbered without a gap, each once, are a sequence.
LEMMA TurnsSaid ==
    ASSUME NEW log, NEW R, NEW n \in Nat,
           \A m \in R : log[m].round \in 1..n,
           \A i \in 1..n : \E m \in R : log[m].round = i,
           \A m, k \in R : log[m].round = log[k].round => m = k,
           \A m \in R : Turn(log[m]) \in Negotiation!Turns,
           NEW said,
           said = [i \in 1..n |-> Turn(log[CHOOSE m \in R : log[m].round = i])]
    PROVE  /\ said \in Seq(Negotiation!Turns) /\ Len(said) = n
           /\ \A m \in R : said[log[m].round] = Turn(log[m])
<1> DEFINE speaker(i) == CHOOSE m \in R : log[m].round = i
<1>1. \A i \in 1..n : speaker(i) \in R /\ log[speaker(i)].round = i OBVIOUS
<1>2. \A m \in R : speaker(log[m].round) = m BY <1>1
<1>3. said = [i \in 1..n |-> Turn(log[speaker(i)])] OBVIOUS
<1> HIDE DEF speaker
<1>4. \A i \in 1..n : Turn(log[speaker(i)]) \in Negotiation!Turns BY <1>1
<1>5. said \in Seq(Negotiation!Turns) /\ Len(said) = n BY <1>3, <1>4
<1>6. \A m \in R : said[log[m].round] = Turn(log[m]) BY <1>2, <1>3
<1>7. QED BY <1>5, <1>6

LEMMA TurnType ==
    ASSUME IInv, LinesInv, NEW m \in Ids \ Roots
    PROVE  Turn(communications[m]) \in Negotiation!Turns
<1>1. InLine(m) /\ communications[m] \in Messages BY MessageFields DEF LinesInv, IInv
<1>2. communications[m].sender \in {"recipient", "source"} BY <1>1 DEF InLine
<1>3. communications[m].closes \in BOOLEAN BY <1>1 DEF Messages
<1>4. QED BY <1>2, <1>3 DEF Turn, Negotiation!Turns

\* What has been said in a thread: as many turns as are numbered, each that of its message.
SaidIs(t, n) ==
    /\ Said(t) \in Seq(Negotiation!Turns) /\ Len(Said(t)) = n
    /\ \A m \in Responses(t) :
          /\ communications[m].round \in 1..n
          /\ Said(t)[communications[m].round] = Turn(communications[m])
    /\ \A i \in 1..n : \E m \in Responses(t) : communications[m].round = i

LEMMA SaidOf ==
    ASSUME IInv, LinesInv, NEW t, NEW n \in Nat, Numbered(t, n)
    PROVE  SaidIs(t, n)
<1>1. Rounds(t) = 1..n BY DEF Numbered
<1>2. \A m \in Responses(t) : communications[m].round \in 1..n BY <1>1 DEF Rounds
<1>3. \A i \in 1..n : \E m \in Responses(t) : communications[m].round = i BY <1>1 DEF Rounds
<1>4. \A m \in Responses(t) : m \in Ids \ Roots
    BY DEF Responses, InThread, Roots
<1>5. \A m \in Responses(t) : Turn(communications[m]) \in Negotiation!Turns
    BY <1>4, TurnType
<1>6. \A m, k \in Responses(t) : communications[m].round = communications[k].round => m = k
    BY DEF IInv, ThreadsInv, RoundsChain, Responses, InThread
<1>7. Said(t) = [i \in 1..n |->
                    Turn(communications[CHOOSE m \in Responses(t) : communications[m].round = i])]
    BY <1>1, Zenon DEF Said
<1> HIDE DEF Negotiation!Turns
<1>8. QED BY <1>2, <1>3, <1>5, <1>6, <1>7, TurnsSaid DEF SaidIs

LEMMA SaidNow ==
    IInv /\ LinesInv => \A t : \A n \in Nat : Numbered(t, n) => SaidIs(t, n)
BY SaidOf, Zenon

LEMMA SaidNext ==
    (IInv /\ LinesInv)' => (\A t : \A n \in Nat : Numbered(t, n) => SaidIs(t, n))'
BY SaidNow, PTL

\* What is under review in a thread is one turn at most, and the next.
LEMMA WaitingOf ==
    ASSUME IInv, LinesInv, NEW t, NEW n \in Nat, Numbered(t, n)
    PROVE  /\ \A m \in Waiting(t) : m \in Ids \ Released /\ communications[m].round = n + 1
           /\ \A m \in Waiting(t) : Waiting(t) = {m}
<1>1. \A m \in Waiting(t) : /\ m \in Ids \ Released /\ communications[m].thread = t
                            /\ communications[m].type = "PROPOSAL_RESPONSE_REVIEW"
                            /\ \A other \in Ids : communications[other].review_request # m
    BY DEF Waiting, InThread, Released
<1>2. \A m \in Waiting(t) : communications[m].round = n + 1 BY <1>1, ReviewRound
<1>3. \A m, k \in Waiting(t) : m = k BY <1>1, <1>2 DEF IInv, ThreadsInv, RoundsChain
<1>4. QED BY <1>1, <1>2, <1>3

-----------------------------------------------------------------------------
(* The steps of the negotiation.                                            *)

LEMMA SameTurns ==
    ASSUME NEW t, Responses(t)' = Responses(t),
           \A m \in Ids : communications'[m] = communications[m]
    PROVE  Said(t)' = Said(t)
<1>1. \A m \in Responses(t) : communications'[m] = communications[m]
    BY DEF Responses, InThread
<1>2. Rounds(t)' = Rounds(t) BY <1>1 DEF Rounds
<1> DEFINE speaker(i) == CHOOSE m \in Responses(t) : communications[m].round = i
           speakerNext(i) == CHOOSE m \in Responses(t)' : communications'[m].round = i
<1>3. ASSUME NEW i \in Rounds(t)
      PROVE  speakerNext(i) = speaker(i) /\ speaker(i) \in Responses(t)
    <2>1. \E m \in Responses(t) : communications[m].round = i BY DEF Rounds
    <2>2. \A m : (m \in Responses(t)' /\ communications'[m].round = i)
                   <=> (m \in Responses(t) /\ communications[m].round = i)
        BY <1>1
    <2>3. QED BY <2>1, <2>2
<1>4. Said(t) = [i \in Rounds(t) |-> Turn(communications[speaker(i)])] BY DEF Said
<1>5. Said(t)' = [i \in Rounds(t)' |-> Turn(communications'[speakerNext(i)])]
    BY DEF Said
<1> HIDE DEF speaker, speakerNext
<1>6. \A i \in Rounds(t) : Turn(communications'[speakerNext(i)]) = Turn(communications[speaker(i)])
    BY <1>1, <1>3
<1>7. QED BY <1>2, <1>4, <1>5, <1>6

LEMMA SameOffers ==
    ASSUME NEW t, Waiting(t)' = Waiting(t),
           \A m \in Ids : communications'[m] = communications[m]
    PROVE  Offered(t)' = Offered(t)
<1>1. CASE Waiting(t) = {}
    <2>1. Cardinality(Waiting(t)) = 0 BY <1>1, FS_EmptySet
    <2>2. QED BY <2>1 DEF Offered
<1>2. CASE Waiting(t) # {}
    <2>1. (CHOOSE m \in Waiting(t) : TRUE) \in Waiting(t) BY <1>2
    <2>2. \A m \in Waiting(t) : communications'[m] = communications[m] BY DEF Waiting, InThread
    <2>3. QED BY <2>1, <2>2 DEF Offered
<1>3. QED BY <1>1, <1>2

standingNow == [t \in 1..MaxMessages |-> Standing(t)]
saidNow == [t \in 1..MaxMessages |-> Said(t)]
offeredNow == [t \in 1..MaxMessages |-> Offered(t)]

\* A step that sends nothing and keeps the revision of whatever was approved.
LEMMA QuietStep ==
    ASSUME IInv /\ TextInv /\ LinesInv, (IInv /\ TextInv /\ LinesInv)',
           UNCHANGED communications,
           Roots = {} \/ proposal'.revision_number = proposal.revision_number
    PROVE  UNCHANGED <<standingNow, saidNow, offeredNow>>
<1>1. Ids' = Ids /\ Roots' = Roots BY DEF Ids, Roots
<1>2. \A t : ByRevision(t)' = ByRevision(t) BY <1>1 DEF ByRevision
<1>3. \A t : Standing(t)' = Standing(t) BY <1>2, StandingNow, StandingNext
<1>4. \A t : Said(t)' = Said(t)
    BY <1>1 DEF Said, Rounds, Responses, InThread
<1>5. \A t : Offered(t)' = Offered(t)
    BY <1>1 DEF Offered, Waiting, InThread, Released
<1>6. QED BY <1>3, <1>4, <1>5 DEF standingNow, saidNow, offeredNow

\* A return takes every live thread back.
LEMMA ReturnStep ==
    ASSUME IInv /\ TextInv /\ LinesInv, (IInv /\ TextInv /\ LinesInv)',
           NEW r \in Reviewers, ReturnProposal(r)
    PROVE  Negotiation!TakeBack
<1>1. proposal'.revision_number = proposal.revision_number + 1 /\ UNCHANGED communications
    <2>1. proposal \in Proposals /\ proposal.status \in {"submitted", "adjudicated"}
          /\ UNCHANGED communications
        BY DEF IInv, TypeOK, ReturnProposal
    <2>2. proposal' = TakenBack(Normalized(proposal,
                        [proposal EXCEPT !.status = "draft",
                                         !.workflow_state = "returned_to_team",
                                         !.revision_number = @ + 1], TRUE))
        BY Zenon DEF ReturnProposal
    <2>3. QED BY <2>1, <2>2, ReturnedFields, Zenon
<1>2. Roots' = Roots BY <1>1 DEF Roots, Ids
<1>3. \A t \in Roots : communications[t].source_revision # proposal'.revision_number
    <2>1. \A t \in Roots : communications[t].source_revision \in 1..proposal.revision_number
        BY DEF IInv, RootsInv
    <2>2. proposal.revision_number \in Nat BY DEF IInv, TypeOK, Proposals
    <2>3. QED BY <1>1, <2>1, <2>2
<1>4. \A t : ByRevision(t)' = IF ByRevision(t) = "live" THEN "over" ELSE ByRevision(t)
    BY <1>1, <1>2, <1>3 DEF ByRevision
<1>5. \A t : Standing(t)' = IF Standing(t) = "live" THEN "over" ELSE Standing(t)
    BY <1>4, StandingNow, StandingNext
<1>6. standingNow' = [t \in 1..MaxMessages |->
                        IF standingNow[t] = "live" THEN "over" ELSE standingNow[t]]
    BY <1>5 DEF standingNow
<1>7. \A t : Said(t)' = Said(t) /\ Offered(t)' = Offered(t)
    BY <1>1 DEF Said, Rounds, Responses, Offered, Waiting, InThread, Released, Ids
<1>8. saidNow' = saidNow /\ offeredNow' = offeredNow BY <1>7 DEF saidNow, offeredNow
<1>9. QED BY <1>6, <1>8 DEF Negotiation!TakeBack, standingNow, saidNow, offeredNow

\* An approval opens a thread.
LEMMA ApproveStep ==
    ASSUME IInv /\ TextInv /\ LinesInv, (IInv /\ TextInv /\ LinesInv)',
           NEW r \in Reviewers, NEW t \in Recipients, Approve(r, t)
    PROVE  \E u \in 1..MaxMessages : Negotiation!Open(u)
<1>0. PICK new : new = Len(communications) + 1 OBVIOUS
<1>1. /\ TypeOK /\ proposal \in Proposals /\ UnderReview(proposal)
      /\ Len(communications) < MaxMessages
      /\ communications' = Append(communications, Root(t))
      /\ proposal' = IF CompletesWith(t) THEN CompletedRow(ApprovedRow(t)) ELSE ApprovedRow(t)
    BY DEF IInv, TypeOK, Approve
<1>2. /\ Root(t) \in Messages /\ Root(t).type = "PROPOSAL_FORWARDED" /\ Root(t).thread = new
      /\ Root(t).source_revision = proposal.revision_number /\ Root(t).review_request = 0
    BY <1>0, <1>1, RootFields DEF Root
<1>3. /\ Len(communications) \in Nat /\ Ids = 1..Len(communications)
      /\ Ids' = Ids \cup {new} /\ new \notin Ids
      /\ \A m \in Ids : communications'[m] = communications[m]
      /\ communications'[new] = Root(t)
    BY <1>0, <1>1, <1>2, Sent
<1>4. new \in 1..MaxMessages BY <1>0, <1>1, <1>3, MaxMessagesAssumption
<1>5. proposal'.revision_number = proposal.revision_number
    <2>1. ApprovedRow(t) \in Proposals
          /\ ApprovedRow(t).revision_number = proposal.revision_number
        BY <1>1, <1>3, ApprovedFields
    <2>2. CASE CompletesWith(t) BY <1>1, <2>1, <2>2, CompletedFields
    <2>3. CASE ~CompletesWith(t) BY <1>1, <2>1, <2>3
    <2>4. QED BY <2>2, <2>3
<1>6. /\ Released' = Released \cup {new} /\ Roots' = Roots \cup {new}
      /\ \A u : InThread(u)' = IF new = u THEN InThread(u) \cup {new} ELSE InThread(u)
      /\ \A u : Responses(u)' = Responses(u)
    BY <1>0, <1>1, <1>2, SentThreads
<1>7. new \notin Roots BY <1>3 DEF Roots
<1>8. \A u : ByRevision(u)' = IF u = new THEN "live" ELSE ByRevision(u)
    <2>1. \A u \in Roots : communications'[u] = communications[u] /\ u # new
        BY <1>3 DEF Roots
    <2>2. QED BY <1>2, <1>3, <1>5, <1>6, <2>1 DEF ByRevision
<1>9. \A u : Standing(u)' = IF u = new THEN "live" ELSE Standing(u)
    BY <1>8, StandingNow, StandingNext
<1>10. Standing(new) = "none" BY <1>7 DEF Standing
<1>11. \A u : Said(u)' = Said(u) BY <1>3, <1>6, SameTurns
<1>12. \A u : Offered(u)' = Offered(u)
    <2>1. \A u : Waiting(u)' = Waiting(u)
        <3>1. 0 \notin Ids BY <1>3
        <3>2. QED BY <1>2, <1>3, <1>6, <3>1 DEF Waiting, InThread
    <2>2. QED BY <1>3, <2>1, SameOffers
<1>13. standingNow' = [standingNow EXCEPT ![new] = "live"] /\ standingNow[new] = "none"
    BY <1>4, <1>9, <1>10 DEF standingNow
<1>14. saidNow' = saidNow /\ offeredNow' = offeredNow BY <1>11, <1>12 DEF saidNow, offeredNow
<1>15. Negotiation!Open(new)
    BY <1>13, <1>14, Zenon DEF Negotiation!Open, standingNow, saidNow, offeredNow
<1>16. QED BY <1>4, <1>15

\* The parent of an answer says the last turn of its thread, or opened it; nothing waits.
LEMMA HeadOf ==
    ASSUME IInv, LinesInv, NEW p \in Released, IsLatest(p),
           NEW t, t = communications[p].thread, NEW n \in Nat, Numbered(t, n)
    PROVE  /\ communications[p].round = n
           /\ n > 0 => p \in Responses(t) /\ p \notin Roots
           /\ Waiting(t) = {}
<1>1. /\ p \in Ids /\ InLine(p)
      /\ p \in Roots \/ (p \in Responses(t) /\ communications[p].round \in Rounds(t))
    BY ParentRound
<1>2. communications[p].round \in Nat BY <1>1, MessageFields DEF IInv
<1>3. communications[p].round <= n
    <2>1. CASE p \in Roots
        <3>1. communications[p].round = 0 BY <1>1, <2>1 DEF InLine
        <3>2. QED BY <3>1
    <2>2. CASE p \notin Roots BY <1>1, <2>2 DEF Numbered
    <2>3. QED BY <2>1, <2>2
<1>4. \A m \in InThread(t) : communications[m].round <= communications[p].round
    BY DEF IsLatest
<1>5. ASSUME n > 0 PROVE communications[p].round >= n
    <2>1. PICK m \in Responses(t) : communications[m].round = n
        BY <1>5, SaidOf DEF SaidIs
    <2>2. m \in InThread(t) BY DEF Responses
    <2>3. QED BY <1>4, <2>1, <2>2
<1>6. communications[p].round = n BY <1>2, <1>3, <1>5
<1>7. ASSUME n > 0 PROVE p \notin Roots
    BY <1>1, <1>6, <1>7 DEF InLine
<1>8. ASSUME NEW m \in Waiting(t) PROVE FALSE
    <2>1. communications[m].round = n + 1 BY WaitingOf
    <2>2. m \in InThread(t) BY DEF Waiting
    <2>3. QED BY <1>4, <1>6, <2>1, <2>2
<1>9. QED BY <1>1, <1>6, <1>7, <1>8

\* An answer is the turn of the side whose turn it is, in a live thread that is not closed.
LEMMA AppendStep ==
    ASSUME IInv /\ TextInv /\ LinesInv, (IInv /\ TextInv /\ LinesInv)',
           NEW side \in {"source", "recipient"}, NEW p \in Ids, NEW closes \in BOOLEAN,
           AppendMessage(side, p, closes)
    PROVE  \E t \in 1..MaxMessages, turn \in Negotiation!Turns : Negotiation!Offer(t, turn)
<1>0. PICK new : new = Len(communications) + 1 OBVIOUS
<1>1. PICK t : t = communications[p].thread OBVIOUS
<1> DEFINE message == Reply(side, p, closes)
           turn == [speaker |-> side, closes |-> closes]
<1>2. /\ TypeOK /\ message \in Messages
      /\ message.type = "PROPOSAL_RESPONSE_REVIEW" /\ message.thread = t
    BY <1>1, ReplyFields DEF IInv
<1>3. message.review_request = 0 /\ Turn(message) = turn BY DEF Reply, Turn
<1>4. /\ p \in Released /\ ThreadIsCurrent(communications[p]) /\ IsLatest(p)
      /\ side # communications[p].sender /\ ~communications[p].closes
      /\ communications[p].round = 0 => side = "recipient"
      /\ communications' = Append(communications, message) /\ UNCHANGED proposal
    BY DEF AppendMessage, MayAnswer
<1> HIDE DEF message
<1>5. t \in Roots /\ InLine(p) BY <1>1, <1>4, ParentRound
<1>6. /\ Len(communications) \in Nat /\ Ids = 1..Len(communications)
      /\ Ids' = Ids \cup {new} /\ new \notin Ids
      /\ \A m \in Ids : communications'[m] = communications[m]
      /\ communications'[new] = message
    BY <1>0, <1>2, <1>4, Sent
<1>7. /\ Released' = Released /\ Roots' = Roots
      /\ \A u : InThread(u)' = IF t = u THEN InThread(u) \cup {new} ELSE InThread(u)
      /\ \A u : Responses(u)' = Responses(u)
    BY <1>0, <1>2, <1>4, SentThreads
<1>8. t \in 1..MaxMessages
    <2>1. t \in 1..Len(communications) /\ Len(communications) <= MaxMessages
        BY <1>5, <1>6 DEF Roots, LinesInv
    <2>2. QED BY <1>6, <2>1, MaxMessagesAssumption
<1>9. PICK n \in Nat : Numbered(t, n) BY <1>5 DEF LinesInv
<1>10. /\ communications[p].round = n /\ Waiting(t) = {}
       /\ n > 0 => p \in Responses(t) /\ p \notin Roots
    BY <1>1, <1>4, <1>9, HeadOf
<1>11. Standing(t) = "live"
    <2>1. communications[t].source_revision = proposal.revision_number
        BY <1>1, <1>4, <1>5 DEF InLine, ThreadIsCurrent
    <2>2. ByRevision(t) = "live" BY <1>5, <2>1 DEF ByRevision
    <2>3. QED BY <2>2, StandingNow
<1>12. Said(t) \in Seq(Negotiation!Turns) /\ Len(Said(t)) = n BY <1>9, SaidOf DEF SaidIs
<1>13. ~(Said(t) # <<>> /\ Said(t)[Len(Said(t))].closes)
    <2>1. CASE n = 0 BY <1>12, <2>1, EmptySeq
    <2>2. CASE n > 0
        <3>1. Said(t)[n] = Turn(communications[p]) BY <1>9, <1>10, <2>2, SaidOf DEF SaidIs
        <3>2. ~Said(t)[n].closes BY <1>4, <3>1 DEF Turn
        <3>3. QED BY <1>12, <3>2
    <2>3. QED BY <2>1, <2>2
<1>14. side = IF Len(Said(t)) % 2 = 0 THEN "recipient" ELSE "source"
    <2>1. CASE n = 0 BY <1>4, <1>10, <1>12, <2>1
    <2>2. CASE n > 0
        <3>1. communications[p].sender = IF n % 2 = 1 THEN "recipient" ELSE "source"
            BY <1>5, <1>10, <2>2 DEF InLine
        <3>2. n % 2 = 1 <=> n % 2 # 0 OBVIOUS
        <3>3. QED BY <1>4, <1>12, <3>1, <3>2
    <2>3. QED BY <2>1, <2>2
<1>15. Offered(t) = <<>> BY <1>10, TurnsWaiting DEF Offered
<1>16. /\ Waiting(t)' = {new}
       /\ \A u : u # t => Waiting(u)' = Waiting(u)
    <2>1. 0 \notin Ids /\ new # 0 BY <1>0, <1>6
    <2>2. \A m \in Ids' : communications'[m].review_request # new
        <3>1. \A m \in Ids : communications[m].review_request \in Ids \cup {0}
            BY DEF LinesInv, InLine, InThread
        <3>2. QED BY <1>3, <1>6, <2>1, <3>1
    <2>3. new \notin Released BY <1>6 DEF Released
    <2>4. \A m \in Ids : (\A k \in Ids' : communications'[k].review_request # m)
                            <=> (\A k \in Ids : communications[k].review_request # m)
        BY <1>3, <1>6, <2>1
    <2>5. \A u : InThread(u) \subseteq Ids BY DEF InThread
    <2>6. \A u : u # t => Waiting(u)' = Waiting(u) BY <1>7, <2>4, <2>5 DEF Waiting
    <2>7. Waiting(t)' = {new}
        BY <1>6, <1>7, <1>10, <2>2, <2>3, <2>4, <2>5 DEF Waiting
    <2>8. QED BY <2>6, <2>7
<1>17. Offered(t)' = <<turn>>
    <2>1. Offered(t)' = <<Turn(communications'[new])>> BY <1>16, TurnsWaiting DEF Offered
    <2>2. QED BY <1>3, <1>6, <2>1
<1>18. \A u : u # t => Offered(u)' = Offered(u) BY <1>6, <1>16, SameOffers
<1>19. \A u : Said(u)' = Said(u) BY <1>6, <1>7, SameTurns
<1>20. \A u : Standing(u)' = Standing(u)
    <2>1. \A u \in Roots : communications'[u] = communications[u] BY <1>6 DEF Roots
    <2>2. \A u : ByRevision(u)' = ByRevision(u) BY <1>4, <1>7, <2>1 DEF ByRevision
    <2>3. QED BY <2>2, StandingNow, StandingNext
<1> HIDE DEF turn
<1>21. /\ standingNow[t] = "live" /\ saidNow[t] = Said(t) /\ offeredNow[t] = <<>>
       /\ standingNow' = standingNow /\ saidNow' = saidNow
       /\ offeredNow' = [offeredNow EXCEPT ![t] = <<turn>>]
    BY <1>8, <1>11, <1>15, <1>17, <1>18, <1>19, <1>20 DEF standingNow, saidNow, offeredNow
<1>22. ~Negotiation!Closed(t)
    BY <1>13, <1>21, Zenon DEF Negotiation!Closed, saidNow
<1>23. turn.speaker = Negotiation!Speaker(t)
    <2>1. Negotiation!Speaker(t) = IF Len(saidNow[t]) % 2 = 0 THEN "recipient" ELSE "source"
        BY Zenon DEF Negotiation!Speaker, saidNow
    <2>2. turn.speaker = side BY DEF turn
    <2>3. QED BY <1>14, <1>21, <2>1, <2>2
<1>24. Negotiation!Offer(t, turn)
    BY <1>21, <1>22, <1>23, Zenon DEF Negotiation!Offer, standingNow, saidNow, offeredNow
<1>25. turn \in Negotiation!Turns BY DEF turn, Negotiation!Turns
<1>26. QED BY <1>8, <1>24, <1>25

\* With one message waiting, its turn is on offer.
LEMMA OneOffer ==
    ASSUME NEW t, NEW waiting, Waiting(t) = {waiting}
    PROVE  Offered(t) = <<Turn(communications[waiting])>>
<1>1. PICK W : W = Waiting(t) OBVIOUS
<1>2. Offered(t) = [i \in 1..Cardinality(W) |-> Turn(communications[CHOOSE k \in W : TRUE])]
    BY <1>1 DEF Offered
<1>3. QED BY <1>1, <1>2, TurnsWaiting

\* Sending an answer on says the turn that was on offer.
LEMMA ForwardStep ==
    ASSUME IInv /\ TextInv /\ LinesInv, (IInv /\ TextInv /\ LinesInv)',
           NEW m \in Ids, ForwardResponse(m)
    PROVE  \E t \in 1..MaxMessages : Negotiation!Release(t)
<1>0. PICK new : new = Len(communications) + 1 OBVIOUS
<1>1. PICK t : t = communications[m].thread OBVIOUS
<1>2. PICK turn : turn = Turn(communications[m]) OBVIOUS
<1> DEFINE message == [communications[m] EXCEPT !.type = "PROPOSAL_RESPONSE", !.review_request = m]
<1>3. /\ TypeOK /\ message \in Messages /\ message.type = "PROPOSAL_RESPONSE"
      /\ message.thread = t /\ message.round = communications[m].round
    BY <1>1, ForwardedFields DEF IInv
<1>4. message.review_request = m /\ Turn(message) = turn
    BY <1>2, <1>3, MessageFields DEF Messages, Turn
<1>5. /\ m \notin Released /\ ThreadIsCurrent(communications[m])
      /\ \A other \in Ids : communications[other].review_request # m
      /\ communications' = Append(communications, message) /\ UNCHANGED proposal
    BY DEF ForwardResponse
<1> HIDE DEF message
<1>6. /\ Len(communications) \in Nat /\ Ids = 1..Len(communications)
      /\ Ids' = Ids \cup {new} /\ new \notin Ids
      /\ \A k \in Ids : communications'[k] = communications[k]
      /\ communications'[new] = message
    BY <1>0, <1>3, <1>5, Sent
<1>7. /\ Released' = Released \cup {new} /\ Roots' = Roots
      /\ \A u : InThread(u)' = IF t = u THEN InThread(u) \cup {new} ELSE InThread(u)
      /\ \A u : Responses(u)' = IF t = u THEN Responses(u) \cup {new} ELSE Responses(u)
      /\ \A u : Rounds(u)' = IF t = u THEN Rounds(u) \cup {message.round} ELSE Rounds(u)
    BY <1>0, <1>3, <1>5, SentThreads
<1>8. t \in Roots /\ InLine(m) BY <1>1 DEF LinesInv, InLine
<1>9. t \in 1..MaxMessages
    <2>1. t \in 1..Len(communications) /\ Len(communications) <= MaxMessages
        BY <1>6, <1>8 DEF Roots, LinesInv
    <2>2. QED BY <1>6, <2>1, MaxMessagesAssumption
<1>10. PICK n \in Nat : Numbered(t, n) BY <1>8 DEF LinesInv
<1>11. communications[m].round = n + 1 BY <1>1, <1>5, <1>10, ReviewRound
<1>12. Waiting(t) = {m}
    <2>1. m \in Waiting(t) BY <1>1, <1>5 DEF Waiting, InThread
    <2>2. QED BY <1>10, <2>1, WaitingOf
<1>13. Offered(t) = <<turn>>
    <2>1. Offered(t) = <<Turn(communications[m])>> BY <1>12, OneOffer
    <2>2. QED BY <1>2, <2>1
<1>14. Standing(t) = "live"
    <2>1. communications[t].source_revision = proposal.revision_number
        BY <1>1, <1>5, <1>8 DEF InLine, ThreadIsCurrent
    <2>2. ByRevision(t) = "live" BY <1>8, <2>1 DEF ByRevision
    <2>3. QED BY <2>2, StandingNow
<1>15. /\ Waiting(t)' = {}
       /\ \A u : u # t => Waiting(u)' = Waiting(u)
    <2>1. \A k : k # m => ((\A other \in Ids' : communications'[other].review_request # k)
                            <=> (\A other \in Ids : communications[other].review_request # k))
        BY <1>4, <1>6
    <2>2. \A u : InThread(u) \subseteq Ids BY DEF InThread
    <2>3. \A u : u # t => m \notin InThread(u) BY <1>1 DEF InThread
    <2>4. \A u : u # t => Waiting(u)' = Waiting(u)
        BY <1>6, <1>7, <2>1, <2>2, <2>3 DEF Waiting
    <2>5. m \notin Waiting(t)' BY <1>4, <1>6 DEF Waiting
    <2>6. \A k : k \in Waiting(t)' => k \in Waiting(t)
        BY <1>6, <1>7, <2>1, <2>2, <2>5 DEF Waiting
    <2>7. Waiting(t)' = {} BY <1>12, <2>5, <2>6
    <2>8. QED BY <2>4, <2>7
<1>16. Offered(t)' = <<>> BY <1>15, TurnsWaiting DEF Offered
<1>17. \A u : u # t => Offered(u)' = Offered(u) BY <1>6, <1>15, SameOffers
<1>18. \A u : u # t => Said(u)' = Said(u) BY <1>6, <1>7, SameTurns
<1>19. Said(t)' = Append(Said(t), turn)
    <2>1. SaidIs(t, n) BY <1>10, SaidNow
    <2>2. SaidIs(t, n + 1)'
        <3>1. Rounds(t)' = 1..n + 1
            <4>1. 1..n + 1 = 1..n \cup {n + 1} OBVIOUS
            <4>2. QED BY <1>3, <1>7, <1>10, <1>11, <4>1 DEF Numbered
        <3>2. PICK k \in Nat : Numbered(t, k)' BY <1>7, <1>8 DEF LinesInv
        <3>3. 1..k = 1..n + 1 BY <3>1, <3>2 DEF Numbered
        <3>4. n + 1 \in 1..n + 1 /\ (k > 0 => k \in 1..k) OBVIOUS
        <3>5. k = n + 1 BY <3>3, <3>4
        <3>6. QED BY <3>2, <3>5, SaidNext
    <2>3. turn \in Negotiation!Turns
        <3>1. m \notin Roots BY <1>5 DEF Roots, Released
        <3>2. QED BY <1>2, <3>1, TurnType
    <2> DEFINE after == Append(Said(t), turn)
    <2>4. /\ after \in Seq(Negotiation!Turns) /\ Len(after) = n + 1
          /\ \A i \in 1..n : after[i] = Said(t)[i]
          /\ after[n + 1] = turn
        <3>1. Said(t) \in Seq(Negotiation!Turns) /\ Len(Said(t)) = n BY <2>1 DEF SaidIs
        <3>2. QED BY <2>3, <3>1, AppendProperties
    <2> HIDE DEF after
    <2>5. ASSUME NEW i \in 1..n PROVE Said(t)'[i] = after[i]
        <3>1. PICK k \in Responses(t) : communications[k].round = i BY <2>1 DEF SaidIs
        <3>2. Said(t)[i] = Turn(communications[k]) BY <2>1, <3>1 DEF SaidIs
        <3>3. k \in Responses(t)' /\ communications'[k] = communications[k]
            BY <1>6, <1>7, <3>1 DEF Responses, InThread
        <3>4. Said(t)'[communications'[k].round] = Turn(communications'[k])
            BY <2>2, <3>3 DEF SaidIs
        <3>5. QED BY <2>4, <3>1, <3>2, <3>3, <3>4
    <2>6. Said(t)'[n + 1] = after[n + 1]
        <3>1. new \in Responses(t)' BY <1>7
        <3>2. Said(t)'[communications'[new].round] = Turn(communications'[new])
            BY <2>2, <3>1 DEF SaidIs
        <3>3. QED BY <1>3, <1>4, <1>6, <1>11, <2>4, <3>2
    <2>7. Said(t)' \in Seq(Negotiation!Turns) /\ Len(Said(t)') = n + 1
        BY <2>2 DEF SaidIs
    <2>8. \A i \in 1..n + 1 : Said(t)'[i] = after[i]
        <3>1. 1..n + 1 = 1..n \cup {n + 1} OBVIOUS
        <3>2. QED BY <2>5, <2>6, <3>1
    <2>9. \A s1, s2 \in Seq(Negotiation!Turns) :
             Len(s1) = Len(s2) /\ (\A i \in 1..Len(s1) : s1[i] = s2[i]) => s1 = s2
        BY SeqEqual
    <2>10. Said(t)' = after BY <2>4, <2>7, <2>8, <2>9
    <2>11. QED BY <2>10 DEF after
<1>20. \A u : Standing(u)' = Standing(u)
    <2>1. \A u \in Roots : communications'[u] = communications[u] BY <1>6 DEF Roots
    <2>2. \A u : ByRevision(u)' = ByRevision(u) BY <1>5, <1>7, <2>1 DEF ByRevision
    <2>3. QED BY <2>2, StandingNow, StandingNext
<1>21. /\ standingNow[t] = "live" /\ saidNow[t] = Said(t) /\ offeredNow[t] = <<turn>>
       /\ standingNow' = standingNow
       /\ saidNow' = [saidNow EXCEPT ![t] = Append(Said(t), turn)]
       /\ offeredNow' = [offeredNow EXCEPT ![t] = <<>>]
    BY <1>9, <1>13, <1>14, <1>16, <1>17, <1>18, <1>19, <1>20
       DEF standingNow, saidNow, offeredNow
<1>22. offeredNow[t] # <<>> /\ offeredNow[t][1] = turn BY <1>21
<1>23. saidNow' = [saidNow EXCEPT ![t] = Append(saidNow[t], offeredNow[t][1])]
    BY <1>21, <1>22, Zenon
<1>24. Negotiation!Release(t)
    BY <1>21, <1>22, <1>23, Zenon DEF Negotiation!Release, standingNow, saidNow, offeredNow
<1>25. QED BY <1>9, <1>24

-----------------------------------------------------------------------------
\* Who has a thread at all has a proposal, and only a return revises that.
LEMMA RevisionKept ==
    ASSUME IInv, UNCHANGED communications, [Next]_vars,
           \A r \in Reviewers : ~ReturnProposal(r)
    PROVE  Roots = {} \/ proposal'.revision_number = proposal.revision_number
<1>1. proposal \in Proposals /\ TypeOK BY DEF IInv, TypeOK
<1>2. ASSUME NEW s \in Authors, NEW recipients \in SUBSET Recipients, NEW forwarded \in BOOLEAN,
             CreateProposal(s, forwarded, recipients)
      PROVE  Roots = {}
    <2>1. proposal.revision_number = 0 BY <1>2 DEF CreateProposal, IInv, ProposalInv
    <2>2. \A m \in Roots : communications[m].source_revision \in 1..0
        BY <2>1 DEF IInv, RootsInv
    <2>3. QED BY <2>2
<1>3. ASSUME NEW handoff \in BOOLEAN, NEW recipients \in SUBSET Recipients,
             NEW handoffRevision \in Nat,
             proposal' = Rewritten(handoff, recipients, handoffRevision)
      PROVE  proposal'.revision_number = proposal.revision_number
    BY <1>1, <1>3, RewrittenFields
<1>4. ASSUME NEW s \in Authors, AuthorStep(s)
      PROVE  Roots = {} \/ proposal'.revision_number = proposal.revision_number
    <2>1. CASE OpenForm(s) \/ CloseForm(s) BY <2>1 DEF OpenForm, CloseForm
    <2>2. CASE SubmitProposal(s)
        <3>1. proposal' = Normalized(proposal, [proposal EXCEPT !.status = "submitted"], FALSE)
            BY <2>2 DEF SubmitProposal
        <3>2. QED BY <1>1, <3>1, SubmittedFields
    <2>3. ASSUME NEW recipients \in SUBSET Recipients, EditProposal(s, recipients)
          PROVE  proposal'.revision_number = proposal.revision_number
        <3>1. proposal' = Rewritten(TRUE, recipients, proposal.proposal_handoff_revision)
            BY <2>3 DEF EditProposal
        <3>2. proposal.proposal_handoff_revision \in Nat /\ TRUE \in BOOLEAN
            BY <1>1 DEF Proposals
        <3>3. QED BY <1>3, <3>1, <3>2, Zenon
    <2>4. ASSUME NEW recipients \in SUBSET Recipients, NEW forwarded \in BOOLEAN,
                 WriteAsScribe(s, forwarded, recipients)
          PROVE  proposal'.revision_number = proposal.revision_number
        <3> DEFINE handoffRevision == IF forwarded THEN proposal.revision_number ELSE 0
        <3>1. proposal' = Rewritten(forwarded, recipients, handoffRevision)
            BY <2>4 DEF WriteAsScribe
        <3>2. handoffRevision \in Nat BY <1>1 DEF Proposals
        <3> HIDE DEF handoffRevision
        <3>3. QED BY <1>3, <3>1, <3>2, Zenon
    <2>5. QED BY <1>2, <1>4, <2>1, <2>2, <2>3, <2>4 DEF AuthorStep
<1>5. ASSUME NEW r \in Reviewers, ReviewerStep(r)
      PROVE  UNCHANGED proposal
    <2>1. ASSUME NEW t \in Recipients, Approve(r, t) PROVE FALSE
        <3>1. communications' = Append(communications, Root(t)) BY <2>1 DEF Approve
        <3>2. Root(t) \in Messages BY <1>1, RootFields
        <3>3. Ids' # Ids BY <1>1, <3>1, <3>2, Sent
        <3>4. QED BY <3>3 DEF Ids
    <2>2. QED BY <1>5, <2>1 DEF ReviewerStep, OpenReview, CloseReview, ApprovalFails, Learn,
                                SelectRecipients, ApproveAgain
<1>6. CASE ThreadStep BY <1>6 DEF ThreadStep, AppendMessage, ForwardResponse
<1>7. CASE UNCHANGED vars BY <1>7 DEF vars
<1>8. QED BY <1>4, <1>5, <1>6, <1>7 DEF Next

LEMMA NegotiationStep ==
    ASSUME IInv /\ TextInv /\ LinesInv, (IInv /\ TextInv /\ LinesInv)', [Next]_vars
    PROVE  [Negotiation!Next]_(<<[t \in 1..MaxMessages |-> Standing(t)],
                                [t \in 1..MaxMessages |-> Said(t)],
                                [t \in 1..MaxMessages |-> Offered(t)]>>)
<1>1. ASSUME NEW r \in Reviewers, ReturnProposal(r) PROVE Negotiation!Next
    <2>1. Negotiation!TakeBack BY <1>1, ReturnStep
    <2>2. QED BY <2>1, Zenon DEF Negotiation!Next
<1>2. ASSUME NEW r \in Reviewers, NEW t \in Recipients, Approve(r, t) PROVE Negotiation!Next
    <2>1. \E u \in 1..MaxMessages : Negotiation!Open(u) BY <1>2, ApproveStep
    <2>2. QED BY <2>1, Zenon DEF Negotiation!Next
<1>3. CASE ThreadStep
    <2>1. ASSUME NEW side \in {"source", "recipient"}, NEW p \in Ids, NEW closes \in BOOLEAN,
                 AppendMessage(side, p, closes)
          PROVE  Negotiation!Next
        <3>1. \E t \in 1..MaxMessages, turn \in Negotiation!Turns : Negotiation!Offer(t, turn)
            BY <2>1, AppendStep
        <3>2. QED BY <3>1, Zenon DEF Negotiation!Next
    <2>2. ASSUME NEW m \in Ids, ForwardResponse(m) PROVE Negotiation!Next
        <3>1. \E t \in 1..MaxMessages : Negotiation!Release(t) BY <2>2, ForwardStep
        <3>2. QED BY <3>1, Zenon DEF Negotiation!Next
    <2>3. QED BY <1>3, <2>1, <2>2, Zenon DEF ThreadStep
<1>4. CASE UNCHANGED communications /\ \A r \in Reviewers : ~ReturnProposal(r)
    <2>1. Roots = {} \/ proposal'.revision_number = proposal.revision_number
        BY <1>4, RevisionKept
    <2>2. UNCHANGED <<standingNow, saidNow, offeredNow>> BY <1>4, <2>1, QuietStep
    <2>3. QED BY <2>2 DEF standingNow, saidNow, offeredNow
<1>5. QED BY <1>1, <1>2, <1>3, <1>4, OnlySending

LEMMA NegotiationInit == Init => Negotiation!Init
<1> SUFFICES ASSUME Init PROVE Negotiation!Init OBVIOUS
<1>1. Ids = {} BY DEF Init, Ids
<1>2. Roots = {} /\ \A t : InThread(t) = {} BY <1>1 DEF Roots, InThread
<1>3. \A t : Standing(t) = "none" BY <1>2 DEF Standing
<1>4. \A t : Said(t) = <<>>
    <2>1. \A t : Rounds(t) = {} BY <1>2 DEF Rounds, Responses
    <2>2. QED BY <2>1 DEF Said
<1>5. \A t : Offered(t) = <<>>
    <2>1. \A t : Waiting(t) = {} BY <1>2 DEF Waiting
    <2>2. QED BY <2>1, TurnsWaiting DEF Offered
<1>6. QED BY <1>3, <1>4, <1>5 DEF Negotiation!Init

\* Whatever the sides send, White Cell releases and the authors rewrite, in any order and
\* with any retries, each thread is a negotiation: append_proposal_thread_message,
\* operator_forward_proposal_response, the approvals and the return are its only steps.
THEOREM ThreadsImplementNegotiation == Spec => NegotiationSpec
<1>1. Spec => [](IInv /\ TextInv /\ LinesInv)
    BY InitInv, NextInv, TextInit, TextStep, LinesInit, LinesStep, PTL DEF Spec
<1>2. QED
    BY <1>1, NegotiationInit, NegotiationStep, PTL
       DEF Spec, NegotiationSpec, Negotiation!Spec, Negotiation!negotiationVars
=============================================================================
