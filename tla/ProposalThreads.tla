-------------------------- MODULE ProposalThreads --------------------------
(***************************************************************************)
(* One proposal of a regional Green delegation: its drafting by Scribe and *)
(* Facilitator from forms that may be stale, White Cell's approval of it   *)
(* for one recipient after the other, its return for another revision, and *)
(* the threads in which the delegation and each recipient negotiate, every *)
(* message of which White Cell reviews before the other side sees it.      *)
(*                                                                         *)
(* A participant's message names the message it answers and everything     *)
(* else is checked by the database when it commits, so that a participant  *)
(* has no state here: a late, repeated or stale answer is one to an old    *)
(* message.  Forms and review modals do hold copies.  What a proposal says *)
(* is abstracted to the row_version of the write that last set it.         *)
(***************************************************************************)
EXTENDS ActionRow, Sequences, FiniteSets

CONSTANTS
    Recipients,         \* teams a proposal may be addressed to
    Scribes,            \* sessions of the delegation's Scribe seat
    Facilitators,       \* sessions of its Facilitator seat
    Reviewers,          \* browsers of the White Cell Lead
    MaxVersion,         \* bound on the row_version of the proposal
    MaxMessages         \* bound on the rows of public.communications

ASSUME SeatsAssumption == Scribes \cap Facilitators = {}
ASSUME MaxMessagesAssumption == MaxMessages \in Nat

VARIABLES
    proposal,           \* its row of public.actions
    communications,     \* public.communications; a message's id is its index,
                        \* a thread's id is that of its first message
    forms,              \* the draft form of each session of the delegation
    known,              \* the approvals each review browser's store holds
    modals              \* the review modal of each of those browsers

vars == <<proposal, communications, forms, known, modals>>

Authors == Scribes \cup Facilitators

NoApprovals == [t \in Recipients |-> 0]

\* recipient_reviews: the thread by which each recipient was approved, or 0;
\* review_history: the same of the earlier revisions.
Proposals ==
    [status : Statuses, workflow_state : WorkflowStates,
     revision_number : Nat, row_version : Nat, content : Nat,
     recipients : SUBSET Recipients, handoff : BOOLEAN,
     proposal_handoff_revision : Nat,
     recipient_reviews : [Recipients -> Nat],
     review_history : Seq([Recipients -> Nat])]

NoProposal ==
    [status |-> "absent", workflow_state |-> "none", revision_number |-> 0,
     row_version |-> 0, content |-> 0, recipients |-> {}, handoff |-> FALSE,
     proposal_handoff_revision |-> 0, recipient_reviews |-> NoApprovals,
     review_history |-> <<>>]

Messages ==
    [type : {"PROPOSAL_FORWARDED", "PROPOSAL_RESPONSE", "PROPOSAL_RESPONSE_REVIEW"},
     thread : Nat, round : Nat, parent : Nat, recipient : Recipients,
     sender : {"white_cell", "source", "recipient"}, source_revision : Nat,
     content : Nat, closes : BOOLEAN, review_request : Nat]

\* What the user of a form has before them, and the versions it will send.
Forms == [open : BOOLEAN, revision_number : Nat, row_version : Nat, content : Nat]

NoForm == [open |-> FALSE, revision_number |-> 0, row_version |-> 0, content |-> 0]

\* The copy of the row a modal shows, the recipients it lets the reviewer choose
\* and, while approvals are being sent, those still to be sent.
Modals == [open : BOOLEAN, seen : Proposals,
           pending : SUBSET Recipients, sending : SUBSET Recipients]

NoModal == [open |-> FALSE, seen |-> NoProposal, pending |-> {}, sending |-> {}]

TypeOK ==
    /\ proposal \in Proposals
    /\ communications \in Seq(Messages)
    /\ forms \in [Authors -> Forms]
    /\ known \in [Reviewers -> SUBSET Nat]
    /\ modals \in [Reviewers -> Modals]

Init ==
    /\ proposal = NoProposal
    /\ communications = <<>>
    /\ forms = [s \in Authors |-> NoForm]
    /\ known = [r \in Reviewers |-> {}]
    /\ modals = [r \in Reviewers |-> NoModal]

Ids == DOMAIN communications

Roots == {m \in Ids : communications[m].type = "PROPOSAL_FORWARDED"}

Released == {m \in Ids : communications[m].type # "PROPOSAL_RESPONSE_REVIEW"}

-----------------------------------------------------------------------------
(* Drafting: write_regional_proposal, from the form's copy of the row.      *)

\* Mutant: the form's copy is compared by its revision only.
FormIsCurrentByRevision(form) == form.revision_number = proposal.revision_number

FormIsCurrent(form) ==
    /\ form.revision_number = proposal.revision_number
    /\ form.row_version = proposal.row_version

\* The answer closes the form; when it is lost the form stays, with the old copy.
Saved(s) == forms' = [forms EXCEPT ![s] = NoForm] \/ UNCHANGED forms

\* A form for a draft, or for a new proposal; this is the proposal of the first
\* form.  A creation is sent again under its client key and changes nothing then.
OpenForm(s) ==
    /\ ~forms[s].open
    /\ \/ proposal.status = "draft"
       \/ /\ proposal.status = "absent" /\ s \in Scribes
          /\ \A other \in Scribes : ~forms[other].open
    /\ forms' = [forms EXCEPT ![s] =
                    [open |-> TRUE, revision_number |-> proposal.revision_number,
                     row_version |-> proposal.row_version,
                     content |-> proposal.content]]
    /\ UNCHANGED <<proposal, communications, known, modals>>

CloseForm(s) ==
    /\ forms[s].open
    /\ forms' = [forms EXCEPT ![s] = NoForm]
    /\ UNCHANGED <<proposal, communications, known, modals>>

Created(forwarded, recipients) ==
    [status |-> "draft",
     workflow_state |-> IF forwarded THEN "forwarded_to_facilitator" ELSE "draft",
     revision_number |-> 1, row_version |-> 1, content |-> 1,
     recipients |-> recipients, handoff |-> forwarded,
     proposal_handoff_revision |-> IF forwarded THEN 1 ELSE 0,
     recipient_reviews |-> NoApprovals, review_history |-> <<>>]

CreateProposal(s, forwarded, recipients) ==
    /\ s \in Scribes
    /\ forms[s].open /\ forms[s].row_version = 0
    /\ proposal.status = "absent"
    /\ proposal' = Created(forwarded, recipients)
    /\ Saved(s)
    /\ UNCHANGED <<communications, known, modals>>

Writable(s) ==
    /\ forms[s].open
    /\ FormIsCurrent(forms[s])
    /\ proposal.status = "draft"
    /\ \/ s \in Scribes /\ proposal.workflow_state \in {"draft", "returned_to_team"}
       \/ /\ s \in Facilitators
          /\ proposal.workflow_state \in {"forwarded_to_facilitator", "returned_to_team"}
    /\ proposal.row_version < MaxVersion

Rewritten(handoff, recipients, handoffRevision) ==
    Normalized(proposal,
               [proposal EXCEPT !.content = NextRowVersion(proposal),
                                !.recipients = recipients, !.handoff = handoff,
                                !.proposal_handoff_revision = handoffRevision],
               FALSE)

\* The Scribe saves, which takes a hand-off back, or forwards.
WriteAsScribe(s, forwarded, recipients) ==
    /\ s \in Scribes
    /\ Writable(s)
    /\ proposal' = Rewritten(forwarded, recipients,
                             IF forwarded THEN proposal.revision_number ELSE 0)
    /\ Saved(s)
    /\ UNCHANGED <<communications, known, modals>>

\* The Facilitator's edit leaves the hand-off as it is.
EditProposal(s, recipients) ==
    /\ s \in Facilitators
    /\ Writable(s)
    /\ proposal' = Rewritten(TRUE, recipients, proposal.proposal_handoff_revision)
    /\ Saved(s)
    /\ UNCHANGED <<communications, known, modals>>

\* The exemption for a first revision forwarded before rows had a hand-off revision is
\* left out: every forward of this module sets it, so no row comes to it.
SubmitProposal(s) ==
    /\ s \in Facilitators
    /\ Writable(s)
    /\ proposal.proposal_handoff_revision = proposal.revision_number
    /\ proposal' = Normalized(proposal, [proposal EXCEPT !.status = "submitted"], FALSE)
    /\ Saved(s)
    /\ UNCHANGED <<communications, known, modals>>

-----------------------------------------------------------------------------
(* White Cell: approval per recipient, and return.                          *)

\* The recipients a browser takes to be approved: those of its copy of the row,
\* and those it holds a first message for, of whatever revision.
SeenApproved(r, row) ==
    {t \in row.recipients :
        \/ row.recipient_reviews[t] # 0
        \/ \E m \in known[r] : communications[m].recipient = t}

\* Realtime brings an approval to a browser's store.
Learn(r, m) ==
    /\ m \in Roots \ known[r]
    /\ known' = [known EXCEPT ![r] = @ \cup {m}]
    /\ UNCHANGED <<proposal, communications, forms, modals>>

OpenReview(r) ==
    /\ ~modals[r].open
    /\ proposal.status = "submitted"
    /\ modals' = [modals EXCEPT ![r] =
         [open |-> TRUE, seen |-> proposal,
          pending |-> proposal.recipients \ SeenApproved(r, proposal),
          sending |-> {}]]
    /\ UNCHANGED <<proposal, communications, forms, known>>

CloseReview(r) ==
    /\ modals[r].open /\ modals[r].sending = {}
    /\ modals' = [modals EXCEPT ![r] = NoModal]
    /\ UNCHANGED <<proposal, communications, forms, known>>

\* handleProposalReview: the checked recipients, approved by one call each.
SelectRecipients(r, teams) ==
    /\ modals[r].open /\ modals[r].sending = {}
    /\ teams # {} /\ teams \subseteq modals[r].pending
    /\ modals' = [modals EXCEPT ![r].sending = teams]
    /\ UNCHANGED <<proposal, communications, forms, known>>

\* One call was answered; after the last the modal closes.  When an answer is lost
\* the loop ends and the modal stays.
ApprovalAnswered(r, t, root) ==
    \/ /\ known' = [known EXCEPT ![r] = @ \cup {root}]
       /\ IF modals[r].sending = {t}
          THEN modals' = [modals EXCEPT ![r] = NoModal]
          ELSE modals' = [modals EXCEPT ![r].sending = @ \ {t}]
    \/ /\ modals' = [modals EXCEPT ![r].sending = {}]
       /\ UNCHANGED known

\* A call was refused or did not arrive: the loop ends.
ApprovalFails(r) ==
    /\ modals[r].sending # {}
    /\ modals' = [modals EXCEPT ![r].sending = {}]
    /\ UNCHANGED <<proposal, communications, forms, known>>

\* Mutant: the approval without its stale revision check.
ApprovalAdmittedStale(t, expectedRevision) == t \in proposal.recipients

ApprovalAdmitted(t, expectedRevision) ==
    /\ expectedRevision = proposal.revision_number
    /\ t \in proposal.recipients

\* Mutant: the approvals of every revision count, as they did before GC-06.
ApprovalRootsOfAll(t) == {m \in Roots : communications[m].recipient = t}

\* The first messages to a recipient that carry the current revision.
ApprovalRoots(t) ==
    {m \in Roots : /\ communications[m].recipient = t
                   /\ communications[m].source_revision = proposal.revision_number}

\* Every recipient but t has its approval, so that t's completes the proposal.
CompletesWith(t) == \A other \in proposal.recipients \ {t} : ApprovalRoots(other) # {}

Root(t) ==
    [type |-> "PROPOSAL_FORWARDED", thread |-> Len(communications) + 1, round |-> 0,
     parent |-> 0, recipient |-> t, sender |-> "white_cell",
     source_revision |-> proposal.revision_number, content |-> proposal.content,
     closes |-> FALSE, review_request |-> 0]

ApprovedRow(t) ==
    Normalized(proposal,
        [proposal EXCEPT !.recipient_reviews[t] = Len(communications) + 1], TRUE)

CompletedRow(row) ==
    Normalized(row,
        [row EXCEPT !.status = "adjudicated", !.workflow_state = "completed"], TRUE)

\* operator_review_proposal.  The last approval completes the proposal in the same
\* transaction.
Approve(r, t) ==
    /\ t \in modals[r].sending
    /\ ApprovalAdmitted(t, modals[r].seen.revision_number)
    /\ ApprovalRoots(t) = {}
    /\ UnderReview(proposal)
    /\ Len(communications) < MaxMessages
    /\ communications' = Append(communications, Root(t))
    /\ proposal' = IF CompletesWith(t) THEN CompletedRow(ApprovedRow(t)) ELSE ApprovedRow(t)
    /\ ApprovalAnswered(r, t, Len(communications) + 1)
    /\ UNCHANGED forms

\* The same for a recipient that already has its approval: the first is answered.
ApproveAgain(r, t) ==
    /\ t \in modals[r].sending
    /\ ApprovalAdmitted(t, modals[r].seen.revision_number)
    /\ \E root \in ApprovalRoots(t) : ApprovalAnswered(r, t, root)
    /\ UNCHANGED <<proposal, communications, forms>>

\* Mutant: the return keeps the approvals.
TakenBackKept(row) == [row EXCEPT !.proposal_handoff_revision = 0]

\* gc06_proposal_guard: the hand-off and the approvals of a revision end with it.
TakenBack(row) ==
    [row EXCEPT !.proposal_handoff_revision = 0,
                !.review_history = Append(@, row.recipient_reviews),
                !.recipient_reviews = NoApprovals]

\* The guard of operator_review_artifact.
ReviewAdmitted(expectedRevision) ==
    /\ expectedRevision = proposal.revision_number
    /\ proposal.workflow_state # "completed"

\* handleProposalReview's return, refused in a browser that knows of an approval,
\* and operator_review_artifact.
ReturnProposal(r) ==
    /\ modals[r].open /\ modals[r].sending = {}
    /\ modals[r].pending # {}
    /\ SeenApproved(r, modals[r].seen) = {}
    /\ ReviewAdmitted(modals[r].seen.revision_number)
    /\ proposal.status \in {"submitted", "adjudicated"}
    /\ proposal.row_version < MaxVersion
    /\ proposal' = TakenBack(Normalized(proposal,
         [proposal EXCEPT !.status = "draft", !.workflow_state = "returned_to_team",
                          !.revision_number = @ + 1], TRUE))
    /\ modals' = [modals EXCEPT ![r] = NoModal] \/ UNCHANGED modals
    /\ UNCHANGED <<communications, forms, known>>

-----------------------------------------------------------------------------
(* The threads.                                                             *)

\* Mutant: the source of the thread may be of an older revision.
ThreadIsCurrentOfAny(message) == proposal.status \in {"submitted", "adjudicated"}

\* gc06_thread_source, current required.
ThreadIsCurrent(message) ==
    /\ proposal.status \in {"submitted", "adjudicated"}
    /\ proposal.revision_number = message.source_revision
    /\ proposal.recipient_reviews[message.recipient] = message.thread

InThread(thread) == {m \in Ids : communications[m].thread = thread}

\* Mutant: only the released messages of a thread are looked at.
IsLatestReleased(p) ==
    \A m \in InThread(communications[p].thread) \cap Released :
        communications[m].round <= communications[p].round

\* The parent heads its thread, messages under review included.
IsLatest(p) ==
    \A m \in InThread(communications[p].thread) :
        communications[m].round <= communications[p].round

\* Who may answer a message: the side that did not send it, and the recipient first.
MayAnswer(side, p) ==
    /\ side # communications[p].sender
    /\ communications[p].round = 0 => side = "recipient"
    /\ ~communications[p].closes

Reply(side, p, closes) ==
    [type |-> "PROPOSAL_RESPONSE_REVIEW", thread |-> communications[p].thread,
     round |-> communications[p].round + 1, parent |-> p,
     recipient |-> communications[p].recipient, sender |-> side,
     source_revision |-> communications[p].source_revision, content |-> 0,
     closes |-> closes, review_request |-> 0]

\* append_proposal_thread_message: the answer goes to White Cell for review.
AppendMessage(side, p, closes) ==
    /\ p \in Released
    /\ ThreadIsCurrent(communications[p])
    /\ MayAnswer(side, p)
    /\ IsLatest(p)
    /\ Len(communications) < MaxMessages
    /\ communications' = Append(communications, Reply(side, p, closes))
    /\ UNCHANGED <<proposal, forms, known, modals>>

HeadsReleased(p) ==
    \A m \in InThread(communications[p].thread) \cap Released :
        communications[m].round <= communications[p].round

\* operator_forward_proposal_response: the other side is sent the answer.  For an
\* answer sent already the database returns the message it sent.
ForwardResponse(m) ==
    LET review == communications[m]
    IN  /\ m \in Ids \ Released
        /\ ThreadIsCurrent(review)
        /\ \A other \in Ids : communications[other].review_request # m
        /\ HeadsReleased(review.parent)
        /\ review.round = communications[review.parent].round + 1
        /\ Len(communications) < MaxMessages
        /\ communications' = Append(communications,
             [review EXCEPT !.type = "PROPOSAL_RESPONSE", !.review_request = m])
        /\ UNCHANGED <<proposal, forms, known, modals>>

-----------------------------------------------------------------------------
AuthorStep(s) ==
    \/ OpenForm(s)
    \/ CloseForm(s)
    \/ SubmitProposal(s)
    \/ \E recipients \in (SUBSET Recipients) \ {{}} :
          \/ EditProposal(s, recipients)
          \/ \E forwarded \in BOOLEAN :
                CreateProposal(s, forwarded, recipients) \/ WriteAsScribe(s, forwarded, recipients)

ReviewerStep(r) ==
    \/ OpenReview(r)
    \/ CloseReview(r)
    \/ ApprovalFails(r)
    \/ ReturnProposal(r)
    \/ \E m \in Ids : Learn(r, m)
    \/ \E teams \in SUBSET Recipients : SelectRecipients(r, teams)
    \/ \E t \in Recipients : Approve(r, t) \/ ApproveAgain(r, t)

ThreadStep ==
    \/ \E side \in {"source", "recipient"}, p \in Ids, closes \in BOOLEAN :
          AppendMessage(side, p, closes)
    \/ \E m \in Ids : ForwardResponse(m)

Next ==
    \/ \E s \in Authors : AuthorStep(s)
    \/ \E r \in Reviewers : ReviewerStep(r)
    \/ ThreadStep

Spec == Init /\ [][Next]_vars

-----------------------------------------------------------------------------
(* Properties.                                                              *)

\* A form whose versions are still current shows the text that its write replaces:
\* Scribe and Facilitator, both of whom may write a returned proposal, do not
\* overwrite each other unseen.
OverwritesWhatWasShown ==
    \A s \in Authors :
        forms[s].open /\ FormIsCurrent(forms[s]) => forms[s].content = proposal.content

\* As long as an approval on its way is still admitted, it is of the text that the
\* reviewer had on screen, whatever was returned and rewritten meanwhile.
ApprovesWhatWasSeen ==
    \A r \in Reviewers, t \in Recipients :
        /\ t \in modals[r].sending
        /\ ApprovalAdmitted(t, modals[r].seen.revision_number)
        => modals[r].seen.content = proposal.content

\* Every approval is on record for its revision and recipient, once: with the
\* current revision in the row, with the earlier ones in its history.
ApprovalsAreKept ==
    \A m \in Roots :
        LET root == communications[m]
        IN  IF root.source_revision = proposal.revision_number
            THEN proposal.recipient_reviews[root.recipient] = m
            ELSE /\ root.source_revision \in DOMAIN proposal.review_history
                 /\ proposal.review_history[root.source_revision][root.recipient] = m

\* A proposal is completed when, and only when, each of its recipients has been sent
\* the text it ends with: no approval of a text since replaced counts, and none that
\* counts is overlooked.
CompletedIsApproved ==
    LET sentTo(t) == \E m \in Roots :
            communications[m].recipient = t /\ communications[m].content = proposal.content
    IN  /\ proposal.workflow_state = "completed" => \A t \in proposal.recipients : sentTo(t)
        /\ UnderReview(proposal) => \E t \in proposal.recipients : ~sentTo(t)

\* The released messages of a thread are one conversation: each answers the message
\* of the round before, which did not close the thread and came from the other side;
\* no message is answered twice, by whatever retries and with whatever parents.
RoundsChain ==
    /\ \A m \in Ids :
          LET message == communications[m]
              parent == communications[message.parent]
          IN  message.type # "PROPOSAL_FORWARDED" =>
                /\ message.parent \in Released /\ message.parent < m
                /\ parent.thread = message.thread
                /\ parent.round + 1 = message.round
                /\ parent.sender # message.sender
                /\ ~parent.closes
    /\ \A m, n \in Ids :
          /\ communications[m].type = communications[n].type
          /\ communications[m].thread = communications[n].thread
          /\ communications[m].round = communications[n].round
          => m = n

\* The threads implement the abstract negotiation.
Standing(t) ==
    IF t \notin Roots THEN "none"
    ELSE IF ThreadIsCurrent(communications[t]) THEN "live" ELSE "over"

Turn(message) == [speaker |-> message.sender, closes |-> message.closes]

\* The turns released in a thread, by their rounds.
Responses(t) == {m \in InThread(t) : communications[m].type = "PROPOSAL_RESPONSE"}

Rounds(t) == {communications[m].round : m \in Responses(t)}

Said(t) ==
    [i \in Rounds(t) |->
        Turn(communications[CHOOSE m \in Responses(t) : communications[m].round = i])]

\* The turn under review that has not been sent on.  Were there several, as many
\* would be on offer.
Waiting(t) ==
    {m \in InThread(t) \ Released : \A other \in Ids : communications[other].review_request # m}

Offered(t) ==
    [i \in 1..Cardinality(Waiting(t)) |->
        Turn(communications[CHOOSE m \in Waiting(t) : TRUE])]

Negotiation == INSTANCE ProposalNegotiation WITH
    Threads <- 1..MaxMessages,
    standing <- [t \in 1..MaxMessages |-> Standing(t)],
    said <- [t \in 1..MaxMessages |-> Said(t)],
    offered <- [t \in 1..MaxMessages |-> Offered(t)]

\* Whatever both sides, White Cell and the authors do, and in whatever order, every
\* write is a step of ProposalNegotiation.
NegotiationSpec == Negotiation!Spec

-----------------------------------------------------------------------------
(* What a document of the repository says and the code does not do.         *)

\* "returns a partially approved proposal ... new roots": a recipient without an
\* approval of the revision under review can be approved in the review modal.
PendingCanBeApproved ==
    \A r \in Reviewers, t \in proposal.recipients :
        UnderReview(proposal) /\ ApprovalRoots(t) = {} => t \notin SeenApproved(r, proposal)
=============================================================================
