-------------------------- MODULE RequestWorkflow --------------------------
(***************************************************************************)
(* RFIs: a team's Facilitator puts a question to White Cell, White Cell    *)
(* answers it or returns it for clarification, and the Facilitator revises *)
(* a returned one in place.  Rows of public.requests, with the two BEFORE  *)
(* triggers every write passes, and the forms and modals of the sessions   *)
(* that write them.                                                        *)
(*                                                                         *)
(* Regional says which of the two write paths the team has: TRUE for the   *)
(* RPCs of regional Green (write_regional_rfi, operator_answer_regional_   *)
(* rfi), FALSE for table writes and operator_answer_request, the path of   *)
(* every other team.  A response is abstracted to the question its author  *)
(* was reading.  The withdrawn status is left out: no screen asks for it   *)
(* and no policy admits it.                                                *)
(***************************************************************************)
EXTENDS Naturals, Sequences

CONSTANTS
    Requests,           \* ids of request rows
    Questions,          \* what a request can ask
    Keys,               \* client keys of forms
    Null,
    Facilitators,       \* sessions of the team's Facilitator
    Reviewers,          \* White Cell sessions
    Regional,           \* whether the team is regional Green
    MaxRevision         \* bound on revision_number: no question is returned more often

ASSUME NullAssumption == Null \notin Requests \cup Questions \cup Keys
ASSUME SurfacesAssumption == Facilitators \cap Reviewers = {}
ASSUME RegionalAssumption == Regional \in BOOLEAN
ASSUME MaxRevisionAssumption == MaxRevision \in Nat

VARIABLES
    requests,           \* public.requests
    communications,     \* its rfi_response rows, in the order sent
    reviews,            \* artifact_workflow_reviews of kind rfi, in the order made
    timeline,           \* the timeline rows that name the request
    forms,              \* the form each Facilitator session has open
    modals              \* the modal each White Cell session has open

vars == <<requests, communications, reviews, timeline, forms, modals>>

Statuses == {"absent", "pending", "answered"}
WorkflowStates ==
    {"none", "submitted_to_white_cell", "returned_to_team", "resubmitted", "completed"}

Rows == [status : Statuses, workflow_state : WorkflowStates, revision_number : Nat,
         query : Questions \cup {Null}, client_key : Keys \cup {Null}]

AbsentRow == [status |-> "absent", workflow_state |-> "none", revision_number |-> 0,
              query |-> Null, client_key |-> Null]

Events == {"RFI_CREATED", "RFI_RESUBMITTED", "RFI_RETURNED_FOR_CLARIFICATION",
           "RFI_ANSWERED"}
Entries == [type : Events, revision_number : Nat]
Responses == [content : Questions \cup {Null}, revision_number : Nat]
Returns == [revision_number : Nat, prior_workflow_state : WorkflowStates]

\* A form edits "request" as it was when the form opened, or a new request when
\* that is Null; a modal is about a request as it was when the modal opened.
Forms == [step : {"closed", "open", "saved"}, request : Requests \cup {Null},
          seen : Rows, key : Keys \cup {Null}]
Modals == [step : {"closed", "open", "checked", "saved"},
           event : Events \cup {Null}, request : Requests \cup {Null}, seen : Rows]

NoForm == [step |-> "closed", request |-> Null, seen |-> AbsentRow, key |-> Null]
NoModal == [step |-> "closed", event |-> Null, request |-> Null, seen |-> AbsentRow]

TypeOK ==
    /\ requests \in [Requests -> Rows]
    /\ communications \in [Requests -> Seq(Responses)]
    /\ reviews \in [Requests -> Seq(Returns)]
    /\ timeline \in [Requests -> Seq(Entries)]
    /\ forms \in [Facilitators -> Forms]
    /\ modals \in [Reviewers -> Modals]

Init ==
    /\ requests = [r \in Requests |-> AbsentRow]
    /\ communications = [r \in Requests |-> <<>>]
    /\ reviews = [r \in Requests |-> <<>>]
    /\ timeline = [r \in Requests |-> <<>>]
    /\ forms = [f \in Facilitators |-> NoForm]
    /\ modals = [v \in Reviewers |-> NoModal]

-----------------------------------------------------------------------------
(* The row and its triggers.                                                *)

\* isRfiAwaitingWhiteCellResponse
Awaiting(row) ==
    /\ row.status = "pending"
    /\ row.workflow_state \in {"submitted_to_white_cell", "resubmitted"}

NewRow(query, key) ==
    [status |-> "pending", workflow_state |-> "submitted_to_white_cell",
     revision_number |-> 1, query |-> query, client_key |-> key]

\* Mutant: every new question counts as a revision.
ResubmittedCounted(row, query) ==
    [row EXCEPT !.query = query, !.workflow_state = "resubmitted",
                !.revision_number = @ + 1]

\* normalize_request_workflow_write, a participant's new question: the next
\* revision, unless the return already opened it.
Resubmitted(row, query) ==
    [row EXCEPT !.query = query, !.workflow_state = "resubmitted",
                !.revision_number = IF row.workflow_state = "returned_to_team"
                                    THEN @ ELSE @ + 1]

\* The policy requests_live_demo_update with zz_guard_facilitator_request_write,
\* and for regional Green the checks of write_regional_rfi.
MayRevise(row, query, expectedRevision) ==
    /\ row.status = "pending"
    /\ row.workflow_state = "returned_to_team"
    /\ query # row.query
    /\ Regional => row.revision_number = expectedRevision

Logged(r, type, revision) ==
    timeline' = [timeline EXCEPT ![r] =
                    Append(@, [type |-> type, revision_number |-> revision])]

-----------------------------------------------------------------------------
(* The Facilitator.                                                         *)

\* createRfiForm draws a client key nobody else has, for regional Green.
OpenNewForm(f) ==
    /\ forms[f].step = "closed"
    /\ \E key \in IF Regional THEN Keys ELSE {Null} :
         /\ Regional => /\ \A r \in Requests : requests[r].client_key # key
                        /\ \A g \in Facilitators : forms[g].key # key
         /\ forms' = [forms EXCEPT ![f] = [NoForm EXCEPT !.step = "open", !.key = key]]
    /\ UNCHANGED <<requests, communications, reviews, timeline, modals>>

OpenRevisionForm(f, r) ==
    /\ forms[f].step = "closed"
    /\ requests[r].workflow_state = "returned_to_team"
    /\ forms' = [forms EXCEPT ![f] = [NoForm EXCEPT !.step = "open", !.request = r,
                                                   !.seen = requests[r]]]
    /\ UNCHANGED <<requests, communications, reviews, timeline, modals>>

CloseForm(f) ==
    /\ forms[f].step = "open"
    /\ forms' = [forms EXCEPT ![f] = NoForm]
    /\ UNCHANGED <<requests, communications, reviews, timeline, modals>>

\* The row of f's form is stored.  A regional RPC stores the timeline row with
\* it; otherwise the browser writes that next.  When the answer is lost the form
\* stays as it was.
FormSaved(f, r, type) ==
    /\ IF Regional THEN Logged(r, type, requests'[r].revision_number)
                   ELSE UNCHANGED timeline
    /\ \/ forms' = [forms EXCEPT ![f] = IF Regional THEN NoForm ELSE
                        [@ EXCEPT !.step = "saved", !.request = r, !.seen = requests'[r]]]
       \/ UNCHANGED forms

\* Mutant: write_regional_rfi does not look for an earlier attempt.
EarlierAttemptsIgnored(key) == {}

\* The rows an attempt with this key made; a plain insert never looks.
EarlierAttempts(key) ==
    {r \in Requests : Regional /\ requests[r].client_key = key}

Create(f, r, query) ==
    /\ forms[f].step = "open" /\ forms[f].request = Null
    /\ EarlierAttempts(forms[f].key) = {}
    /\ requests[r].status = "absent"
    /\ requests' = [requests EXCEPT ![r] = NewRow(query, forms[f].key)]
    /\ FormSaved(f, r, "RFI_CREATED")
    /\ UNCHANGED <<communications, reviews, modals>>

\* Mutant: the row an earlier attempt made is returned with new timeline evidence.
AttemptFoundLogged(f, r) ==
    /\ Logged(r, "RFI_CREATED", requests[r].revision_number)
    /\ forms' = [forms EXCEPT ![f] = NoForm]
    /\ UNCHANGED <<requests, communications, reviews, modals>>

AttemptFound(f, r) ==
    /\ forms' = [forms EXCEPT ![f] = NoForm]
    /\ UNCHANGED <<requests, communications, reviews, timeline, modals>>

\* Trying again after a lost answer: the row the first attempt made is returned;
\* when the question is no longer that row's the retry is refused.
RetryCreate(f, r, query) ==
    /\ forms[f].step = "open" /\ forms[f].request = Null
    /\ r \in EarlierAttempts(forms[f].key)
    /\ requests[r].query = query
    /\ AttemptFound(f, r)

\* requestsStore.resubmit
Revise(f, query) ==
    LET r == forms[f].request
    IN  /\ forms[f].step = "open" /\ r # Null
        /\ MayRevise(requests[r], query, forms[f].seen.revision_number)
        /\ requests' = [requests EXCEPT ![r] = Resubmitted(@, query)]
        /\ FormSaved(f, r, "RFI_RESUBMITTED")
        /\ UNCHANGED <<communications, reviews, modals>>

\* The timeline row after a table write.  When it fails the user is told that the
\* submission did, and is back at the form.
RecordForm(f) ==
    LET form == forms[f]
        isNew == form.seen.workflow_state = "submitted_to_white_cell"
    IN  /\ form.step = "saved"
        /\ \/ /\ Logged(form.request, IF isNew THEN "RFI_CREATED" ELSE "RFI_RESUBMITTED",
                        form.seen.revision_number)
              /\ forms' = [forms EXCEPT ![f] = NoForm]
           \/ /\ UNCHANGED timeline
              /\ forms' = [forms EXCEPT ![f] =
                   IF isNew THEN [NoForm EXCEPT !.step = "open"] ELSE [form EXCEPT !.step = "open"]]
        /\ UNCHANGED <<requests, communications, reviews, modals>>

-----------------------------------------------------------------------------
(* White Cell.                                                              *)

\* The queue's two buttons, on a request of the local store that waits for White
\* Cell: answer it, or return it.
OpenModal(v, r, event) ==
    /\ modals[v].step = "closed"
    /\ Awaiting(requests[r])
    /\ modals' = [modals EXCEPT ![v] = [step |-> "open", event |-> event, request |-> r,
                                        seen |-> requests[r]]]
    /\ UNCHANGED <<requests, communications, reviews, timeline, forms>>

\* The user cancels, or the request turns out to be completed.
CloseModal(v) ==
    /\ modals[v].step \in {"open", "checked"}
    /\ modals' = [modals EXCEPT ![v] = NoModal]
    /\ UNCHANGED <<requests, communications, reviews, timeline, forms>>

\* handleRfiResponse loads the requests again and goes on when the request still
\* waits, whatever it asks by now; when the refresh fails it goes on unchecked.
CheckLatest(v) ==
    /\ modals[v].step = "open" /\ modals[v].event = "RFI_ANSWERED"
    /\ \E refreshed \in BOOLEAN : refreshed => Awaiting(requests[modals[v].request])
    /\ modals' = [modals EXCEPT ![v].step = "checked"]
    /\ UNCHANGED <<requests, communications, reviews, timeline, forms>>

\* The reply of a write moves the modal on to its timeline row.  Without the reply,
\* or when a call fails, the user is back at the modal.
ModalSaved(v) ==
    \E step \in {"saved", "open"} : modals' = [modals EXCEPT ![v].step = step]

ModalFailed(v) ==
    /\ modals[v].step \in {"checked", "saved"}
    /\ modals' = [modals EXCEPT ![v].step = "open"]
    /\ UNCHANGED <<requests, communications, reviews, timeline, forms>>

\* Mutant: operator_answer_regional_rfi without its stale revision check.
MayAnswerStale(row, expectedRevision) ==
    /\ row.status # "answered" /\ row.workflow_state # "completed"
    /\ Regional => Awaiting(row)

\* Mutant: gc07_legacy_answer_request without its immutability check.
MayAnswerAgain(row, expectedRevision) ==
    Regional => row.revision_number = expectedRevision

\* operator_answer_request only refuses what is completed;
\* operator_answer_regional_rfi asks for a waiting request of the revision read.
MayAnswer(row, expectedRevision) ==
    /\ row.status # "answered" /\ row.workflow_state # "completed"
    /\ Regional => Awaiting(row) /\ row.revision_number = expectedRevision

\* gc07_legacy_answer_request: the answered row and its one communication.
Answer(v) ==
    LET modal == modals[v]
        r == modal.request
    IN  /\ modal.step = "checked" /\ modal.event = "RFI_ANSWERED"
        /\ MayAnswer(requests[r], modal.seen.revision_number)
        /\ requests' = [requests EXCEPT ![r] =
             [@ EXCEPT !.status = "answered", !.workflow_state = "completed"]]
        /\ communications' = [communications EXCEPT ![r] = Append(@,
             [content |-> modal.seen.query,
              revision_number |-> requests[r].revision_number])]
        /\ ModalSaved(v)
        /\ UNCHANGED <<reviews, timeline, forms>>

\* The guard of operator_review_artifact for an RFI.
MayReturn(row, expectedRevision) ==
    Awaiting(row) /\ row.revision_number = expectedRevision

\* Mutant: the state the first review workflow returned to.
ReturnedLegacy(row) ==
    [row EXCEPT !.workflow_state = "returned_to_blue", !.revision_number = @ + 1]

\* Mutant: a return that keeps the revision.
ReturnedKeepingRevision(row) == [row EXCEPT !.workflow_state = "returned_to_team"]

Returned(row) ==
    [row EXCEPT !.workflow_state = "returned_to_team", !.revision_number = @ + 1]

\* operator_review_artifact, decision return_for_clarification.
Return(v) ==
    LET modal == modals[v]
        r == modal.request
    IN  /\ modal.step = "open" /\ modal.event = "RFI_RETURNED_FOR_CLARIFICATION"
        /\ MayReturn(requests[r], modal.seen.revision_number)
        /\ requests[r].revision_number < MaxRevision
        /\ requests' = [requests EXCEPT ![r] = Returned(@)]
        /\ reviews' = [reviews EXCEPT ![r] = Append(@,
             [revision_number |-> requests[r].revision_number,
              prior_workflow_state |-> requests[r].workflow_state])]
        /\ ModalSaved(v)
        /\ UNCHANGED <<communications, timeline, forms>>

\* The timeline row the browser writes after either.
RecordModal(v) ==
    /\ modals[v].step = "saved"
    /\ Logged(modals[v].request, modals[v].event, modals[v].seen.revision_number)
    /\ modals' = [modals EXCEPT ![v] = NoModal]
    /\ UNCHANGED <<requests, communications, reviews, forms>>

-----------------------------------------------------------------------------
FacilitatorStep(f) ==
    \/ OpenNewForm(f)
    \/ \E r \in Requests : OpenRevisionForm(f, r)
    \/ CloseForm(f)
    \/ \E r \in Requests, query \in Questions : Create(f, r, query)
    \/ \E r \in Requests, query \in Questions : RetryCreate(f, r, query)
    \/ \E query \in Questions : Revise(f, query)
    \/ RecordForm(f)

ReviewerStep(v) ==
    \/ \E r \in Requests, event \in {"RFI_ANSWERED", "RFI_RETURNED_FOR_CLARIFICATION"} :
         OpenModal(v, r, event)
    \/ CloseModal(v)
    \/ CheckLatest(v)
    \/ ModalFailed(v)
    \/ Answer(v)
    \/ Return(v)
    \/ RecordModal(v)

Next ==
    \/ \E f \in Facilitators : FacilitatorStep(f)
    \/ \E v \in Reviewers : ReviewerStep(v)

Spec == Init /\ [][Next]_vars

-----------------------------------------------------------------------------
(* Properties.                                                              *)

\* "Non-recipient, duplicate/stale answer rejected": the response a team gets
\* answers the question it asked last, whatever was returned and revised while it
\* was being written.  Only regional Green has it.
AnswersWhatWasAsked ==
    \A r \in Requests : \A i \in 1..Len(communications[r]) :
        communications[r][i].content = requests[r].query

\* A request is answered once, by one response about the revision it stands at,
\* however many reviewers answer and retry; a request still pending has none.
AnsweredOnce ==
    \A r \in Requests :
        LET sent == communications[r]
        IN  IF requests[r].workflow_state = "completed"
            THEN Len(sent) = 1 /\ sent[1].revision_number = requests[r].revision_number
            ELSE sent = <<>>

\* The returns of a request are one chain: the i-th is of revision i, in the state
\* a submission or a resubmission left it, and the request stands one further.
ReturnChain ==
    \A r \in Requests :
        LET chain == reviews[r]
        IN  /\ \A i \in 1..Len(chain) :
                 chain[i] = [revision_number |-> i,
                             prior_workflow_state |-> IF i = 1 THEN "submitted_to_white_cell"
                                                      ELSE "resubmitted"]
            /\ requests[r].status # "absent" =>
                 requests[r].revision_number = Len(chain) + 1

\* As long as a return would be admitted for what a modal shows, the question is
\* the modal's: the revision alone identifies it, since a return opens the revision
\* and only one revision of the question can follow.
ReturnsWhatWasRead ==
    \A v \in Reviewers :
        LET modal == modals[v]
        IN  modal.step \in {"open", "checked"}
              /\ MayReturn(requests[modal.request], modal.seen.revision_number)
            => requests[modal.request].query = modal.seen.query

\* "duplicate/retry paths do not create duplicate consequential records": a form
\* makes one request, however often its answer was lost.  Regional Green only.
RetriesCreateOnce ==
    \A r, t \in Requests :
        r # t /\ requests[r].client_key # Null
          => requests[r].client_key # requests[t].client_key

\* How often a request was submitted: a return has opened the revision after the
\* last submission already.
TimesSubmitted(row) ==
    IF row.workflow_state = "returned_to_team" THEN row.revision_number - 1
                                               ELSE row.revision_number

SubmissionEntry(n) ==
    [type |-> IF n = 1 THEN "RFI_CREATED" ELSE "RFI_RESUBMITTED", revision_number |-> n]

\* Where a timeline speaks of submissions.
Submissions(log) == {i \in 1..Len(log) : log[i].type \in {"RFI_CREATED", "RFI_RESUBMITTED"}}

\* A timeline with every one of so many submissions, each once and in their order.
Records(log, submitted) ==
    /\ \A i \in Submissions(log) : \E n \in 1..submitted : log[i] = SubmissionEntry(n)
    /\ \A n \in 1..submitted : \E i \in Submissions(log) : log[i] = SubmissionEntry(n)
    /\ \A i, j \in Submissions(log) :
         i < j => log[i].revision_number < log[j].revision_number

\* The timeline tells every submission of a regional request once and in order,
\* the first as its creation: a retry adds nothing and no submission goes without.
SubmissionsAreRecorded ==
    \A r \in Requests : Records(timeline[r], TimesSubmitted(requests[r]))
=============================================================================
