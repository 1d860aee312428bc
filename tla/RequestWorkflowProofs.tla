----------------------- MODULE RequestWorkflowProofs -----------------------
(***************************************************************************)
(* Theorems about RequestWorkflow for any requests, questions, keys,       *)
(* sessions and bound, in regional and in unified sessions.                *)
(***************************************************************************)
EXTENDS RequestWorkflow, TLAPS

-----------------------------------------------------------------------------
(* The invariant.                                                           *)

\* A row stands where its returns and its response have brought it.
RowInv(row, chain, sent) ==
    /\ row.status = "absent" =>
          row.workflow_state = "none" /\ row.client_key = Null /\ chain = <<>>
    /\ row.status = "pending" =>
          row.workflow_state \in {"submitted_to_white_cell", "returned_to_team", "resubmitted"}
    /\ row.status = "answered" <=> row.workflow_state = "completed"
    /\ row.status # "absent" => row.revision_number = Len(chain) + 1
    /\ row.workflow_state = "submitted_to_white_cell" => Len(chain) = 0
    /\ row.workflow_state \in {"returned_to_team", "resubmitted"} => Len(chain) > 0
    /\ \A i \in 1..Len(chain) :
          chain[i] = [revision_number |-> i,
                      prior_workflow_state |-> IF i = 1 THEN "submitted_to_white_cell"
                                               ELSE "resubmitted"]
    /\ IF row.workflow_state = "completed"
       THEN Len(sent) = 1 /\ sent[1].revision_number = row.revision_number
       ELSE sent = <<>>
    /\ Regional => \A i \in 1..Len(sent) : sent[i].content = row.query

RowsInv == \A r \in Requests : RowInv(requests[r], reviews[r], communications[r])

\* What a modal shows is the row as it is now, unless that has a later revision: a row
\* that goes back to the team has one.
IsCopy(seen, row) ==
    /\ row.status # "absent"
    /\ seen.revision_number <= row.revision_number
    /\ seen.revision_number = row.revision_number =>
          seen.query = row.query /\ row.workflow_state # "returned_to_team"

ModalInv(modal) ==
    modal.step # "closed" =>
        /\ modal.request \in Requests /\ modal.event \in Events
        /\ IsCopy(modal.seen, requests[modal.request])

ModalsInv == \A v \in Reviewers : ModalInv(modals[v])

\* Only regional forms have client keys.
KeysInv ==
    /\ RetriesCreateOnce
    /\ ~Regional => \A f \in Facilitators : forms[f].key = Null

IInv ==
    /\ TypeOK
    /\ RowsInv
    /\ ModalsInv
    /\ KeysInv

-----------------------------------------------------------------------------
(* Rows, forms and modals, field by field.                                  *)

LEMMA AbsentRowType == AbsentRow \in Rows
BY DEF AbsentRow, Rows, Statuses, WorkflowStates

LEMMA NewRowFields ==
    ASSUME NEW query \in Questions, NEW key \in Keys \cup {Null}
    PROVE  /\ NewRow(query, key) \in Rows
           /\ NewRow(query, key).status = "pending"
           /\ NewRow(query, key).workflow_state = "submitted_to_white_cell"
           /\ NewRow(query, key).revision_number = 1
           /\ NewRow(query, key).query = query
           /\ NewRow(query, key).client_key = key
BY DEF NewRow, Rows, Statuses, WorkflowStates

LEMMA ResubmittedFields ==
    ASSUME NEW row \in Rows, NEW query \in Questions, row.workflow_state = "returned_to_team"
    PROVE  LET new == Resubmitted(row, query)
           IN  /\ new \in Rows
               /\ new.status = row.status
               /\ new.workflow_state = "resubmitted"
               /\ new.revision_number = row.revision_number
               /\ new.query = query
               /\ new.client_key = row.client_key
<1> DEFINE asked == [row EXCEPT !.query = query]
           stated == [asked EXCEPT !.workflow_state = "resubmitted"]
<1>1. /\ asked \in Rows /\ asked.status = row.status
      /\ asked.revision_number = row.revision_number
      /\ asked.query = query /\ asked.client_key = row.client_key
    BY DEF Rows
<1>2. /\ stated \in Rows /\ stated.status = row.status
      /\ stated.workflow_state = "resubmitted"
      /\ stated.revision_number = row.revision_number
      /\ stated.query = query /\ stated.client_key = row.client_key
    <2> HIDE DEF asked
    <2>1. QED BY <1>1 DEF Rows, WorkflowStates
<1>3. Resubmitted(row, query) = [stated EXCEPT !.revision_number = @]
    BY Zenon DEF Resubmitted
<1> HIDE DEF stated
<1>4. QED BY <1>2, <1>3 DEF Rows

LEMMA ReturnedFields ==
    ASSUME NEW row \in Rows
    PROVE  /\ Returned(row) \in Rows
           /\ Returned(row).status = row.status
           /\ Returned(row).workflow_state = "returned_to_team"
           /\ Returned(row).revision_number = row.revision_number + 1
           /\ Returned(row).query = row.query
           /\ Returned(row).client_key = row.client_key
<1>1. row.revision_number + 1 \in Nat BY DEF Rows
<1>2. QED BY <1>1 DEF Returned, Rows, WorkflowStates

LEMMA AnsweredFields ==
    ASSUME NEW row \in Rows
    PROVE  LET new == [row EXCEPT !.status = "answered", !.workflow_state = "completed"]
           IN  /\ new \in Rows
               /\ new.status = "answered" /\ new.workflow_state = "completed"
               /\ new.revision_number = row.revision_number
               /\ new.query = row.query
               /\ new.client_key = row.client_key
BY DEF Rows, Statuses, WorkflowStates

LEMMA FormTypes ==
    /\ NoForm \in Forms /\ NoForm.key = Null
    /\ \A key \in Keys \cup {Null} :
          /\ [NoForm EXCEPT !.step = "open", !.key = key] \in Forms
          /\ [NoForm EXCEPT !.step = "open", !.key = key].key = key
    /\ [NoForm EXCEPT !.step = "open"] \in Forms
    /\ [NoForm EXCEPT !.step = "open"].key = Null
    /\ \A r \in Requests, row \in Rows :
          /\ [NoForm EXCEPT !.step = "open", !.request = r, !.seen = row] \in Forms
          /\ [NoForm EXCEPT !.step = "open", !.request = r, !.seen = row].key = Null
    /\ \A form \in Forms :
          /\ [form EXCEPT !.step = "open"] \in Forms
          /\ [form EXCEPT !.step = "open"].key = form.key
    /\ \A form \in Forms, r \in Requests, row \in Rows :
          /\ [form EXCEPT !.step = "saved", !.request = r, !.seen = row] \in Forms
          /\ [form EXCEPT !.step = "saved", !.request = r, !.seen = row].key = form.key
BY AbsentRowType DEF Forms, NoForm

LEMMA ModalTypes ==
    /\ NoModal \in Modals /\ NoModal.step = "closed"
    /\ \A modal \in Modals, step \in {"open", "checked", "saved"} :
          /\ [modal EXCEPT !.step = step] \in Modals
          /\ [modal EXCEPT !.step = step].request = modal.request
          /\ [modal EXCEPT !.step = step].event = modal.event
          /\ [modal EXCEPT !.step = step].seen = modal.seen
BY AbsentRowType DEF Modals, NoModal

-----------------------------------------------------------------------------
(* What steps do to rows, and what that means for the copies of them.       *)

\* A row does not vanish or lose revisions, and what it asks and that it is with White
\* Cell does not change within a revision.
Progress(old, new) ==
    old.status # "absent" =>
        /\ new.status # "absent"
        /\ old.revision_number <= new.revision_number
        /\ old.revision_number = new.revision_number /\ old.workflow_state # "returned_to_team"
             => new.query = old.query /\ new.workflow_state # "returned_to_team"

LEMMA CopyKept ==
    ASSUME NEW seen \in Rows, NEW old \in Rows, NEW new \in Rows,
           IsCopy(seen, old), Progress(old, new)
    PROVE  IsCopy(seen, new)
<1>1. /\ seen.revision_number \in Nat /\ old.revision_number \in Nat
      /\ new.revision_number \in Nat
    BY DEF Rows
<1>2. QED BY <1>1 DEF IsCopy, Progress

\* A modal stays, closes, or goes on to another step.
ModalsKept ==
    \A v \in Reviewers :
        \/ modals'[v] = modals[v]
        \/ modals'[v].step = "closed"
        \/ /\ modals[v].step # "closed"
           /\ modals'[v].request = modals[v].request
           /\ modals'[v].event = modals[v].event
           /\ modals'[v].seen = modals[v].seen

LEMMA ModalsStep ==
    ASSUME requests \in [Requests -> Rows], requests' \in [Requests -> Rows],
           modals \in [Reviewers -> Modals], ModalsInv, ModalsKept,
           \A r \in Requests : Progress(requests[r], requests'[r])
    PROVE  ModalsInv'
<1> SUFFICES ASSUME NEW v \in Reviewers, modals'[v].step # "closed"
             PROVE  /\ modals'[v].request \in Requests /\ modals'[v].event \in Events
                    /\ IsCopy(modals'[v].seen, requests'[modals'[v].request])
    BY DEF ModalsInv, ModalInv
<1>1. /\ modals[v].step # "closed" /\ modals'[v].request = modals[v].request
      /\ modals'[v].event = modals[v].event /\ modals'[v].seen = modals[v].seen
    BY DEF ModalsKept
<1>2. /\ modals[v].request \in Requests /\ modals[v].event \in Events
      /\ IsCopy(modals[v].seen, requests[modals[v].request])
    BY <1>1 DEF ModalsInv, ModalInv
<1>3. modals[v].seen \in Rows BY DEF Modals
<1>4. requests[modals[v].request] \in Rows /\ requests'[modals[v].request] \in Rows BY <1>2
<1>5. QED BY <1>1, <1>2, <1>3, <1>4, CopyKept

LEMMA SameProgress == \A row \in Rows : Progress(row, row)
<1> SUFFICES ASSUME NEW row \in Rows PROVE Progress(row, row) OBVIOUS
<1>1. row.revision_number \in Nat BY DEF Rows
<1>2. QED BY <1>1 DEF Progress

\* One reviewer goes on to another step of the modal, or closes it.
LEMMA ModalMoves ==
    ASSUME modals \in [Reviewers -> Modals], NEW v \in Reviewers,
           \/ modals' = [modals EXCEPT ![v] = NoModal]
           \/ /\ modals[v].step # "closed"
              /\ \E step \in {"open", "checked", "saved"} :
                    modals' = [modals EXCEPT ![v].step = step]
    PROVE  modals' \in [Reviewers -> Modals] /\ ModalsKept
<1>1. CASE modals' = [modals EXCEPT ![v] = NoModal]
    BY <1>1, ModalTypes DEF ModalsKept
<1>2. ASSUME modals[v].step # "closed", NEW step \in {"open", "checked", "saved"},
             modals' = [modals EXCEPT ![v].step = step]
      PROVE  modals' \in [Reviewers -> Modals] /\ ModalsKept
    <2> DEFINE modal == [modals[v] EXCEPT !.step = step]
    <2>1. /\ modal \in Modals /\ modal.request = modals[v].request
          /\ modal.event = modals[v].event /\ modal.seen = modals[v].seen
        BY ModalTypes
    <2>2. modals' = [modals EXCEPT ![v] = modal] BY <1>2
    <2> HIDE DEF modal
    <2>3. QED BY <1>2, <2>1, <2>2 DEF ModalsKept
<1>3. QED BY <1>1, <1>2

LEMMA RowsStep ==
    ASSUME TypeOK, RowsInv, NEW r \in Requests, NEW row \in Rows,
           requests' = [requests EXCEPT ![r] = row],
           RowInv(row, reviews'[r], communications'[r]),
           \A other \in Requests \ {r} :
              reviews'[other] = reviews[other] /\ communications'[other] = communications[other]
    PROVE  RowsInv'
<1>1. requests'[r] = row /\ \A other \in Requests \ {r} : requests'[other] = requests[other]
    BY DEF TypeOK
<1>2. QED BY <1>1 DEF RowsInv

LEMMA SameRows ==
    ASSUME RowsInv, UNCHANGED <<requests, reviews, communications>>
    PROVE  RowsInv'
BY DEF RowsInv

LEMMA SameKeys ==
    ASSUME KeysInv, \A r \in Requests : requests'[r].client_key = requests[r].client_key,
           ~Regional => \A f \in Facilitators : forms'[f].key = Null
    PROVE  KeysInv'
BY DEF KeysInv, RetriesCreateOnce

LEMMA AppendedType ==
    ASSUME NEW S, NEW log \in [Requests -> Seq(S)], NEW e \in S, NEW r
    PROVE  [log EXCEPT ![r] = Append(log[r], e)] \in [Requests -> Seq(S)]
<1>1. CASE r \in Requests
    <2>1. log[r] \in Seq(S) BY <1>1
    <2>2. Append(log[r], e) \in Seq(S) BY <2>1
    <2>3. QED BY <2>2, Zenon
<1>2. CASE r \notin Requests
    <2>1. [log EXCEPT ![r] = Append(log[r], e)] = log BY <1>2
    <2>2. QED BY <2>1
<1>3. QED BY <1>1, <1>2

LEMMA LoggedType ==
    ASSUME timeline \in [Requests -> Seq(Entries)], NEW r, NEW type \in Events, NEW revision \in Nat,
           Logged(r, type, revision)
    PROVE  timeline' \in [Requests -> Seq(Entries)]
<1> DEFINE entry == [type |-> type, revision_number |-> revision]
<1>1. entry \in Entries BY DEF Entries
<1>2. timeline' = [timeline EXCEPT ![r] = Append(timeline[r], entry)] BY DEF Logged
<1> HIDE DEF entry
<1>3. QED BY <1>1, <1>2, AppendedType

-----------------------------------------------------------------------------
(* The Facilitator's steps.                                                 *)

\* A step that changes nothing but forms.
LEMMA FormOnly ==
    ASSUME IInv, NEW f \in Facilitators, NEW form \in Forms,
           forms' = [forms EXCEPT ![f] = form], ~Regional => form.key = Null,
           timeline' \in [Requests -> Seq(Entries)],
           UNCHANGED <<requests, communications, reviews, modals>>
    PROVE  IInv'
<1>1. TypeOK BY DEF IInv
<1>2. forms' \in [Facilitators -> Forms] BY <1>1 DEF TypeOK
<1>3. TypeOK' BY <1>1, <1>2 DEF TypeOK
<1>4. RowsInv' BY SameRows DEF IInv
<1>5. ModalsInv' BY DEF IInv, ModalsInv, ModalInv
<1>6. ~Regional => \A g \in Facilitators : forms'[g].key = Null
    BY <1>1 DEF TypeOK, IInv, KeysInv
<1>7. KeysInv' BY <1>6, SameKeys DEF IInv
<1>8. QED BY <1>3, <1>4, <1>5, <1>7 DEF IInv

LEMMA OpenNewFormInv ==
    ASSUME IInv, NEW f \in Facilitators, OpenNewForm(f)
    PROVE  IInv'
<1>1. PICK key \in IF Regional THEN Keys ELSE {Null} :
         forms' = [forms EXCEPT ![f] = [NoForm EXCEPT !.step = "open", !.key = key]]
    BY DEF OpenNewForm
<1> DEFINE form == [NoForm EXCEPT !.step = "open", !.key = key]
<1>2. form \in Forms /\ form.key = key BY <1>1, FormTypes
<1>3. UNCHANGED <<requests, communications, reviews, timeline, modals>> BY DEF OpenNewForm
<1>4. forms' = [forms EXCEPT ![f] = form] BY <1>1
<1> HIDE DEF form
<1>5. timeline' \in [Requests -> Seq(Entries)] BY <1>3 DEF IInv, TypeOK
<1>6. QED BY <1>1, <1>2, <1>3, <1>4, <1>5, FormOnly

LEMMA OpenRevisionFormInv ==
    ASSUME IInv, NEW f \in Facilitators, NEW r \in Requests, OpenRevisionForm(f, r)
    PROVE  IInv'
<1> DEFINE form == [NoForm EXCEPT !.step = "open", !.request = r, !.seen = requests[r]]
<1>1. forms' = [forms EXCEPT ![f] = form]
      /\ UNCHANGED <<requests, communications, reviews, timeline, modals>>
    BY DEF OpenRevisionForm
<1>2. form \in Forms /\ form.key = Null
    <2>1. requests[r] \in Rows BY DEF IInv, TypeOK
    <2>2. QED BY <2>1, FormTypes
<1> HIDE DEF form
<1>3. timeline' \in [Requests -> Seq(Entries)] BY <1>1 DEF IInv, TypeOK
<1>4. QED BY <1>1, <1>2, <1>3, FormOnly

\* Cancelling, and a retry that finds its row, leave no form.
LEMMA FormClosed ==
    ASSUME IInv, NEW f \in Facilitators, forms' = [forms EXCEPT ![f] = NoForm],
           UNCHANGED <<requests, communications, reviews, timeline, modals>>
    PROVE  IInv'
<1>1. timeline' \in [Requests -> Seq(Entries)] BY DEF IInv, TypeOK
<1>2. QED BY <1>1, FormTypes, FormOnly

LEMMA RecordFormInv ==
    ASSUME IInv, NEW f \in Facilitators, RecordForm(f)
    PROVE  IInv'
<1> DEFINE form == forms[f]
           isNew == form.seen.workflow_state = "submitted_to_white_cell"
           type == IF isNew THEN "RFI_CREATED" ELSE "RFI_RESUBMITTED"
           again == IF isNew THEN [NoForm EXCEPT !.step = "open"] ELSE [form EXCEPT !.step = "open"]
<1>1. TypeOK /\ form \in Forms BY DEF IInv, TypeOK
<1>2. UNCHANGED <<requests, communications, reviews, modals>> BY DEF RecordForm
<1>3. ~Regional => form.key = Null BY DEF IInv, KeysInv
<1>4. type \in Events /\ form.seen.revision_number \in Nat
    BY <1>1 DEF Events, Forms, Rows
<1>5. again \in Forms /\ (~Regional => again.key = Null) BY <1>1, <1>3, FormTypes
<1>6. \/ /\ Logged(form.request, type, form.seen.revision_number)
         /\ forms' = [forms EXCEPT ![f] = NoForm]
      \/ UNCHANGED timeline /\ forms' = [forms EXCEPT ![f] = again]
    BY DEF RecordForm
<1> HIDE DEF type, again, isNew, form
<1>7. timeline' \in [Requests -> Seq(Entries)]
    <2>1. timeline \in [Requests -> Seq(Entries)] BY <1>1 DEF TypeOK
    <2>2. QED BY <1>4, <1>6, <2>1, LoggedType
<1>8. NoForm \in Forms /\ NoForm.key = Null BY FormTypes
<1>9. QED BY <1>2, <1>5, <1>6, <1>7, <1>8, FormOnly

\* What saving a form does besides the row.
LEMMA FormSavedTypes ==
    ASSUME IInv, NEW f \in Facilitators, NEW r \in Requests, NEW type \in Events,
           requests' \in [Requests -> Rows], FormSaved(f, r, type)
    PROVE  /\ timeline' \in [Requests -> Seq(Entries)]
           /\ forms' \in [Facilitators -> Forms]
           /\ ~Regional => \A g \in Facilitators : forms'[g].key = Null
<1>1. /\ timeline \in [Requests -> Seq(Entries)] /\ forms \in [Facilitators -> Forms]
      /\ ~Regional => \A g \in Facilitators : forms[g].key = Null
    BY DEF IInv, TypeOK, KeysInv
<1>2. requests'[r] \in Rows /\ requests'[r].revision_number \in Nat BY DEF Rows
<1>3. timeline' \in [Requests -> Seq(Entries)] BY <1>1, <1>2, LoggedType DEF FormSaved
<1> DEFINE saved == [forms[f] EXCEPT !.step = "saved", !.request = r, !.seen = requests'[r]]
           form == IF Regional THEN NoForm ELSE saved
<1>4. saved \in Forms /\ saved.key = forms[f].key
    <2>1. forms[f] \in Forms /\ requests'[r] \in Rows BY <1>1, <1>2
    <2>2. ASSUME NEW held \in Forms, NEW row \in Rows
          PROVE  LET new == [held EXCEPT !.step = "saved", !.request = r, !.seen = row]
                 IN  new \in Forms /\ new.key = held.key
        BY FormTypes, Zenon
    <2>3. QED BY <2>1, <2>2, Zenon
<1>5. forms' = [forms EXCEPT ![f] = form] \/ UNCHANGED forms BY Zenon DEF FormSaved
<1> HIDE DEF saved
<1>6. form \in Forms /\ (~Regional => form.key = Null) BY <1>1, <1>4, FormTypes
<1> HIDE DEF form
<1>7. QED BY <1>1, <1>3, <1>5, <1>6

LEMMA CreateInv ==
    ASSUME IInv, NEW f \in Facilitators, NEW r \in Requests, NEW query \in Questions,
           Create(f, r, query)
    PROVE  IInv'
<1> DEFINE key == forms[f].key
           row == NewRow(query, key)
<1>1. /\ TypeOK /\ requests \in [Requests -> Rows] /\ key \in Keys \cup {Null}
      /\ (~Regional => key = Null)
    BY DEF IInv, TypeOK, Forms, KeysInv
<1>2. /\ requests[r].status = "absent" /\ requests' = [requests EXCEPT ![r] = row]
      /\ EarlierAttempts(key) = {} /\ FormSaved(f, r, "RFI_CREATED")
      /\ UNCHANGED <<communications, reviews, modals>>
    BY DEF Create
<1>3. /\ row \in Rows /\ row.status = "pending"
      /\ row.workflow_state = "submitted_to_white_cell" /\ row.revision_number = 1
      /\ row.client_key = key
    BY <1>1, NewRowFields
<1> HIDE DEF row, key
<1>4. requests' \in [Requests -> Rows] BY <1>1, <1>2, <1>3
<1>5. /\ timeline' \in [Requests -> Seq(Entries)] /\ forms' \in [Facilitators -> Forms]
      /\ ~Regional => \A g \in Facilitators : forms'[g].key = Null
    BY <1>2, <1>4, FormSavedTypes DEF Events
<1>6. TypeOK' BY <1>1, <1>2, <1>4, <1>5 DEF TypeOK
<1>7. RowInv(requests[r], reviews[r], communications[r]) BY DEF IInv, RowsInv
<1>8. reviews[r] = <<>> /\ communications[r] = <<>>
    BY <1>2, <1>7 DEF RowInv
<1>9. RowInv(row, reviews'[r], communications'[r]) BY <1>2, <1>3, <1>8 DEF RowInv
<1>10. RowsInv' BY <1>1, <1>2, <1>3, <1>9, RowsStep DEF IInv
<1>11. \A other \in Requests : Progress(requests[other], requests'[other])
    BY <1>1, <1>2, SameProgress DEF Progress
<1>12. ModalsInv'
    <2>1. ModalsKept BY <1>2 DEF ModalsKept
    <2>2. modals \in [Reviewers -> Modals] BY <1>1 DEF TypeOK
    <2>3. QED BY <1>1, <1>4, <1>11, <2>1, <2>2, ModalsStep DEF IInv
<1>13. RetriesCreateOnce'
    <2>1. \A other \in Requests : key # Null => requests[other].client_key # key
        BY <1>1, <1>2 DEF EarlierAttempts
    <2>2. RetriesCreateOnce BY DEF IInv, KeysInv
    <2>3. requests'[r].client_key = key
          /\ \A other \in Requests \ {r} : requests'[other] = requests[other]
        BY <1>1, <1>2, <1>3
    <2>4. QED BY <2>1, <2>2, <2>3 DEF RetriesCreateOnce
<1>14. KeysInv' BY <1>5, <1>13 DEF KeysInv
<1>15. QED BY <1>6, <1>10, <1>12, <1>14 DEF IInv

LEMMA ReviseInv ==
    ASSUME IInv, NEW f \in Facilitators, NEW query \in Questions, Revise(f, query)
    PROVE  IInv'
<1> DEFINE r == forms[f].request
           old == requests[r]
           row == Resubmitted(old, query)
<1>1. /\ TypeOK /\ requests \in [Requests -> Rows] /\ r \in Requests
    BY DEF IInv, TypeOK, Forms, Revise
<1>2. /\ old.status = "pending" /\ old.workflow_state = "returned_to_team"
      /\ requests' = [requests EXCEPT ![r] = row] /\ FormSaved(f, r, "RFI_RESUBMITTED")
      /\ UNCHANGED <<communications, reviews, modals>>
    BY DEF Revise, MayRevise
<1>3. old \in Rows BY <1>1
<1> HIDE DEF r
<1>4. /\ row \in Rows /\ row.status = old.status /\ row.workflow_state = "resubmitted"
      /\ row.revision_number = old.revision_number /\ row.client_key = old.client_key
    BY <1>2, <1>3, ResubmittedFields
<1> HIDE DEF row
<1>5. requests' \in [Requests -> Rows] BY <1>1, <1>2, <1>4
<1>6. /\ timeline' \in [Requests -> Seq(Entries)] /\ forms' \in [Facilitators -> Forms]
      /\ ~Regional => \A g \in Facilitators : forms'[g].key = Null
    BY <1>1, <1>2, <1>5, FormSavedTypes DEF Events
<1>7. TypeOK' BY <1>1, <1>2, <1>5, <1>6 DEF TypeOK
<1>8. RowInv(old, reviews[r], communications[r]) BY <1>1 DEF IInv, RowsInv
<1>9. RowInv(row, reviews'[r], communications'[r])
    <2>1. communications[r] = <<>> BY <1>2, <1>8 DEF RowInv
    <2>2. QED BY <1>2, <1>4, <1>8, <2>1 DEF RowInv
<1>10. RowsInv' BY <1>1, <1>2, <1>4, <1>9, RowsStep DEF IInv
<1>11. \A other \in Requests : Progress(requests[other], requests'[other])
    <2>1. Progress(old, row)
        <3>1. old.revision_number \in Nat BY <1>3 DEF Rows
        <3>2. QED BY <1>2, <1>4, <3>1 DEF Progress
    <2>2. QED BY <1>1, <1>2, <2>1, SameProgress
<1>12. ModalsInv'
    <2>1. ModalsKept BY <1>2 DEF ModalsKept
    <2>2. modals \in [Reviewers -> Modals] BY <1>1 DEF TypeOK
    <2>3. QED BY <1>1, <1>5, <1>11, <2>1, <2>2, ModalsStep DEF IInv
<1>13. \A other \in Requests : requests'[other].client_key = requests[other].client_key
    BY <1>1, <1>2, <1>4
<1>14. KeysInv' BY <1>6, <1>13, SameKeys DEF IInv
<1>15. QED BY <1>7, <1>10, <1>12, <1>14 DEF IInv

LEMMA FacilitatorInv ==
    ASSUME IInv, NEW f \in Facilitators, FacilitatorStep(f)
    PROVE  IInv'
<1>1. CASE CloseForm(f) BY <1>1, FormClosed DEF CloseForm
<1>2. ASSUME NEW r \in Requests, NEW query \in Questions, RetryCreate(f, r, query)
      PROVE  IInv'
    BY <1>2, FormClosed DEF RetryCreate, AttemptFound
<1>3. QED
    BY <1>1, <1>2, OpenNewFormInv, OpenRevisionFormInv, CreateInv, ReviseInv, RecordFormInv
    DEF FacilitatorStep

-----------------------------------------------------------------------------
(* White Cell's steps.                                                      *)

\* A step that changes nothing but modals, and perhaps the timeline.
LEMMA ModalOnly ==
    ASSUME IInv, modals' \in [Reviewers -> Modals], ModalsInv',
           timeline' \in [Requests -> Seq(Entries)],
           UNCHANGED <<requests, communications, reviews, forms>>
    PROVE  IInv'
<1>1. TypeOK' BY DEF IInv, TypeOK
<1>2. RowsInv' BY SameRows DEF IInv
<1>3. KeysInv' BY DEF IInv, KeysInv, RetriesCreateOnce
<1>4. QED BY <1>1, <1>2, <1>3 DEF IInv

LEMMA OpenModalInv ==
    ASSUME IInv, NEW v \in Reviewers, NEW r \in Requests,
           NEW event \in {"RFI_ANSWERED", "RFI_RETURNED_FOR_CLARIFICATION"}, OpenModal(v, r, event)
    PROVE  IInv'
<1> DEFINE modal == [step |-> "open", event |-> event, request |-> r, seen |-> requests[r]]
<1>1. TypeOK /\ modals \in [Reviewers -> Modals] /\ requests[r] \in Rows BY DEF IInv, TypeOK
<1>2. /\ Awaiting(requests[r]) /\ modals' = [modals EXCEPT ![v] = modal]
      /\ UNCHANGED <<requests, communications, reviews, timeline, forms>>
    BY DEF OpenModal
<1>3. /\ modal \in Modals /\ modal.request = r /\ modal.event \in Events
      /\ modal.seen = requests[r]
    BY <1>1 DEF Modals, Events
<1> HIDE DEF modal
<1>4. modals' \in [Reviewers -> Modals] BY <1>1, <1>2, <1>3
<1>5. IsCopy(requests[r], requests[r])
    <2>1. requests[r].revision_number \in Nat BY <1>1 DEF Rows
    <2>2. QED BY <1>2, <2>1 DEF IsCopy, Awaiting
<1>6. ModalsInv'
    <2>1. ModalInv(modal) BY <1>3, <1>5 DEF ModalInv
    <2>2. \A w \in Reviewers : ModalInv(modals'[w]) BY <1>1, <1>2, <2>1 DEF IInv, ModalsInv
    <2>3. QED BY <1>2, <2>2 DEF ModalsInv, ModalInv
<1>7. timeline' \in [Requests -> Seq(Entries)] BY <1>1, <1>2 DEF TypeOK
<1>8. QED BY <1>2, <1>4, <1>6, <1>7, ModalOnly

\* A modal goes on or closes without a write to the row.
LEMMA ModalMovesInv ==
    ASSUME IInv, NEW v \in Reviewers,
           \/ modals' = [modals EXCEPT ![v] = NoModal]
           \/ /\ modals[v].step # "closed"
              /\ \E step \in {"open", "checked", "saved"} :
                    modals' = [modals EXCEPT ![v].step = step],
           timeline' \in [Requests -> Seq(Entries)],
           UNCHANGED <<requests, communications, reviews, forms>>
    PROVE  IInv'
<1>1. /\ modals \in [Reviewers -> Modals] /\ requests \in [Requests -> Rows]
      /\ requests' \in [Requests -> Rows]
    BY DEF IInv, TypeOK
<1>2. modals' \in [Reviewers -> Modals] /\ ModalsKept BY <1>1, ModalMoves
<1>3. \A r \in Requests : Progress(requests[r], requests'[r]) BY <1>1, SameProgress
<1>4. ModalsInv' BY <1>1, <1>2, <1>3, ModalsStep DEF IInv
<1>5. QED BY <1>2, <1>4, ModalOnly

LEMMA RecordModalInv ==
    ASSUME IInv, NEW v \in Reviewers, RecordModal(v)
    PROVE  IInv'
<1>1. /\ modals[v].step = "saved" /\ modals' = [modals EXCEPT ![v] = NoModal]
      /\ Logged(modals[v].request, modals[v].event, modals[v].seen.revision_number)
      /\ UNCHANGED <<requests, communications, reviews, forms>>
    BY DEF RecordModal
<1>2. timeline \in [Requests -> Seq(Entries)] /\ modals[v] \in Modals BY DEF IInv, TypeOK
<1>3. modals[v].event \in Events BY <1>1 DEF IInv, ModalsInv, ModalInv
<1>4. modals[v].seen.revision_number \in Nat BY <1>2 DEF Modals, Rows
<1>5. timeline' \in [Requests -> Seq(Entries)] BY <1>1, <1>2, <1>3, <1>4, LoggedType
<1>6. QED BY <1>1, <1>5, ModalMovesInv

LEMMA AnswerInv ==
    ASSUME IInv, NEW v \in Reviewers, Answer(v)
    PROVE  IInv'
<1> DEFINE modal == modals[v]
           r == modal.request
           old == requests[r]
           row == [old EXCEPT !.status = "answered", !.workflow_state = "completed"]
           sent == [content |-> modal.seen.query, revision_number |-> old.revision_number]
<1>1. /\ TypeOK /\ requests \in [Requests -> Rows] /\ modals \in [Reviewers -> Modals]
      /\ communications \in [Requests -> Seq(Responses)] /\ modal \in Modals
    BY DEF IInv, TypeOK
<1>2. /\ modal.step = "checked" /\ MayAnswer(old, modal.seen.revision_number)
      /\ requests' = [requests EXCEPT ![r] = row]
      /\ communications' = [communications EXCEPT ![r] = Append(communications[r], sent)]
      /\ ModalSaved(v) /\ UNCHANGED <<reviews, timeline, forms>>
    BY DEF Answer
<1>3. r \in Requests /\ IsCopy(modal.seen, old) BY <1>2 DEF IInv, ModalsInv, ModalInv
<1>4. old \in Rows /\ old.revision_number \in Nat /\ modal.seen.query \in Questions \cup {Null}
    BY <1>1, <1>3 DEF Rows, Modals
<1>5. /\ row \in Rows /\ row.status = "answered" /\ row.workflow_state = "completed"
      /\ row.revision_number = old.revision_number /\ row.query = old.query
      /\ row.client_key = old.client_key
    BY <1>4, AnsweredFields
<1>6. sent \in Responses /\ sent.content = modal.seen.query
      /\ sent.revision_number = old.revision_number
    BY <1>4 DEF Responses
<1>7. modals' \in [Reviewers -> Modals] /\ ModalsKept
    BY <1>1, <1>2, ModalMoves DEF ModalSaved
<1> HIDE DEF row, sent, r, modal
<1>8. requests' \in [Requests -> Rows] BY <1>1, <1>2, <1>5
<1>9. communications' \in [Requests -> Seq(Responses)] BY <1>1, <1>2, <1>6, AppendedType
<1>10. TypeOK' BY <1>1, <1>2, <1>7, <1>8, <1>9 DEF TypeOK
<1>11. RowInv(old, reviews[r], communications[r]) BY <1>3 DEF IInv, RowsInv
<1>12. communications[r] = <<>> /\ old.status # "absent"
    BY <1>2, <1>3, <1>11 DEF RowInv, MayAnswer, IsCopy
<1>13. communications'[r] = <<sent>>
    <2>1. communications'[r] = Append(<<>>, sent) BY <1>1, <1>2, <1>3, <1>12
    <2>2. QED BY <2>1
<1>14. Regional => sent.content = row.query
    <2>1. Regional => old.revision_number = modal.seen.revision_number BY <1>2 DEF MayAnswer
    <2>2. QED BY <1>3, <1>5, <1>6, <2>1 DEF IsCopy
<1>15. RowInv(row, reviews'[r], communications'[r])
    <2>1. /\ Len(communications'[r]) = 1 /\ communications'[r][1] = sent
          /\ \A i \in 1..Len(communications'[r]) : communications'[r][i] = sent
        BY <1>13
    <2>2. QED BY <1>2, <1>5, <1>6, <1>11, <1>12, <1>14, <2>1 DEF RowInv
<1>16. \A other \in Requests \ {r} :
          reviews'[other] = reviews[other] /\ communications'[other] = communications[other]
    BY <1>1, <1>2
<1>17. RowsInv' BY <1>1, <1>2, <1>3, <1>5, <1>15, <1>16, RowsStep DEF IInv
<1>18. \A other \in Requests : Progress(requests[other], requests'[other])
    <2>1. Progress(old, row) BY <1>4, <1>5 DEF Progress
    <2>2. QED BY <1>1, <1>2, <1>3, <2>1, SameProgress
<1>19. ModalsInv' BY <1>1, <1>7, <1>8, <1>18, ModalsStep DEF IInv
<1>20. KeysInv'
    <2>1. \A other \in Requests : requests'[other].client_key = requests[other].client_key
        BY <1>1, <1>2, <1>5
    <2>2. ~Regional => \A f \in Facilitators : forms'[f].key = Null
        BY <1>2 DEF IInv, KeysInv
    <2>3. QED BY <2>1, <2>2, SameKeys DEF IInv
<1>21. QED BY <1>10, <1>17, <1>19, <1>20 DEF IInv

LEMMA ReturnInv ==
    ASSUME IInv, NEW v \in Reviewers, Return(v)
    PROVE  IInv'
<1> DEFINE modal == modals[v]
           r == modal.request
           old == requests[r]
           row == Returned(old)
           review == [revision_number |-> old.revision_number,
                      prior_workflow_state |-> old.workflow_state]
<1>1. /\ TypeOK /\ requests \in [Requests -> Rows] /\ modals \in [Reviewers -> Modals]
      /\ reviews \in [Requests -> Seq(Returns)] /\ modal \in Modals
    BY DEF IInv, TypeOK
<1>2. /\ modal.step = "open" /\ Awaiting(old)
      /\ requests' = [requests EXCEPT ![r] = row]
      /\ reviews' = [reviews EXCEPT ![r] = Append(reviews[r], review)]
      /\ ModalSaved(v) /\ UNCHANGED <<communications, timeline, forms>>
    BY DEF Return, MayReturn
<1>3. r \in Requests BY <1>2 DEF IInv, ModalsInv, ModalInv
<1>4. old \in Rows /\ old.revision_number \in Nat /\ old.workflow_state \in WorkflowStates
    BY <1>1, <1>3 DEF Rows
<1>5. /\ row \in Rows /\ row.status = old.status /\ row.workflow_state = "returned_to_team"
      /\ row.revision_number = old.revision_number + 1 /\ row.query = old.query
      /\ row.client_key = old.client_key
    BY <1>4, ReturnedFields
<1>6. review \in Returns BY <1>4 DEF Returns
<1>7. modals' \in [Reviewers -> Modals] /\ ModalsKept
    BY <1>1, <1>2, ModalMoves DEF ModalSaved
<1> DEFINE chain == reviews[r]
<1>8. chain \in Seq(Returns) BY <1>1, <1>3
<1> HIDE DEF row, r, modal
<1>9. requests' \in [Requests -> Rows] BY <1>1, <1>2, <1>5
<1>10. reviews' \in [Requests -> Seq(Returns)]
    <2> HIDE DEF review
    <2>1. QED BY <1>1, <1>2, <1>6, AppendedType
<1>11. TypeOK' BY <1>1, <1>2, <1>7, <1>9, <1>10 DEF TypeOK
<1>12. RowInv(old, chain, communications[r]) BY <1>3 DEF IInv, RowsInv
<1>13. /\ old.revision_number = Len(chain) + 1 /\ Len(chain) \in Nat
       /\ old.workflow_state = IF Len(chain) + 1 = 1 THEN "submitted_to_white_cell"
                               ELSE "resubmitted"
    BY <1>2, <1>8, <1>12 DEF RowInv, Awaiting
<1>14. reviews'[r] = Append(chain, review) BY <1>1, <1>2, <1>3
<1>15. /\ Len(reviews'[r]) = Len(chain) + 1
       /\ \A i \in 1..Len(chain) : reviews'[r][i] = chain[i]
       /\ reviews'[r][Len(chain) + 1] = review
    <2> HIDE DEF review, chain
    <2>1. QED BY <1>6, <1>8, <1>14
<1>16. \A i \in 1..Len(reviews'[r]) :
          reviews'[r][i] = [revision_number |-> i,
                            prior_workflow_state |-> IF i = 1 THEN "submitted_to_white_cell"
                                                     ELSE "resubmitted"]
    <2> SUFFICES ASSUME NEW i \in 1..Len(chain) + 1
                 PROVE  reviews'[r][i]
                          = [revision_number |-> i,
                             prior_workflow_state |-> IF i = 1 THEN "submitted_to_white_cell"
                                                      ELSE "resubmitted"]
        BY <1>15
    <2>1. CASE i = Len(chain) + 1 BY <1>13, <1>15, <2>1
    <2>2. CASE i # Len(chain) + 1
        <3>1. i \in 1..Len(chain) BY <1>13, <2>2
        <3>2. QED BY <1>12, <1>15, <3>1 DEF RowInv
    <2>3. QED BY <2>1, <2>2
<1> HIDE DEF chain, review
<1>17. RowInv(row, reviews'[r], communications'[r])
    <2>1. communications[r] = <<>> BY <1>2, <1>12 DEF RowInv, Awaiting
    <2>2. old.status = "pending" BY <1>2 DEF Awaiting
    <2>3. QED BY <1>2, <1>5, <1>13, <1>15, <1>16, <2>1, <2>2 DEF RowInv
<1>18. \A other \in Requests \ {r} :
          reviews'[other] = reviews[other] /\ communications'[other] = communications[other]
    BY <1>1, <1>2
<1>19. RowsInv' BY <1>1, <1>2, <1>3, <1>5, <1>17, <1>18, RowsStep DEF IInv
<1>20. \A other \in Requests : Progress(requests[other], requests'[other])
    <2>1. Progress(old, row) BY <1>4, <1>5 DEF Progress
    <2>2. QED BY <1>1, <1>2, <1>3, <2>1, SameProgress
<1>21. ModalsInv' BY <1>1, <1>7, <1>9, <1>20, ModalsStep DEF IInv
<1>22. KeysInv'
    <2>1. \A other \in Requests : requests'[other].client_key = requests[other].client_key
        BY <1>1, <1>2, <1>5
    <2>2. ~Regional => \A f \in Facilitators : forms'[f].key = Null
        BY <1>2 DEF IInv, KeysInv
    <2>3. QED BY <2>1, <2>2, SameKeys DEF IInv
<1>23. QED BY <1>11, <1>19, <1>21, <1>22 DEF IInv

LEMMA ReviewerInv ==
    ASSUME IInv, NEW v \in Reviewers, ReviewerStep(v)
    PROVE  IInv'
<1>1. timeline \in [Requests -> Seq(Entries)] BY DEF IInv, TypeOK
<1>2. CASE CloseModal(v) BY <1>1, <1>2, ModalMovesInv DEF CloseModal
<1>3. CASE CheckLatest(v)
    <2>1. modals[v].step = "open" /\ modals' = [modals EXCEPT ![v].step = "checked"]
          /\ UNCHANGED <<requests, communications, reviews, timeline, forms>>
        BY <1>3 DEF CheckLatest
    <2>2. QED BY <1>1, <2>1, ModalMovesInv
<1>4. CASE ModalFailed(v)
    <2>1. modals[v].step # "closed" /\ modals' = [modals EXCEPT ![v].step = "open"]
          /\ UNCHANGED <<requests, communications, reviews, timeline, forms>>
        BY <1>4 DEF ModalFailed
    <2>2. QED BY <1>1, <2>1, ModalMovesInv
<1>5. QED
    BY <1>2, <1>3, <1>4, OpenModalInv, AnswerInv, ReturnInv, RecordModalInv DEF ReviewerStep

-----------------------------------------------------------------------------
LEMMA InitInv == Init => IInv
<1> SUFFICES ASSUME Init PROVE IInv OBVIOUS
<1>1. /\ requests = [r \in Requests |-> AbsentRow]
      /\ communications = [r \in Requests |-> <<>>] /\ reviews = [r \in Requests |-> <<>>]
      /\ timeline = [r \in Requests |-> <<>>]
      /\ forms = [f \in Facilitators |-> NoForm] /\ modals = [v \in Reviewers |-> NoModal]
    BY DEF Init
<1>2. TypeOK
    <2>1. <<>> \in Seq(Responses) /\ <<>> \in Seq(Returns) /\ <<>> \in Seq(Entries) OBVIOUS
    <2>2. NoForm \in Forms /\ NoModal \in Modals BY FormTypes, ModalTypes
    <2>3. QED BY <1>1, <2>1, <2>2, AbsentRowType DEF TypeOK
<1>3. AbsentRow.status = "absent" /\ AbsentRow.workflow_state = "none"
      /\ AbsentRow.client_key = Null
    BY DEF AbsentRow
<1>4. RowsInv
    <2>1. RowInv(AbsentRow, <<>>, <<>>) BY <1>3 DEF RowInv
    <2>2. QED BY <1>1, <2>1 DEF RowsInv
<1>5. ModalsInv BY <1>1, ModalTypes DEF ModalsInv, ModalInv
<1>6. KeysInv BY <1>1, <1>3, FormTypes DEF KeysInv, RetriesCreateOnce
<1>7. QED BY <1>2, <1>4, <1>5, <1>6 DEF IInv

LEMMA NextInv == IInv /\ [Next]_vars => IInv'
<1> SUFFICES ASSUME IInv, [Next]_vars PROVE IInv' OBVIOUS
<1>1. CASE \E f \in Facilitators : FacilitatorStep(f) BY <1>1, FacilitatorInv
<1>2. CASE \E v \in Reviewers : ReviewerStep(v) BY <1>2, ReviewerInv
<1>3. CASE UNCHANGED vars
    <2>1. UNCHANGED <<requests, communications, reviews, timeline, forms, modals>>
        BY <1>3 DEF vars
    <2>2. modals' \in [Reviewers -> Modals] /\ timeline' \in [Requests -> Seq(Entries)]
        BY <2>1 DEF IInv, TypeOK
    <2>3. ModalsInv' BY <2>1 DEF IInv, ModalsInv, ModalInv
    <2>4. QED BY <2>1, <2>2, <2>3, ModalOnly
<1>4. QED BY <1>1, <1>2, <1>3 DEF Next

-----------------------------------------------------------------------------
(* The timeline of regional requests.                                       *)

\* Regional forms store their timeline row with the request, and what modals store is
\* about no submission.
RecordedInv ==
    /\ \A r \in Requests : requests[r].status = "absent" => requests[r].revision_number = 0
    /\ \A f \in Facilitators : forms[f].step # "saved"
    /\ \A v \in Reviewers :
          modals[v].step # "closed" =>
              modals[v].event \in {"RFI_ANSWERED", "RFI_RETURNED_FOR_CLARIFICATION"}
    /\ SubmissionsAreRecorded

\* Entries of a longer log.
LEMMA AppendedEntries ==
    ASSUME NEW log \in Seq(Entries), NEW e \in Entries
    PROVE  LET new == Append(log, e)
           IN  /\ Len(log) \in Nat /\ Len(new) = Len(log) + 1
               /\ \A i \in 1..Len(log) : new[i] = log[i]
               /\ new[Len(log) + 1] = e
OBVIOUS

LEMMA SubmissionEntryFields ==
    ASSUME NEW n \in Nat
    PROVE  /\ SubmissionEntry(n) \in Entries
           /\ SubmissionEntry(n).type \in {"RFI_CREATED", "RFI_RESUBMITTED"}
           /\ SubmissionEntry(n).revision_number = n
BY DEF SubmissionEntry, Entries, Events

\* The next submission, written at the end, is the only one a record lacks.
LEMMA NextRecorded ==
    ASSUME NEW log \in Seq(Entries), NEW n \in Nat, Records(log, n)
    PROVE  Records(Append(log, SubmissionEntry(n + 1)), n + 1)
<1> DEFINE e == SubmissionEntry(n + 1)
           new == Append(log, e)
           last == Len(log) + 1
<1>1. /\ e \in Entries /\ e.type \in {"RFI_CREATED", "RFI_RESUBMITTED"}
      /\ e.revision_number = n + 1
    BY SubmissionEntryFields
<1> HIDE DEF e
<1>2. /\ Len(log) \in Nat /\ Len(new) = last
      /\ \A i \in 1..Len(log) : new[i] = log[i]
      /\ new[last] = e
    BY <1>1, AppendedEntries
<1> HIDE DEF new
<1>3. Submissions(new) = Submissions(log) \cup {last}
    BY <1>1, <1>2 DEF Submissions
<1>4. \A i \in Submissions(log) : i \in 1..Len(log) /\ i < last /\ new[i] = log[i]
    BY <1>2 DEF Submissions
<1>5. \A i \in Submissions(new) : \E k \in 1..n + 1 : new[i] = SubmissionEntry(k)
    BY <1>2, <1>3, <1>4 DEF Records, e
<1>6. \A k \in 1..n + 1 : \E i \in Submissions(new) : new[i] = SubmissionEntry(k)
    <2> SUFFICES ASSUME NEW k \in 1..n + 1
                 PROVE  \E i \in Submissions(new) : new[i] = SubmissionEntry(k)
        OBVIOUS
    <2>1. CASE k = n + 1 BY <1>2, <1>3, <2>1 DEF e
    <2>2. CASE k # n + 1
        <3>1. k \in 1..n BY <2>2
        <3>2. QED BY <1>3, <1>4, <3>1 DEF Records
    <2>3. QED BY <2>1, <2>2
<1>7. ASSUME NEW i \in Submissions(new), NEW j \in Submissions(new), i < j
      PROVE  new[i].revision_number < new[j].revision_number
    <2>1. i \in Submissions(log) BY <1>2, <1>3, <1>4, <1>7
    <2>2. CASE j \in Submissions(log) BY <1>4, <1>7, <2>1, <2>2 DEF Records
    <2>3. CASE j = last
        <3>1. PICK k \in 1..n : log[i] = SubmissionEntry(k) BY <2>1 DEF Records
        <3>2. log[i].revision_number = k BY <3>1, SubmissionEntryFields
        <3>3. new[i] = log[i] BY <1>4, <2>1
        <3>4. new[i].revision_number = k BY <3>2, <3>3
        <3>5. new[j].revision_number = n + 1 BY <1>1, <1>2, <2>3
        <3>6. QED BY <3>1, <3>4, <3>5
    <2>4. QED BY <1>3, <2>2, <2>3
<1>8. QED BY <1>5, <1>6, <1>7 DEF Records, new, e

\* What is said of a request between its submissions leaves the record as it is.
LEMMA OtherRecorded ==
    ASSUME NEW log \in Seq(Entries), NEW n \in Nat, Records(log, n),
           NEW e \in Entries, e.type \notin {"RFI_CREATED", "RFI_RESUBMITTED"}
    PROVE  Records(Append(log, e), n)
<1> DEFINE new == Append(log, e)
<1>1. /\ Len(log) \in Nat /\ Len(new) = Len(log) + 1
      /\ \A i \in 1..Len(log) : new[i] = log[i]
      /\ new[Len(log) + 1] = e
    BY AppendedEntries
<1> HIDE DEF new
<1>2. Submissions(new) = Submissions(log)
    BY <1>1 DEF Submissions
<1>3. \A i \in Submissions(log) : new[i] = log[i] BY <1>1 DEF Submissions
<1>4. Records(new, n) BY <1>2, <1>3 DEF Records
<1>5. QED BY <1>4 DEF new

LEMMA SubmittedType ==
    ASSUME IInv, NEW r \in Requests
    PROVE  /\ requests[r].status # "absent" => TimesSubmitted(requests[r]) \in Nat
           /\ timeline[r] \in Seq(Entries)
<1>1. /\ requests[r] \in Rows /\ reviews[r] \in Seq(Returns) /\ timeline[r] \in Seq(Entries)
      /\ RowInv(requests[r], reviews[r], communications[r])
    BY DEF IInv, TypeOK, RowsInv
<1>2. Len(reviews[r]) \in Nat BY <1>1
<1>3. requests[r].status # "absent" => requests[r].revision_number = Len(reviews[r]) + 1
    BY <1>1 DEF RowInv
<1>4. QED BY <1>1, <1>2, <1>3 DEF TimesSubmitted

LEMMA NoneSubmitted ==
    ASSUME IInv, RecordedInv, NEW r \in Requests, requests[r].status = "absent"
    PROVE  TimesSubmitted(requests[r]) = 0
<1>1. requests[r].workflow_state = "none" BY DEF IInv, RowsInv, RowInv
<1>2. QED BY <1>1 DEF RecordedInv, TimesSubmitted

\* A step that saves a form of a regional team.
LEMMA FormSavedRecorded ==
    ASSUME IInv, RecordedInv, Regional, NEW f \in Facilitators, NEW r \in Requests, NEW row \in Rows,
           requests' = [requests EXCEPT ![r] = row], row.status # "absent",
           TimesSubmitted(requests[r]) \in Nat,
           TimesSubmitted(row) = TimesSubmitted(requests[r]) + 1,
           TimesSubmitted(row) = row.revision_number,
           NEW type,
           [type |-> type, revision_number |-> row.revision_number] = SubmissionEntry(row.revision_number),
           FormSaved(f, r, type), UNCHANGED modals
    PROVE  RecordedInv'
<1> DEFINE old == requests[r]
           n == TimesSubmitted(old)
<1>1. /\ requests \in [Requests -> Rows] /\ timeline \in [Requests -> Seq(Entries)]
      /\ forms \in [Facilitators -> Forms]
    BY DEF IInv, TypeOK
<1>2. requests'[r] = row /\ \A t \in Requests \ {r} : requests'[t] = requests[t] BY <1>1
<1>3. timeline' = [timeline EXCEPT ![r] = Append(timeline[r], SubmissionEntry(n + 1))]
    <2>1. Logged(r, type, row.revision_number) BY <1>2 DEF FormSaved
    <2>2. QED BY <2>1 DEF Logged
<1>4. timeline'[r] = Append(timeline[r], SubmissionEntry(n + 1))
      /\ \A t \in Requests \ {r} : timeline'[t] = timeline[t]
    BY <1>1, <1>3
<1>5. Records(timeline'[r], n + 1)
    <2>1. timeline[r] \in Seq(Entries) /\ Records(timeline[r], n)
        BY <1>1 DEF RecordedInv, SubmissionsAreRecorded
    <2>2. QED BY <1>4, <2>1, NextRecorded
<1>6. SubmissionsAreRecorded'
    BY <1>2, <1>4, <1>5 DEF RecordedInv, SubmissionsAreRecorded
<1>7. \A g \in Facilitators : forms'[g].step # "saved"
    <2>1. forms' = [forms EXCEPT ![f] = NoForm] \/ UNCHANGED forms BY Zenon DEF FormSaved
    <2>2. NoForm.step # "saved" BY DEF NoForm
    <2>3. QED BY <1>1, <2>1, <2>2 DEF RecordedInv
<1>8. QED BY <1>2, <1>6, <1>7 DEF RecordedInv

LEMMA CreateRecorded ==
    ASSUME IInv, RecordedInv, Regional, NEW f \in Facilitators, NEW r \in Requests,
           NEW query \in Questions, Create(f, r, query)
    PROVE  RecordedInv'
<1> DEFINE row == NewRow(query, forms[f].key)
<1>1. forms[f].key \in Keys \cup {Null} BY DEF IInv, TypeOK, Forms
<1>2. /\ row \in Rows /\ row.status = "pending" /\ row.revision_number = 1
      /\ row.workflow_state = "submitted_to_white_cell"
    BY <1>1, NewRowFields
<1>3. /\ requests[r].status = "absent" /\ requests' = [requests EXCEPT ![r] = row]
      /\ FormSaved(f, r, "RFI_CREATED") /\ UNCHANGED modals
    BY DEF Create
<1>4. TimesSubmitted(requests[r]) = 0 BY <1>3, NoneSubmitted
<1> HIDE DEF row
<1>5. TimesSubmitted(row) = 1 BY <1>2 DEF TimesSubmitted
<1>6. [type |-> "RFI_CREATED", revision_number |-> row.revision_number]
         = SubmissionEntry(row.revision_number)
    BY <1>2 DEF SubmissionEntry
<1>7. /\ row.status # "absent" /\ TimesSubmitted(requests[r]) \in Nat
      /\ TimesSubmitted(row) = TimesSubmitted(requests[r]) + 1
      /\ TimesSubmitted(row) = row.revision_number
    BY <1>2, <1>4, <1>5
<1>8. QED BY <1>2, <1>3, <1>6, <1>7, FormSavedRecorded

LEMMA ReviseRecorded ==
    ASSUME IInv, RecordedInv, Regional, NEW f \in Facilitators, NEW query \in Questions,
           Revise(f, query)
    PROVE  RecordedInv'
<1> DEFINE r == forms[f].request
           old == requests[r]
           row == Resubmitted(old, query)
<1>1. r \in Requests /\ old \in Rows BY DEF IInv, TypeOK, Forms, Revise
<1>2. /\ old.status = "pending" /\ old.workflow_state = "returned_to_team"
      /\ requests' = [requests EXCEPT ![r] = row] /\ FormSaved(f, r, "RFI_RESUBMITTED")
      /\ UNCHANGED modals
    BY DEF Revise, MayRevise
<1> HIDE DEF r
<1>3. /\ row \in Rows /\ row.status = old.status /\ row.workflow_state = "resubmitted"
      /\ row.revision_number = old.revision_number
    BY <1>1, <1>2, ResubmittedFields
<1> HIDE DEF row
<1>4. old.revision_number \in Nat /\ old.revision_number > 1
    <2>1. RowInv(old, reviews[r], communications[r]) /\ reviews[r] \in Seq(Returns)
        BY <1>1 DEF IInv, TypeOK, RowsInv
    <2>2. Len(reviews[r]) \in Nat /\ Len(reviews[r]) > 0
          /\ old.revision_number = Len(reviews[r]) + 1
        BY <1>2, <2>1 DEF RowInv
    <2>3. QED BY <2>2
<1>5. TimesSubmitted(old) = old.revision_number - 1
      /\ TimesSubmitted(row) = old.revision_number
    BY <1>2, <1>3 DEF TimesSubmitted
<1>6. TimesSubmitted(old) \in Nat /\ TimesSubmitted(row) = TimesSubmitted(old) + 1
    BY <1>4, <1>5
<1>7. [type |-> "RFI_RESUBMITTED", revision_number |-> row.revision_number]
         = SubmissionEntry(row.revision_number)
    BY <1>3, <1>4 DEF SubmissionEntry
<1>8. QED BY <1>1, <1>2, <1>3, <1>5, <1>6, <1>7, FormSavedRecorded

\* A step that submits nothing keeps how often each request was submitted, saves no form,
\* and appends to one timeline at most, about no submission.
LEMMA NothingSubmitted ==
    ASSUME IInv, RecordedInv,
           \A r \in Requests :
              /\ TimesSubmitted(requests'[r]) = TimesSubmitted(requests[r])
              /\ requests'[r].status = "absent" => requests'[r] = requests[r]
              /\ requests[r].status = "absent" => timeline'[r] = timeline[r]
              /\ \/ timeline'[r] = timeline[r]
                 \/ \E e \in Entries : /\ e.type \notin {"RFI_CREATED", "RFI_RESUBMITTED"}
                                       /\ timeline'[r] = Append(timeline[r], e),
           \A f \in Facilitators : forms'[f].step # "saved",
           \A v \in Reviewers :
              modals'[v].step # "closed" =>
                  modals'[v].event \in {"RFI_ANSWERED", "RFI_RETURNED_FOR_CLARIFICATION"}
    PROVE  RecordedInv'
<1>1. \A r \in Requests : requests'[r].status = "absent" => requests'[r].revision_number = 0
    BY DEF RecordedInv
<1>2. ASSUME NEW r \in Requests
      PROVE  Records(timeline'[r], TimesSubmitted(requests'[r]))
    <2>1. Records(timeline[r], TimesSubmitted(requests[r]))
        BY DEF RecordedInv, SubmissionsAreRecorded
    <2>2. CASE timeline'[r] = timeline[r] BY <2>1, <2>2
    <2>3. CASE timeline'[r] # timeline[r]
        <3>1. PICK e \in Entries : /\ e.type \notin {"RFI_CREATED", "RFI_RESUBMITTED"}
                                   /\ timeline'[r] = Append(timeline[r], e)
            BY <2>3
        <3>2. TimesSubmitted(requests[r]) \in Nat /\ timeline[r] \in Seq(Entries)
            BY <2>3, SubmittedType
        <3>3. QED BY <2>1, <3>1, <3>2, OtherRecorded
    <2>4. QED BY <2>2, <2>3
<1>3. SubmissionsAreRecorded' BY <1>2 DEF SubmissionsAreRecorded
<1>4. QED BY <1>1, <1>3 DEF RecordedInv

\* A step that leaves rows and timelines alone.
LEMMA OnlyScreens ==
    ASSUME IInv, RecordedInv, UNCHANGED <<requests, timeline>>,
           \A f \in Facilitators : forms'[f].step # "saved",
           \A v \in Reviewers :
              modals'[v].step # "closed" =>
                  modals'[v].event \in {"RFI_ANSWERED", "RFI_RETURNED_FOR_CLARIFICATION"}
    PROVE  RecordedInv'
BY DEF RecordedInv, SubmissionsAreRecorded

LEMMA FacilitatorRecorded ==
    ASSUME IInv, RecordedInv, Regional, NEW f \in Facilitators, FacilitatorStep(f)
    PROVE  RecordedInv'
<1>1. /\ forms \in [Facilitators -> Forms] /\ NoForm.step # "saved"
      /\ \A g \in Facilitators : forms[g].step # "saved"
      /\ \A v \in Reviewers :
            modals[v].step # "closed" =>
                modals[v].event \in {"RFI_ANSWERED", "RFI_RETURNED_FOR_CLARIFICATION"}
    BY DEF IInv, TypeOK, RecordedInv, NoForm
<1>2. ASSUME NEW form, form.step # "saved", forms' = [forms EXCEPT ![f] = form],
             UNCHANGED <<requests, timeline, modals>>
      PROVE  RecordedInv'
    <2>1. \A g \in Facilitators : forms'[g].step # "saved" BY <1>1, <1>2
    <2>2. QED BY <1>1, <1>2, <2>1, OnlyScreens
<1>3. CASE OpenNewForm(f)
    <2>1. PICK key \in Keys :
             forms' = [forms EXCEPT ![f] = [NoForm EXCEPT !.step = "open", !.key = key]]
        BY <1>3 DEF OpenNewForm
    <2>2. [NoForm EXCEPT !.step = "open", !.key = key].step = "open" BY DEF NoForm
    <2>3. UNCHANGED <<requests, timeline, modals>> BY <1>3 DEF OpenNewForm
    <2>4. QED BY <1>2, <2>1, <2>2, <2>3
<1>4. ASSUME NEW r \in Requests, OpenRevisionForm(f, r) PROVE RecordedInv'
    <2> DEFINE form == [NoForm EXCEPT !.step = "open", !.request = r, !.seen = requests[r]]
    <2>1. form.step = "open" BY DEF NoForm
    <2>2. forms' = [forms EXCEPT ![f] = form] /\ UNCHANGED <<requests, timeline, modals>>
        BY <1>4 DEF OpenRevisionForm
    <2> HIDE DEF form
    <2>3. QED BY <1>2, <2>1, <2>2
<1>5. CASE CloseForm(f) BY <1>1, <1>2, <1>5 DEF CloseForm
<1>6. ASSUME NEW r \in Requests, NEW query \in Questions, RetryCreate(f, r, query)
      PROVE  RecordedInv'
    BY <1>1, <1>2, <1>6 DEF RetryCreate, AttemptFound
<1>7. ~RecordForm(f) BY <1>1 DEF RecordForm
<1>8. QED
    BY <1>3, <1>4, <1>5, <1>6, <1>7, CreateRecorded, ReviseRecorded DEF FacilitatorStep

LEMMA ReviewerRecorded ==
    ASSUME IInv, RecordedInv, Regional, NEW v \in Reviewers, ReviewerStep(v)
    PROVE  RecordedInv'
<1>1. /\ modals \in [Reviewers -> Modals] /\ requests \in [Requests -> Rows]
      /\ timeline \in [Requests -> Seq(Entries)]
      /\ \A f \in Facilitators : forms[f].step # "saved"
      /\ \A w \in Reviewers :
            modals[w].step # "closed" =>
                modals[w].event \in {"RFI_ANSWERED", "RFI_RETURNED_FOR_CLARIFICATION"}
    BY DEF IInv, TypeOK, RecordedInv
\* Closing the modal, or going on with it, shows no other event.
<1>2. ASSUME \/ modals' = [modals EXCEPT ![v] = NoModal]
             \/ /\ modals[v].step # "closed"
                /\ \E step \in {"open", "checked", "saved"} :
                      modals' = [modals EXCEPT ![v].step = step]
      PROVE  \A w \in Reviewers :
                modals'[w].step # "closed" =>
                    modals'[w].event \in {"RFI_ANSWERED", "RFI_RETURNED_FOR_CLARIFICATION"}
    <2>1. ModalsKept BY <1>1, <1>2, ModalMoves
    <2>2. QED BY <1>1, <2>1 DEF ModalsKept
<1>3. CASE CloseModal(v)
    <2>1. modals' = [modals EXCEPT ![v] = NoModal] /\ UNCHANGED <<requests, timeline, forms>>
        BY <1>3 DEF CloseModal
    <2>2. QED BY <1>1, <1>2, <2>1, OnlyScreens
<1>4. CASE CheckLatest(v)
    <2>1. /\ modals[v].step = "open" /\ modals' = [modals EXCEPT ![v].step = "checked"]
          /\ UNCHANGED <<requests, timeline, forms>>
        BY <1>4 DEF CheckLatest
    <2>2. QED BY <1>1, <1>2, <2>1, OnlyScreens
<1>5. CASE ModalFailed(v)
    <2>1. /\ modals[v].step # "closed" /\ modals' = [modals EXCEPT ![v].step = "open"]
          /\ UNCHANGED <<requests, timeline, forms>>
        BY <1>5 DEF ModalFailed
    <2>2. QED BY <1>1, <1>2, <2>1, OnlyScreens
<1>6. ASSUME NEW r \in Requests,
             NEW event \in {"RFI_ANSWERED", "RFI_RETURNED_FOR_CLARIFICATION"},
             OpenModal(v, r, event)
      PROVE  RecordedInv'
    <2> DEFINE modal == [step |-> "open", event |-> event, request |-> r, seen |-> requests[r]]
    <2>1. modals' = [modals EXCEPT ![v] = modal] /\ UNCHANGED <<requests, timeline, forms>>
        BY <1>6 DEF OpenModal
    <2>2. modal.event = event OBVIOUS
    <2> HIDE DEF modal
    <2>3. QED BY <1>1, <2>1, <2>2, OnlyScreens
<1>7. CASE Answer(v)
    <2> DEFINE r == modals[v].request
               old == requests[r]
               row == [old EXCEPT !.status = "answered", !.workflow_state = "completed"]
    <2>1. /\ modals[v].step = "checked" /\ MayAnswer(old, modals[v].seen.revision_number)
          /\ requests' = [requests EXCEPT ![r] = row] /\ ModalSaved(v)
          /\ UNCHANGED <<timeline, forms>>
        BY <1>7 DEF Answer
    <2>2. r \in Requests BY <2>1 DEF IInv, ModalsInv, ModalInv
    <2>3. Awaiting(old) /\ old \in Rows BY <1>1, <2>1, <2>2 DEF MayAnswer
    <2>4. /\ row.status = "answered" /\ row.workflow_state = "completed"
          /\ row.revision_number = old.revision_number
        BY <2>3, AnsweredFields
    <2> HIDE DEF row, r
    <2>5. TimesSubmitted(row) = TimesSubmitted(old)
        BY <2>3, <2>4 DEF TimesSubmitted, Awaiting
    <2>6. \A t \in Requests :
             /\ TimesSubmitted(requests'[t]) = TimesSubmitted(requests[t])
             /\ requests'[t].status = "absent" => requests'[t] = requests[t]
        BY <1>1, <2>1, <2>2, <2>4, <2>5
    <2>7. \A w \in Reviewers :
             modals'[w].step # "closed" =>
                 modals'[w].event \in {"RFI_ANSWERED", "RFI_RETURNED_FOR_CLARIFICATION"}
        BY <1>2, <2>1 DEF ModalSaved
    <2>8. QED BY <1>1, <2>1, <2>6, <2>7, NothingSubmitted
<1>8. CASE Return(v)
    <2> DEFINE r == modals[v].request
               old == requests[r]
               row == Returned(old)
    <2>1. /\ modals[v].step = "open" /\ Awaiting(old)
          /\ requests' = [requests EXCEPT ![r] = row] /\ ModalSaved(v)
          /\ UNCHANGED <<timeline, forms>>
        BY <1>8 DEF Return, MayReturn
    <2>2. r \in Requests BY <2>1 DEF IInv, ModalsInv, ModalInv
    <2>3. old \in Rows /\ old.revision_number \in Nat BY <1>1, <2>2 DEF Rows
    <2>4. /\ row.status = old.status /\ row.workflow_state = "returned_to_team"
          /\ row.revision_number = old.revision_number + 1
        BY <2>3, ReturnedFields
    <2> HIDE DEF row, r
    <2>5. TimesSubmitted(row) = TimesSubmitted(old) /\ row.status # "absent"
        BY <2>1, <2>3, <2>4 DEF TimesSubmitted, Awaiting
    <2>6. \A t \in Requests :
             /\ TimesSubmitted(requests'[t]) = TimesSubmitted(requests[t])
             /\ requests'[t].status = "absent" => requests'[t] = requests[t]
        BY <1>1, <2>1, <2>2, <2>5
    <2>7. \A w \in Reviewers :
             modals'[w].step # "closed" =>
                 modals'[w].event \in {"RFI_ANSWERED", "RFI_RETURNED_FOR_CLARIFICATION"}
        BY <1>2, <2>1 DEF ModalSaved
    <2>8. QED BY <1>1, <2>1, <2>6, <2>7, NothingSubmitted
<1>9. CASE RecordModal(v)
    <2> DEFINE modal == modals[v]
               e == [type |-> modal.event, revision_number |-> modal.seen.revision_number]
    <2>1. /\ modal.step = "saved" /\ modals' = [modals EXCEPT ![v] = NoModal]
          /\ timeline' = [timeline EXCEPT ![modal.request] = Append(timeline[modal.request], e)]
          /\ UNCHANGED <<requests, forms>>
        BY <1>9 DEF RecordModal, Logged
    <2>2. /\ modal.request \in Requests /\ requests[modal.request].status # "absent"
          /\ modal.event \in {"RFI_ANSWERED", "RFI_RETURNED_FOR_CLARIFICATION"}
        BY <1>1, <2>1 DEF IInv, ModalsInv, ModalInv, IsCopy
    <2>3. modal.seen.revision_number \in Nat BY <1>1 DEF Modals, Rows
    <2>4. e \in Entries /\ e.type \notin {"RFI_CREATED", "RFI_RESUBMITTED"}
        BY <2>2, <2>3 DEF Entries, Events
    <2> HIDE DEF e, modal
    <2>5. \A t \in Requests :
             /\ requests[t].status = "absent" => timeline'[t] = timeline[t]
             /\ timeline'[t] = timeline[t] \/ timeline'[t] = Append(timeline[t], e)
        BY <1>1, <2>1, <2>2
    <2>6. \A w \in Reviewers :
             modals'[w].step # "closed" =>
                 modals'[w].event \in {"RFI_ANSWERED", "RFI_RETURNED_FOR_CLARIFICATION"}
        BY <1>2, <2>1
    <2>7. QED BY <1>1, <2>1, <2>4, <2>5, <2>6, NothingSubmitted
<1>10. QED BY <1>3, <1>4, <1>5, <1>6, <1>7, <1>8, <1>9 DEF ReviewerStep

LEMMA InitRecorded == Init => RecordedInv
<1> SUFFICES ASSUME Init PROVE RecordedInv OBVIOUS
<1>1. /\ requests = [r \in Requests |-> AbsentRow] /\ timeline = [r \in Requests |-> <<>>]
      /\ forms = [f \in Facilitators |-> NoForm] /\ modals = [v \in Reviewers |-> NoModal]
    BY DEF Init
<1>2. AbsentRow.status = "absent" /\ AbsentRow.revision_number = 0
      /\ TimesSubmitted(AbsentRow) = 0
    BY DEF AbsentRow, TimesSubmitted
<1>3. Records(<<>>, 0)
    <2>1. Submissions(<<>>) = {} BY DEF Submissions
    <2>2. QED BY <2>1 DEF Records
<1>4. SubmissionsAreRecorded BY <1>1, <1>2, <1>3 DEF SubmissionsAreRecorded
<1>5. NoForm.step = "closed" /\ NoModal.step = "closed" BY DEF NoForm, NoModal
<1>6. QED BY <1>1, <1>2, <1>4, <1>5 DEF RecordedInv

LEMMA NextRecordedInv ==
    IInv /\ (Regional => RecordedInv) /\ [Next]_vars => (Regional => RecordedInv)'
<1> SUFFICES ASSUME IInv, RecordedInv, Regional, [Next]_vars PROVE RecordedInv'
    OBVIOUS
<1>1. CASE \E f \in Facilitators : FacilitatorStep(f) BY <1>1, FacilitatorRecorded
<1>2. CASE \E v \in Reviewers : ReviewerStep(v) BY <1>2, ReviewerRecorded
<1>3. CASE UNCHANGED vars BY <1>3, OnlyScreens DEF vars, RecordedInv
<1>4. QED BY <1>1, <1>2, <1>3 DEF Next

-----------------------------------------------------------------------------
(* The theorems.                                                            *)

\* Whatever Facilitators and White Cell do with forms and modals of any age, in any
\* order and with any answers lost, a row stands where its returns and response put it.
THEOREM InductiveInvariant == Spec => []IInv
BY InitInv, NextInv, PTL DEF Spec

\* Rows, responses, reviews, timeline, forms and modals keep their types.
THEOREM TypesHold == Spec => []TypeOK
<1>1. IInv => TypeOK BY DEF IInv
<1>2. QED BY <1>1, InductiveInvariant, PTL

\* operator_answer_regional_rfi stores the answer to the question that the team asked.
THEOREM RegionalAnswersFit == Spec => [](Regional => AnswersWhatWasAsked)
<1>1. IInv => (Regional => AnswersWhatWasAsked)
    BY DEF IInv, RowsInv, RowInv, AnswersWhatWasAsked
<1>2. QED BY <1>1, InductiveInvariant, PTL

\* A request gets one response, about the revision it stands at, in both kinds of session.
THEOREM OneAnswer == Spec => []AnsweredOnce
<1>1. IInv => AnsweredOnce BY DEF IInv, RowsInv, RowInv, AnsweredOnce
<1>2. QED BY <1>1, InductiveInvariant, PTL

\* The reviews of a request count its revisions without a gap.
THEOREM ReturnsChain == Spec => []ReturnChain
<1>1. IInv => ReturnChain BY DEF IInv, RowsInv, RowInv, ReturnChain
<1>2. QED BY <1>1, InductiveInvariant, PTL

\* A return that operator_review_artifact admits is of the question its reviewer read.
THEOREM ReturnsFit == Spec => []ReturnsWhatWasRead
<1>1. IInv => ReturnsWhatWasRead
    BY DEF IInv, ModalsInv, ModalInv, IsCopy, ReturnsWhatWasRead, MayReturn
<1>2. QED BY <1>1, InductiveInvariant, PTL

\* write_regional_rfi makes one request for a form, whatever was lost and tried again.
THEOREM RetriesAreOne == Spec => []RetriesCreateOnce
<1>1. IInv => RetriesCreateOnce BY DEF IInv, KeysInv
<1>2. QED BY <1>1, InductiveInvariant, PTL

\* write_regional_rfi writes the timeline row in the transaction of the request, and a
\* retry finds what it wrote: the timeline of a regional request tells each submission
\* once, in order, the creation first, however many answers were lost in between.
THEOREM SubmissionsOnRecord == Spec => [](Regional => SubmissionsAreRecorded)
<1>1. Init => (Regional => RecordedInv) BY InitRecorded
<1>2. (Regional => RecordedInv) => (Regional => SubmissionsAreRecorded) BY DEF RecordedInv
<1>3. QED BY <1>1, <1>2, NextRecordedInv, InductiveInvariant, PTL DEF Spec
=============================================================================
