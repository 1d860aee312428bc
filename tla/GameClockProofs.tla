-------------------------- MODULE GameClockProofs --------------------------
(***************************************************************************)
(* Theorems about GameClock for any browsers, any number of moves and      *)
(* phases, and any bounds.                                                 *)
(***************************************************************************)
EXTENDS GameClock, FiniteSetTheorems, SequenceTheorems, TLAPS

-----------------------------------------------------------------------------
(* Types.                                                                   *)

\* What a browser sends is a call.
LEMMA SentIsCall ==
    ASSUME NEW c \in Browsers, NEW kind \in {"control", "sync", "finish", "load"},
           NEW update \in Updates
    PROVE  Sent(c, kind, update) \in Calls /\ Sent(c, kind, update).step = "sent"
BY BoundsAssumption DEF Sent, Calls, Stamps

\* Leaving every column as it is is an update.
LEMMA NoUpdateIsUpdate == NoUpdate \in Updates
BY DEF NoUpdate, Updates

\* An update of one more column is an update.
LEMMA MoreIsUpdate ==
    ASSUME NEW update \in Updates
    PROVE  /\ \A phase \in Phases : [update EXCEPT !.phase = phase] \in Updates
           /\ \A running \in BOOLEAN : [update EXCEPT !.running = running] \in Updates
BY DEF Updates

\* The store's bounds keep a control's request within the game.
LEMMA RequestedIsUpdate ==
    ASSUME NEW op \in MoveControls, NEW copy \in Copies, Possible(op, copy)
    PROVE  Requested(op, copy) \in Updates
<1>1. copy.move \in Moves /\ copy.phase \in Phases
    BY DEF Copies
<1>2. MaxMove \in Nat /\ MaxMove >= 1 /\ MaxPhase \in Nat /\ MaxPhase >= 1
    BY RangesAssumption
<1>3. 1 \in Phases
    BY <1>2 DEF Phases
<1>4. CASE op = "advancePhase"
    <2>1. copy.phase + 1 \in Phases
        BY <1>1, <1>2, <1>4 DEF Possible, Phases
    <2>2. QED
        BY <2>1, <1>4, NoUpdateIsUpdate, MoreIsUpdate, Zenon DEF Requested
<1>5. CASE op = "regressPhase"
    <2>1. copy.phase - 1 \in Phases
        BY <1>1, <1>2, <1>5 DEF Possible, Phases
    <2>2. Requested(op, copy) = [NoUpdate EXCEPT !.phase = copy.phase - 1]
        BY <1>5, Zenon DEF Requested
    <2>3. QED
        BY <2>1, <2>2, NoUpdateIsUpdate, MoreIsUpdate, Zenon
<1>6. CASE op = "advanceMove"
    <2>1. copy.move + 1 \in Moves
        BY <1>1, <1>2, <1>6 DEF Possible, Moves
    <2>2. QED
        BY <2>1, <1>3, <1>6 DEF Requested, Updates
<1>7. CASE op = "regressMove"
    <2>1. copy.move - 1 \in Moves
        BY <1>1, <1>2, <1>7 DEF Possible, Moves
    <2>2. QED
        BY <2>1, <1>3, <1>7 DEF Requested, Updates
<1>8. QED
    BY <1>4, <1>5, <1>6, <1>7 DEF MoveControls

\* A copy of a row is a copy.
LEMMA AppliedIsCopy ==
    ASSUME TypeOK, NEW c \in Browsers, NEW row \in GameRows, Apply(c, row)
    PROVE  local' \in [Browsers -> Copies]
<1>1. PICK copy \in CopiesOf(row) : local' = [local EXCEPT ![c] = copy]
    BY DEF Apply
<1>2. copy \in Copies
    BY DEF CopiesOf, Copies, GameRows
<1>3. QED
    BY <1>1, <1>2 DEF TypeOK

\* What the transaction makes of the row.
UpdatedRow(call) ==
    LET target == Target(game, call.update)
    IN  [move |-> target[1], phase |-> target[2],
         running |-> Column(game.running, call.update.running),
         last_updated |-> call.stamp]

\* It is a row of the table.
LEMMA UpdatedRowIsRow ==
    ASSUME TypeOK, NEW call \in calls
    PROVE  UpdatedRow(call) \in GameRows
<1>1. call.update \in Updates /\ call.stamp \in Stamps /\ game \in GameRows
    BY DEF TypeOK, Calls
<1>2. Column(game.move, call.update.move) \in Moves
    BY <1>1 DEF Column, Updates, GameRows
<1>3. Column(game.phase, call.update.phase) \in Phases
    BY <1>1 DEF Column, Updates, GameRows
<1>4. Column(game.running, call.update.running) \in BOOLEAN
    BY <1>1 DEF Column, Updates, GameRows
<1>5. QED
    BY <1>1, <1>2, <1>3, <1>4 DEF UpdatedRow, Target, GameRows

\* What it logs is a log.
LEMMA LoggedIsLog ==
    ASSUME NEW log \in Seq(Transitions), NEW old \in GameRows, NEW new \in GameRows,
           NEW call \in Calls
    PROVE  Logged(log, old, new, call) \in Seq(Transitions)
<1>1. /\ Entry("move", old.move, new.move, call) \in Transitions
      /\ Entry("phase", old.phase, new.phase, call) \in Transitions
    BY DEF Entry, Transitions, GameRows, Moves, Phases, Calls
<1> DEFINE moved == IF new.move # old.move
                    THEN Append(log, Entry("move", old.move, new.move, call)) ELSE log
<1>2. moved \in Seq(Transitions)
    BY <1>1
<1>3. Logged(log, old, new, call)
        = IF new.phase # old.phase
          THEN Append(moved, Entry("phase", old.phase, new.phase, call)) ELSE moved
    BY DEF Logged
<1> HIDE DEF moved
<1>4. QED
    BY <1>1, <1>2, <1>3

-----------------------------------------------------------------------------
(* The bound on the writes, on which the type of the stamps rests.          *)

\* Only as many writes are sent as MaxWrites lets start.
WritesFit ==
    /\ IsFiniteSet(calls)
    /\ transactions + Cardinality(Unstarted) <= MaxWrites

\* The writes still to start are finitely many.
LEMMA UnstartedCount ==
    ASSUME WritesFit
    PROVE  IsFiniteSet(Unstarted) /\ Cardinality(Unstarted) \in Nat
<1>1. Unstarted \subseteq calls
    BY DEF Unstarted
<1>2. QED
    BY <1>1, FS_Subset, FS_CardinalityType DEF WritesFit

\* One more call fits if Send lets it pass.
LEMMA SendFits ==
    ASSUME TypeOK, WritesFit, NEW call, Send(call), transactions' = transactions
    PROVE  WritesFit'
<1>1. IsFiniteSet(calls')
    BY FS_AddElement DEF Send, WritesFit
<1>2. Unstarted' \subseteq Unstarted \cup {call}
    BY DEF Send, Unstarted
<1>3. /\ IsFiniteSet(Unstarted \cup {call})
      /\ Cardinality(Unstarted \cup {call}) <= Cardinality(Unstarted) + 1
    <2>1. Cardinality(Unstarted \cup {call})
            \in {Cardinality(Unstarted), Cardinality(Unstarted) + 1}
        BY UnstartedCount, FS_AddElement
    <2>2. QED
        BY <2>1, UnstartedCount, FS_AddElement
<1>4. /\ Cardinality(Unstarted') <= Cardinality(Unstarted \cup {call})
      /\ Cardinality(Unstarted') \in Nat /\ Cardinality(Unstarted \cup {call}) \in Nat
    BY <1>2, <1>3, FS_Subset, FS_CardinalityType
<1>5. transactions \in Nat /\ MaxWrites \in Nat
    BY BoundsAssumption DEF TypeOK, Stamps
<1>6. QED
    BY <1>1, <1>3, <1>4, <1>5, UnstartedCount DEF Send, MayWrite, WritesFit

\* So do the calls left when none is sent.
LEMMA FewerFit ==
    ASSUME TypeOK, WritesFit, transactions' = transactions,
           IsFiniteSet(calls'), Unstarted' \subseteq Unstarted
    PROVE  WritesFit'
<1>1. /\ Cardinality(Unstarted') <= Cardinality(Unstarted)
      /\ Cardinality(Unstarted') \in Nat
    BY UnstartedCount, FS_Subset, FS_CardinalityType
<1>2. transactions \in Nat /\ MaxWrites \in Nat
    BY BoundsAssumption DEF TypeOK, Stamps
<1>3. QED
    BY <1>1, <1>2, UnstartedCount DEF WritesFit

\* A call that has passed on leaves finitely many.
LEMMA ProgressFinite ==
    ASSUME WritesFit, NEW call, NEW next, Progress(call, next)
    PROVE  IsFiniteSet(calls')
BY FS_RemoveElement, FS_AddElement DEF Progress, WritesFit

\* A write that starts makes room for its transaction.
LEMMA StartFits ==
    ASSUME TypeOK, WritesFit, NEW call \in calls, Start(call)
    PROVE  WritesFit' /\ transactions + 1 \in Stamps
<1> DEFINE next == [call EXCEPT !.step = "started", !.stamp = transactions + 1]
<1>1. call \in Unstarted /\ call \in Calls
    BY DEF Start, Unstarted, TypeOK
<1>2. next.step = "started"
    BY <1>1 DEF Calls
<1> HIDE DEF next
<1>3. calls' = (calls \ {call}) \cup {next} /\ transactions' = transactions + 1
    BY DEF Start, Progress, next
<1>4. Unstarted' = Unstarted \ {call}
    BY <1>2, <1>3 DEF Unstarted
<1>5. Cardinality(Unstarted') = Cardinality(Unstarted) - 1
    BY <1>1, <1>4, UnstartedCount, FS_RemoveElement
<1>6. Cardinality(Unstarted') \in Nat
    BY <1>4, UnstartedCount, FS_RemoveElement, FS_CardinalityType
<1>7. transactions \in Nat /\ MaxWrites \in Nat
    BY BoundsAssumption DEF TypeOK, Stamps
<1>8. IsFiniteSet(calls')
    BY ProgressFinite DEF Start
<1>9. QED
    BY <1>3, <1>5, <1>6, <1>7, <1>8, UnstartedCount DEF WritesFit, Stamps

-----------------------------------------------------------------------------
(* Type correctness.                                                        *)

\* A call that has its answer has it.
AnswersAreRows == \A call \in calls : call.step = "answered" => call.answer \in GameRows

\* Types are kept only together with the bound and the answers: a transaction has a
\* stamp within the bound, and an answered call a row to apply.
Inv == TypeOK /\ WritesFit /\ AnswersAreRows

\* The session starts within the invariant.
LEMMA InitInv == Init => Inv
<1> SUFFICES ASSUME Init PROVE Inv
    OBVIOUS
<1>1. PICK m \in Moves, running \in BOOLEAN, l \in Leads :
        /\ game = [move |-> m, phase |-> 1, running |-> running, last_updated |-> 0]
        /\ transitions = [i \in 1..m - 1 |->
             [type |-> "move", from |-> i, to |-> i + 1, by |-> l]]
        /\ oriented = (m > 1)
        /\ covered = 1..m - 1
        /\ transactions = 0
        /\ local = [c \in Browsers |->
             [move |-> m, phase |-> 1,
              timer |-> IF running THEN "running" ELSE "stopped", last_updated |-> 0]]
        /\ asked = [k \in Leads |-> Null]
        /\ calls = {}
        /\ events = [c \in Browsers |-> <<>>]
    BY DEF Init
<1>2. m \in 1..MaxMove /\ 1 \in Phases /\ 0 \in Stamps
    BY RangesAssumption, BoundsAssumption DEF Moves, Phases, Stamps
<1>3. game \in GameRows
    BY <1>1, <1>2 DEF GameRows
<1>4. transitions \in Seq(Transitions)
    <2>1. \A i \in 1..m - 1 :
            [type |-> "move", from |-> i, to |-> i + 1, by |-> l] \in Transitions
        BY <1>2 DEF Transitions, Browsers
    <2>2. transitions \in [1..m - 1 -> Transitions]
        BY <1>1, <2>1
    <2>3. m - 1 \in Nat
        BY <1>2, RangesAssumption
    <2>4. QED
        BY <2>2, <2>3, SeqDef
<1>5. oriented \in BOOLEAN /\ covered \subseteq Moves /\ transactions \in Stamps
    BY <1>1, <1>2, RangesAssumption DEF Moves
<1>6. local \in [Browsers -> Copies]
    BY <1>1, <1>2 DEF Copies
<1>7. asked \in [Leads -> MoveControls \cup {Null}] /\ calls \subseteq Calls
    BY <1>1
<1>8. events \in [Browsers -> Seq(GameRows)]
    BY <1>1
<1>9. WritesFit
    <2>1. calls = {} /\ Unstarted = {} /\ transactions = 0
        BY <1>1 DEF Unstarted
    <2>2. QED
        BY <2>1, FS_EmptySet, BoundsAssumption DEF WritesFit
<1>10. AnswersAreRows
    BY <1>1 DEF AnswersAreRows
<1>11. QED
    BY <1>3, <1>4, <1>5, <1>6, <1>7, <1>8, <1>9, <1>10 DEF Inv, TypeOK

\* What a browser sends keeps the invariant.
LEMMA SendInv ==
    ASSUME Inv, NEW call \in Calls, call.step = "sent", Send(call),
           UNCHANGED <<game, transitions, gates, transactions, events>>,
           local' \in [Browsers -> Copies],
           asked' \in [Leads -> MoveControls \cup {Null}]
    PROVE  Inv'
<1>1. WritesFit'
    BY SendFits DEF Inv
<1>2. calls' \subseteq Calls
    BY DEF Send, Inv, TypeOK
<1>3. AnswersAreRows'
    BY DEF Send, Inv, AnswersAreRows, GameRows, Moves, Phases, Stamps
<1>4. QED
    BY <1>1, <1>2, <1>3 DEF Inv, TypeOK, gates

\* The controls of a Lead keep the invariant.
LEMMA LeadInv ==
    ASSUME Inv, NEW l \in Leads, LeadStep(l)
    PROVE  Inv'
<1>1. /\ l \in Browsers /\ local[l] \in Copies
      /\ asked[l] \in MoveControls \cup {Null}
    BY DEF Inv, TypeOK, Browsers
<1>2. ASSUME NEW op \in MoveControls, Ask(l, op) PROVE Inv'
    <2>1. WritesFit'
        BY <1>2 DEF Ask, Inv, WritesFit, Unstarted
    <2>2. QED
        BY <1>2, <2>1 DEF Ask, Inv, TypeOK, AnswersAreRows, GameRows, Stamps, gates
<1>3. CASE Confirm(l)
    <2>1. Requested(asked[l], local[l]) \in Updates
        BY <1>1, <1>3, RequestedIsUpdate DEF Confirm
    <2>2. /\ Sent(l, "control", Requested(asked[l], local[l])) \in Calls
          /\ Sent(l, "control", Requested(asked[l], local[l])).step = "sent"
        BY <1>1, <2>1, SentIsCall
    <2>3. asked' \in [Leads -> MoveControls \cup {Null}] /\ local' \in [Browsers -> Copies]
        BY <1>3 DEF Confirm, Inv, TypeOK
    <2>4. QED
        BY <1>3, <2>2, <2>3, SendInv DEF Confirm
<1>4. CASE Cancel(l)
    <2>1. WritesFit'
        BY <1>4 DEF Cancel, Inv, WritesFit, Unstarted
    <2>2. QED
        BY <1>4, <2>1 DEF Cancel, Inv, TypeOK, AnswersAreRows, GameRows, Stamps, gates
<1>5. ASSUME NEW running \in BOOLEAN, ControlTimer(l, running) PROVE Inv'
    <2> DEFINE update == [NoUpdate EXCEPT !.running = running]
    <2>1. update \in Updates
        BY NoUpdateIsUpdate, MoreIsUpdate
    <2> HIDE DEF update
    <2>2. /\ Sent(l, "control", update) \in Calls
          /\ Sent(l, "control", update).step = "sent"
        BY <1>1, <2>1, SentIsCall
    <2>3. Send(Sent(l, "control", update))
        BY <1>5 DEF ControlTimer, update
    <2>4. QED
        BY <1>5, <2>2, <2>3, SendInv DEF ControlTimer, Inv, TypeOK
<1>6. QED
    BY <1>2, <1>3, <1>4, <1>5 DEF LeadStep

\* So does what a browser does by itself.
LEMMA BrowserInv ==
    ASSUME Inv, NEW c \in Browsers, BrowserStep(c)
    PROVE  Inv'
<1>1. local[c] \in Copies /\ asked \in [Leads -> MoveControls \cup {Null}]
    BY DEF Inv, TypeOK
<1>2. CASE Sync(c)
    <2> DEFINE update == [move |-> local[c].move, phase |-> local[c].phase, running |-> TRUE]
    <2>1. update \in Updates
        BY <1>1 DEF Copies, Updates
    <2> HIDE DEF update
    <2>2. /\ Sent(c, "sync", update) \in Calls
          /\ Sent(c, "sync", update).step = "sent"
        BY <2>1, SentIsCall
    <2>3. Send(Sent(c, "sync", update))
        BY <1>2 DEF Sync, update
    <2>4. QED
        BY <1>2, <2>2, <2>3, SendInv DEF Sync, Inv, TypeOK
<1>3. CASE Finish(c)
    <2> DEFINE update == [NoUpdate EXCEPT !.running = FALSE]
    <2>1. update \in Updates
        BY NoUpdateIsUpdate, MoreIsUpdate
    <2> HIDE DEF update
    <2>2. /\ Sent(c, "finish", update) \in Calls
          /\ Sent(c, "finish", update).step = "sent"
        BY <2>1, SentIsCall
    <2>3. Send(Sent(c, "finish", update))
        BY <1>3 DEF Finish, update
    <2>4. [local[c] EXCEPT !.timer = "over"] \in Copies
        BY <1>1 DEF Copies
    <2>5. local' \in [Browsers -> Copies]
        BY <1>3, <2>4 DEF Finish, Inv, TypeOK
    <2>6. QED
        BY <1>1, <1>3, <2>2, <2>3, <2>5, SendInv DEF Finish
<1>4. CASE Load(c)
    <2>1. /\ Sent(c, "load", NoUpdate) \in Calls
          /\ Sent(c, "load", NoUpdate).step = "sent"
        BY NoUpdateIsUpdate, SentIsCall
    <2>2. QED
        BY <1>4, <2>1, SendInv DEF Load, Inv, TypeOK
<1>5. CASE Deliver(c)
    <2>1. events[c] \in Seq(GameRows) /\ events[c] # <<>>
        BY <1>5 DEF Deliver, Inv, TypeOK
    <2>2. Head(events[c]) \in GameRows /\ Tail(events[c]) \in Seq(GameRows)
        BY <2>1
    <2>3. local' \in [Browsers -> Copies]
        BY <1>5, <2>2, AppliedIsCopy DEF Deliver, Inv, TypeOK
    <2>4. events' \in [Browsers -> Seq(GameRows)]
        BY <1>5, <2>2 DEF Deliver, Inv, TypeOK
    <2>5. WritesFit'
        BY <1>5 DEF Deliver, Inv, WritesFit, Unstarted
    <2>6. QED
        BY <1>5, <2>3, <2>4, <2>5 DEF Deliver, Inv, TypeOK, AnswersAreRows, GameRows, Stamps, gates
<1>6. QED
    BY <1>2, <1>3, <1>4, <1>5 DEF BrowserStep

\* A call that is over, or has passed on without starting a write, keeps the bound.
LEMMA OverFits ==
    ASSUME Inv, NEW call \in calls, calls' = calls \ {call}, transactions' = transactions
    PROVE  WritesFit'
<1>1. IsFiniteSet(calls')
    BY FS_RemoveElement DEF Inv, WritesFit
<1>2. Unstarted' \subseteq Unstarted
    BY DEF Unstarted
<1>3. QED
    BY <1>1, <1>2, FewerFit DEF Inv

\* Nor does an answer make a write to start.
LEMMA AnsweredFits ==
    ASSUME Inv, NEW call \in calls, NEW next \in Calls, next.step = "answered",
           Progress(call, next), transactions' = transactions
    PROVE  WritesFit'
<1>1. Unstarted' \subseteq Unstarted
    BY DEF Unstarted, Progress
<1>2. QED
    BY <1>1, ProgressFinite, FewerFit DEF Inv

\* So does the way of a call through the database and back.
LEMMA CallInv ==
    ASSUME Inv, NEW call \in calls, CallStep(call)
    PROVE  Inv'
<1>1. call \in Calls /\ call.browser \in Browsers
    BY DEF Inv, TypeOK, Calls
<1>2. CASE Start(call)
    <2> DEFINE next == [call EXCEPT !.step = "started", !.stamp = transactions + 1]
    <2>1. WritesFit' /\ transactions + 1 \in Stamps
        BY <1>2, StartFits DEF Inv
    <2>2. next \in Calls
        BY <1>1, <2>1 DEF Calls
    <2> HIDE DEF next
    <2>3. calls' = (calls \ {call}) \cup {next} /\ transactions' \in Stamps
        BY <1>2, <2>1 DEF Start, Progress, next
    <2>4. next.step # "answered"
        BY <1>1 DEF Calls, next
    <2>5. AnswersAreRows'
        BY <2>3, <2>4 DEF Inv, AnswersAreRows, GameRows, Stamps
    <2>6. QED
        BY <1>2, <2>1, <2>2, <2>3, <2>5 DEF Start, Inv, TypeOK, gates
<1>3. CASE Commit(call)
    <2> DEFINE row == UpdatedRow(call)
               next == [call EXCEPT !.step = "answered", !.answer = row]
    <2>1. row \in GameRows
        BY UpdatedRowIsRow DEF Inv
    <2> HIDE DEF row
    <2>2. next \in Calls /\ next.step = "answered" /\ next.answer = row
        BY <1>1, <2>1 DEF Calls
    <2> HIDE DEF next
    <2>3. /\ game' = row
          /\ transitions' = Logged(transitions, game, row, call)
          /\ events' = [c \in Browsers |-> Append(events[c], row)]
          /\ Progress(call, next)
          /\ UNCHANGED <<gates, transactions, local, asked>>
        BY <1>3 DEF Commit, row, next, UpdatedRow
    <2>4. transitions' \in Seq(Transitions)
        BY <1>1, <2>1, <2>3, LoggedIsLog DEF Inv, TypeOK
    <2>5. events' \in [Browsers -> Seq(GameRows)]
        BY <2>1, <2>3 DEF Inv, TypeOK
    <2>6. calls' \subseteq Calls
        BY <2>2, <2>3 DEF Progress, Inv, TypeOK
    <2>7. WritesFit'
        BY <2>2, <2>3, AnsweredFits
    <2>8. AnswersAreRows'
        BY <2>1, <2>2, <2>3 DEF Progress, Inv, AnswersAreRows, GameRows, Stamps
    <2>9. QED
        BY <2>1, <2>3, <2>4, <2>5, <2>6, <2>7, <2>8 DEF Inv, TypeOK, gates
<1>4. CASE Read(call)
    <2> DEFINE next == [call EXCEPT !.step = "answered", !.answer = game]
    <2>1. next \in Calls /\ next.step = "answered" /\ next.answer \in GameRows
        BY <1>1 DEF Inv, TypeOK, Calls
    <2> HIDE DEF next
    <2>2. Progress(call, next) /\ transactions' = transactions
        BY <1>4 DEF Read, next
    <2>3. WritesFit' /\ calls' \subseteq Calls
        BY <2>1, <2>2, AnsweredFits DEF Progress, Inv, TypeOK
    <2>4. AnswersAreRows'
        BY <1>4, <2>1, <2>2 DEF Read, Progress, Inv, AnswersAreRows, GameRows, Stamps
    <2>5. QED
        BY <1>4, <2>3, <2>4 DEF Read, Inv, TypeOK, gates
<1>5. CASE Answer(call)
    <2>1. call.answer \in GameRows
        BY <1>5 DEF Answer, Inv, AnswersAreRows
    <2>2. local' \in [Browsers -> Copies]
        BY <1>1, <1>5, <2>1, AppliedIsCopy DEF Answer, Inv
    <2>3. WritesFit'
        BY <1>5, OverFits DEF Answer
    <2>4. QED
        BY <1>5, <2>2, <2>3 DEF Answer, Inv, TypeOK, AnswersAreRows, GameRows, Stamps, gates
<1>6. CASE Lose(call)
    <2>1. WritesFit'
        BY <1>6, OverFits DEF Lose
    <2>2. QED
        BY <1>6, <2>1 DEF Lose, Inv, TypeOK, AnswersAreRows, GameRows, Stamps, gates
<1>7. QED
    BY <1>2, <1>3, <1>4, <1>5, <1>6 DEF CallStep

\* Every step keeps the invariant.
LEMMA NextInv == Inv /\ [Next]_vars => Inv'
<1> SUFFICES ASSUME Inv, [Next]_vars PROVE Inv'
    OBVIOUS
<1>1. CASE UNCHANGED vars \/ CompleteOrientations \/ CoverMove
    <2>1. UNCHANGED <<game, transitions, transactions, local, asked, calls, events>>
        BY <1>1 DEF vars, CompleteOrientations, CoverMove
    <2>2. oriented' \in BOOLEAN /\ covered' \subseteq Moves
        BY <1>1 DEF vars, gates, CompleteOrientations, CoverMove, Inv, TypeOK, GameRows
    <2>3. WritesFit'
        BY <2>1 DEF Inv, WritesFit, Unstarted
    <2>4. QED
        BY <2>1, <2>2, <2>3 DEF Inv, TypeOK, AnswersAreRows, GameRows, Stamps
<1>2. QED
    BY <1>1, LeadInv, BrowserInv, CallInv DEF Next

\* Every call, copy and row of the game keeps its type, and whatever copies the
\* controls work on, they never lead out of the moves and phases there are.
THEOREM TypesHold == Spec => []TypeOK
<1>1. Inv => TypeOK
    BY DEF Inv
<1>2. QED
    BY InitInv, NextInv, <1>1, PTL DEF Spec

-----------------------------------------------------------------------------
(* The gates.                                                               *)

\* The orientation gate holds the game at its start, whatever copies are written.
LEMMA OrientationStep ==
    ASSUME Inv, LeavesStartOriented, [Next]_vars
    PROVE  LeavesStartOriented'
<1>1. ASSUME NEW call \in calls, Commit(call) PROVE LeavesStartOriented'
    <2>1. /\ game' = UpdatedRow(call) /\ oriented' = oriented
          /\ OrientationGate(UpdatedRow(call))
        BY <1>1 DEF Commit, UpdatedRow, gates
    <2>2. QED
        BY <2>1 DEF OrientationGate, LeavesStartOriented
<1>2. CASE UNCHANGED <<game, oriented>>
    BY <1>2 DEF LeavesStartOriented
<1>3. CASE CompleteOrientations
    BY <1>3 DEF CompleteOrientations, LeavesStartOriented
<1>4. [Next]_vars => \/ \E call \in calls : Commit(call)
                     \/ UNCHANGED <<game, oriented>> \/ CompleteOrientations
    BY DEF Next, vars, gates, LeadStep, BrowserStep, CallStep, Ask, Confirm, Cancel,
           ControlTimer, Sync, Finish, Load, Deliver, Start, Read, Answer, Lose, CoverMove
<1>5. QED
    BY <1>1, <1>2, <1>3, <1>4

\* For any browsers writing back any copies they have had, the game never leaves its
\* start before all orientations have been in.
THEOREM StartIsLeftOriented == Spec => []LeavesStartOriented
<1>1. Init => LeavesStartOriented
    <2> SUFFICES ASSUME Init PROVE LeavesStartOriented
        OBVIOUS
    <2>1. PICK m \in Moves : game.move = m /\ game.phase = 1 /\ oriented = (m > 1)
        BY DEF Init
    <2>2. m = 1 \/ m > 1
        BY <2>1, RangesAssumption DEF Moves
    <2>3. CASE m = 1
        BY <2>1, <2>3, Zenon DEF LeavesStartOriented
    <2>4. CASE m > 1
        BY <2>1, <2>4, Zenon DEF LeavesStartOriented
    <2>5. QED
        BY <2>2, <2>3, <2>4
<1>2. QED
    BY <1>1, InitInv, NextInv, OrientationStep, PTL DEF Spec

\* A committed write records a move forward only out of a covered move.
LEMMA LoggedEntries ==
    ASSUME Inv, NEW call \in calls, Commit(call),
           NEW i \in 1..Len(transitions'),
           transitions'[i].type = "move", transitions'[i].to > transitions'[i].from
    PROVE  \/ i \in 1..Len(transitions) /\ transitions'[i] = transitions[i]
           \/ transitions'[i].from = game.move /\ game.move \in covered
<1> DEFINE row == UpdatedRow(call)
           move == Entry("move", game.move, row.move, call)
           phase == Entry("phase", game.phase, row.phase, call)
           moved == IF row.move # game.move THEN Append(transitions, move) ELSE transitions
<1>1. row \in GameRows /\ game \in GameRows /\ transitions \in Seq(Transitions)
    BY UpdatedRowIsRow DEF Inv, TypeOK
<1>2. /\ move.type = "move" /\ move.from = game.move /\ move.to = row.move
      /\ phase.type = "phase"
    BY DEF Entry
<1>3. /\ transitions' = IF row.phase # game.phase THEN Append(moved, phase) ELSE moved
      /\ IndustryGate(row)
    BY DEF Commit, UpdatedRow, Logged
<1> HIDE DEF row
<1>4. move \in Transitions /\ phase \in Transitions
    BY <1>1 DEF Entry, Transitions, GameRows, Moves, Phases, Inv, TypeOK, Calls
<1> HIDE DEF move, phase
<1>5. moved \in Seq(Transitions)
    BY <1>1, <1>4
<1>6. i \in 1..Len(moved) /\ transitions'[i] = moved[i]
    <2>1. CASE row.phase = game.phase
        BY <1>3, <2>1
    <2>2. CASE row.phase # game.phase
        BY <1>2, <1>3, <1>4, <1>5, <2>2
    <2>3. QED
        BY <2>1, <2>2
<1>7. CASE row.move = game.move
    BY <1>6, <1>7
<1>8. CASE row.move # game.move
    <2>1. i \in 1..Len(transitions) + 1
        BY <1>1, <1>4, <1>6, <1>8
    <2>2. CASE i \in 1..Len(transitions)
        BY <1>1, <1>4, <1>6, <1>8, <2>2
    <2>3. CASE i = Len(transitions) + 1
        <3>1. transitions'[i] = move
            BY <1>1, <1>4, <1>6, <1>8, <2>3
        <3>2. row.move > game.move
            BY <1>2, <3>1
        <3>3. QED
            BY <1>2, <1>3, <3>1, <3>2 DEF IndustryGate
    <2>4. QED
        BY <2>1, <2>2, <2>3, <1>1
<1>9. QED
    BY <1>7, <1>8

\* The Industry gate lets a move be left only when it is covered.
LEMMA CoverageStep ==
    ASSUME Inv, MovesLeftWereCovered, [Next]_vars
    PROVE  MovesLeftWereCovered'
<1>1. ASSUME NEW call \in calls, Commit(call) PROVE MovesLeftWereCovered'
    <2>1. covered' = covered
        BY <1>1 DEF Commit, gates
    <2>2. QED
        BY <1>1, <2>1, LoggedEntries DEF MovesLeftWereCovered
<1>2. CASE UNCHANGED transitions /\ covered \subseteq covered'
    BY <1>2 DEF MovesLeftWereCovered
<1>3. [Next]_vars => \/ \E call \in calls : Commit(call)
                     \/ UNCHANGED transitions /\ covered \subseteq covered'
    BY DEF Next, vars, gates, LeadStep, BrowserStep, CallStep, Ask, Confirm, Cancel,
           ControlTimer, Sync, Finish, Load, Deliver, Start, Read, Answer, Lose,
           CompleteOrientations, CoverMove
<1>4. QED
    BY <1>1, <1>2, <1>3

\* For any number of moves and any browsers, no move is left for a later one before
\* its three Industry sectors have had a completed proposal.
THEOREM CoverageHolds == Spec => []MovesLeftWereCovered
<1>1. Init => MovesLeftWereCovered
    BY DEF Init, MovesLeftWereCovered, Moves
<1>2. QED
    BY <1>1, InitInv, NextInv, CoverageStep, PTL DEF Spec

-----------------------------------------------------------------------------
(* The record of transitions.                                               *)

\* After the first n entries of a log, the last of a type leads to the value; before
\* there is one, the value is 1.
Held(log, n, type, value) ==
    \/ value = 1 /\ \A i \in 1..n : log[i].type # type
    \/ \E i \in 1..n :
        /\ log[i].type = type /\ log[i].to = value
        /\ \A j \in i + 1..n : log[j].type # type

\* Every entry starts where the one of its type before it ended, and changes that.
Chained(log) ==
    \A i \in 1..Len(log) :
        Held(log, i - 1, log[i].type, log[i].from) /\ log[i].from # log[i].to

\* The record tells where the game has been: replayed from move 1 and phase 1, each
\* transition applies to what the ones before it lead to, and they end where the game
\* stands.
RecordReplays ==
    /\ Chained(transitions)
    /\ Held(transitions, Len(transitions), "move", game.move)
    /\ Held(transitions, Len(transitions), "phase", game.phase)

\* What an entry more leaves of the log before it.
LEMMA HeldPrefix ==
    ASSUME NEW log \in Seq(Transitions), NEW e \in Transitions, NEW n \in 0..Len(log),
           NEW type, NEW value, Held(log, n, type, value)
    PROVE  Held(Append(log, e), n, type, value)
<1>1. \A i \in 1..n : Append(log, e)[i] = log[i]
    OBVIOUS
<1>2. CASE value = 1 /\ \A i \in 1..n : log[i].type # type
    BY <1>1, <1>2 DEF Held
<1>3. CASE \E i \in 1..n : /\ log[i].type = type /\ log[i].to = value
                           /\ \A j \in i + 1..n : log[j].type # type
    <2>1. PICK i \in 1..n : /\ log[i].type = type /\ log[i].to = value
                            /\ \A j \in i + 1..n : log[j].type # type
        BY <1>3
    <2>2. i + 1..n \subseteq 1..n
        OBVIOUS
    <2>3. \A j \in i + 1..n : Append(log, e)[j].type # type
        BY <1>1, <2>1, <2>2
    <2>4. QED
        BY <1>1, <2>1, <2>3 DEF Held
<1>4. QED
    BY <1>2, <1>3 DEF Held

\* An entry of another type leaves the value.
LEMMA HeldByOthers ==
    ASSUME NEW log \in Seq(Transitions), NEW e \in Transitions, NEW type, NEW value,
           Held(log, Len(log), type, value), e.type # type
    PROVE  Held(Append(log, e), Len(Append(log, e)), type, value)
<1> DEFINE n == Len(log)
           longer == Append(log, e)
<1>1. /\ n \in Nat /\ Len(longer) = n + 1 /\ longer[n + 1] = e
      /\ \A i \in 1..n : longer[i] = log[i]
    OBVIOUS
<1> HIDE DEF n, longer
<1>2. \A j \in 1..n + 1 : j \in 1..n \/ j = n + 1
    BY <1>1
<1>3. CASE value = 1 /\ \A i \in 1..n : log[i].type # type
    <2>1. \A i \in 1..n + 1 : longer[i].type # type
        BY <1>1, <1>2, <1>3
    <2>2. Held(longer, n + 1, type, value)
        BY <1>3, <2>1, Zenon DEF Held
    <2>3. QED
        BY <1>1, <2>2 DEF longer
<1>4. CASE \E i \in 1..n : /\ log[i].type = type /\ log[i].to = value
                           /\ \A j \in i + 1..n : log[j].type # type
    <2>1. PICK i \in 1..n : /\ log[i].type = type /\ log[i].to = value
                            /\ \A j \in i + 1..n : log[j].type # type
        BY <1>4
    <2>2. \A j \in i + 1..n + 1 : j \in (i + 1..n) \cap (1..n) \/ j = n + 1
        BY <1>1
    <2>3. \A j \in i + 1..n + 1 : longer[j].type # type
        BY <1>1, <2>1, <2>2
    <2>4. i \in 1..n + 1 /\ longer[i].type = type /\ longer[i].to = value
        BY <1>1, <2>1
    <2>5. Held(longer, n + 1, type, value)
        BY <2>3, <2>4, Zenon DEF Held
    <2>6. QED
        BY <1>1, <2>5 DEF longer
<1>5. Held(log, n, type, value)
    BY DEF n
<1>6. QED
    BY <1>3, <1>4, <1>5, Zenon DEF Held

\* One of its own leads to where it goes.
LEMMA HeldByLast ==
    ASSUME NEW log \in Seq(Transitions), NEW e \in Transitions
    PROVE  Held(Append(log, e), Len(Append(log, e)), e.type, e.to)
<1> DEFINE n == Len(log)
           longer == Append(log, e)
<1>1. n \in Nat /\ Len(longer) = n + 1 /\ longer[n + 1] = e
    OBVIOUS
<1> HIDE DEF n, longer
<1>2. n + 1 \in 1..n + 1 /\ (n + 1) + 1..n + 1 = {}
    BY <1>1
<1>3. Held(longer, n + 1, e.type, e.to)
    BY <1>1, <1>2, Zenon DEF Held
<1>4. QED
    BY <1>1, <1>3 DEF longer

\* An entry that starts where its type stands, and changes that, continues the chain.
LEMMA ChainGrows ==
    ASSUME NEW log \in Seq(Transitions), NEW e \in Transitions, Chained(log),
           Held(log, Len(log), e.type, e.from), e.from # e.to
    PROVE  Chained(Append(log, e))
<1> DEFINE n == Len(log)
           longer == Append(log, e)
<1>1. /\ n \in Nat /\ Len(longer) = n + 1 /\ longer[n + 1] = e
      /\ \A i \in 1..n : longer[i] = log[i]
    OBVIOUS
<1>2. ASSUME NEW i \in 1..n + 1
      PROVE  Held(longer, i - 1, longer[i].type, longer[i].from)
             /\ longer[i].from # longer[i].to
    <2>1. CASE i \in 1..n
        <3>1. /\ Held(log, i - 1, log[i].type, log[i].from) /\ log[i].from # log[i].to
              /\ longer[i] = log[i] /\ i - 1 \in 0..n
            BY <1>1, <2>1 DEF Chained
        <3>2. Held(longer, i - 1, log[i].type, log[i].from)
            BY <3>1, HeldPrefix
        <3>3. QED
            BY <3>1, <3>2
    <2>2. CASE i = n + 1
        <3>1. longer[i] = e /\ i - 1 = n /\ n \in 0..n
            BY <1>1, <2>2
        <3>2. Held(longer, n, e.type, e.from)
            BY <3>1, HeldPrefix
        <3>3. QED
            BY <3>1, <3>2
    <2>3. QED
        BY <1>1, <2>1, <2>2
<1> HIDE DEF n, longer
<1>3. Chained(longer)
    BY <1>1, <1>2 DEF Chained
<1>4. QED
    BY <1>3 DEF longer

\* The entries of a write continue the chain to the row it makes.
LEMMA LoggedReplays ==
    ASSUME Inv, RecordReplays, NEW call \in Calls, NEW row \in GameRows,
           transitions' = Logged(transitions, game, row, call), game' = row
    PROVE  RecordReplays'
<1> DEFINE move == Entry("move", game.move, row.move, call)
           phase == Entry("phase", game.phase, row.phase, call)
           moved == IF row.move # game.move THEN Append(transitions, move) ELSE transitions
<1>1. game \in GameRows /\ transitions \in Seq(Transitions)
    BY DEF Inv, TypeOK
<1>2. move \in Transitions /\ phase \in Transitions
    BY <1>1 DEF Entry, Transitions, GameRows, Moves, Phases, Calls
<1>3. /\ move.type = "move" /\ move.from = game.move /\ move.to = row.move
      /\ phase.type = "phase" /\ phase.from = game.phase /\ phase.to = row.phase
    BY DEF Entry
<1>4. transitions' = IF row.phase # game.phase THEN Append(moved, phase) ELSE moved
    BY DEF Logged
<1> HIDE DEF move, phase
<1>5. moved \in Seq(Transitions)
    BY <1>1, <1>2
<1>6. /\ Chained(moved) /\ Held(moved, Len(moved), "move", row.move)
      /\ Held(moved, Len(moved), "phase", game.phase)
    <2>1. CASE row.move = game.move
        BY <2>1 DEF RecordReplays
    <2>2. CASE row.move # game.move
        <3>1. moved = Append(transitions, move)
            BY <2>2
        <3>2. Chained(Append(transitions, move))
            BY <1>1, <1>2, <1>3, <2>2, ChainGrows DEF RecordReplays
        <3>3. Held(Append(transitions, move), Len(Append(transitions, move)), "move", row.move)
            BY <1>1, <1>2, <1>3, HeldByLast
        <3>4. Held(Append(transitions, move), Len(Append(transitions, move)),
                   "phase", game.phase)
            BY <1>1, <1>2, <1>3, HeldByOthers DEF RecordReplays
        <3>5. QED
            BY <3>1, <3>2, <3>3, <3>4
    <2>3. QED
        BY <2>1, <2>2
<1> HIDE DEF moved
<1>7. CASE row.phase = game.phase
    BY <1>4, <1>6, <1>7 DEF RecordReplays
<1>8. CASE row.phase # game.phase
    <2>1. transitions' = Append(moved, phase)
        BY <1>4, <1>8
    <2>2. Chained(Append(moved, phase))
        BY <1>2, <1>3, <1>5, <1>6, <1>8, ChainGrows
    <2>3. Held(Append(moved, phase), Len(Append(moved, phase)), "phase", row.phase)
        BY <1>2, <1>3, <1>5, HeldByLast
    <2>4. Held(Append(moved, phase), Len(Append(moved, phase)), "move", row.move)
        BY <1>2, <1>3, <1>5, <1>6, HeldByOthers
    <2>5. QED
        BY <2>1, <2>2, <2>3, <2>4 DEF RecordReplays
<1>9. QED
    BY <1>7, <1>8

\* Only a write that commits changes the game or its record.
LEMMA RecordWriters ==
    ASSUME [Next]_vars
    PROVE  (\E call \in calls : Commit(call)) \/ UNCHANGED <<game, transitions>>
BY DEF Next, vars, gates, LeadStep, BrowserStep, CallStep, Ask, Confirm, Cancel,
       ControlTimer, Sync, Finish, Load, Deliver, Start, Read, Answer, Lose,
       CompleteOrientations, CoverMove

\* What it commits, in the terms of the lemmas above.
LEMMA CommitWrites ==
    ASSUME Inv, NEW call \in calls, Commit(call)
    PROVE  /\ call \in Calls /\ call.step = "started" /\ UpdatedRow(call) \in GameRows
           /\ game' = UpdatedRow(call)
           /\ transitions' = Logged(transitions, game, UpdatedRow(call), call)
           /\ events' = [c \in Browsers |-> Append(events[c], UpdatedRow(call))]
           /\ calls' = (calls \ {call})
                \cup {[call EXCEPT !.step = "answered", !.answer = UpdatedRow(call)]}
           /\ local' = local
BY UpdatedRowIsRow DEF Commit, UpdatedRow, Progress, Inv, TypeOK

\* So the record replays after every step.
LEMMA RecordStep ==
    ASSUME Inv, RecordReplays, [Next]_vars
    PROVE  RecordReplays'
<1>1. CASE UNCHANGED <<game, transitions>>
    BY <1>1 DEF RecordReplays, Chained, Held
<1>2. QED
    BY <1>1, RecordWriters, CommitWrites, LoggedReplays

\* It does so at the start, from move 1.
LEMMA InitRecord == Init => RecordReplays
<1> SUFFICES ASSUME Init PROVE RecordReplays
    OBVIOUS
<1>1. PICK m \in Moves, l \in Leads :
        /\ game.move = m /\ game.phase = 1
        /\ transitions = [i \in 1..m - 1 |->
             [type |-> "move", from |-> i, to |-> i + 1, by |-> l]]
    BY DEF Init
<1>2. m \in Nat /\ m >= 1 /\ m - 1 \in Nat
    BY <1>1, RangesAssumption DEF Moves
<1>3. Len(transitions) = m - 1
    BY <1>1, <1>2
<1>4. \A i \in 1..m - 1 : /\ transitions[i].type = "move" /\ transitions[i].from = i
                          /\ transitions[i].to = i + 1
    BY <1>1
<1>5. ASSUME NEW n \in 0..m - 1 PROVE Held(transitions, n, "move", n + 1)
    <2>1. CASE n = 0
        BY <2>1 DEF Held
    <2>2. CASE n # 0
        <3>1. n \in 1..n /\ n \in 1..m - 1 /\ n + 1..n = {}
            BY <1>2, <2>2
        <3>2. QED
            BY <1>4, <3>1 DEF Held
    <2>3. QED
        BY <2>1, <2>2
<1>6. Chained(transitions)
    <2> SUFFICES ASSUME NEW i \in 1..m - 1
                 PROVE  Held(transitions, i - 1, transitions[i].type, transitions[i].from)
                        /\ transitions[i].from # transitions[i].to
        BY <1>3 DEF Chained
    <2>1. i - 1 \in 0..m - 1 /\ (i - 1) + 1 = i
        BY <1>2
    <2>2. QED
        BY <1>2, <1>4, <1>5, <2>1
<1>7. Held(transitions, m - 1, "move", m)
    BY <1>2, <1>5
<1>8. Held(transitions, m - 1, "phase", 1)
    BY <1>4 DEF Held
<1>9. QED
    BY <1>1, <1>3, <1>6, <1>7, <1>8 DEF RecordReplays

\* However the writes of Leads and of stale copies overtake one another, the rows of
\* game_state_transitions are the whole history of the game.
THEOREM TransitionsReplay == Spec => []RecordReplays
BY InitInv, NextInv, InitRecord, RecordStep, PTL DEF Spec

-----------------------------------------------------------------------------
(* Where the moves and phases come from.                                    *)

\* The values of a type that Leads' writes had led to in the first n entries of a log,
\* and the 1 that it starts at.
LedTo(log, n, type) ==
    {1} \cup {log[i].to : i \in {k \in 1..n : log[k].type = type /\ log[k].by \in Leads}}

Led(type) == LedTo(transitions, Len(transitions), type)

\* A Support's browser writes its copy back, and may undo with it what a Lead did; but
\* it only takes the game back to a move or a phase a Lead has brought it to before.
SupportsBringBack ==
    \A i \in 1..Len(transitions) :
        transitions[i].by \in Supports =>
            transitions[i].to \in LedTo(transitions, i - 1, transitions[i].type)

\* The move and the phase of a row, a copy or an update are ones Leads led to.
LedRow(row) == row.move \in Led("move") /\ row.phase \in Led("phase")
LedUpdate(update) ==
    update.move \in Led("move") \cup {Null} /\ update.phase \in Led("phase") \cup {Null}

\* That holds because the game, the copies, and what is on its way to them never hold
\* anything else, nor does what a Support's browser asks to be written.
OnlyLed ==
    /\ LedRow(game)
    /\ \A c \in Browsers : LedRow(local[c])
    /\ \A c \in Browsers : \A i \in 1..Len(events[c]) : LedRow(events[c][i])
    /\ \A call \in calls :
        /\ call.step = "answered" => LedRow(call.answer)
        /\ call.browser \in Supports => LedUpdate(call.update)

BroughtInv == SupportsBringBack /\ OnlyLed

\* An entry leaves what was led to before it.
LEMMA LedPrefix ==
    ASSUME NEW log \in Seq(Transitions), NEW e \in Transitions, NEW n \in 0..Len(log),
           NEW type
    PROVE  LedTo(Append(log, e), n, type) = LedTo(log, n, type)
<1>1. \A i \in 1..n : Append(log, e)[i] = log[i]
    OBVIOUS
<1>2. QED
    BY <1>1 DEF LedTo

\* It adds where it goes itself, if a Lead made it, and nothing else.
LEMMA LedGrows ==
    ASSUME NEW log \in Seq(Transitions), NEW e \in Transitions, NEW type
    PROVE  /\ LedTo(log, Len(log), type)
                \subseteq LedTo(Append(log, e), Len(Append(log, e)), type)
           /\ e.by \in Leads =>
                e.to \in LedTo(Append(log, e), Len(Append(log, e)), e.type)
<1> DEFINE n == Len(log)
           longer == Append(log, e)
<1>1. /\ n \in Nat /\ Len(longer) = n + 1 /\ longer[n + 1] = e
      /\ \A i \in 1..n : longer[i] = log[i] /\ i \in 1..n + 1
      /\ n + 1 \in 1..n + 1
    OBVIOUS
<1> HIDE DEF n, longer
<1>2. LedTo(log, n, type) \subseteq LedTo(longer, n + 1, type)
    BY <1>1 DEF LedTo
<1>3. e.by \in Leads => e.to \in LedTo(longer, n + 1, e.type)
    BY <1>1 DEF LedTo
<1>4. QED
    BY <1>1, <1>2, <1>3 DEF n, longer

\* SupportsBringBack of any log.
Brought(log) ==
    \A i \in 1..Len(log) :
        log[i].by \in Supports => log[i].to \in LedTo(log, i - 1, log[i].type)

\* A log keeps that with an entry that leads to nothing new unless a Lead made it.
LEMMA BroughtGrows ==
    ASSUME NEW log \in Seq(Transitions), NEW e \in Transitions, Brought(log),
           e.by \in Supports => e.to \in LedTo(log, Len(log), e.type)
    PROVE  Brought(Append(log, e))
<1> DEFINE n == Len(log)
           longer == Append(log, e)
<1>1. /\ n \in Nat /\ Len(longer) = n + 1 /\ longer[n + 1] = e
      /\ \A i \in 1..n : longer[i] = log[i]
    OBVIOUS
<1>2. ASSUME NEW i \in 1..n + 1, longer[i].by \in Supports
      PROVE  longer[i].to \in LedTo(longer, i - 1, longer[i].type)
    <2>1. CASE i \in 1..n
        <3>1. log[i].to \in LedTo(log, i - 1, log[i].type) /\ i - 1 \in 0..n
            BY <1>1, <1>2, <2>1 DEF Brought
        <3>2. log[i].to \in LedTo(longer, i - 1, log[i].type)
            BY <3>1, LedPrefix
        <3>3. QED
            BY <1>1, <2>1, <3>2
    <2>2. CASE i = n + 1
        <3>1. longer[i] = e /\ i - 1 = n /\ n \in 0..n
            BY <1>1, <2>2
        <3>2. e.to \in LedTo(longer, n, e.type)
            BY <1>2, <3>1, LedPrefix
        <3>3. QED
            BY <3>1, <3>2
    <2>3. QED
        BY <1>1, <2>1, <2>2
<1> HIDE DEF n, longer
<1>3. Brought(longer)
    BY <1>1, <1>2 DEF Brought
<1>4. QED
    BY <1>3 DEF longer

\* One entry of a write: of a type, from a value led to, to what the update asks for.
LEMMA EntryBrings ==
    ASSUME NEW log \in Seq(Transitions), NEW e \in Transitions, Brought(log),
           e.by \in Leads \/ e.to \in LedTo(log, Len(log), e.type)
    PROVE  /\ Brought(Append(log, e))
           /\ e.to \in LedTo(Append(log, e), Len(Append(log, e)), e.type)
<1>1. e.by \in Supports => e.to \in LedTo(log, Len(log), e.type)
    BY SurfacesAssumption
<1>2. QED
    BY <1>1, BroughtGrows, LedGrows

\* A write leads to nothing new unless a Lead made it.
LEMMA LoggedBrings ==
    ASSUME Inv, BroughtInv, NEW call \in calls, Commit(call)
    PROVE  /\ SupportsBringBack'
           /\ \A type : Led(type) \subseteq Led(type)'
           /\ LedRow(game)'
<1> DEFINE row == UpdatedRow(call)
           move == Entry("move", game.move, row.move, call)
           phase == Entry("phase", game.phase, row.phase, call)
           moved == IF row.move # game.move THEN Append(transitions, move) ELSE transitions
<1>1. /\ game \in GameRows /\ transitions \in Seq(Transitions)
      /\ call \in Calls /\ row \in GameRows
    BY CommitWrites DEF Inv, TypeOK
<1>2. move \in Transitions /\ phase \in Transitions
    BY <1>1 DEF Entry, Transitions, GameRows, Moves, Phases, Calls
<1>3. /\ move.type = "move" /\ move.to = row.move /\ move.by = call.browser
      /\ phase.type = "phase" /\ phase.to = row.phase /\ phase.by = call.browser
    BY DEF Entry
<1>4. transitions' = IF row.phase # game.phase THEN Append(moved, phase) ELSE moved
    BY CommitWrites DEF Logged
<1>5. \/ call.browser \in Leads
      \/ row.move \in Led("move") /\ row.phase \in Led("phase")
    <2>1. SUFFICES ASSUME call.browser \in Supports
                   PROVE  row.move \in Led("move") /\ row.phase \in Led("phase")
        BY <1>1 DEF Calls, Browsers
    <2>2. LedUpdate(call.update) /\ LedRow(game)
        BY <2>1 DEF BroughtInv, OnlyLed
    <2>3. /\ row.move = Column(game.move, call.update.move)
          /\ row.phase = Column(game.phase, call.update.phase)
        BY DEF UpdatedRow, Target
    <2>4. QED
        BY <2>2, <2>3 DEF Column, LedUpdate, LedRow
<1> HIDE DEF row, move, phase
<1>6. moved \in Seq(Transitions)
    BY <1>1, <1>2
<1>7. /\ Brought(moved) /\ row.move \in LedTo(moved, Len(moved), "move")
      /\ \A type : Led(type) \subseteq LedTo(moved, Len(moved), type)
    <2>1. Brought(transitions) /\ game.move \in Led("move")
        BY DEF BroughtInv, SupportsBringBack, Brought, OnlyLed, LedRow
    <2>2. CASE row.move = game.move
        BY <2>1, <2>2 DEF Led
    <2>3. CASE row.move # game.move
        <3>1. moved = Append(transitions, move)
            BY <2>3
        <3>2. /\ Brought(Append(transitions, move))
              /\ row.move \in LedTo(Append(transitions, move),
                                    Len(Append(transitions, move)), "move")
            BY <1>1, <1>2, <1>3, <1>5, <2>1, EntryBrings DEF Led
        <3>3. \A type : Led(type) \subseteq
                LedTo(Append(transitions, move), Len(Append(transitions, move)), type)
            BY <1>1, <1>2, LedGrows DEF Led
        <3>4. QED
            BY <3>1, <3>2, <3>3
    <2>4. QED
        BY <2>2, <2>3
<1> HIDE DEF moved
<1>8. /\ Brought(transitions')
      /\ row.phase \in LedTo(transitions', Len(transitions'), "phase")
      /\ \A type : LedTo(moved, Len(moved), type)
                    \subseteq LedTo(transitions', Len(transitions'), type)
    <2>1. game.phase \in Led("phase")
        BY DEF BroughtInv, OnlyLed, LedRow
    <2>2. CASE row.phase = game.phase
        BY <1>4, <1>7, <2>1, <2>2
    <2>3. CASE row.phase # game.phase
        <3>1. transitions' = Append(moved, phase)
            BY <1>4, <2>3
        <3>2. /\ Brought(Append(moved, phase))
              /\ row.phase \in LedTo(Append(moved, phase), Len(Append(moved, phase)), "phase")
            BY <1>2, <1>3, <1>5, <1>6, <1>7, EntryBrings
        <3>3. \A type : LedTo(moved, Len(moved), type) \subseteq
                LedTo(Append(moved, phase), Len(Append(moved, phase)), type)
            BY <1>2, <1>6, LedGrows
        <3>4. QED
            BY <3>1, <3>2, <3>3
    <2>4. QED
        BY <2>2, <2>3
<1>9. SupportsBringBack'
    BY <1>8 DEF Brought, SupportsBringBack
<1>10. \A type : Led(type) \subseteq Led(type)'
    BY <1>7, <1>8 DEF Led
<1>11. LedRow(game)'
    <2>1. game' = row
        BY CommitWrites DEF row
    <2>2. QED
        BY <1>7, <1>8, <2>1 DEF Led, LedRow
<1>12. QED
    BY <1>9, <1>10, <1>11

\* A step that leaves the game and its record brings copies, events and calls only what
\* was led to.
LEMMA LedKept ==
    ASSUME UNCHANGED <<game, transitions>>
    PROVE  /\ \A type : Led(type)' = Led(type)
           /\ SupportsBringBack => SupportsBringBack'
           /\ LedRow(game) => LedRow(game)'
           /\ \A row : LedRow(row)' <=> LedRow(row)
           /\ \A update : LedUpdate(update)' <=> LedUpdate(update)
<1>1. \A type : Led(type)' = Led(type)
    BY DEF Led, LedTo
<1>2. QED
    BY <1>1 DEF SupportsBringBack, LedTo, LedRow, LedUpdate

\* A commit brings everyone a row of what was led to.
LEMMA CommitBrings ==
    ASSUME Inv, BroughtInv, NEW call \in calls, Commit(call)
    PROVE  BroughtInv'
<1>1. SupportsBringBack' /\ LedRow(game)' /\ \A type : Led(type) \subseteq Led(type)'
    BY LoggedBrings
<1>2. \A c \in Browsers : LedRow(local[c])'
    BY <1>1, CommitWrites DEF BroughtInv, OnlyLed, LedRow
<1>3. ASSUME NEW c \in Browsers, NEW i \in 1..Len(events'[c])
      PROVE  LedRow(events[c][i])'
    <2>1. events'[c] = Append(events[c], game') /\ events[c] \in Seq(GameRows)
        BY CommitWrites DEF Inv, TypeOK
    <2>2. CASE i \in 1..Len(events[c])
        <3>1. events'[c][i] = events[c][i] /\ LedRow(events[c][i])
            BY <2>1, <2>2 DEF BroughtInv, OnlyLed
        <3>2. QED
            BY <1>1, <3>1 DEF LedRow
    <2>3. CASE i = Len(events[c]) + 1
        BY <1>1, <2>1, <2>3 DEF LedRow
    <2>4. Len(events'[c]) = Len(events[c]) + 1 /\ Len(events[c]) \in Nat
        BY <2>1
    <2>5. i \in 1..Len(events[c]) \/ i = Len(events[c]) + 1
        BY <1>3, <2>4
    <2>6. QED
        BY <2>2, <2>3, <2>5
<1>4. ASSUME NEW other \in calls'
      PROVE  /\ other.step = "answered" => LedRow(other.answer)'
             /\ other.browser \in Supports => LedUpdate(other.update)'
    <2>1. CASE other \in calls
        BY <1>1, <2>1 DEF BroughtInv, OnlyLed, LedRow, LedUpdate
    <2>2. CASE other = [call EXCEPT !.step = "answered", !.answer = game']
        <3>1. /\ other.answer = game' /\ other.browser = call.browser
              /\ other.update = call.update
            BY <2>2, CommitWrites DEF Calls
        <3>2. QED
            BY <1>1, <3>1 DEF BroughtInv, OnlyLed, LedRow, LedUpdate
    <2>3. QED
        BY <2>1, <2>2, CommitWrites
<1>5. QED
    BY <1>1, <1>2, <1>3, <1>4 DEF BroughtInv, OnlyLed

\* So does a row that reaches a copy: the copy holds its move and phase.
LEMMA ApplyBrings ==
    ASSUME TypeOK, \A c \in Browsers : LedRow(local[c]),
           NEW c \in Browsers, NEW row, LedRow(row), Apply(c, row),
           UNCHANGED <<game, transitions>>
    PROVE  \A d \in Browsers : LedRow(local[d])'
<1>1. PICK copy \in CopiesOf(row) : local' = [local EXCEPT ![c] = copy]
    BY DEF Apply
<1>2. LedRow(copy)
    BY DEF CopiesOf, LedRow
<1>3. \A d \in Browsers : local'[d] = local[d] \/ local'[d] = copy
    BY <1>1 DEF TypeOK
<1>4. \A type : Led(type)' = Led(type)
    BY LedKept
<1>5. QED
    BY <1>2, <1>3, <1>4 DEF LedRow

\* Any other step that keeps what the copies, the events and the calls hold.
LEMMA OthersBring ==
    ASSUME BroughtInv, UNCHANGED <<game, transitions>>,
           \A c \in Browsers : LedRow(local[c])',
           \A c \in Browsers : \A i \in 1..Len(events'[c]) :
                \E j \in 1..Len(events[c]) : events'[c][i] = events[c][j],
           \A call \in calls' :
                \/ call \in calls
                \/ /\ call.step = "answered" => LedRow(call.answer)
                   /\ call.browser \in Supports => LedUpdate(call.update)
    PROVE  BroughtInv'
<1>1. \A type : Led(type)' = Led(type)
    BY LedKept
<1>2. SupportsBringBack' /\ LedRow(game)'
    BY LedKept DEF BroughtInv, OnlyLed
<1>3. \A c \in Browsers : \A i \in 1..Len(events'[c]) : LedRow(events[c][i])'
    BY <1>1 DEF BroughtInv, OnlyLed, LedRow
<1>4. \A call \in calls' :
        /\ call.step = "answered" => LedRow(call.answer)'
        /\ call.browser \in Supports => LedUpdate(call.update)'
    BY <1>1 DEF BroughtInv, OnlyLed, LedRow, LedUpdate
<1>5. QED
    BY <1>2, <1>3, <1>4 DEF BroughtInv, OnlyLed

\* What a browser sends brings nothing else.
LEMMA SendBrings ==
    ASSUME BroughtInv, UNCHANGED <<game, transitions, events>>,
           \A c \in Browsers : LedRow(local[c])',
           NEW call, Send(call), call.step = "sent",
           call.browser \in Supports => LedUpdate(call.update)
    PROVE  BroughtInv'
BY OthersBring DEF Send

\* Leads ask for what they like: theirs are the calls that lead.
LEMMA LeadBrings ==
    ASSUME Inv, BroughtInv, NEW l \in Leads, LeadStep(l)
    PROVE  BroughtInv'
<1>1. UNCHANGED <<game, transitions, local, events>>
    BY DEF LeadStep, Ask, Confirm, Cancel, ControlTimer
<1>2. \A c \in Browsers : LedRow(local[c])'
    BY <1>1, LedKept DEF BroughtInv, OnlyLed, LedRow
<1>3. CASE UNCHANGED calls
    BY <1>1, <1>2, <1>3, OthersBring
<1>4. ASSUME NEW update, Send(Sent(l, "control", update)) PROVE BroughtInv'
    <2>1. /\ Sent(l, "control", update).step = "sent"
          /\ Sent(l, "control", update).browser \notin Supports
        BY SurfacesAssumption DEF Sent
    <2>2. QED
        BY <1>1, <1>2, <1>4, <2>1, SendBrings
<1>5. QED
    BY <1>3, <1>4 DEF LeadStep, Ask, Confirm, Cancel, ControlTimer

\* What any browser writes back is its copy.
LEMMA BrowserBrings ==
    ASSUME Inv, BroughtInv, NEW c \in Browsers, BrowserStep(c)
    PROVE  BroughtInv'
<1>1. UNCHANGED <<game, transitions>> /\ LedRow(local[c])
    BY DEF BrowserStep, Sync, Finish, Load, Deliver, BroughtInv, OnlyLed
<1>2. CASE Sync(c)
    <2> DEFINE update == [move |-> local[c].move, phase |-> local[c].phase, running |-> TRUE]
    <2>1. LedUpdate(update)
        BY <1>1 DEF LedUpdate, LedRow
    <2> HIDE DEF update
    <2>2. /\ Sent(c, "sync", update).step = "sent"
          /\ LedUpdate(Sent(c, "sync", update).update)
        BY <2>1 DEF Sent
    <2>3. Send(Sent(c, "sync", update)) /\ UNCHANGED <<events, local>>
        BY <1>2 DEF Sync, update
    <2>4. \A d \in Browsers : LedRow(local[d])'
        BY <1>1, <2>3, LedKept DEF BroughtInv, OnlyLed, LedRow
    <2>5. QED
        BY <1>1, <2>2, <2>3, <2>4, SendBrings
<1>3. CASE Finish(c)
    <2> DEFINE update == [NoUpdate EXCEPT !.running = FALSE]
    <2>1. LedUpdate(update)
        BY DEF LedUpdate, NoUpdate
    <2> HIDE DEF update
    <2>2. /\ Sent(c, "finish", update).step = "sent"
          /\ LedUpdate(Sent(c, "finish", update).update)
        BY <2>1 DEF Sent
    <2>3. Send(Sent(c, "finish", update)) /\ UNCHANGED events
        BY <1>3 DEF Finish, update
    <2>4. \A d \in Browsers : /\ local'[d].move = local[d].move
                             /\ local'[d].phase = local[d].phase
        BY <1>3 DEF Finish, Inv, TypeOK, Copies
    <2>5. \A d \in Browsers : LedRow(local[d])'
        BY <1>1, <2>4, LedKept DEF BroughtInv, OnlyLed, LedRow
    <2>6. QED
        BY <1>1, <2>2, <2>3, <2>5, SendBrings
<1>4. CASE Load(c)
    <2>1. /\ Sent(c, "load", NoUpdate).step = "sent"
          /\ LedUpdate(Sent(c, "load", NoUpdate).update)
        BY DEF Sent, LedUpdate, NoUpdate
    <2>2. Send(Sent(c, "load", NoUpdate)) /\ UNCHANGED <<events, local>>
        BY <1>4 DEF Load
    <2>3. \A d \in Browsers : LedRow(local[d])'
        BY <1>1, <2>2, LedKept DEF BroughtInv, OnlyLed, LedRow
    <2>4. QED
        BY <1>1, <2>1, <2>2, <2>3, SendBrings
<1>5. CASE Deliver(c)
    <2>1. events[c] \in Seq(GameRows) /\ events[c] # <<>> /\ calls' = calls
        BY <1>5 DEF Deliver, Inv, TypeOK
    <2>2. 1 \in 1..Len(events[c]) /\ Head(events[c]) = events[c][1]
        BY <2>1
    <2>3. LedRow(Head(events[c]))
        BY <2>2 DEF BroughtInv, OnlyLed
    <2>4. Apply(c, Head(events[c])) \/ UNCHANGED local
        BY <1>5 DEF Deliver
    <2>5. \A d \in Browsers : LedRow(local[d])'
        <3>1. CASE Apply(c, Head(events[c]))
            BY <1>1, <2>3, <3>1, ApplyBrings DEF Inv, BroughtInv, OnlyLed
        <3>2. CASE UNCHANGED local
            BY <1>1, <3>2, LedKept DEF BroughtInv, OnlyLed, LedRow
        <3>3. QED
            BY <2>4, <3>1, <3>2
    <2>6. ASSUME NEW d \in Browsers, NEW i \in 1..Len(events'[d])
          PROVE  \E j \in 1..Len(events[d]) : events'[d][i] = events[d][j]
        <3>1. events[d] \in Seq(GameRows)
            BY DEF Inv, TypeOK
        <3>2. CASE d = c
            <4>1. events'[d] = Tail(events[d])
                BY <1>5, <3>2 DEF Deliver, Inv, TypeOK
            <4>2. i + 1 \in 1..Len(events[d]) /\ events'[d][i] = events[d][i + 1]
                BY <2>1, <2>6, <3>1, <3>2, <4>1
            <4>3. QED
                BY <4>2
        <3>3. CASE d # c
            BY <1>5, <3>3 DEF Deliver, Inv, TypeOK
        <3>4. QED
            BY <3>2, <3>3
    <2>7. QED
        BY <1>1, <2>1, <2>5, <2>6, OthersBring
<1>6. QED
    BY <1>2, <1>3, <1>4, <1>5 DEF BrowserStep

\* So do calls on their way through the database and back.
LEMMA CallBrings ==
    ASSUME Inv, BroughtInv, NEW call \in calls, CallStep(call)
    PROVE  BroughtInv'
<1>1. /\ call \in Calls /\ call.browser \in Browsers
      /\ call.browser \in Supports => LedUpdate(call.update)
    BY DEF Inv, TypeOK, Calls, BroughtInv, OnlyLed
<1>2. CASE Commit(call)
    BY <1>2, CommitBrings
<1>3. ASSUME NEW next, Progress(call, next),
             next.browser = call.browser, next.update = call.update,
             next.step = "answered" => LedRow(next.answer),
             UNCHANGED <<game, transitions, local, events>>
      PROVE  BroughtInv'
    <2>1. \A d \in Browsers : LedRow(local[d])'
        BY <1>3, LedKept DEF BroughtInv, OnlyLed, LedRow
    <2>2. QED
        BY <1>1, <1>3, <2>1, OthersBring DEF Progress
<1>4. CASE Start(call)
    <2> DEFINE next == [call EXCEPT !.step = "started", !.stamp = transactions + 1]
    <2>1. next.browser = call.browser /\ next.update = call.update /\ next.step = "started"
        BY <1>1 DEF Calls
    <2> HIDE DEF next
    <2>2. Progress(call, next)
        BY <1>4 DEF Start, next
    <2>3. UNCHANGED <<game, transitions, local, events>>
        BY <1>4 DEF Start
    <2>4. QED
        BY <1>3, <2>1, <2>2, <2>3
<1>5. CASE Read(call)
    <2> DEFINE next == [call EXCEPT !.step = "answered", !.answer = game]
    <2>1. next.browser = call.browser /\ next.update = call.update /\ next.answer = game
        BY <1>1 DEF Calls
    <2> HIDE DEF next
    <2>2. Progress(call, next)
        BY <1>5 DEF Read, next
    <2>3. UNCHANGED <<game, transitions, local, events>> /\ LedRow(next.answer)
        BY <1>5, <2>1 DEF Read, BroughtInv, OnlyLed
    <2>4. QED
        BY <1>3, <2>1, <2>2, <2>3
<1>6. CASE Answer(call)
    <2>1. LedRow(call.answer) /\ UNCHANGED <<game, transitions, events>>
        BY <1>6 DEF Answer, BroughtInv, OnlyLed
    <2>2. \A d \in Browsers : LedRow(local[d])'
        BY <1>1, <1>6, <2>1, ApplyBrings DEF Answer, Inv, BroughtInv, OnlyLed
    <2>3. calls' \subseteq calls
        BY <1>6 DEF Answer
    <2>4. QED
        BY <2>1, <2>2, <2>3, OthersBring
<1>7. CASE Lose(call)
    <2>1. UNCHANGED <<game, transitions, local, events>> /\ calls' \subseteq calls
        BY <1>7 DEF Lose
    <2>2. \A d \in Browsers : LedRow(local[d])'
        BY <2>1, LedKept DEF BroughtInv, OnlyLed, LedRow
    <2>3. QED
        BY <2>1, <2>2, OthersBring
<1>8. QED
    BY <1>2, <1>4, <1>5, <1>6, <1>7 DEF CallStep

\* Every step keeps to what Leads led to.
LEMMA BroughtStep ==
    ASSUME Inv, BroughtInv, [Next]_vars
    PROVE  BroughtInv'
<1>1. CASE UNCHANGED vars \/ CompleteOrientations \/ CoverMove
    <2>1. UNCHANGED <<game, transitions, local, calls, events>>
        BY <1>1 DEF vars, CompleteOrientations, CoverMove
    <2>2. \A d \in Browsers : LedRow(local[d])'
        BY <2>1, LedKept DEF BroughtInv, OnlyLed, LedRow
    <2>3. QED
        BY <2>1, <2>2, OthersBring
<1>2. QED
    BY <1>1, LeadBrings, BrowserBrings, CallBrings DEF Next

\* Leads have led to where the session starts.
LEMMA InitBrought == Init => BroughtInv
<1> SUFFICES ASSUME Init PROVE BroughtInv
    OBVIOUS
<1>1. PICK m \in Moves, l \in Leads :
        /\ game.move = m /\ game.phase = 1
        /\ transitions = [i \in 1..m - 1 |->
             [type |-> "move", from |-> i, to |-> i + 1, by |-> l]]
        /\ \A c \in Browsers : local[c].move = m /\ local[c].phase = 1
        /\ calls = {}
        /\ events = [c \in Browsers |-> <<>>]
    BY DEF Init
<1>2. m \in Nat /\ m >= 1 /\ m - 1 \in Nat
    BY <1>1, RangesAssumption DEF Moves
<1>3. Len(transitions) = m - 1
    BY <1>1, <1>2
<1>4. \A i \in 1..m - 1 : /\ transitions[i].type = "move" /\ transitions[i].by = l
                          /\ transitions[i].to = i + 1
    BY <1>1
<1>5. m \in Led("move") /\ 1 \in Led("phase")
    <2>1. CASE m = 1
        BY <2>1 DEF Led, LedTo
    <2>2. CASE m # 1
        <3>1. m - 1 \in 1..m - 1 /\ (m - 1) + 1 = m
            BY <1>2, <2>2
        <3>2. QED
            BY <1>1, <1>3, <1>4, <3>1 DEF Led, LedTo
    <2>3. QED
        BY <2>1, <2>2 DEF Led, LedTo
<1>6. SupportsBringBack
    BY <1>1, <1>3, <1>4, SurfacesAssumption DEF SupportsBringBack
<1>7. OnlyLed
    BY <1>1, <1>5 DEF OnlyLed, LedRow
<1>8. QED
    BY <1>6, <1>7 DEF BroughtInv

\* However old the copy a Support's browser writes back, it leads the game to no move and
\* no phase that a Lead had not brought it to before.
THEOREM SupportsOnlyBringBack == Spec => []SupportsBringBack
<1>1. BroughtInv => SupportsBringBack
    BY DEF BroughtInv
<1>2. QED
    BY InitInv, NextInv, InitBrought, BroughtStep, <1>1, PTL DEF Spec
=============================================================================
