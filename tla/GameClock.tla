----------------------------- MODULE GameClock -----------------------------
(***************************************************************************)
(* The game state row: move, phase and timer of a session, the White Cell  *)
(* browsers that hold copies of it, and the RPC all of them write it with. *)
(* The Lead's browser writes what its operator asks for; every browser     *)
(* whose copy has the timer running writes its whole copy back every 30    *)
(* seconds, and stops the timer when it runs out.                          *)
(*                                                                         *)
(* Seconds are abstracted to whether time is left, timestamps to the order *)
(* in which transactions start (NOW()).  Allocations, plugins and the      *)
(* status field, which the RPC does not take, are left out.                *)
(***************************************************************************)
EXTENDS Naturals, Sequences, FiniteSets

CONSTANTS
    Leads,              \* browsers in the White Cell Lead seat
    Supports,           \* browsers in the White Cell Support seat
    MaxMove,            \* 3 in the code
    MaxPhase,           \* 5 in the code
    Null,
    MaxWrites,          \* bound on the transactions that write the row
    MaxCalls            \* bound on the calls under way at once

ASSUME SurfacesAssumption == Leads \cap Supports = {}
ASSUME RangesAssumption == MaxMove \in Nat \ {0} /\ MaxPhase \in Nat \ {0}
ASSUME NullAssumption == Null \notin Nat \cup BOOLEAN
ASSUME BoundsAssumption == MaxWrites \in Nat /\ MaxCalls \in Nat

VARIABLES
    game,               \* the row of public.game_state
    transitions,        \* public.game_state_transitions
    oriented,           \* gc05_orientation_completion: all orientations have been in
    covered,            \* moves whose three Industry sectors have had a completed proposal
    transactions,       \* write transactions started so far
    local,              \* each browser's gameStateStore.state
    asked,              \* the control each Lead browser is asking to confirm
    calls,              \* requests and answers between browsers and database
    events              \* realtime changes on their way to each browser

gates == <<oriented, covered>>
vars == <<game, transitions, gates, transactions, local, asked, calls, events>>

Browsers == Leads \cup Supports
Moves == 1..MaxMove
Phases == 1..MaxPhase
Stamps == 0..MaxWrites

GameRows == [move : Moves, phase : Phases, running : BOOLEAN, last_updated : Stamps]

\* A copy's timer is "over" when it ran out here and the answer to that is pending.
Copies == [move : Moves, phase : Phases, timer : {"stopped", "running", "over"},
           last_updated : Stamps]

MoveControls == {"advancePhase", "regressPhase", "advanceMove", "regressMove"}

\* What a write asks for; Null leaves a column as it is.
Updates == [move : Moves \cup {Null}, phase : Phases \cup {Null},
            running : BOOLEAN \cup {Null}]
NoUpdate == [move |-> Null, phase |-> Null, running |-> Null]

\* A browser has at most one call of each kind under way.
Calls == [browser : Browsers, kind : {"control", "sync", "finish", "load"},
          step : {"sent", "started", "answered"}, update : Updates,
          stamp : Stamps, answer : GameRows \cup {Null}]

Transitions == [type : {"move", "phase"}, from : Nat, to : Nat, by : Browsers]

TypeOK ==
    /\ game \in GameRows
    /\ transitions \in Seq(Transitions)
    /\ oriented \in BOOLEAN
    /\ covered \subseteq Moves
    /\ transactions \in Stamps
    /\ local \in [Browsers -> Copies]
    /\ asked \in [Leads -> MoveControls \cup {Null}]
    /\ calls \subseteq Calls
    /\ events \in [Browsers -> Seq(GameRows)]

\* The session as its Lead took it to a move, phase 1, with every browser up to date.
Init ==
    \E m \in Moves, running \in BOOLEAN, l \in Leads :
        /\ game = [move |-> m, phase |-> 1, running |-> running, last_updated |-> 0]
        /\ transitions = [i \in 1..m - 1 |->
             [type |-> "move", from |-> i, to |-> i + 1, by |-> l]]
        /\ oriented = (m > 1)
        /\ covered = 1..m - 1
        /\ transactions = 0
        /\ local = [c \in Browsers |->
             [move |-> m, phase |-> 1,
              timer |-> IF running THEN "running" ELSE "stopped", last_updated |-> 0]]
        /\ asked = [k \in Leads |-> Null]
        /\ calls = {}
        /\ events = [c \in Browsers |-> <<>>]

-----------------------------------------------------------------------------
(* The store of a browser.                                                  *)

\* normalizeState: a running timer whose time has passed is a stopped one here.
CopiesOf(row) ==
    {[move |-> row.move, phase |-> row.phase, timer |-> timer,
      last_updated |-> row.last_updated] :
        timer \in IF row.running THEN {"running", "stopped"} ELSE {"stopped"}}

\* applyServerState
Apply(c, row) == \E copy \in CopiesOf(row) : local' = [local EXCEPT ![c] = copy]

Busy(c, kind) == \E call \in calls : call.browser = c /\ call.kind = kind

Sent(c, kind, update) ==
    [browser |-> c, kind |-> kind, step |-> "sent", update |-> update,
     stamp |-> 0, answer |-> Null]

\* The bounds: browsers send nothing more once the writes sent are all the bound on
\* transactions lets start.
Unstarted == {call \in calls : call.step = "sent" /\ call.kind # "load"}
MayWrite == transactions + Cardinality(Unstarted) < MaxWrites

Send(call) ==
    /\ MayWrite /\ Cardinality(calls) < MaxCalls
    /\ calls' = calls \cup {call}

\* Mutant: advancePhase without its bound.
PossibleUnbounded(op, copy) ==
    \/ op = "advancePhase"
    \/ op = "regressPhase" /\ copy.phase > 1
    \/ op = "advanceMove" /\ copy.move < MaxMove
    \/ op = "regressMove" /\ copy.move > 1

\* The bounds of a control on a copy.
Possible(op, copy) ==
    \/ op = "advancePhase" /\ copy.phase < MaxPhase
    \/ op = "regressPhase" /\ copy.phase > 1
    \/ op = "advanceMove" /\ copy.move < MaxMove
    \/ op = "regressMove" /\ copy.move > 1

\* The update a control asks for.  Those of the move also stop the timer.
Requested(op, copy) ==
    IF op = "advancePhase" THEN [NoUpdate EXCEPT !.phase = copy.phase + 1]
    ELSE IF op = "regressPhase" THEN [NoUpdate EXCEPT !.phase = copy.phase - 1]
    ELSE [move |-> IF op = "advanceMove" THEN copy.move + 1 ELSE copy.move - 1,
          phase |-> 1, running |-> FALSE]

\* The columns of a row or copy after an update.
Column(value, update) == IF update = Null THEN value ELSE update
Target(row, update) ==
    <<Column(row.move, update.move), Column(row.phase, update.phase)>>

-----------------------------------------------------------------------------
(* The Lead's controls.                                                     *)

\* The button and its dialogue.  Its Industry check reads the actions store, which
\* may lag behind; its orientation check only anticipates the one in persistState.
Ask(l, op) ==
    /\ asked[l] = Null /\ ~Busy(l, "control") /\ MayWrite
    /\ Possible(op, local[l])
    /\ op = "advanceMove" => local[l].move \in covered
    /\ asked' = [asked EXCEPT ![l] = op]
    /\ UNCHANGED <<game, transitions, gates, transactions, local, calls, events>>

\* Confirmed: the control reads the copy again, whatever the dialogue said.  The
\* orientations that persistState then asks for refuse nothing that the gate in the
\* database lets pass: until they are in, the call is one still to be sent.
Confirm(l) ==
    /\ asked[l] # Null
    /\ Possible(asked[l], local[l])
    /\ Send(Sent(l, "control", Requested(asked[l], local[l])))
    /\ asked' = [asked EXCEPT ![l] = Null]
    /\ UNCHANGED <<game, transitions, gates, transactions, local, events>>

\* The operator cancels, or the copy is at the bound by now.
Cancel(l) ==
    /\ asked[l] # Null
    /\ asked' = [asked EXCEPT ![l] = Null]
    /\ UNCHANGED <<game, transitions, gates, transactions, local, calls, events>>

\* startTimer is for a timer not running; pauseTimer and resetTimer stop it.
ControlTimer(l, running) ==
    /\ asked[l] = Null /\ ~Busy(l, "control")
    /\ running => local[l].timer = "stopped"
    /\ Send(Sent(l, "control", [NoUpdate EXCEPT !.running = running]))
    /\ UNCHANGED <<game, transitions, gates, transactions, local, asked, events>>

-----------------------------------------------------------------------------
(* What every browser does by itself.                                       *)

\* syncToServer from the local timer.
Sync(c) ==
    /\ local[c].timer = "running"
    /\ ~Busy(c, "sync")
    /\ Send(Sent(c, "sync",
         [move |-> local[c].move, phase |-> local[c].phase, running |-> TRUE]))
    /\ UNCHANGED <<game, transitions, gates, transactions, local, asked, events>>

\* The timer runs out: pauseTimer, from every browser that counted it down.
Finish(c) ==
    /\ local[c].timer = "running"
    /\ ~Busy(c, "finish")
    /\ local' = [local EXCEPT ![c].timer = "over"]
    /\ Send(Sent(c, "finish", [NoUpdate EXCEPT !.running = FALSE]))
    /\ UNCHANGED <<game, transitions, gates, transactions, asked, events>>

\* initialize, from a resync.  A load that supersedes another is a loss of that one
\* (Lose) and this.
Load(c) ==
    /\ ~Busy(c, "load")
    /\ Send(Sent(c, "load", NoUpdate))
    /\ UNCHANGED <<game, transitions, gates, transactions, local, asked, events>>

\* updateFromServer: a row older than the copy is ignored.
Deliver(c) ==
    /\ events[c] # <<>>
    /\ LET row == Head(events[c])
       IN  IF row.last_updated >= local[c].last_updated THEN Apply(c, row)
           ELSE UNCHANGED local
    /\ events' = [events EXCEPT ![c] = Tail(@)]
    /\ UNCHANGED <<game, transitions, gates, transactions, asked, calls>>

\* The answer to a call is applied whatever arrived before it.
Answer(call) ==
    /\ call.step = "answered"
    /\ Apply(call.browser, call.answer)
    /\ calls' = calls \ {call}
    /\ UNCHANGED <<game, transitions, gates, transactions, asked, events>>

\* A call is lost or refused, or its answer is.
Lose(call) ==
    /\ calls' = calls \ {call}
    /\ UNCHANGED <<game, transitions, gates, transactions, local, asked, events>>

-----------------------------------------------------------------------------
(* The database.                                                            *)

Progress(call, next) == calls' = (calls \ {call}) \cup {next}

\* A transaction of operator_update_game_state starts: that is its NOW().
Start(call) ==
    /\ call.step = "sent" /\ call.kind # "load"
    /\ transactions' = transactions + 1
    /\ Progress(call, [call EXCEPT !.step = "started", !.stamp = transactions + 1])
    /\ UNCHANGED <<game, transitions, gates, local, asked, events>>

\* gc05_game_state_gate
OrientationGate(row) ==
    <<row.move, row.phase>> \in {<<1, 1>>, <<game.move, game.phase>>} \/ oriented

\* Mutant: the gate is left to the Lead's button.
IndustryGateOpen(row) == TRUE

\* industry_proposal_move_gate
IndustryGate(row) == row.move > game.move => game.move \in covered

Entry(type, from, to, call) ==
    [type |-> type, from |-> from, to |-> to, by |-> call.browser]

\* The transitions the RPC records: of the move, and of the phase.
Logged(log, old, new, call) ==
    LET moved == IF new.move # old.move
                 THEN Append(log, Entry("move", old.move, new.move, call)) ELSE log
    IN  IF new.phase # old.phase
        THEN Append(moved, Entry("phase", old.phase, new.phase, call)) ELSE moved

\* The transaction has the row's lock: it updates the columns asked for, passes the
\* two gate triggers, records the transitions and commits.
Commit(call) ==
    LET update == call.update
        target == Target(game, update)
        row == [move |-> target[1], phase |-> target[2],
                running |-> Column(game.running, update.running),
                last_updated |-> call.stamp]
    IN  /\ call.step = "started"
        /\ OrientationGate(row)
        /\ IndustryGate(row)
        /\ game' = row
        /\ transitions' = Logged(transitions, game, row, call)
        /\ events' = [c \in Browsers |-> Append(events[c], row)]
        /\ Progress(call, [call EXCEPT !.step = "answered", !.answer = row])
        /\ UNCHANGED <<gates, transactions, local, asked>>

\* getGameState
Read(call) ==
    /\ call.step = "sent" /\ call.kind = "load"
    /\ Progress(call, [call EXCEPT !.step = "answered", !.answer = game])
    /\ UNCHANGED <<game, transitions, gates, transactions, local, asked, events>>

-----------------------------------------------------------------------------
(* What the teams do meanwhile.                                             *)

\* The last missing orientation is submitted.  A gate that refuses because one has
\* been returned since, or a proposal has, is a lost call (Lose).
CompleteOrientations ==
    /\ ~oriented
    /\ oriented' = TRUE
    /\ UNCHANGED <<game, transitions, covered, transactions, local, asked, calls, events>>

\* The last missing sector of the current move gets a completed proposal.
CoverMove ==
    /\ game.move \notin covered
    /\ covered' = covered \cup {game.move}
    /\ UNCHANGED <<game, transitions, oriented, transactions, local, asked, calls, events>>

-----------------------------------------------------------------------------
LeadStep(l) ==
    \/ \E op \in MoveControls : Ask(l, op)
    \/ Confirm(l) \/ Cancel(l)
    \/ \E running \in BOOLEAN : ControlTimer(l, running)

BrowserStep(c) == Sync(c) \/ Finish(c) \/ Load(c) \/ Deliver(c)

CallStep(call) == Start(call) \/ Commit(call) \/ Read(call) \/ Answer(call) \/ Lose(call)

Next ==
    \/ \E l \in Leads : LeadStep(l)
    \/ \E c \in Browsers : BrowserStep(c)
    \/ \E call \in calls : CallStep(call)
    \/ CompleteOrientations
    \/ CoverMove

Spec == Init /\ [][Next]_vars

-----------------------------------------------------------------------------
(* Properties.                                                              *)

\* However old the copies are that browsers write back, the game never stands
\* anywhere but at its start unless all orientations have been in.
LeavesStartOriented == <<game.move, game.phase>> # <<1, 1>> => oriented

\* A move is left for a later one only when it has had its three Industry sectors,
\* though the Lead's copy may change between the check of its button and the write.
MovesLeftWereCovered ==
    \A i \in 1..Len(transitions) :
        LET t == transitions[i]
        IN  t.type = "move" /\ t.to > t.from => t.from \in covered

-----------------------------------------------------------------------------
(* What the repository says and the code does not do.                       *)

\* An advance "is permitted only after all three sectors are complete": the game
\* stands at no move before every earlier one has had its three Industry sectors.
EarlierMovesWereCovered == \A m \in Moves : m < game.move => m \in covered
=============================================================================
