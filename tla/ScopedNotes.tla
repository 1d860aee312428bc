---------------------------- MODULE ScopedNotes ----------------------------
(***************************************************************************)
(* The private notes of one Notetaker seat of a regional session: a row    *)
(* per move with two sections and a list of observations, saved whole by   *)
(* save_scoped_notetaker_data, and the workspaces that show and edit it.   *)
(*                                                                         *)
(* The seat may be open in several tabs.  A tab knows the row as it last   *)
(* loaded or saved it, runs its saves one after the other, and gives up    *)
(* until it is reloaded when one of them is not confirmed: the database    *)
(* may have run that save, or may still do so (a stray).  What a section   *)
(* says is abstracted to the revision that last set it.                    *)
(***************************************************************************)
EXTENDS Naturals, Sequences, FiniteSets

CONSTANTS
    Tabs,               \* the tabs in which the seat is open
    Moves,              \* the moves of the game
    Sections,           \* the forms: dynamics_analysis and external_factors
    Texts,              \* what may be observed
    None,
    MaxRevision,        \* bound on the revision of a row
    MaxQueue,           \* bound on the changes a tab has under way at a time
    MaxStrays           \* bound on the saves under way that nobody waits for

\* What its notetaker wants on record from one tab; each try gets an id of its own.
Observations == Tabs \X Texts

ASSUME NoneAssumption == None \notin Sections \cup Observations

VARIABLES
    rows,               \* public.scoped_notetaker_data, by move; revision 0: no row
    tabs,               \* the workspace in each tab
    loads,              \* the moves for which each tab awaits the answer of a query
    strays              \* saves under way that no workspace waits for

vars == <<rows, tabs, loads, strays>>

Rows == [revision : Nat, sections : [Sections -> Nat], observations : Seq(Observations)]

NoRow == [revision |-> 0, sections |-> [s \in Sections |-> 0], observations |-> <<>>]

\* A section is rewritten, or an observation is appended.
Changes == [section : Sections, observation : {None}]
             \cup [section : {None}, observation : Observations]

\* scopedNotes of the controller: state is "ready" while it may be edited.  The head
\* of the queue is being saved, with the record as it was after the one before.
Workspaces == [move : Moves, state : {"loading", "ready", "blocked"},
               record : Rows, queue : Seq(Changes)]

\* A save names the move, the change and the row it was made on.
Saves == [move : Moves, record : Rows, change : Changes]

TypeOK ==
    /\ rows \in [Moves -> Rows]
    /\ tabs \in [Tabs -> Workspaces]
    /\ loads \in [Tabs -> SUBSET Moves]
    /\ strays \subseteq Saves

Fresh(m) == [move |-> m, state |-> "loading", record |-> NoRow, queue |-> <<>>]

Init ==
    /\ rows = [m \in Moves |-> NoRow]
    /\ \E m \in Moves : /\ tabs = [t \in Tabs |-> Fresh(m)]
                        /\ loads = [t \in Tabs |-> {m}]
    /\ strays = {}

Observed(row) == {row.observations[i] : i \in DOMAIN row.observations}

-----------------------------------------------------------------------------
(* save_scoped_notetaker_data                                               *)

\* Mutant: a save replaces the row whatever its revision.
AdmittedAlways(save) == TRUE

Admitted(save) == save.record.revision = rows[save.move].revision

\* Mutant: every save appends the observation of its change.
WrittenAppending(save) ==
    LET change == save.change
        revision == rows[save.move].revision + 1
    IN  [revision |-> revision,
         sections |-> [s \in Sections |->
                          IF s = change.section THEN revision ELSE save.record.sections[s]],
         observations |-> Append(save.record.observations, change.observation)]

\* The row is replaced by the one the workspace had, with its change made.
Written(save) ==
    LET change == save.change
        revision == rows[save.move].revision + 1
    IN  [revision |-> revision,
         sections |-> [s \in Sections |->
                          IF s = change.section THEN revision ELSE save.record.sections[s]],
         observations |-> IF change.observation = None THEN save.record.observations
                          ELSE Append(save.record.observations, change.observation)]

Write(save) == rows' = [rows EXCEPT ![save.move] = Written(save)]

-----------------------------------------------------------------------------
(* The workspace.                                                           *)

\* loadScopedNotes, on startup, on a reload and when the game has moved on.  The
\* save that is being run is left to itself, those behind it are dropped.
Restart(t, m) ==
    /\ tabs' = [tabs EXCEPT ![t] = Fresh(m)]
    /\ loads' = [loads EXCEPT ![t] = @ \cup {m}]

Saving(t) == tabs[t].queue # <<>>

Save(t) == [move |-> tabs[t].move, record |-> tabs[t].record, change |-> Head(tabs[t].queue)]

Abandoned(t) == strays \cup IF Saving(t) THEN {Save(t)} ELSE {}

\* Room for the save that becomes a stray.
MayAbandon(t) == Saving(t) => Cardinality(strays) < MaxStrays

\* syncGameState and handleMoveChange; the game may also be set back.  Autosaves not
\* yet due are cancelled, their text is gone.
ChangeMove(t, m) ==
    /\ m # tabs[t].move
    /\ MayAbandon(t)
    /\ Restart(t, m)
    /\ strays' = Abandoned(t)
    /\ UNCHANGED rows

\* A reload: what was under way for the page before is nobody's any more.
Reload(t) ==
    /\ MayAbandon(t)
    /\ tabs' = [tabs EXCEPT ![t] = Fresh(@.move)]
    /\ loads' = [loads EXCEPT ![t] = {tabs[t].move}]
    /\ strays' = Abandoned(t)
    /\ UNCHANGED rows

\* Mutant: an answer is taken for whatever move it was asked.
AwaitsAnything(t, m) == tabs[t].state = "loading"

\* isCurrentNotesState, after the await.
Awaits(t, m) == tabs[t].state = "loading" /\ tabs[t].move = m

Answered(t, m, workspace) ==
    /\ m \in loads[t]
    /\ loads' = [loads EXCEPT ![t] = @ \ {m}]
    /\ tabs' = IF Awaits(t, m) THEN [tabs EXCEPT ![t] = workspace] ELSE tabs
    /\ UNCHANGED <<rows, strays>>

Loaded(t, m) == Answered(t, m, [tabs[t] EXCEPT !.state = "ready", !.record = rows[m]])

LoadFails(t, m) == Answered(t, m, [tabs[t] EXCEPT !.state = "blocked"])

\* An autosave, a submitted section or a captured observation joins the queue.  Of its
\* user the model assumes that what is shown as recorded, or is on its way, is not
\* captured again: handleCaptureSubmit gives each capture an id of its own, and its
\* button stays enabled while a save is under way.
Change(t, change) ==
    /\ tabs[t].state = "ready"
    /\ Len(tabs[t].queue) < MaxQueue
    /\ change.observation # None =>
          /\ change.observation[1] = t
          /\ change.observation \notin Observed(tabs[t].record)
          /\ \A i \in DOMAIN tabs[t].queue : tabs[t].queue[i] # change
    /\ tabs' = [tabs EXCEPT ![t].queue = Append(@, change)]
    /\ UNCHANGED <<rows, loads, strays>>

\* The save is run and its answer reaches the workspace.
SaveConfirmed(t) ==
    /\ Saving(t)
    /\ Admitted(Save(t))
    /\ rows[tabs[t].move].revision < MaxRevision
    /\ Write(Save(t))
    /\ tabs' = [tabs EXCEPT ![t].record = Written(Save(t)), ![t].queue = Tail(@)]
    /\ UNCHANGED <<loads, strays>>

\* Mutant: an unconfirmed save is made again on the row as it is.
MadeAgain(t) == [tabs[t] EXCEPT !.record = rows[tabs[t].move]]

\* "Never blindly replay": the workspace is blocked until it is loaded again.
Blocked(t) == [tabs[t] EXCEPT !.state = "blocked", !.queue = <<>>]

\* The save was refused, or its fate is unknown.  (Losing the answer of a save that
\* was run leads where losing the request and running it afterwards does.)
SaveFails(t) ==
    /\ Saving(t)
    /\ tabs' = [tabs EXCEPT ![t] = Blocked(t)]
    /\ \/ UNCHANGED strays
       \/ MayAbandon(t) /\ strays' = Abandoned(t)
    /\ UNCHANGED <<rows, loads>>

\* The database runs a save nobody waits for.
RunStray(save) ==
    /\ save \in strays
    /\ strays' = strays \ {save}
    /\ rows[save.move].revision < MaxRevision
    /\ IF Admitted(save) THEN Write(save) ELSE UNCHANGED rows
    /\ UNCHANGED <<tabs, loads>>

Next ==
    \/ \E t \in Tabs :
          \/ Reload(t)
          \/ SaveConfirmed(t)
          \/ SaveFails(t)
          \/ \E m \in Moves : ChangeMove(t, m) \/ Loaded(t, m) \/ LoadFails(t, m)
          \/ \E change \in Changes : Change(t, change)
    \/ \E save \in strays : RunStray(save)

Spec == Init /\ [][Next]_vars

-----------------------------------------------------------------------------
(* Properties.                                                              *)

\* "Each preserves the other persisted sections": a save that replaces the whole row
\* changes one part of it, and what was observed before is never lost, whichever tab
\* saves, after whatever was lost or came late.
OtherPartsStay ==
    [][\A m \in Moves :
         LET old == rows[m]
             new == rows'[m]
         IN  \/ new = old
             \/ \E s \in Sections : new = [old EXCEPT !.revision = @ + 1, !.sections[s] = new.revision]
             \/ \E o \in Observations :
                   new = [old EXCEPT !.revision = @ + 1, !.observations = Append(@, o)]]_vars

\* "Do not blindly duplicate a capture after a lost response": who captures an
\* observation again only when it is not shown after a reload records it once, also
\* if the first try is run after all.
RecordedOnce ==
    \A m \in Moves :
        \A i, j \in DOMAIN rows[m].observations :
            rows[m].observations[i] = rows[m].observations[j] => i = j

\* "Pending callbacks cannot populate a different move": what a workspace may edit is
\* the row of its own move, or an earlier revision of it.
ShowsItsMove ==
    \A t \in Tabs :
        LET shown == tabs[t].record
            row == rows[tabs[t].move]
        IN  tabs[t].state = "ready" =>
              \/ shown = row
              \/ /\ shown.revision < row.revision
                 /\ \A i \in DOMAIN shown.observations :
                       i \in DOMAIN row.observations /\ row.observations[i] = shown.observations[i]
=============================================================================
