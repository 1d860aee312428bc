------------------------- MODULE ScopedNotesProofs -------------------------
(***************************************************************************)
(* What ScopedNotes promises, for any tabs, moves, sections, texts and     *)
(* bounds.  The argument: a record or save a tab holds is an earlier state *)
(* of the row, and the row itself when the revisions agree (IsBasis).  A   *)
(* save that is admitted therefore replaces the row by itself with one     *)
(* change made.                                                            *)
(***************************************************************************)
EXTENDS ScopedNotes, TLAPS

\* The record is the row as it was at the record's revision.
IsBasis(record, row) ==
    /\ record.revision <= row.revision
    /\ record.revision = row.revision => record = row
    /\ Len(record.observations) <= Len(row.observations)
    /\ \A i \in 1..Len(record.observations) : record.observations[i] = row.observations[i]

\* An observation on its way is not in the record it was made on.
IsNew(change, record) ==
    change.observation # None =>
        \A i \in 1..Len(record.observations) : record.observations[i] # change.observation

IsSound(save) == IsBasis(save.record, rows[save.move]) /\ IsNew(save.change, save.record)

QueueInv(workspace) ==
    /\ \A i \in 1..Len(workspace.queue) : IsNew(workspace.queue[i], workspace.record)
    /\ \A i, j \in 1..Len(workspace.queue) :
          /\ workspace.queue[i].observation # None
          /\ workspace.queue[i].observation = workspace.queue[j].observation
          => i = j

WorkspaceInv(workspace, row) ==
    /\ workspace.state = "ready" => IsBasis(workspace.record, row)
    /\ workspace.state # "ready" => workspace.queue = <<>>
    /\ QueueInv(workspace)

IInv ==
    /\ TypeOK
    /\ \A t \in Tabs : WorkspaceInv(tabs[t], rows[tabs[t].move])
    /\ \A save \in strays : IsSound(save)
    /\ RecordedOnce

-----------------------------------------------------------------------------
(* Sequences.                                                               *)

LEMMA AppendElements ==
    ASSUME NEW S, NEW s \in Seq(S), NEW e \in S
    PROVE  /\ Append(s, e) \in Seq(S)
           /\ Len(Append(s, e)) = Len(s) + 1
           /\ \A i \in 1..Len(s) : Append(s, e)[i] = s[i]
           /\ Append(s, e)[Len(s) + 1] = e
           /\ Append(s, e) # <<>>
BY SMT

LEMMA TailElements ==
    ASSUME NEW S, NEW s \in Seq(S), s # <<>>
    PROVE  /\ Len(s) \in Nat \ {0}
           /\ Head(s) \in S /\ Head(s) = s[1]
           /\ Tail(s) \in Seq(S)
           /\ Len(Tail(s)) = Len(s) - 1
           /\ \A i \in 1..Len(Tail(s)) : Tail(s)[i] = s[i + 1]
BY SMT

-----------------------------------------------------------------------------
(* Types of what the actions build.                                         *)

LEMMA NoRowType == NoRow \in Rows
BY SMT DEF NoRow, Rows

LEMMA FreshType ==
    ASSUME NEW m \in Moves
    PROVE  /\ Fresh(m) \in Workspaces
           /\ Fresh(m).move = m /\ Fresh(m).state = "loading" /\ Fresh(m).queue = <<>>
BY NoRowType, SMT DEF Fresh, Workspaces

LEMMA ChangeType ==
    ASSUME NEW change \in Changes
    PROVE  \/ change.section \in Sections /\ change.observation = None
           \/ change.section = None /\ change.observation \in Observations
BY SMT DEF Changes

LEMMA SaveType ==
    ASSUME TypeOK, NEW t \in Tabs, Saving(t)
    PROVE  /\ Save(t) \in Saves
           /\ Save(t).move = tabs[t].move /\ Save(t).record = tabs[t].record
           /\ Save(t).change = Head(tabs[t].queue)
<1>1. tabs[t] \in Workspaces BY DEF TypeOK
<1>2. tabs[t].queue \in Seq(Changes) /\ tabs[t].move \in Moves /\ tabs[t].record \in Rows
  BY <1>1 DEF Workspaces
<1>3. Head(tabs[t].queue) \in Changes BY <1>2, TailElements DEF Saving
<1> QED BY <1>2, <1>3 DEF Save, Saves

LEMMA WrittenType ==
    ASSUME TypeOK, NEW save \in Saves
    PROVE  /\ Written(save) \in Rows
           /\ Written(save).revision = rows[save.move].revision + 1
           /\ Written(save).sections =
                [s \in Sections |-> IF s = save.change.section THEN rows[save.move].revision + 1
                                    ELSE save.record.sections[s]]
           /\ Written(save).observations =
                IF save.change.observation = None THEN save.record.observations
                ELSE Append(save.record.observations, save.change.observation)
<1>1. save.move \in Moves /\ save.record \in Rows /\ save.change \in Changes BY DEF Saves
<1>2. rows[save.move].revision + 1 \in Nat BY <1>1, SMT DEF TypeOK, Rows
<1>3. save.record.sections \in [Sections -> Nat]
      /\ save.record.observations \in Seq(Observations) BY <1>1 DEF Rows
<1>4. [s \in Sections |-> IF s = save.change.section THEN rows[save.move].revision + 1
                          ELSE save.record.sections[s]] \in [Sections -> Nat]
  BY <1>2, <1>3
<1>5. (IF save.change.observation = None THEN save.record.observations
       ELSE Append(save.record.observations, save.change.observation)) \in Seq(Observations)
  BY <1>1, <1>3, ChangeType, AppendElements
<1> QED BY <1>2, <1>4, <1>5 DEF Written, Rows

-----------------------------------------------------------------------------
(* What a write does to the rows.                                           *)

\* An admitted save was made on the row it is about to replace.
LEMMA AdmittedIsCurrent ==
    ASSUME NEW save \in Saves, IsSound(save), Admitted(save)
    PROVE  save.record = rows[save.move]
BY DEF Admitted, IsSound, IsBasis

\* What is a basis of a row is one of any row with that beginning and a later revision.
LEMMA BasisGrows ==
    ASSUME NEW record \in Rows, NEW old \in Rows, NEW new \in Rows,
           IsBasis(record, old), new.revision = old.revision + 1,
           Len(old.observations) <= Len(new.observations),
           \A i \in 1..Len(old.observations) : new.observations[i] = old.observations[i]
    PROVE  IsBasis(record, new)
<1>1. record.revision \in Nat /\ old.revision \in Nat /\ new.revision \in Nat
  BY DEF Rows
<1>2. /\ Len(record.observations) \in Nat /\ Len(old.observations) \in Nat
      /\ Len(new.observations) \in Nat
  BY DEF Rows
<1>3. record.revision <= old.revision /\ record.revision < new.revision
  BY <1>1 DEF IsBasis
<1>4. /\ Len(record.observations) <= Len(old.observations)
      /\ \A i \in 1..Len(record.observations) : record.observations[i] = old.observations[i]
  BY DEF IsBasis
<1>5. \A i \in 1..Len(record.observations) : i \in 1..Len(old.observations)
  BY <1>2, <1>4
<1> QED BY <1>1, <1>2, <1>3, <1>4, <1>5 DEF IsBasis

RowsGrow ==
    \A m \in Moves, record \in Rows : IsBasis(record, rows[m]) => IsBasis(record, rows'[m])

LEMMA WrittenObservations ==
    ASSUME TypeOK, NEW save \in Saves, IsSound(save), Admitted(save)
    PROVE  /\ Written(save).revision = rows[save.move].revision + 1
           /\ Len(rows[save.move].observations) <= Len(Written(save).observations)
           /\ \A i \in 1..Len(rows[save.move].observations) :
                 Written(save).observations[i] = rows[save.move].observations[i]
<1>1. save.record = rows[save.move] BY AdmittedIsCurrent
<1>2. /\ save.record.observations \in Seq(Observations)
      /\ Len(save.record.observations) \in Nat
  BY DEF Saves, Rows
<1>3. Written(save).revision = rows[save.move].revision + 1
  BY WrittenType
<1>4. CASE save.change.observation = None
  <2>1. Written(save).observations = save.record.observations
    BY <1>4, WrittenType
  <2> QED BY <1>1, <1>2, <1>3, <2>1
<1>5. CASE save.change.observation # None
  <2>1. save.change.observation \in Observations BY <1>5, ChangeType DEF Saves
  <2>2. Written(save).observations = Append(save.record.observations, save.change.observation)
    BY <1>5, WrittenType
  <2>3. /\ Len(Written(save).observations) = Len(save.record.observations) + 1
        /\ \A i \in 1..Len(save.record.observations) :
              Written(save).observations[i] = save.record.observations[i]
    BY <1>2, <2>1, <2>2, AppendElements
  <2> QED BY <1>1, <1>2, <1>3, <2>3
<1> QED BY <1>4, <1>5

LEMMA WrittenOnce ==
    ASSUME TypeOK, RecordedOnce, NEW save \in Saves, IsSound(save), Admitted(save)
    PROVE  \A i, j \in DOMAIN Written(save).observations :
              Written(save).observations[i] = Written(save).observations[j] => i = j
<1>1. save.record = rows[save.move] /\ save.move \in Moves
  BY AdmittedIsCurrent DEF Saves
<1>2. save.record.observations \in Seq(Observations)
  BY DEF Saves, Rows
<1> DEFINE old == save.record.observations
           new == Written(save).observations
           last == save.change.observation
<1>3. \A i, j \in 1..Len(old) : old[i] = old[j] => i = j
  BY <1>1, <1>2 DEF RecordedOnce
<1>4. CASE last = None
  <2>1. new = old BY <1>4, WrittenType
  <2>2. DOMAIN old = 1..Len(old) BY <1>2
  <2>3. \A i, j \in DOMAIN new : new[i] = new[j] => i = j
    BY <1>3, <2>1, <2>2
  <2> QED BY <2>3
<1>5. CASE last # None
  <2>1. last \in Observations BY <1>5, ChangeType DEF Saves
  <2>2. new = Append(old, last) BY <1>5, WrittenType
  <2>3. /\ new \in Seq(Observations) /\ Len(new) = Len(old) + 1 /\ Len(old) \in Nat
        /\ \A i \in 1..Len(old) : new[i] = old[i]
        /\ new[Len(old) + 1] = last
    BY <1>2, <2>1, <2>2, AppendElements
  <2>4. \A i \in 1..Len(old) : old[i] # last
    BY <1>5 DEF IsSound, IsNew
  <2>5. DOMAIN new = 1..Len(old) + 1 BY <2>3
  <2>6. \A i \in DOMAIN new : i \in 1..Len(old) \/ i = Len(old) + 1
    BY <2>3, <2>5
  <2>7. \A i, j \in DOMAIN new : new[i] = new[j] => i = j
    <3> HIDE DEF old, new, last
    <3> QED BY <1>3, <2>3, <2>4, <2>6
  <2> QED BY <2>7
<1> QED BY <1>4, <1>5

LEMMA WriteEffect ==
    ASSUME TypeOK, RecordedOnce, NEW save \in Saves, IsSound(save), Admitted(save), Write(save)
    PROVE  /\ rows' \in [Moves -> Rows]
           /\ rows'[save.move] = Written(save)
           /\ RowsGrow
           /\ RecordedOnce'
<1>1. save.move \in Moves BY DEF Saves
<1>2. rows \in [Moves -> Rows] BY DEF TypeOK
<1>3. Written(save) \in Rows BY WrittenType
<1>4. /\ rows' \in [Moves -> Rows]
      /\ rows'[save.move] = Written(save)
      /\ \A m \in Moves : m # save.move => rows'[m] = rows[m]
  BY <1>1, <1>2, <1>3 DEF Write
<1>5. RowsGrow
  <2> SUFFICES ASSUME NEW m \in Moves, NEW record \in Rows, IsBasis(record, rows[m])
               PROVE  IsBasis(record, rows'[m])
    BY DEF RowsGrow
  <2>1. CASE m # save.move BY <2>1, <1>4
  <2>2. CASE m = save.move
    BY <2>2, <1>1, <1>2, <1>3, <1>4, WrittenObservations, BasisGrows
  <2> QED BY <2>1, <2>2
<1>6. RecordedOnce'
  BY <1>4, WrittenOnce DEF RecordedOnce
<1> QED BY <1>4, <1>5, <1>6

-----------------------------------------------------------------------------
(* The invariant.                                                           *)

LEMMA WorkspaceType ==
    ASSUME TypeOK, NEW t \in Tabs
    PROVE  /\ tabs[t] \in Workspaces
           /\ tabs[t].move \in Moves /\ tabs[t].record \in Rows
           /\ tabs[t].queue \in Seq(Changes)
           /\ tabs[t].state \in {"loading", "ready", "blocked"}
           /\ rows[tabs[t].move] \in Rows
<1>1. tabs[t] \in Workspaces /\ rows \in [Moves -> Rows] BY DEF TypeOK
<1>2. /\ tabs[t].move \in Moves /\ tabs[t].record \in Rows
      /\ tabs[t].queue \in Seq(Changes)
      /\ tabs[t].state \in {"loading", "ready", "blocked"}
  BY <1>1 DEF Workspaces
<1> QED BY <1>1, <1>2

\* The head of a queue is a sound save.
LEMMA SavingIsSound ==
    ASSUME IInv, NEW t \in Tabs, Saving(t)
    PROVE  tabs[t].state = "ready" /\ Save(t) \in Saves /\ IsSound(Save(t))
<1>1. TypeOK /\ WorkspaceInv(tabs[t], rows[tabs[t].move]) BY DEF IInv
<1>2. /\ Save(t) \in Saves
      /\ Save(t).move = tabs[t].move /\ Save(t).record = tabs[t].record
      /\ Save(t).change = Head(tabs[t].queue)
  BY <1>1, SaveType
<1>3. tabs[t].state = "ready" /\ IsBasis(tabs[t].record, rows[tabs[t].move])
  BY <1>1 DEF WorkspaceInv, Saving
<1>4. tabs[t].queue \in Seq(Changes) BY <1>1, WorkspaceType
<1>5. 1 \in 1..Len(tabs[t].queue) /\ Head(tabs[t].queue) = tabs[t].queue[1]
  BY <1>4, TailElements DEF Saving
<1>6. IsNew(Head(tabs[t].queue), tabs[t].record)
  BY <1>1, <1>5 DEF WorkspaceInv, QueueInv
<1> QED BY <1>2, <1>3, <1>6 DEF IsSound

\* What is left behind when a workspace is given up is sound.
LEMMA AbandonedIsSound ==
    ASSUME IInv, NEW t \in Tabs
    PROVE  Abandoned(t) \subseteq Saves /\ \A save \in Abandoned(t) : IsSound(save)
<1>1. strays \subseteq Saves /\ \A save \in strays : IsSound(save) BY DEF IInv, TypeOK
<1>2. CASE Saving(t) BY <1>1, <1>2, SavingIsSound DEF Abandoned
<1>3. CASE ~Saving(t) BY <1>1, <1>3 DEF Abandoned
<1> QED BY <1>2, <1>3

\* A workspace that is not being edited owes nothing to the rows.
LEMMA IdleWorkspace ==
    ASSUME NEW workspace, NEW row, workspace.state # "ready", workspace.queue = <<>>
    PROVE  WorkspaceInv(workspace, row)
<1>1. Len(workspace.queue) = 0 BY SMT
<1> QED BY <1>1, SMT DEF WorkspaceInv, QueueInv

LEMMA GrownWorkspace ==
    ASSUME TypeOK, RowsGrow, NEW t \in Tabs, WorkspaceInv(tabs[t], rows[tabs[t].move])
    PROVE  WorkspaceInv(tabs[t], rows'[tabs[t].move])
BY WorkspaceType DEF WorkspaceInv, RowsGrow

LEMMA GrownSave ==
    ASSUME RowsGrow, NEW save \in Saves, IsSound(save)
    PROVE  IsSound(save)'
<1>1. save.move \in Moves /\ save.record \in Rows BY DEF Saves
<1> QED BY <1>1 DEF IsSound, RowsGrow

\* A step in which only the workspace of one tab changes, and perhaps the strays.
LEMMA OneWorkspace ==
    ASSUME IInv, NEW t \in Tabs, NEW workspace \in Workspaces,
           tabs' = [tabs EXCEPT ![t] = workspace],
           WorkspaceInv(workspace, rows[workspace.move]),
           UNCHANGED rows, loads' \in [Tabs -> SUBSET Moves],
           strays' \subseteq Saves, \A save \in strays' : IsSound(save)
    PROVE  IInv'
<1>1. tabs \in [Tabs -> Workspaces] BY DEF IInv, TypeOK
<1>2. tabs' \in [Tabs -> Workspaces] BY <1>1
<1>3. TypeOK' BY <1>2 DEF IInv, TypeOK
<1>4. (\A u \in Tabs : WorkspaceInv(tabs[u], rows[tabs[u].move]))'
  <2> SUFFICES ASSUME NEW u \in Tabs PROVE WorkspaceInv(tabs'[u], rows[tabs'[u].move])
    OBVIOUS
  <2>1. CASE u = t BY <2>1, <1>1
  <2>2. CASE u # t
    <3>1. tabs'[u] = tabs[u] BY <2>2, <1>1
    <3> QED BY <3>1 DEF IInv
  <2> QED BY <2>1, <2>2
<1>5. (\A save \in strays : IsSound(save))' BY DEF IsSound
<1>6. RecordedOnce' BY DEF IInv, RecordedOnce
<1> QED BY <1>3, <1>4, <1>5, <1>6 DEF IInv

-----------------------------------------------------------------------------
(* Its preservation, action by action.                                      *)

LEMMA InitInv == Init => IInv
<1> SUFFICES ASSUME Init PROVE IInv OBVIOUS
<1>1. PICK m \in Moves : tabs = [t \in Tabs |-> Fresh(m)] /\ loads = [t \in Tabs |-> {m}]
  BY DEF Init
<1>2. TypeOK BY <1>1, FreshType, NoRowType DEF Init, TypeOK
<1>3. \A t \in Tabs : WorkspaceInv(tabs[t], rows[tabs[t].move])
  BY <1>1, FreshType, IdleWorkspace
<1>4. RecordedOnce
  <2>1. \A n \in Moves : rows[n].observations = <<>> BY DEF Init, NoRow
  <2> QED BY <2>1, SMT DEF RecordedOnce
<1> QED BY <1>2, <1>3, <1>4 DEF IInv, Init

LEMMA ChangeMoveInv ==
    ASSUME IInv, NEW t \in Tabs, NEW m \in Moves, ChangeMove(t, m)
    PROVE  IInv'
<1>1. Fresh(m) \in Workspaces /\ WorkspaceInv(Fresh(m), rows[Fresh(m).move])
  BY FreshType, IdleWorkspace
<1>2. loads' \in [Tabs -> SUBSET Moves] BY DEF ChangeMove, Restart, IInv, TypeOK
<1> QED BY <1>1, <1>2, AbandonedIsSound, OneWorkspace DEF ChangeMove, Restart

LEMMA ReloadInv ==
    ASSUME IInv, NEW t \in Tabs, Reload(t)
    PROVE  IInv'
<1> DEFINE m == tabs[t].move
<1>1. m \in Moves BY WorkspaceType DEF IInv
<1>2. Fresh(m) \in Workspaces /\ WorkspaceInv(Fresh(m), rows[Fresh(m).move])
  BY <1>1, FreshType, IdleWorkspace
<1>3. loads' \in [Tabs -> SUBSET Moves] BY <1>1 DEF Reload, IInv, TypeOK
<1>4. tabs' = [tabs EXCEPT ![t] = Fresh(m)] BY DEF Reload
<1> HIDE DEF m
<1> QED BY <1>2, <1>3, <1>4, AbandonedIsSound, OneWorkspace DEF Reload

\* An answer that is taken is the row itself, or nothing to be edited.
LEMMA AnsweredInv ==
    ASSUME IInv, NEW t \in Tabs, NEW m \in Moves, NEW workspace \in Workspaces,
           Answered(t, m, workspace),
           Awaits(t, m) => WorkspaceInv(workspace, rows[workspace.move])
    PROVE  IInv'
<1>1. loads' \in [Tabs -> SUBSET Moves] BY DEF Answered, IInv, TypeOK
<1>2. strays' \subseteq Saves /\ \A save \in strays' : IsSound(save)
  BY DEF Answered, IInv, TypeOK
<1>3. CASE Awaits(t, m) BY <1>1, <1>2, <1>3, OneWorkspace DEF Answered
<1>4. CASE ~Awaits(t, m)
  <2>1. UNCHANGED <<rows, tabs, strays>> BY <1>4 DEF Answered
  <2>2. TypeOK' BY <1>1, <2>1 DEF IInv, TypeOK
  <2> QED BY <2>1, <2>2 DEF IInv, RecordedOnce, IsSound
<1> QED BY <1>3, <1>4

LEMMA OwnBasis == \A row \in Rows : IsBasis(row, row)
BY SMT DEF IsBasis, Rows

LEMMA LoadedInv ==
    ASSUME IInv, NEW t \in Tabs, NEW m \in Moves, Loaded(t, m)
    PROVE  IInv'
<1> DEFINE workspace == [tabs[t] EXCEPT !.state = "ready", !.record = rows[m]]
<1>1. tabs[t] \in Workspaces /\ rows[m] \in Rows BY DEF IInv, TypeOK
<1>2. workspace \in Workspaces BY <1>1 DEF Workspaces
<1>3. /\ workspace.move = tabs[t].move /\ workspace.record = rows[m]
      /\ workspace.queue = tabs[t].queue /\ workspace.state = "ready"
  BY <1>1 DEF Workspaces
<1>4. Awaits(t, m) => WorkspaceInv(workspace, rows[workspace.move])
  <2> SUFFICES ASSUME Awaits(t, m) PROVE WorkspaceInv(workspace, rows[m])
    BY <1>3 DEF Awaits
  <2>1. tabs[t].queue = <<>> BY DEF IInv, WorkspaceInv, Awaits
  <2>2. IsBasis(workspace.record, rows[m]) BY <1>1, <1>3, OwnBasis
  <2>3. Len(workspace.queue) = 0 BY <1>3, <2>1
  <2> HIDE DEF workspace
  <2> QED BY <1>3, <2>2, <2>3, SMT DEF WorkspaceInv, QueueInv
<1>5. Answered(t, m, workspace) BY DEF Loaded
<1> HIDE DEF workspace
<1> QED BY <1>2, <1>4, <1>5, AnsweredInv

LEMMA LoadFailsInv ==
    ASSUME IInv, NEW t \in Tabs, NEW m \in Moves, LoadFails(t, m)
    PROVE  IInv'
<1> DEFINE workspace == [tabs[t] EXCEPT !.state = "blocked"]
<1>1. tabs[t] \in Workspaces BY DEF IInv, TypeOK
<1>2. /\ workspace \in Workspaces
      /\ workspace.state = "blocked" /\ workspace.queue = tabs[t].queue
  BY <1>1 DEF Workspaces
<1>3. Awaits(t, m) => tabs[t].queue = <<>> BY DEF IInv, WorkspaceInv, Awaits
<1>4. Awaits(t, m) => WorkspaceInv(workspace, rows[workspace.move])
  BY <1>2, <1>3, IdleWorkspace
<1>5. Answered(t, m, workspace) BY DEF LoadFails
<1> HIDE DEF workspace
<1> QED BY <1>2, <1>4, <1>5, AnsweredInv

LEMMA ChangeInv ==
    ASSUME IInv, NEW t \in Tabs, NEW change \in Changes, Change(t, change)
    PROVE  IInv'
<1> DEFINE old == tabs[t].queue
           record == tabs[t].record
           workspace == [tabs[t] EXCEPT !.queue = Append(old, change)]
<1>1. /\ tabs[t] \in Workspaces /\ old \in Seq(Changes) /\ record \in Rows
      /\ tabs[t].state = "ready"
  BY WorkspaceType DEF IInv, Change
<1>2. /\ Append(old, change) \in Seq(Changes) /\ Len(Append(old, change)) = Len(old) + 1
      /\ \A i \in 1..Len(old) : Append(old, change)[i] = old[i]
      /\ Append(old, change)[Len(old) + 1] = change
      /\ Len(old) \in Nat
  BY <1>1, AppendElements
<1>3. /\ workspace \in Workspaces /\ workspace.move = tabs[t].move
      /\ workspace.record = record /\ workspace.queue = Append(old, change)
      /\ workspace.state = "ready"
  BY <1>1, <1>2 DEF Workspaces
<1>4. WorkspaceInv(tabs[t], rows[tabs[t].move]) BY DEF IInv
<1>5. IsNew(change, record)
  <2> SUFFICES ASSUME change.observation # None, NEW i \in 1..Len(record.observations)
               PROVE  record.observations[i] # change.observation
    BY DEF IsNew
  <2>1. change.observation \notin Observed(record) BY DEF Change
  <2>2. i \in DOMAIN record.observations BY <1>1 DEF Rows
  <2> QED BY <2>1, <2>2 DEF Observed
<1>6. \A i \in 1..Len(old) + 1 : i \in 1..Len(old) \/ i = Len(old) + 1 BY <1>2
\* Changes that observe the same are equal, so none in the queue observes this.
<1>7. change.observation # None => \A i \in 1..Len(old) : old[i].observation # change.observation
  <2> SUFFICES ASSUME change.observation # None, NEW i \in 1..Len(old),
                      old[i].observation = change.observation
               PROVE  FALSE
    OBVIOUS
  <2>1. old[i] \in Changes /\ i \in DOMAIN old BY <1>1
  <2>2. old[i] # change BY <2>1 DEF Change
  <2> QED BY <2>1, <2>2 DEF Changes
<1>8. \A i \in 1..Len(workspace.queue) : IsNew(workspace.queue[i], record)
  <2>1. \A i \in 1..Len(old) : IsNew(old[i], record) BY <1>4 DEF WorkspaceInv, QueueInv
  <2> HIDE DEF old, record, workspace
  <2> QED BY <1>2, <1>3, <1>5, <1>6, <2>1
<1>9. \A i, j \in 1..Len(workspace.queue) :
         /\ workspace.queue[i].observation # None
         /\ workspace.queue[i].observation = workspace.queue[j].observation
         => i = j
  <2>1. \A i, j \in 1..Len(old) :
           old[i].observation # None /\ old[i].observation = old[j].observation => i = j
    BY <1>4 DEF WorkspaceInv, QueueInv
  <2> HIDE DEF old, record, workspace
  <2> QED BY <1>2, <1>3, <1>6, <1>7, <2>1
<1>10. WorkspaceInv(workspace, rows[workspace.move])
  <2>1. IsBasis(record, rows[tabs[t].move]) BY <1>1, <1>4 DEF WorkspaceInv
  <2> HIDE DEF old, record, workspace
  <2> QED BY <1>3, <1>8, <1>9, <2>1 DEF WorkspaceInv, QueueInv
<1>11. tabs' = [tabs EXCEPT ![t] = workspace] BY DEF Change
<1>12. /\ UNCHANGED <<rows, loads, strays>>
       /\ loads \in [Tabs -> SUBSET Moves] /\ strays \subseteq Saves
       /\ \A save \in strays : IsSound(save)
  BY DEF Change, IInv, TypeOK
<1> HIDE DEF old, record, workspace
<1> QED BY <1>3, <1>10, <1>11, <1>12, OneWorkspace

\* What is confirmed is the row as it is now, and what waits is new to it.
LEMMA SaveConfirmedInv ==
    ASSUME IInv, NEW t \in Tabs, SaveConfirmed(t)
    PROVE  IInv'
<1> DEFINE save == Save(t)
           new == Written(save)
           old == tabs[t].queue
           workspace == [tabs[t] EXCEPT !.record = new, !.queue = Tail(old)]
<1>1. /\ TypeOK /\ RecordedOnce
      /\ save \in Saves /\ IsSound(save) /\ Admitted(save) /\ Write(save)
      /\ tabs[t].state = "ready"
  BY SavingIsSound DEF IInv, SaveConfirmed
<1>2. /\ save.move = tabs[t].move /\ save.record = tabs[t].record
      /\ save.change = Head(old)
      /\ new \in Rows
  BY <1>1, SaveType, WrittenType DEF SaveConfirmed
<1>3. /\ rows' \in [Moves -> Rows] /\ rows'[tabs[t].move] = new
      /\ RowsGrow /\ RecordedOnce'
  BY <1>1, <1>2, WriteEffect
<1>4. /\ tabs[t] \in Workspaces /\ old \in Seq(Changes) /\ old # <<>>
  BY <1>1, WorkspaceType DEF SaveConfirmed, Saving
<1>5. /\ Len(old) \in Nat \ {0} /\ Head(old) = old[1] /\ Head(old) \in Changes
      /\ Tail(old) \in Seq(Changes) /\ Len(Tail(old)) = Len(old) - 1
      /\ \A i \in 1..Len(Tail(old)) : Tail(old)[i] = old[i + 1]
  BY <1>4, TailElements
<1>6. /\ workspace \in Workspaces /\ workspace.move = tabs[t].move
      /\ workspace.record = new /\ workspace.queue = Tail(old) /\ workspace.state = "ready"
  BY <1>1, <1>2, <1>4, <1>5 DEF Workspaces
<1>7. /\ \A i \in 1..Len(old) : IsNew(old[i], tabs[t].record)
      /\ \A i, j \in 1..Len(old) :
            old[i].observation # None /\ old[i].observation = old[j].observation => i = j
  BY DEF IInv, WorkspaceInv, QueueInv
<1>8. \A i \in 1..Len(Tail(old)) : i + 1 \in 1..Len(old) /\ i + 1 # 1 BY <1>5
\* An observation in the new record was in the old one or has just been added.
<1>9. \A i \in 1..Len(new.observations) :
         \/ i \in 1..Len(tabs[t].record.observations)
            /\ new.observations[i] = tabs[t].record.observations[i]
         \/ Head(old).observation # None /\ new.observations[i] = Head(old).observation
  <2>1. tabs[t].record.observations \in Seq(Observations) BY <1>1, WorkspaceType DEF Rows
  <2>2. CASE Head(old).observation = None
    <3>1. new.observations = tabs[t].record.observations
      BY <2>2, <1>1, <1>2, WrittenType
    <3> QED BY <2>1, <3>1
  <2>3. CASE Head(old).observation # None
    <3>1. Head(old).observation \in Observations BY <2>3, <1>5, ChangeType
    <3>2. new.observations = Append(tabs[t].record.observations, Head(old).observation)
      BY <2>3, <1>1, <1>2, WrittenType
    <3> QED BY <2>1, <2>3, <3>1, <3>2, AppendElements
  <2> QED BY <2>2, <2>3
<1>10. \A i \in 1..Len(workspace.queue) : IsNew(workspace.queue[i], new)
  <2> SUFFICES ASSUME NEW i \in 1..Len(Tail(old)), old[i + 1].observation # None,
                      NEW k \in 1..Len(new.observations)
               PROVE  new.observations[k] # old[i + 1].observation
    BY <1>5, <1>6 DEF IsNew
  <2>1. i + 1 \in 1..Len(old) /\ i + 1 # 1 /\ 1 \in 1..Len(old) BY <1>5, <1>8
  <2>2. IsNew(old[i + 1], tabs[t].record) BY <1>7, <2>1
  <2>3. Head(old).observation # None => Head(old).observation # old[i + 1].observation
    BY <1>5, <1>7, <2>1
  <2> QED BY <1>9, <2>2, <2>3 DEF IsNew
<1>11. \A i, j \in 1..Len(workspace.queue) :
          /\ workspace.queue[i].observation # None
          /\ workspace.queue[i].observation = workspace.queue[j].observation
          => i = j
  <2> HIDE DEF old, new, workspace, save
  <2> QED BY <1>5, <1>6, <1>7, <1>8
<1>12. WorkspaceInv(workspace, rows'[workspace.move])
  <2>1. IsBasis(new, new) BY <1>2, OwnBasis
  <2> HIDE DEF old, new, workspace, save
  <2> QED BY <1>3, <1>6, <1>10, <1>11, <2>1 DEF WorkspaceInv, QueueInv
<1>13. tabs' = [tabs EXCEPT ![t] = workspace] /\ UNCHANGED <<loads, strays>>
  BY DEF SaveConfirmed
<1>14. tabs \in [Tabs -> Workspaces] BY <1>1 DEF TypeOK
<1>15. TypeOK' BY <1>1, <1>3, <1>6, <1>13, <1>14 DEF TypeOK
<1>16. (\A u \in Tabs : WorkspaceInv(tabs[u], rows[tabs[u].move]))'
  <2> SUFFICES ASSUME NEW u \in Tabs PROVE WorkspaceInv(tabs'[u], rows'[tabs'[u].move])
    OBVIOUS
  <2>1. CASE u = t BY <2>1, <1>12, <1>13, <1>14
  <2>2. CASE u # t
    <3>1. tabs'[u] = tabs[u] BY <2>2, <1>13, <1>14
    <3>2. WorkspaceInv(tabs[u], rows[tabs[u].move]) BY DEF IInv
    <3> QED BY <3>1, <3>2, <1>1, <1>3, GrownWorkspace
  <2> QED BY <2>1, <2>2
<1>17. (\A s \in strays : IsSound(s))'
  BY <1>3, <1>13, GrownSave DEF IInv, TypeOK
<1> QED BY <1>3, <1>15, <1>16, <1>17 DEF IInv

LEMMA SaveFailsInv ==
    ASSUME IInv, NEW t \in Tabs, SaveFails(t)
    PROVE  IInv'
<1>1. tabs[t] \in Workspaces /\ <<>> \in Seq(Changes) BY DEF IInv, TypeOK
<1>2. Blocked(t) = [move |-> tabs[t].move, state |-> "blocked",
                    record |-> tabs[t].record, queue |-> <<>>]
  <2> DEFINE next == [tabs[t] EXCEPT !.state = "blocked"]
  <2>1. next = [move |-> tabs[t].move, state |-> "blocked",
                record |-> tabs[t].record, queue |-> tabs[t].queue]
    BY <1>1 DEF Workspaces
  <2>2. [next EXCEPT !.queue = <<>>] = [move |-> tabs[t].move, state |-> "blocked",
                                        record |-> tabs[t].record, queue |-> <<>>]
    <3> HIDE DEF next
    <3> QED BY <2>1
  <2> QED BY <2>2, Zenon DEF Blocked
<1>3. /\ Blocked(t) \in Workspaces
      /\ Blocked(t).state = "blocked" /\ Blocked(t).queue = <<>>
  BY <1>1, <1>2, WorkspaceType DEF Workspaces, IInv
<1>4. WorkspaceInv(Blocked(t), rows[Blocked(t).move]) BY <1>3, IdleWorkspace
<1>5. loads' \in [Tabs -> SUBSET Moves] BY DEF SaveFails, IInv, TypeOK
<1>6. strays' \subseteq Saves /\ \A save \in strays' : IsSound(save)
  BY AbandonedIsSound DEF SaveFails, IInv, TypeOK
<1> QED BY <1>3, <1>4, <1>5, <1>6, OneWorkspace DEF SaveFails

LEMMA RunStrayInv ==
    ASSUME IInv, NEW save \in strays, RunStray(save)
    PROVE  IInv'
<1>1. TypeOK /\ RecordedOnce /\ save \in Saves /\ IsSound(save) BY DEF IInv, TypeOK
<1>2. strays' \subseteq strays /\ UNCHANGED <<tabs, loads>> BY DEF RunStray
<1>3. rows' \in [Moves -> Rows] /\ RowsGrow /\ RecordedOnce'
  <2>1. CASE Admitted(save) BY <2>1, <1>1, WriteEffect DEF RunStray
  <2>2. CASE ~Admitted(save)
    BY <2>2, <1>1 DEF RunStray, TypeOK, RowsGrow, RecordedOnce
  <2> QED BY <2>1, <2>2
<1>4. TypeOK' BY <1>1, <1>2, <1>3 DEF TypeOK
<1>5. (\A u \in Tabs : WorkspaceInv(tabs[u], rows[tabs[u].move]))'
  BY <1>1, <1>2, <1>3, GrownWorkspace DEF IInv
<1>6. (\A s \in strays : IsSound(s))'
  BY <1>1, <1>2, <1>3, GrownSave DEF IInv, TypeOK
<1> QED BY <1>3, <1>4, <1>5, <1>6 DEF IInv

LEMMA NextInv == IInv /\ [Next]_vars => IInv'
<1> SUFFICES ASSUME IInv, [Next]_vars PROVE IInv' OBVIOUS
<1>1. ASSUME NEW t \in Tabs, Reload(t) PROVE IInv' BY <1>1, ReloadInv
<1>2. ASSUME NEW t \in Tabs, SaveConfirmed(t) PROVE IInv' BY <1>2, SaveConfirmedInv
<1>3. ASSUME NEW t \in Tabs, SaveFails(t) PROVE IInv' BY <1>3, SaveFailsInv
<1>4. ASSUME NEW t \in Tabs, NEW m \in Moves, ChangeMove(t, m) PROVE IInv'
  BY <1>4, ChangeMoveInv
<1>5. ASSUME NEW t \in Tabs, NEW m \in Moves, Loaded(t, m) PROVE IInv' BY <1>5, LoadedInv
<1>6. ASSUME NEW t \in Tabs, NEW m \in Moves, LoadFails(t, m) PROVE IInv'
  BY <1>6, LoadFailsInv
<1>7. ASSUME NEW t \in Tabs, NEW change \in Changes, Change(t, change) PROVE IInv'
  BY <1>7, ChangeInv
<1>8. ASSUME NEW save \in strays, RunStray(save) PROVE IInv' BY <1>8, RunStrayInv
<1>9. CASE UNCHANGED vars
  BY <1>9 DEF vars, IInv, TypeOK, RecordedOnce, IsSound
<1> QED BY <1>1, <1>2, <1>3, <1>4, <1>5, <1>6, <1>7, <1>8, <1>9 DEF Next

-----------------------------------------------------------------------------
(* The theorems.                                                            *)

\* Whatever save_scoped_notetaker_data and the workspaces do, in any order and with
\* any saves lost or late, what a tab or a save holds is a beginning of its row.
THEOREM InductiveInvariant == Spec => []IInv
BY InitInv, NextInv, PTL DEF Spec

\* The rows, workspaces, queries and saves under way keep their types.
THEOREM TypesHold == Spec => []TypeOK
<1>1. IInv => TypeOK BY DEF IInv
<1> QED BY <1>1, InductiveInvariant, PTL

\* A capture that is tried again only when a reload does not show it is recorded once.
THEOREM ObservedOnce == Spec => []RecordedOnce
<1>1. IInv => RecordedOnce BY DEF IInv
<1> QED BY <1>1, InductiveInvariant, PTL

\* A workspace edits the row of its own move, or an earlier revision of it.
THEOREM EditsItsMove == Spec => []ShowsItsMove
<1>1. IInv => ShowsItsMove
  <2> SUFFICES ASSUME IInv, NEW t \in Tabs, tabs[t].state = "ready"
               PROVE  LET shown == tabs[t].record
                          row == rows[tabs[t].move]
                      IN  \/ shown = row
                          \/ /\ shown.revision < row.revision
                             /\ \A i \in DOMAIN shown.observations :
                                   /\ i \in DOMAIN row.observations
                                   /\ row.observations[i] = shown.observations[i]
    BY DEF ShowsItsMove
  <2> DEFINE shown == tabs[t].record
             row == rows[tabs[t].move]
  <2>1. shown \in Rows /\ row \in Rows BY WorkspaceType DEF IInv
  <2>2. IsBasis(shown, row) BY DEF IInv, WorkspaceInv
  <2>3. /\ shown.revision \in Nat /\ row.revision \in Nat
        /\ shown.observations \in Seq(Observations) /\ row.observations \in Seq(Observations)
    BY <2>1 DEF Rows
  <2>4. shown = row \/ shown.revision < row.revision BY <2>2, <2>3 DEF IsBasis
  <2>5. /\ DOMAIN shown.observations = 1..Len(shown.observations)
        /\ DOMAIN row.observations = 1..Len(row.observations)
        /\ Len(shown.observations) \in Nat /\ Len(row.observations) \in Nat
    BY <2>3
  <2>6. \A i \in DOMAIN shown.observations :
           i \in DOMAIN row.observations /\ row.observations[i] = shown.observations[i]
    <3> HIDE DEF shown, row
    <3> QED BY <2>2, <2>5 DEF IsBasis
  <2> QED BY <2>4, <2>6
<1> QED BY <1>1, InductiveInvariant, PTL

\* The two ways a row is said to differ from the one before, field by field.
LEMMA SectionSet ==
    ASSUME NEW old \in Rows, NEW s \in Sections, NEW v
    PROVE  [old EXCEPT !.revision = @ + 1, !.sections[s] = v]
             = [revision |-> old.revision + 1,
                sections |-> [old.sections EXCEPT ![s] = v],
                observations |-> old.observations]
<1> DEFINE next == [old EXCEPT !.revision = @ + 1]
<1>1. next = [revision |-> old.revision + 1, sections |-> old.sections,
              observations |-> old.observations]
  BY DEF Rows
<1>2. next.sections = old.sections BY <1>1
<1>3. [next EXCEPT !.sections = [next.sections EXCEPT ![s] = v]]
        = [revision |-> old.revision + 1, sections |-> [old.sections EXCEPT ![s] = v],
           observations |-> old.observations]
  <2> HIDE DEF next
  <2> QED BY <1>1, <1>2
<1> QED BY <1>3, Zenon

LEMMA ObservationAdded ==
    ASSUME NEW old \in Rows, NEW o
    PROVE  [old EXCEPT !.revision = @ + 1, !.observations = Append(@, o)]
             = [revision |-> old.revision + 1, sections |-> old.sections,
                observations |-> Append(old.observations, o)]
<1> DEFINE next == [old EXCEPT !.revision = @ + 1]
<1>1. next = [revision |-> old.revision + 1, sections |-> old.sections,
              observations |-> old.observations]
  BY DEF Rows
<1>2. next.observations = old.observations BY <1>1
<1>3. [next EXCEPT !.observations = Append(next.observations, o)]
        = [revision |-> old.revision + 1, sections |-> old.sections,
           observations |-> Append(old.observations, o)]
  <2> HIDE DEF next
  <2> QED BY <1>1, <1>2
<1> QED BY <1>3, Zenon

\* A save replaces the whole row, and yet changes one part of it and keeps the rest as
\* every tab before it has left it.
THEOREM PartsStay == Spec => OtherPartsStay
<1> DEFINE Step(m) ==
      LET old == rows[m]
          new == rows'[m]
      IN  \/ new = old
          \/ \E s \in Sections :
                new = [old EXCEPT !.revision = @ + 1, !.sections[s] = new.revision]
          \/ \E o \in Observations :
                new = [old EXCEPT !.revision = @ + 1, !.observations = Append(@, o)]
<1>1. ASSUME IInv, NEW save \in Saves, IsSound(save), Admitted(save), Write(save), NEW m \in Moves
      PROVE  Step(m)
  <2>1. TypeOK /\ rows \in [Moves -> Rows] BY <1>1 DEF IInv, TypeOK
  <2>2. CASE m # save.move BY <1>1, <2>1, <2>2 DEF Write
  <2>3. CASE m = save.move
    <3> DEFINE old == rows[m]
               change == save.change
    <3>1. save.record = old BY <1>1, <2>3, AdmittedIsCurrent
    <3>2. rows'[m] = Written(save) /\ old \in Rows BY <1>1, <2>1, <2>3 DEF Write
    <3>3. change \in Changes BY DEF Saves
    <3>4. CASE change.section \in Sections /\ change.observation = None
      <4>1. [s \in Sections |-> IF s = change.section THEN old.revision + 1 ELSE old.sections[s]]
              = [old.sections EXCEPT ![change.section] = old.revision + 1]
        BY <3>2 DEF Rows
      <4>2. Written(save) = [revision |-> old.revision + 1,
                             sections |-> [old.sections EXCEPT ![change.section] = old.revision + 1],
                             observations |-> old.observations]
        BY <2>3, <3>1, <3>4, <4>1 DEF Written
      <4>3. Written(save) = [old EXCEPT !.revision = @ + 1,
                                        !.sections[change.section] = Written(save).revision]
        <5>1. Written(save).revision = old.revision + 1 BY <4>2
        <5> HIDE DEF old, change
        <5>2. [old EXCEPT !.revision = @ + 1, !.sections[change.section] = Written(save).revision]
                = [revision |-> old.revision + 1,
                   sections |-> [old.sections EXCEPT ![change.section] = Written(save).revision],
                   observations |-> old.observations]
          BY <3>2, <3>4, SectionSet, Zenon
        <5> QED BY <4>2, <5>1, <5>2, Zenon
      <4> QED BY <3>2, <3>4, <4>3
    <3>5. CASE change.section = None /\ change.observation \in Observations
      <4>1. change.section \notin Sections /\ change.observation # None
        BY <3>5, NoneAssumption
      <4>2. [s \in Sections |-> IF s = change.section THEN old.revision + 1 ELSE old.sections[s]]
              = old.sections
        BY <3>2, <4>1 DEF Rows
      <4>3. Written(save) = [revision |-> old.revision + 1, sections |-> old.sections,
                             observations |-> Append(old.observations, change.observation)]
        BY <2>3, <3>1, <4>1, <4>2 DEF Written
      <4>4. Written(save) = [old EXCEPT !.revision = @ + 1,
                                        !.observations = Append(@, change.observation)]
        <5> HIDE DEF old, change
        <5> QED BY <3>2, <4>3, ObservationAdded
      <4> QED BY <3>2, <3>5, <4>4
    <3> QED BY <3>3, <3>4, <3>5, ChangeType
  <2> QED BY <2>2, <2>3
<1>2. IInv /\ [Next]_vars => \A m \in Moves : Step(m)
  <2> SUFFICES ASSUME IInv, [Next]_vars, NEW m \in Moves PROVE Step(m) OBVIOUS
  <2>1. CASE UNCHANGED rows BY <2>1
  <2>2. ASSUME NEW t \in Tabs, SaveConfirmed(t) PROVE Step(m)
    <3>1. Save(t) \in Saves /\ IsSound(Save(t)) BY <2>2, SavingIsSound DEF SaveConfirmed
    <3> QED BY <1>1, <2>2, <3>1 DEF SaveConfirmed
  <2>3. ASSUME NEW save \in strays, RunStray(save) PROVE Step(m)
    <3>1. save \in Saves /\ IsSound(save) BY DEF IInv, TypeOK
    <3>2. CASE Admitted(save) BY <1>1, <2>3, <3>1, <3>2 DEF RunStray
    <3>3. CASE ~Admitted(save) BY <2>1, <2>3, <3>3 DEF RunStray
    <3> QED BY <3>2, <3>3
  <2>4. \/ UNCHANGED rows
        \/ \E t \in Tabs : SaveConfirmed(t)
        \/ \E save \in strays : RunStray(save)
    BY DEF Next, vars, Reload, SaveFails, ChangeMove, Loaded, LoadFails, Answered, Change
  <2> QED BY <2>1, <2>2, <2>3, <2>4
<1>3. IInv /\ [Next]_vars => [\A m \in Moves : Step(m)]_vars BY <1>2
<1> QED BY <1>3, InductiveInvariant, PTL DEF Spec, OtherPartsStay
=============================================================================
