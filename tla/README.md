# Fractured Order: TLA+ models

Fractured Order runs a facilitated strategic game in browsers. There is no
application server: each browser holds stores and role pages (`src/src`), calls
Postgres functions and tables through Supabase, and hears of other browsers' writes
through realtime change streams. The rules of the game live in the SQL migrations
(`src/data`): triggers, security-definer RPCs and row policies. What is hard about it is
what happens between a read on screen and the write that follows from it.

This directory models that core. Section 1 is the inventory, 2 the modules, 3 the
runs and their bounds, 4 the proofs, 5 what the code does against its own
documents, 6 what is not modelled and the plan.

## 1. Inventory

| Component | State | Operations | Must hold | Modelled |
|---|---|---|---|---|
| Action workflow (`2026-08-05_team_neutral_artifact_review.sql`, `2026-07-14_action_artifact_workflow_integrity.sql`, role pages) | `actions`, its log, its reviews | create, edit, forward, delete (Scribe); submit (Facilitator); complete, return, adjudicate (White Cell) | a decision falls on what the reviewer read; revisions and reviews form one chain; every write is logged; terminal rows stay | `ActionWorkflow`, partly |
| Requests for information (`2026-08-05`, `2026-09-28_gc07_regional_messaging.sql`, `RfiForm.js`) | `requests`, responses, returns, team timeline | create, retry, revise (Facilitator); return, answer (White Cell) | an answer is to the question asked; answered once; retries create one request | `RequestWorkflow`, partly |
| Proposals and their recipient threads (`2026-09-26_gc06_regional_proposals.sql`, `2026-08-06_proposal_recipient_threads.sql`) | the proposal's row, its approvals and their history, `communications` | draft, forward, edit, submit (delegation); approve per recipient, return, release (White Cell); answer (both sides) | an approval is of what was read and of this revision; a thread is one conversation through White Cell | `ProposalThreads`, partly |
| Seats of regional sessions (`2026-09-19_*`, `2026-09-24_gc04a_shared_facilitator.sql`, `services/heartbeat.js`, `main.js`) | `session_participants` with leases, each browser's page | claim, restore, heartbeat, logout, remove, expiry, replacement | limits; a running lease is honoured; a replaced seat stays out; a closed session admits nobody | `SeatLease` |
| Session lifecycle (`2026-08-12`, `2026-08-17`, `2026-09-29`) | session status | create, archive, delete | no seats in an archived session | archive and delete in `SeatLease` |
| Private notes of regional sessions (`2026-09-18_green_regional_storage.sql`, `2026-09-20`, `notetaker.js`) | a row per seat and move with a revision; a queue of saves per tab | load, change, save, block, reload, move change | no part of a row is lost; nothing is recorded twice; a workspace edits the row of its move | `ScopedNotes` |
| Game state (`stores/gameState.js`, `2026-06-28_white_cell_plugins_game_state.sql`, two gate triggers) | `game_state`, `game_state_transitions`, a copy per browser | controls of the Lead, timer end, 30-second sync, load | the gates cannot be got round | `GameClock`, partly |
| Orientations, Industry proposals (`2026-09-25`, `2026-10-06`) | `actions` of special types | submit, return, complete | read by the move gates | what the gates read, in `GameClock` |
| Collection stores (`stores/actions.js`, `requests.js`, `communications.js`) | a list of rows, a generation | load, reconcile, own write, realtime change | a merge loses nothing; rows on screen stay | `StoreReconcile`, partly |
| Sync service (`services/sync.js`) | status, generation, debounce | start, resync, online, offline | "synced" means so; an outage is made good | `StoreReconcile`, partly |
| Realtime service (`services/realtime.js`) | channels, attempts | subscribe, status callbacks, reconnect | reconnecting settles | `StoreReconcile`, partly |
| Timeline and research event log | `timeline`, audit rows | append | every transaction that should leave a row does | the rows of the modelled transactions |
| Shared notes, seats and proposals of unified sessions; operator grants | rows without revision or replayed roots | merge and save; claim; approve | as above | no |
| Action notifications (`2026-08-14_action_notification_title_snapshot.sql`) | messages to Green and Industry | complete with approvals | each team informed once, and of the text that was completed | `ActionNotifications` |
| Regional topology and authorization | role tables | none that change state | - | no |
| SME, PLI, plugins, plenary, onboarding, export, UI, local test backend | - | rendering, side channels, a stand-in | - | no |

The components meet in three places. The role pages call the database and put the
answer into a store. The database's triggers join tables within one transaction (a
review writes the row, its review and its log; the move gate reads proposals; the
archive of a session ends its seats). The
realtime service calls the sync service, which calls the stores. Nothing else
orders two browsers: every pair of awaits in one page may enclose any step of
another. Answers may be lost after the commit, events lag behind answers, channels
fail and are rejoined, a call may outlive the page that made it. `PROJECT.json` lists where each of these bites.

## 2. Modules

| Module | Models | Extends / composes |
|---|---|---|
| `ActionRow` | one row of `actions` and the BEFORE trigger `normalize_action_workflow_write`, as operators over the old and the new row | |
| `ActionWorkflow` | the pages that work on action rows, each a small call automaton over the awaits of the client code | `ActionRow`; INSTANCE of `ActionLifecycle` |
| `ActionNotifications` | completion together with the messages an action asked for | `ActionWorkflow` |
| `ActionLifecycle` | abstract specification: stages, revision and text of an artifact | |
| `RequestWorkflow` | request rows, forms and modals, both write paths (`Regional`) | |
| `ProposalThreads` | one proposal of a regional delegation, its forms, approvals and threads | `ActionRow`; INSTANCE of `ProposalNegotiation` |
| `ProposalNegotiation` | abstract specification: two sides who take turns through a referee | |
| `SeatLease` | seats with leases, the session's status, each browser from join to logout | |
| `ScopedNotes` | the notes of a seat that is open in several tabs | |
| `GameClock` | the game row, its RPC with two gates, the White Cell browsers | |
| `StoreReconcile` | one store, one channel, the sync service | |
| `ActionWorkflowProofs`, `ActionHistoryProofs` | theorems of `ActionWorkflow`, of what its pages read, and of what its rows and logs went through; the second also those of `ActionNotifications` | the module, TLAPS |
| `RequestWorkflowProofs`, `ProposalThreadsProofs`, `SeatLeaseProofs`, `ScopedNotesProofs`, `GameClockProofs`, `StoreReconcileProofs` | the theorems of the module named | the module, TLAPS |
| `MC...` | symmetry sets, capacities and the requests of texts for TLC | the module of that name; `MCActionWorkflow` extends `ActionNotifications` |

**ActionWorkflow.** `actions`, `action_logs`, `reviews` are the tables;
`calls[s]` is what page `s` is doing: the copy its form was opened from (`seen`), the
row its `getAction` returned (`read`) and how far it got (`step`). `ReadDraft`
is the read and the client's checks; `SaveEdit`, `Forward`, `Delete` and `Submit` are
the conditional updates; `CompleteDetails` is the first of the two writes of a submission.
`Complete`, `ReturnToTeam` and `Adjudicate` are RPCs, one transaction each with row,
review and log. Every write ends with `Answered`: either the answer arrives, or it
is lost and the page stays where it was, so its user may send the same again. Text is
abstracted to counters: `goal` and `details` change at each write that changes
them, which keeps different texts different. The policies
`ScribeMayUpdate` and `FacilitatorMayUpdate` and the trigger's acceptance
(`UpdateAccepted`) guard every table write. `Stage` maps a row to the abstract
lifecycle.

**ActionNotifications.** `communications` is added to the variables, and `Complete` is replaced by two
actions: the browser takes the path with notifications when the copy in its modal asks for any
(`CompleteWithNotifications`), else the plain one (`CompleteQuietly`). The reviewer approves some of the
teams of that copy; the database compares them with those of the row. A message has the text twice, as the
modal had it (`content`) and as the row has it at the lock (`snapshot`). Which teams an action
asks for is part of its details, so the constant `Requested` gives them for each text. The messages of
one transaction are one entry. `NotifyingSpec` allows only what `Spec` allows of the other tables.

**RequestWorkflow.** `forms` and `modals` hold the row as it was when they were opened.
Creation in a regional session is one RPC with a client key and a timeline row in the
same transaction (`Create`, `RetryCreate`, `AttemptFound`); in a unified session the timeline row
is a later call of its own (`RecordForm`). `CheckLatest` is the refetch a White Cell modal does
before it writes. A response carries the question its author saw.

**ProposalThreads.** `proposal` is a row that goes through the same trigger as every action
(`Normalized` of `ActionRow`), with its approvals per recipient and those of earlier
revisions. Scribe and Facilitator write it from `forms` that may be stale; the review modal
sends one call per chosen recipient, in a loop that breaks off at the first call that
fails (`sending`, `ApprovalFails`). `Approve` is the whole of `operator_review_proposal`,
the completion by the last approval included; `ReturnProposal` includes `TakenBack`, what
the guard trigger does to hand-off and approvals. `AppendMessage` and `ForwardResponse` are the two
RPCs of a thread. A participant keeps no copy that the database believes: an answer names its
parent and everything else is read at commit, so a late or repeated answer is one to an
old parent. The client makes a fresh key for each click, hence a retried answer is stopped by the parent check
and not by its key. The row's own timeline entries are left out. What a proposal says is the row
version that last set it. `handleLegacyProposalReview` has no caller and is left out. So is
the branch of the submission for first revisions forwarded before `proposal_handoff_revision` existed
(`2026-09-26_gc06_regional_proposals.sql:114`): every forward sets that column now.

**SeatLease.** `seats` is `session_participants`; `is_active` stands for the three columns that every
statement changes together, `age` for the time since `heartbeat_at`. A browser has three call slots (the page's own
call, the heartbeat, the restore of a resync), and each call runs and answers in separate steps;
when its page goes away, a call that has not run becomes an orphan that may still run.
`MayClaim` and `Claimed` are the claim under the session's lock: release of stale
leases, count, replacement of lapsed holders, insert. A restore is a claim of
the role one has. In a role with two places a restore replaces a lapsed second holder though there
is room, as the code does. `notices` is realtime bringing an open page a row that says its seat
has ended. A second line of defence, the trigger `guard_green_authority`, refuses to revive a revoked
row; no action of the model comes to it. The online flag is folded into `Pause` and
`Resync`. `heartbeatService` in `services/heartbeat.js` has no caller; the model follows the
timer in `main.js` and the participants store.

**ScopedNotes.** `rows` is the table by move, `tabs` the workspace of each tab with its queue of
saves, `loads` the queries whose answers are out, `strays` saves that nobody waits for. A save
sends the whole row with one part changed and is admitted at its revision only. The commit
and the answer of a confirmed save are one step, since nothing the tab does in between differs; a lost answer
is a lost request that runs later (`SaveFails`, `RunStray`). Phase and scope checks and the denial
of a seat are among the reasons of `SaveFails`. Strays form a set: two equal saves cannot both be admitted.
A load of an earlier visit to the same move counts as the current one's. What the
model assumes of users is one thing: an observation is captured again only when it is not shown after a
reload. The code does not enforce it, for each capture has an id of its own and the button stays enabled while a save is
pending, so a second press records the observation twice; `RecordedOnce` is about lost answers, not about that.

**GameClock.** Each browser has a copy (`local`), a Lead has a dialogue open (`asked`), calls
go through sent, started (the transaction has its `NOW()`) and answered, and
realtime events queue per browser. `Commit` is the whole of `operator_update_game_state` under
its row lock: COALESCE of the columns, both gate triggers, the transition rows.
`Sync` is the 30-second write of a whole copy, `Finish` the timer end, `Confirm` the
control after its dialogue, which reads the copy again. The timeline entry that a page writes
after a control is left out. Orientations and sector coverage only grow here; a returned
one makes a gate refuse, which is among the losses (`Lose`).

**StoreReconcile.** A query is asked, seen by the server and merged in three steps. `Merged` is the
merge of `reconcile...`: a row that changed in the store since the query was asked
wins over the fetched one. `transit` is the realtime stream, first in first out;
`replies` are answers to own writes and may overtake it. A change committed
while the channel is down is not sent later. Versions stand for content.

## 3. Runs

| Run | Bounds | Shows |
|---|---|---|
| `ActionWorkflow` (under `NotifyingSpec`) | 1 action, 1 Scribe, 1 Facilitator, 2 reviewers, 7 writes of a row, 2 teams to inform | `TypeOK`, `DecidesWhatWasRead`, `ReviewChain`, `LogIsComplete`, `VersionIdentifiesRow`, `InformsOnceAndTruly`, `TerminalIsFinal`; `LifecycleSpec`: it implements `ActionLifecycle` |
| `RegionalRequests` | 2 requests, 2 keys, 2 questions, 1 Facilitator, 2 reviewers, 3 revisions | `TypeOK`, `AnswersWhatWasAsked`, `RetriesCreateOnce`, `SubmissionsAreRecorded` |
| `UnifiedRequests` | 1 request, 2 Facilitators, 2 reviewers, 3 revisions | `AnsweredOnce`, `ReturnChain`, `ReturnsWhatWasRead` |
| `ProposalThreads` | 2 recipients, 1 Scribe, 1 Facilitator, 1 reviewer, 6 writes, 5 messages | `TypeOK`, `OverwritesWhatWasShown`, `ApprovesWhatWasSeen`, `ApprovalsAreKept`, `CompletedIsApproved`, `RoundsChain`; `NegotiationSpec`: it implements `ProposalNegotiation` |
| `SeatLease` | 2 people, a role with one place and one with two, lease of 1 tick, 2 calls under way per browser | `TypeOK`, `CapacityHolds`, `ClosedAdmitsNobody`, `RevokedStaysOut`, `LeasesAreHonoured` |
| `SeatLiveness` | 2 people, a role with one place, 1 call under way per browser | liveness: `HolderLearns`, `AbandonedIsFreed` |
| `ScopedNotes` | 2 tabs, 2 moves, 1 section, 1 text, 2 revisions of a row, queues of 2, 1 stray | `TypeOK`, `RecordedOnce`, `ShowsItsMove`, `OtherPartsStay` |
| `GameClock` | 1 Lead, 1 Support, 3 moves, 2 phases, 2 writes, 2 calls at once | `TypeOK`, `MovesLeftWereCovered` |
| `StoreReconcile` | 1 row, 2 versions, 2 reconnect attempts, 2 resyncs at once | `TypeOK`, `CoveredMissesNothing`, `RowsStay`; liveness: `OutagesAreMadeGood`, `ReconnectsSettle` |
| `StartupGap`, `RegionalReapproval`, `GateSkipsMoves` | those of `StoreReconcile`, `ProposalThreads`, `GameClock` | a counterexample each, see section 5 |

Why these bounds are enough. Artifacts interact only through a page that works on
one at a time, so one action with all surfaces on it has every race between them;
seven writes are a draft, an edit, a forward, the two writes of a submission, a
return, and one more write on the next revision. The texts differ in whom they ask to inform,
so a stale modal may offer teams that the row does not ask for. Client keys need two requests, or a retry could make
no second one; a returned question needs two revisions to be confused and a third for the chain.
Two recipients are the least for a proposal that is partly approved; six writes reach the approval of a second
revision, five messages a root, an answer, its release, the counter and its release in one thread, or two threads side by side.
Two people race for one place, and in a role with two each can lapse beside the other; one tick tells a running
lease from one in its last instant and one that ran out. Two tabs make each other's saves stale, two moves let an
answer or a save come to the wrong one, and a stray meets every later save of either tab. Larger
instances of `ScopedNotes` (three revisions, 7.1 million states; two strays, 8.0 million) show no error either. Rows of a store
are merged independently; two versions tell an insert from an update, and two resyncs
overlap. The game needs three moves to jump over one. Two writes already race for the row lock,
and every session begins from any move the Lead may have brought it to. The bound
`MaxCalls` counts the calls under way, `MayWrite` lets browsers of `GameClock` send
only while the writes sent are fewer than `MaxWrites` lets start.

Deadlock is not checked where the bounds on writes end every behaviour; a
session that has run out of work is idle, not stuck. `StoreReconcile`, `SeatLease` and `SeatLiveness` are checked for it.

Fairness is assumed in two modules. In `StoreReconcile` timers fire, so a due resync starts and a waiting
channel is tried again; a subscription ends in SUBSCRIBED or TIMED_OUT; a query
returns or fails; an event or a reply that was sent on a live connection arrives.
Nothing is assumed of users, writers, outages or the browser's online events, and a
resync may fail each time. `OutagesAreMadeGood` therefore has the ways out that the code has:
the channel fails again, or the status says error. In `SeatLiveness` time passes (`Tick`), and for
each person something goes on as long as it can: the database runs a call, an answer is handled, or the
heartbeat timer of an open page fires. No user action is fair, no call has to arrive, and realtime may never
bring its notice. A page that pauses offline again and again is the way out of `HolderLearns`.

## 4. Proofs

Every theorem holds for any sets of browsers, artifacts, people, moves and rows and any bounds that satisfy
the named assumptions of its module. Those say what the code has: disjoint surfaces, finite
people, capacities and bounds that are natural numbers, a null that is no value. Each proof follows
one argument: an inductive invariant of the module (`IInv`, `Inv` in `GameClockProofs`, `HistoryInv` and `NotifyingInv` in `ActionHistoryProofs`), a lemma per
action or per group of actions, and the properties from it.

| Proof module | Theorems |
|---|---|
| `ActionWorkflowProofs` | `TypeCorrect`, `InductiveInvariant`, `DecisionsAreInformed`, `VersionsIdentifyRows` |
| `ActionHistoryProofs` | `HistoryHolds`, `ReviewsChain`, `EveryWriteIsLogged`, `TerminalStays`, `WorkflowImplementsLifecycle`, `NotifyingIsWorkflow`, `TeamsInformedTruly` |
| `RequestWorkflowProofs` | `InductiveInvariant`, `TypesHold`, `RegionalAnswersFit`, `OneAnswer`, `ReturnsChain`, `ReturnsFit`, `RetriesAreOne`, `SubmissionsOnRecord` |
| `ProposalThreadsProofs` | `InductiveInvariant`, `TypesHold`, `WritesWhatWasShown`, `ApprovedAsSeen`, `ApprovalsOnRecord`, `ThreadsChain`, `CompletionIsApproval`, `ThreadsImplementNegotiation` |
| `SeatLeaseProofs` | `InductiveInvariant`, `TypesHold`, `PlacesSuffice`, `ClosedIsEmpty`, `ReplacedForGood`, `LeasesHold` |
| `ScopedNotesProofs` | `InductiveInvariant`, `TypesHold`, `ObservedOnce`, `EditsItsMove`, `PartsStay` |
| `GameClockProofs` | `TypesHold`, `StartIsLeftOriented`, `CoverageHolds`, `TransitionsReplay`, `SupportsOnlyBringBack` |
| `StoreReconcileProofs` | `InductiveInvariant`, `TypesHold`, `NothingIsMissed`, `RowsAreKept` |

**Decisions** (`ActionWorkflowProofs`). `DecidesWhatWasRead` is not inductive: it speaks of a row that is under review, and
says nothing of a revision that went back to the team, from where a step could bring
it under review with new text and the old revision. `CallInv` closes that: versions and revisions of a row never fall
behind what a call has seen of them; a row still in the version that was read is the
row that was read; a row in the revision a review modal shows is still with White Cell, with the
content shown. The proof looks at steps only through two relations: `RowEffect`, what
a step may do to one row, and `CallEffect`, what it may do to a
call. One lemma per surface shows that every action is such a step; `IInvStep` then needs no action at all.

**History** (`ActionHistoryProofs`). A step writes one row at most, in one of seven ways (`Writes`: it
creates, rewrites, submits, drops, judges, completes or returns it). `HistoryInv` adds to `IInv`, for each row, that its text is of one
of its writes, that an absent row has no history, and that row, reviews and log fit each other. The seven
ways are then checked against the chain, the log, finality and, through `Stage`, the actions of
`ActionLifecycle`: `WorkflowImplementsLifecycle` is the refinement for every instance.
`NotifyingIsWorkflow` carries all of this over to the specification with notifications. For
`TeamsInformedTruly`, `CallInv` shows that a completion which passes the revision check stores the very text of
the modal, and finality keeps it there (`CompletesWhatWasRead`, `MessagesStay`): the database compares a number only, and
the words of a stale browser are still true.

**Requests** (`RequestWorkflowProofs`). A modal is a copy of an earlier state of its row, and when the row has the
modal's revision and can still be returned, it is that very state (`ModalsInv`); rows, returns and answers count
alike (`RowsInv`); a key belongs to one request or to none (`KeysInv`). `RegionalAnswersFit` reads
`Spec => [](Regional => AnswersWhatWasAsked)`: outside regional sessions it is false, see section 5.
`SubmissionsOnRecord` adds `RecordedInv`: the entries that the timeline has of a request number its submissions,
which a creation, its retries and a revision keep because the row and its entry are written in one transaction.

**Proposals** (`ProposalThreadsProofs`). The invariant says what a form's pair of versions and a modal's revision still tell
of the row, that approvals and first messages of a revision stand for each other, that messages of a
thread are counted by their rounds, and (`TextInv`) that an approval of the
current revision is of the current text, an older one of a text replaced since. The last part is what
`CompletionIsApproval` needs: without it an old approval of equal text could not be told from a current one.
The refinement `ThreadsImplementNegotiation` needs a second invariant of the threads (`LinesInv`): every message is in the thread, about the revision and
for the recipient of its root; the sides alternate with the rounds; a released answer names the review it came from; the rounds of
a thread's released answers are 1 to n without a gap, and what is under review has one of these numbers or the next. From it `Said` is a
sequence that grows by one turn at a release only, at most one message waits (`WaitingOf`), and a thread is live as
long as the proposal stands at the revision its root approved (`StandingNow`), so that a return is the one step `TakeBack` of all threads.
Each write is then one action of `ProposalNegotiation` (`ApproveStep`, `AppendStep`, `ForwardStep`, `ReturnStep`) and every other step a
stutter (`QuietStep`).

**Seats** (`SeatLeaseProofs`). `Occupied` counts active seats of a role, lapsed ones included, against its capacity. A claim releases
before it counts, so the proof compares the occupants after the claim with those counted plus the claimer. Revoked seats are inactive,
and no seat is active in a closed session. `CapacityHolds` follows since authority needs an active seat.

**Notes** (`ScopedNotesProofs`). What a ready tab shows and what a stray carries is the row or a beginning of it at a lower revision
(`WorkspaceInv`, `IsSound`). The revision check then makes the whole-row write equal to a change of
one part, and an observation that a tab sends is not in the row it is sent to.

**Game** (`GameClockProofs`). Types rest on two more conjuncts: `WritesFit` (the writes sent and started are within
the bound, so a transaction has a stamp) and `AnswersAreRows` (an answered call has a row to
apply). A control is typed because `Possible` is asked of the very copy that `Requested` is
computed from. The two gates then need no more of the browsers than types: `Commit` is the only
step that moves the game, and `LoggedEntries` says that the only new move on record is one the gate let pass. `StartIsLeftOriented` says that the
game stands at its start until all orientations have been in; no run checks it, since it is the gate alone that keeps it.
Two theorems are about the record of the RPC, `game_state_transitions`, and no run checks them either.
`TransitionsReplay`: the record, replayed from move 1 and phase 1, ends where the game stands, so each of its rows starts
where the one of its type before it ended; `ChainGrows` and the two `HeldBy` lemmas say so of one row, and a write adds at most
one of each type. `SupportsOnlyBringBack`: the 30-second write of a Support's browser can undo a Lead's control
with a stale copy, and does, but leads nowhere a Lead has not been. `OnlyLed` is what makes that inductive: whatever
the game, a copy, an event, an answer or a Support's request holds, a Lead led to (`Led`), and `Led` only grows.

**Stores** (`StoreReconcileProofs`). Stores, queries and events hold rows of the table only; what a query's snapshot, taken while the
channel was up, lacks is in the store or on its way (`QueryInv`). `Progress` says what every step does to table, store and stream at most;
`CoveredMissesNothing` is carried through the merge by it.

Only model-checked are the four liveness properties `HolderLearns`, `AbandonedIsFreed`, `OutagesAreMadeGood` and
`ReconnectsSettle`: liveness under fairness and ENABLED are beyond this prover, as is induction over data. What is
said of growing logs is therefore stated by numbers and indices (`TimesSubmitted`, `Rounds`), not by filtering a sequence. No module declares a RECURSIVE operator, so none is
closed to proof for that reason.

## 5. Where the code departs from its documents

Three runs have a counterexample, and `PROJECT.json` quotes the sentence each contradicts:

- `StartupGap`: the reconcile after subscribing does not close the gap it is there for, since
  it does not wait for SUBSCRIBED.
- `GateSkipsMoves`: the Industry gate asks for the sectors of the move being left, so one write from move 1
  to move 3 never asks for those of move 2; a control confirmed on a copy that changed under its dialogue makes such a write.
- `RegionalReapproval`: the review modal counts a first message of any revision as an approval, so after the return of a partly
  approved proposal that recipient cannot be approved from a browser that holds the old message.

Others have no run of their own; the models contain the behaviour:

- A stale submit is not rejected, `submitAction` reads the row again (`src/PLENUM_FUNCTIONAL_WORKFLOW_AUDIT.md:101`).
- A stale answer is not rejected outside regional sessions (the same document, line 111). Hence `Regional` in `RegionalAnswersFit`.
- A resync reports synced while the channel is down, and an UPDATE that arrives during the query that would bring its row is dropped.
- The periodic sync of a Support browser writes back its whole copy and may revert a control of the Lead
  (`stores/gameState.js:583`), though `whitecell.js:2611` calls White Cell support read-only for move controls.
- A heartbeat that finds its lease lapsed while the page waits for its logout restores the seat (`main.js:515`); the seat then lives
  until its lease ends.
- A change of the move drops queued saves and autosaves not yet due without a notice.
- In unified sessions a lost answer of the timeline call makes a captured observation appear twice (the same document, line 112).

The passing runs and the theorems say how far the promises hold: `AnswersWhatWasAsked` in regional sessions,
`CoveredMissesNothing` from the first covering snapshot on, `MovesLeftWereCovered` for the move that is left.

## 6. Not modelled, and the plan

Not modelled, with reasons: the topology tables (they change no state; the models keep the authorization that guards a
transition), SME handoffs and PLI adjudication (no control of the game depends on them), export, plenary,
plugins, onboarding, landing page and UI (rendering and wording around the calls that are modelled), the
local test backend (the SQL is the reference), withdrawal of a request (no surface calls it), the operator grants.
Of the about 86,000 lines the greater part is of this kind, and the database's functions exist in
many successive versions of which the last counts.

Left to model, the most important first:

1. Proposals of unified sessions: an approval replays the first message of any older revision.
2. The shared notes of unified sessions: one row per team, merged by every notetaker from the copy last read.
3. Sync with session changes: generations of stores, sync and realtime while the seat changes;
   the two stores that replace instead of merging; lists with duplicates.
4. Creation of a session, the topology freeze and the unified claim, next to `SeatLease`.
