--------------------------- MODULE StoreReconcile ---------------------------
(***************************************************************************)
(* How one browser keeps one store (actions, requests, communications) at  *)
(* one table: the snapshot it starts from, the realtime channel with its   *)
(* reconnects, the answers to its own writes, and the queries the sync     *)
(* service merges into what arrived meanwhile.                             *)
(*                                                                         *)
(* A row is abstracted to the version of its content, 0 when there is none.*)
(* Row deletions, changes of seat or session, a failing start and the other*)
(* five channels are left out; the channel counts as connected when the    *)
(* client is told SUBSCRIBED, the moment the status acts on.               *)
(***************************************************************************)
EXTENDS Naturals, Sequences

CONSTANTS
    Rows,               \* ids of rows
    MaxVersion,         \* bound on the versions of a row
    MaxAttempts,        \* maxReconnectAttempts
    Resyncs             \* bound: queries of resyncs in flight at once

ASSUME MaxVersionAssumption == MaxVersion \in Nat \ {0}
ASSUME MaxAttemptsAssumption == MaxAttempts \in Nat
ASSUME ResyncsAssumption == "boot" \notin Resyncs

VARIABLES
    table,              \* the rows in the database
    store,              \* the rows in the store
    transit,            \* realtime events on their way to the browser
    replies,            \* answers to the browser's own writes on their way
    channel,            \* the store's realtime channel
    attempts,           \* its reconnectAttempts
    reconnecting,       \* whether it is in reconnectingChannels
    boot,               \* how far syncService.initialize is
    queries,            \* the snapshots asked for
    resyncDue,          \* syncDebounceTimer is set
    status,             \* the SYNC_STATUS shown to the user
    covered             \* history: a snapshot taken since the channel last came
                        \* up has reached the store

vars == <<table, store, transit, replies, channel, attempts, reconnecting, boot,
          queries, resyncDue, status, covered>>

Versions == 0..MaxVersion
Contents == [Rows -> Versions]
Changes == [row : Rows, version : 1..MaxVersion]
Queries == Resyncs \cup {"boot"}

\* A query: what the store held when it was asked, and what the server saw.
\* "fresh" is history: the channel has been up since the server looked.
QueryStates ==
    [step : {"none", "asked", "seen"}, atQueryStart : Contents, fetched : Contents,
     fresh : BOOLEAN]

Empty == [r \in Rows |-> 0]
NoQuery == [step |-> "none", atQueryStart |-> Empty, fetched |-> Empty, fresh |-> FALSE]
Asked(contents) == [NoQuery EXCEPT !.step = "asked", !.atQueryStart = contents]

TypeOK ==
    /\ table \in Contents
    /\ store \in Contents
    /\ transit \in Seq(Changes)
    /\ replies \subseteq Changes
    /\ channel \in {"none", "subscribing", "subscribed", "waiting", "failed", "closed"}
    /\ attempts \in 0..MaxAttempts
    /\ reconnecting \in BOOLEAN
    /\ boot \in {"loading", "loaded", "reconciling", "ready"}
    /\ queries \in [Queries -> QueryStates]
    /\ resyncDue \in BOOLEAN
    /\ status \in {"syncing", "synced", "error", "offline"}
    /\ covered \in BOOLEAN

Init ==
    /\ table \in [Rows -> {0, 1}]
    /\ store = Empty
    /\ transit = <<>>
    /\ replies = {}
    /\ channel = "none" /\ attempts = 0 /\ reconnecting = FALSE
    /\ boot = "loading"
    /\ queries = [q \in Queries |-> IF q = "boot" THEN Asked(Empty) ELSE NoQuery]
    /\ resyncDue = FALSE
    /\ status = "syncing"
    /\ covered = FALSE

connection == <<channel, attempts, reconnecting>>
syncing == <<boot, queries, resyncDue, status, covered>>

-----------------------------------------------------------------------------
(* The database, and what it sends.                                         *)

Write(r) ==
    /\ table[r] < MaxVersion
    /\ table' = [table EXCEPT ![r] = @ + 1]
    /\ transit' = IF channel = "subscribed"
                  THEN Append(transit, [row |-> r, version |-> table'[r]])
                  ELSE transit

OthersWrite(r) == Write(r) /\ UNCHANGED <<store, replies, connection, syncing>>

OwnWrite(r) ==
    /\ boot = "ready"
    /\ Write(r)
    /\ replies' = replies \cup {[row |-> r, version |-> table'[r]]}
    /\ UNCHANGED <<store, connection, syncing>>

\* Mutant: an INSERT of a row the store does not have is not taken either.
AppliedToKnown(contents, change) ==
    IF contents[change.row] # 0
    THEN [contents EXCEPT ![change.row] = change.version] ELSE contents

\* updateFromServer: an INSERT of a known row and an UPDATE of an unknown one are
\* ignored; any other UPDATE replaces the row, whichever is newer.
Applied(contents, change) ==
    IF (change.version = 1) = (contents[change.row] = 0)
    THEN [contents EXCEPT ![change.row] = change.version] ELSE contents

Deliver ==
    /\ transit # <<>>
    /\ store' = Applied(store, Head(transit))
    /\ transit' = Tail(transit)
    /\ UNCHANGED <<table, replies, connection, syncing>>

ReplyArrives ==
    \E change \in replies :
        /\ store' = Applied(store, change)
        /\ replies' = replies \ {change}
        /\ UNCHANGED <<table, transit, connection, syncing>>

-----------------------------------------------------------------------------
(* The realtime channel.                                                    *)

\* SUBSCRIBED for the first time: the service is connected, so the status is synced.
FirstSubscribed ==
    /\ channel = "subscribing" /\ ~reconnecting
    /\ channel' = "subscribed"
    /\ attempts' = 0
    /\ status' = "synced"
    /\ UNCHANGED <<table, store, transit, replies, reconnecting, boot, queries,
                   resyncDue, covered>>

\* SUBSCRIBED again, through the new channel or because the old one rejoined by
\* itself: events were missed, so a resync is asked for.
Reconnected ==
    /\ channel \in {"subscribing", "waiting", "failed"} /\ reconnecting
    /\ channel' = "subscribed"
    /\ attempts' = 0
    /\ reconnecting' = FALSE
    /\ resyncDue' = TRUE
    /\ status' = "syncing"
    /\ UNCHANGED <<table, store, transit, replies, boot, queries, covered>>

\* Mutant: a failed attempt is not counted.
NextAttemptUncounted == attempts

NextAttempt == attempts + 1

\* Mutant: the limit is not looked at.
AttemptsLeftAlways == TRUE

AttemptsLeft == attempts < MaxAttempts

\* CHANNEL_ERROR or TIMED_OUT: the events on their way are lost, and the next
\* attempt waits its turn or none is left.
ChannelFails ==
    /\ channel \in {"subscribing", "subscribed"}
    /\ transit' = <<>>
    /\ covered' = FALSE
    /\ queries' = [q \in Queries |-> [queries[q] EXCEPT !.fresh = FALSE]]
    /\ \/ /\ AttemptsLeft
          /\ channel' = "waiting" /\ attempts' = NextAttempt /\ reconnecting' = TRUE
          /\ status' = "syncing"
       \/ /\ ~AttemptsLeft
          /\ channel' = "failed" /\ status' = "error"
          /\ UNCHANGED <<attempts, reconnecting>>
    /\ UNCHANGED <<table, store, replies, boot, resyncDue>>

\* The old channel fails to rejoin: a timer is set already, or there is none to set.
RejoinFails ==
    /\ channel \in {"waiting", "failed"}
    /\ status' = "error"
    /\ UNCHANGED <<table, store, transit, replies, connection, boot, queries,
                   resyncDue, covered>>

\* CLOSED: the client makes nothing of it.
ChannelCloses ==
    /\ channel = "subscribed"
    /\ channel' = "closed"
    /\ transit' = <<>>
    /\ covered' = FALSE
    /\ queries' = [q \in Queries |-> [queries[q] EXCEPT !.fresh = FALSE]]
    /\ UNCHANGED <<table, store, replies, attempts, reconnecting, boot, resyncDue, status>>

\* The reconnect timer: a new channel replaces the old one.
Resubscribe ==
    /\ channel = "waiting"
    /\ channel' = "subscribing"
    /\ UNCHANGED <<table, store, transit, replies, attempts, reconnecting, syncing>>

-----------------------------------------------------------------------------
(* The sync service.                                                        *)

\* The server evaluates a query.
SnapshotTaken(q) ==
    /\ queries[q].step = "asked"
    /\ queries' = [queries EXCEPT ![q].step = "seen", ![q].fetched = table,
                                  ![q].fresh = (channel = "subscribed")]
    /\ UNCHANGED <<table, store, transit, replies, connection, boot, resyncDue,
                   status, covered>>

\* initialize: the store's first load.
Loaded ==
    /\ boot = "loading" /\ queries["boot"].step = "seen"
    /\ store' = queries["boot"].fetched
    /\ queries' = [queries EXCEPT !["boot"] = NoQuery]
    /\ boot' = "loaded"
    /\ UNCHANGED <<table, transit, replies, connection, resyncDue, status, covered>>

\* When all stores have loaded, the channel is asked for, the handlers are set up
\* and the query that closes the gap goes out, without waiting for SUBSCRIBED.
SubscribeAndReconcile ==
    /\ boot = "loaded"
    /\ channel' = "subscribing"
    /\ queries' = [queries EXCEPT !["boot"] = Asked(store)]
    /\ boot' = "reconciling"
    /\ UNCHANGED <<table, store, transit, replies, attempts, reconnecting,
                   resyncDue, status, covered>>

\* Mutant: the snapshot replaces the store, as loadActions does.
MergedReplacing(query) == query.fetched

\* Mutant: rows the store does not know are not added.
MergedKnown(query) ==
    [r \in Rows |-> IF store[r] = query.atQueryStart[r] /\ store[r] # 0
                    THEN query.fetched[r] ELSE store[r]]

\* reconcileActions and its like: a row that changed while the query ran stays,
\* the server's copy wins otherwise.
Merged(query) ==
    [r \in Rows |-> IF store[r] # 0 /\ store[r] # query.atQueryStart[r]
                    THEN store[r] ELSE query.fetched[r]]

Reconciled(q) ==
    /\ queries[q].step = "seen"
    /\ store' = Merged(queries[q])
    /\ queries' = [queries EXCEPT ![q] = NoQuery]
    /\ covered' = (covered \/ queries[q].fresh)
    /\ UNCHANGED <<table, transit, replies, connection, resyncDue>>

BootReconciled ==
    /\ boot = "reconciling"
    /\ Reconciled("boot")
    /\ boot' = "ready"
    /\ status' = IF channel = "subscribed" THEN "synced" ELSE "syncing"

\* The debounce timer of resync fires.  Nothing waits for an earlier resync.
StartResync ==
    /\ resyncDue
    /\ \E q \in Resyncs :
         /\ queries[q].step = "none"
         /\ queries' = [queries EXCEPT ![q] = Asked(store)]
    /\ resyncDue' = FALSE
    /\ status' = "syncing"
    /\ UNCHANGED <<table, store, transit, replies, connection, boot, covered>>

ResyncDone(q) ==
    /\ Reconciled(q)
    /\ status' = "synced"
    /\ UNCHANGED boot

ResyncFails(q) ==
    /\ queries[q].step # "none"
    /\ queries' = [queries EXCEPT ![q] = NoQuery]
    /\ status' = "error"
    /\ UNCHANGED <<table, store, transit, replies, connection, boot, resyncDue,
                   covered>>

\* The browser's online and offline events.
Online ==
    /\ boot = "ready"
    /\ resyncDue' = TRUE
    /\ status' = "syncing"
    /\ UNCHANGED <<table, store, transit, replies, connection, boot, queries, covered>>

Offline ==
    /\ boot = "ready"
    /\ status' = "offline"
    /\ UNCHANGED <<table, store, transit, replies, connection, boot, queries,
                   resyncDue, covered>>

-----------------------------------------------------------------------------
Environment ==
    \/ \E r \in Rows : OthersWrite(r) \/ OwnWrite(r)
    \/ ChannelFails \/ RejoinFails \/ ChannelCloses
    \/ \E q \in Resyncs : ResyncFails(q)
    \/ Online \/ Offline

ChannelStep == FirstSubscribed \/ Reconnected \/ Resubscribe

SyncStep ==
    \/ \E q \in Queries : SnapshotTaken(q)
    \/ Loaded \/ SubscribeAndReconcile \/ BootReconciled
    \/ StartResync
    \/ \E q \in Resyncs : ResyncDone(q)

Next == Environment \/ Deliver \/ ReplyArrives \/ ChannelStep \/ SyncStep

\* Timers fire, and what the server sent arrives or fails to: a subscription that
\* is not acknowledged ends in TIMED_OUT.  Nothing is assumed of users or outages.
Fairness ==
    /\ WF_vars(Deliver) /\ WF_vars(ReplyArrives)
    /\ WF_vars(ChannelStep \/ (channel = "subscribing" /\ ChannelFails))
    /\ WF_vars(Loaded \/ SubscribeAndReconcile \/ BootReconciled)
    /\ WF_vars(StartResync)
    /\ \A q \in Queries : WF_vars(SnapshotTaken(q))
    /\ \A q \in Resyncs : WF_vars(ResyncDone(q) \/ ResyncFails(q))

Spec == Init /\ [][Next]_vars /\ Fairness

-----------------------------------------------------------------------------
(* Properties.                                                              *)

OnItsWay(r) == \E i \in 1..Len(transit) : transit[i].row = r /\ transit[i].version = 1

Missing(r) == table[r] # 0 /\ store[r] = 0 /\ ~OnItsWay(r)

\* Once a snapshot taken since the channel came up has been merged, no row is
\* missing unless its INSERT is still on its way: whatever arrived while queries ran,
\* and however resyncs overlap, the merge neither skips nor drops a row.
CoveredMissesNothing == covered => \A r \in Rows : ~Missing(r)

\* A row the user has been shown does not disappear again.
RowsStay ==
    [][boot # "loading" => \A r \in Rows : store[r] # 0 => store'[r] # 0]_vars

\* Every reconnect is made good: the rows committed during the outage reach the
\* store, unless the channel goes down again or the user is told of an error.
OutagesAreMadeGood ==
    (resyncDue /\ channel = "subscribed")
        ~> (\A r \in Rows : table[r] # 0 => store[r] # 0)
             \/ channel # "subscribed" \/ status = "error"

\* A broken channel is connected again or given up, and then the user is told.
ReconnectsSettle ==
    channel = "waiting" ~> channel = "subscribed" \/ (channel = "failed" /\ status = "error")

-----------------------------------------------------------------------------
(* What a document of the repository says and the code does not do.         *)

Settled == ~resyncDue /\ \A q \in Queries : queries[q].step = "none"

\* "Close the snapshot-to-subscription gap": a connected client that calls itself
\* synced and has nothing left to ask misses no row.
SyncedMissesNothing ==
    status = "synced" /\ channel = "subscribed" /\ Settled
        => \A r \in Rows : ~Missing(r)
=============================================================================
