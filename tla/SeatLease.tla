----------------------------- MODULE SeatLease -----------------------------
(* The seats of a session with regional Green: who holds a place of a role,  *)
(* on what lease, and what the holder's browser knows of it.                 *)
(*                                                                           *)
(* The database hands out the places (claim), keeps a lease alive as long as *)
(* heartbeats arrive, releases leases that ran out, and replaces a lapsed    *)
(* holder for good once somebody else takes the role.  A browser has up to   *)
(* three calls under way at a time (slots): what its page asked for (claim,  *)
(* restore at startup, logout), its heartbeat, and the restore of a resync.  *)
(* A call may be lost before or after the database has run it, and the       *)
(* database may run a call whose page is gone (an orphan).                   *)
EXTENDS Naturals, FiniteSets

CONSTANTS
  People,     \* the browsers, each with one authenticated identity
  Roles,      \* the roles of the session
  Capacity,   \* places of each role (get_session_role_seat_limit)
  Timeout,    \* the lease, in ticks; 90 seconds in the code
  NoRole,     \* the role of a person who has no seat yet
  MaxCalls    \* bound: calls a browser may have under way at a time

ASSUME PeopleAreFinite == IsFiniteSet(People)
ASSUME CapacityIsNat == Capacity \in [Roles -> Nat]
ASSUME TimeoutIsNat == Timeout \in Nat
ASSUME NoRoleIsNone == NoRole \notin Roles

VARIABLES
  status,   \* sessions.status
  seats,    \* session_participants of the session, one row per person at most
  page,     \* where each browser is
  calls,    \* the calls each browser has under way
  notices   \* realtime is bringing an open page the news that its seat has ended

vars == <<status, seats, page, calls, notices>>

Slots == {"page", "beat", "resync"}
Ops == {"claim", "restore", "heartbeat", "retry", "disconnect"}
Results == {"ok", "rejoin", "refused"}
Pages == {"away", "joining", "loading", "gated", "open"}
Statuses == {"active", "archived", "deleted"}

(* Every statement that ends a lease clears is_active and sets left_at and   *)
(* disconnected_at, and a claim undoes all three: is_active stands for them. *)
(* age is the time since heartbeat_at, capped one past the timeout, and kept *)
(* at 0 while the seat is inactive, when nothing reads it.                   *)
Ages == 0 .. Timeout + 1
Seat == [role : Roles \cup {NoRole}, is_active : BOOLEAN, revoked : BOOLEAN, age : Ages]
NoSeat == [role |-> NoRole, is_active |-> FALSE, revoked |-> FALSE, age |-> 0]

Idle == [op |-> "none", answer |-> "none"]
Sent(op) == [op |-> op, answer |-> "pending"]
Call == [op : Ops, answer : {"pending", "orphan"} \cup Results] \cup {Idle}

TypeOK ==
  /\ status \in Statuses
  /\ seats \in [People -> Seat]
  /\ page \in [People -> Pages]
  /\ calls \in [People -> [Slots -> Call]]
  /\ notices \in [People -> BOOLEAN]

Init ==
  /\ status = "active"
  /\ seats = [p \in People |-> NoSeat]
  /\ page = [p \in People |-> "away"]
  /\ calls = [p \in People |-> [s \in Slots |-> Idle]]
  /\ notices = [p \in People |-> FALSE]

-----------------------------------------------------------------------------
(* The database.                                                             *)

IsOpen == status = "active"

Ended(seat) == [seat EXCEPT !.is_active = FALSE, !.age = 0]
\* Mutant: a lease is stale already in its last instant.
StaleEarly(seat) == seat.is_active /\ seat.age >= Timeout

Stale(seat) == seat.is_active /\ seat.age > Timeout

\* green_storage_current_seat: the seat gives its holder authority now.
Authorised(p) == IsOpen /\ seats[p].is_active /\ ~seats[p].revoked /\ seats[p].age <= Timeout

\* release_stale_session_role_seats_internal, for all roles of the session.
Released == [p \in People |-> IF Stale(seats[p]) THEN Ended(seats[p]) ELSE seats[p]]

Occupants(table, r, p) == {q \in People \ {p} : table[q].role = r /\ table[q].is_active}

\* Mutant: a replaced seat may be claimed again.
MayClaimRevoked(p, r) ==
  /\ IsOpen
  /\ seats[p].role \in {r, NoRole}
  /\ Cardinality(Occupants(Released, r, p)) < Capacity[r]

\* Mutant: the claim does not ask whether the session is open.
MayClaimClosed(p, r) ==
  /\ ~seats[p].revoked
  /\ seats[p].role \in {r, NoRole}
  /\ Cardinality(Occupants(Released, r, p)) < Capacity[r]

\* Mutant: one place too many.
MayClaimOneMore(p, r) ==
  /\ IsOpen
  /\ ~seats[p].revoked
  /\ seats[p].role \in {r, NoRole}
  /\ Cardinality(Occupants(Released, r, p)) <= Capacity[r]

MayClaim(p, r) ==
  /\ IsOpen
  /\ ~seats[p].revoked
  /\ seats[p].role \in {r, NoRole}
  /\ Cardinality(Occupants(Released, r, p)) < Capacity[r]

\* A claim that succeeds: the lapsed seats of the role are replaced for good,
\* also where the role has room for another (capacity 2).
Claimed(p, r) ==
  [q \in People |->
     IF q = p THEN [role |-> r, is_active |-> TRUE, revoked |-> FALSE, age |-> 0]
     ELSE [Released[q] EXCEPT !.revoked = @ \/ (Released[q].role = r /\ ~Released[q].is_active)]]

MayRestore(p) == seats[p].role \in Roles /\ MayClaim(p, seats[p].role)

\* Realtime will bring a row in which the seat is inactive or revoked to the
\* open page of its holder, also when the same transaction makes it active again.
Announced(table) ==
  [q \in People |->
     \/ notices[q]
     \/ /\ page[q] = "open"
        /\ \/ Stale(seats[q]) /\ ~Stale(table[q])
           \/ seats[q].is_active /\ ~table[q].is_active
           \/ table[q].revoked /\ ~seats[q].revoked]

Write(table) == seats' = table /\ notices' = Announced(table)

Result(p, s, answer) ==
  calls' = [calls EXCEPT ![p][s] = IF @.answer = "orphan" THEN Idle ELSE [@ EXCEPT !.answer = answer]]

Reached(p, s, ops) == calls[p][s].op \in ops /\ calls[p][s].answer \in {"pending", "orphan"}

\* claim_session_role_seat; the role asked for is picked here.
ServeClaim(p, r) ==
  /\ Reached(p, "page", {"claim"})
  /\ IF MayClaim(p, r)
     THEN Write(Claimed(p, r)) /\ Result(p, "page", "ok")
     ELSE UNCHANGED <<seats, notices>> /\ Result(p, "page", "refused")
  /\ UNCHANGED <<status, page>>

\* restore_session_seat_context
ServeRestore(p, s) ==
  /\ Reached(p, s, {"restore"})
  /\ IF MayRestore(p)
     THEN Write(Claimed(p, seats[p].role)) /\ Result(p, s, "ok")
     ELSE UNCHANGED <<seats, notices>> /\ Result(p, s, "refused")
  /\ UNCHANGED <<status, page>>

\* heartbeat_session_role_seat
ServeHeartbeat(p) ==
  /\ Reached(p, "beat", {"heartbeat", "retry"})
  /\ IF Authorised(p)
     THEN seats' = [seats EXCEPT ![p].age = 0] /\ Result(p, "beat", "ok")
     ELSE UNCHANGED seats /\ Result(p, "beat", IF IsOpen THEN "rejoin" ELSE "refused")
  /\ UNCHANGED <<status, page, notices>>

\* disconnect_session_role_seat
ServeDisconnect(p) ==
  /\ Reached(p, "page", {"disconnect"})
  /\ IF IsOpen
     THEN Write([Released EXCEPT ![p] = Ended(@)]) /\ Result(p, "page", "ok")
     ELSE UNCHANGED <<seats, notices>> /\ Result(p, "page", "refused")
  /\ UNCHANGED <<status, page>>

\* operator_remove_session_participant
Remove(p) ==
  /\ IsOpen
  /\ seats[p].role \in Roles
  /\ Write([seats EXCEPT ![p] = [Ended(@) EXCEPT !.revoked = TRUE]])
  /\ UNCHANGED <<status, page, calls>>

\* archive_live_demo_session; a repeated call finds it archived and changes nothing.
Archive ==
  /\ IsOpen
  /\ status' = "archived"
  /\ Write([p \in People |-> Ended(seats[p])])
  /\ UNCHANGED <<page, calls>>

\* delete_live_demo_session: only what is archived can be deleted.
Delete ==
  /\ status = "archived"
  /\ status' = "deleted"
  /\ UNCHANGED <<seats, page, calls, notices>>

Tick ==
  /\ \E p \in People : seats[p].is_active /\ seats[p].age <= Timeout
  /\ seats' = [p \in People |->
                 IF seats[p].is_active /\ seats[p].age <= Timeout
                 THEN [seats[p] EXCEPT !.age = @ + 1] ELSE seats[p]]
  /\ UNCHANGED <<status, page, calls, notices>>

-----------------------------------------------------------------------------
(* The browser.                                                              *)

\* Mutant: a call nobody waits for is forgotten without giving its slot back.
DroppedHalf(p, slots) ==
  [s \in Slots |-> IF s \in slots THEN [calls[p][s] EXCEPT !.answer = "none"] ELSE calls[p][s]]

\* What becomes of the calls in the given slots when nobody waits for them any
\* more: one that has not run yet may still reach the database.
Dropped(p, slots) ==
  [s \in Slots |->
     IF s \notin slots \/ calls[p][s].answer = "orphan" THEN calls[p][s]
     ELSE IF calls[p][s].answer = "pending" THEN [calls[p][s] EXCEPT !.answer = "orphan"]
     ELSE Idle]

Unsubscribe(p) == notices' = [notices EXCEPT ![p] = FALSE]

\* invalidateSeat, the gate and sync reset that follow it: the workspace is torn down.
Invalidate(p) ==
  /\ page' = [page EXCEPT ![p] = "gated"]
  /\ calls' = [calls EXCEPT ![p] = Dropped(p, {"beat", "resync"})]
  /\ Unsubscribe(p)

MaySend(p, s) ==
  calls[p][s] = Idle /\ Cardinality({t \in Slots : calls[p][t] # Idle}) < MaxCalls

SetCall(p, s, call) == calls' = [calls EXCEPT ![p][s] = call] /\ UNCHANGED <<page, notices>>

\* The join form of the landing page.
Join(p) ==
  /\ page[p] = "away"
  /\ MaySend(p, "page")
  /\ page' = [page EXCEPT ![p] = "joining"]
  /\ calls' = [calls EXCEPT ![p]["page"] = Sent("claim")]
  /\ UNCHANGED <<status, seats, notices>>

\* Retry on the gate, Resume on the landing page, or a reload that has started again.
Startup(p) ==
  /\ page[p] = "gated"
  /\ MaySend(p, "page")
  /\ page' = [page EXCEPT ![p] = "loading"]
  /\ calls' = [calls EXCEPT ![p]["page"] = Sent("restore")]
  /\ UNCHANGED <<status, seats, notices>>

\* requestLogout in a workspace, leaveSession on the landing page.
Logout(p) ==
  /\ page[p] \in {"open", "gated"}
  /\ MaySend(p, "page")
  /\ SetCall(p, "page", Sent("disconnect"))
  /\ UNCHANGED <<status, seats>>

\* The answer to what the page asked for.
PageAnswer(p) ==
  LET call == calls[p]["page"] IN
  /\ call.answer \in Results
  /\ \/ /\ call.op = "claim" /\ call.answer = "ok"
        /\ page' = [page EXCEPT ![p] = "loading"]
        /\ calls' = [calls EXCEPT ![p]["page"] = Sent("restore")]
        /\ UNCHANGED notices
     \/ /\ call.op = "claim" /\ call.answer # "ok"
        /\ page' = [page EXCEPT ![p] = "away"]
        /\ calls' = [calls EXCEPT ![p]["page"] = Idle]
        /\ UNCHANGED notices
     \/ /\ call.op = "restore"
        /\ page' = [page EXCEPT ![p] = IF call.answer = "ok" THEN "open" ELSE "gated"]
        /\ calls' = [calls EXCEPT ![p]["page"] = Idle]
        /\ UNCHANGED notices
     \/ \* leave() swallows the error; sync reset and clear follow anyway.
        /\ call.op = "disconnect"
        /\ page' = [page EXCEPT ![p] = "away"]
        /\ calls' = [calls EXCEPT ![p] = Dropped(p, Slots)]
        /\ Unsubscribe(p)
  /\ UNCHANGED <<status, seats>>

\* Mutant: the timer outlives the page it was started for.
BeatForever(p) ==
  /\ MaySend(p, "beat")
  /\ SetCall(p, "beat", Sent("heartbeat"))
  /\ UNCHANGED <<status, seats>>

\* The heartbeat timer of an online browser; a regional seat sends nothing offline.
Beat(p) ==
  /\ page[p] = "open"
  /\ MaySend(p, "beat")
  /\ SetCall(p, "beat", Sent("heartbeat"))
  /\ UNCHANGED <<status, seats>>

\* Mutant: a heartbeat that fails is left to the next one.
BeatAnswerSwallowed(p) ==
  /\ calls[p]["beat"].answer \in Results
  /\ SetCall(p, "beat", Idle)
  /\ UNCHANGED <<status, seats>>

\* sendHeartbeat after its await: an expired lease is restored once, anything that
\* fails ends the workspace.  The browser may have gone offline meanwhile: then
\* the restore is not tried.
BeatAnswer(p) ==
  LET call == calls[p]["beat"] IN
  /\ call.answer \in Results
  /\ \/ /\ call.op \in {"heartbeat", "retry"} /\ call.answer = "ok"
        /\ SetCall(p, "beat", Idle)
     \/ /\ call.op = "heartbeat" /\ call.answer = "rejoin"
        /\ SetCall(p, "beat", Sent("restore"))
     \/ /\ call.op = "restore" /\ call.answer = "ok"
        /\ SetCall(p, "beat", Sent("retry"))
     \/ /\ call.answer \in {"rejoin", "refused"}
        /\ Invalidate(p)
  /\ UNCHANGED <<status, seats>>

\* resync, when the browser is online again or realtime has reconnected: the seat is
\* restored first.  One at a time is modelled.
Resync(p) ==
  /\ page[p] = "open"
  /\ MaySend(p, "resync")
  /\ SetCall(p, "resync", Sent("restore"))
  /\ UNCHANGED <<status, seats>>

ResyncAnswer(p) ==
  LET call == calls[p]["resync"] IN
  /\ call.answer \in Results
  /\ IF call.answer = "ok" THEN SetCall(p, "resync", Idle) ELSE Invalidate(p)
  /\ UNCHANGED <<status, seats>>

\* The page is reloaded or left for another: the lease stays, the session ids too.
Unload(p) ==
  /\ page[p] \in {"open", "loading"}
  /\ page' = [page EXCEPT ![p] = "gated"]
  /\ calls' = [calls EXCEPT ![p] = Dropped(p, Slots)]
  /\ Unsubscribe(p)
  /\ UNCHANGED <<status, seats>>

\* The tab is closed: nothing is left of the session in it.
CloseTab(p) ==
  /\ page[p] # "away"
  /\ page' = [page EXCEPT ![p] = "away"]
  /\ calls' = [calls EXCEPT ![p] = Dropped(p, Slots)]
  /\ Unsubscribe(p)
  /\ UNCHANGED <<status, seats>>

\* updateFromServer with a row that says the own seat has ended, however late.
Notice(p) ==
  /\ notices[p]
  /\ Invalidate(p)
  /\ UNCHANGED <<status, seats>>

\* The network fails a call: the browser cannot tell whether the database has run
\* it, or will still do so.  (Losing the answer to a call that has run leads where
\* losing the request and running it afterwards does.)
Lost(p, s) == calls[p][s].answer = "pending"

LostPage(p) ==
  /\ Lost(p, "page")
  /\ page' = [page EXCEPT ![p] = IF calls[p]["page"].op = "restore" THEN "gated" ELSE "away"]
  /\ calls' = [calls EXCEPT ![p] = Dropped(p, Slots)]
  /\ IF page'[p] = "away" THEN Unsubscribe(p) ELSE UNCHANGED notices
  /\ UNCHANGED <<status, seats>>

LostCall(p) ==
  /\ Lost(p, "beat") \/ Lost(p, "resync")
  /\ Invalidate(p)
  /\ UNCHANGED <<status, seats>>

\* A heartbeat that fails while the browser is offline only pauses.
Pause(p) ==
  /\ Lost(p, "beat")
  /\ calls' = [calls EXCEPT ![p] = Dropped(p, {"beat"})]
  /\ UNCHANGED <<status, seats, page, notices>>

LoseOrphan(p, s) ==
  /\ calls[p][s].answer = "orphan"
  /\ SetCall(p, s, Idle)
  /\ UNCHANGED <<status, seats>>

-----------------------------------------------------------------------------
Serve(p) ==
  \/ \E r \in Roles : ServeClaim(p, r)
  \/ \E s \in Slots : ServeRestore(p, s)
  \/ ServeHeartbeat(p)
  \/ ServeDisconnect(p)

Answer(p) == PageAnswer(p) \/ BeatAnswer(p) \/ ResyncAnswer(p)

Next ==
  \/ \E p \in People :
       \/ Serve(p)
       \/ Answer(p)
       \/ Remove(p)
       \/ Join(p) \/ Startup(p) \/ Logout(p)
       \/ Beat(p) \/ Pause(p) \/ Resync(p)
       \/ Unload(p) \/ CloseTab(p)
       \/ Notice(p)
       \/ LostPage(p) \/ LostCall(p)
       \/ \E s \in Slots : LoseOrphan(p, s)
  \/ Archive
  \/ Delete
  \/ Tick

Spec == Init /\ [][Next]_vars

\* Time passes; and for each person something goes on happening as long as it can:
\* the database runs a call, an answer is handled or the timer of an open page fires.
Fairness == WF_vars(Tick) /\ \A p \in People : WF_vars(Serve(p) \/ Answer(p) \/ Beat(p))

FairSpec == Spec /\ Fairness
-----------------------------------------------------------------------------
(* Properties.                                                               *)

\* No role ever has more holders with authority than it has places, whoever
\* claims, restores or replaces whom (the count, release and insert of a claim).
CapacityHolds ==
  \A r \in Roles : Cardinality({p \in People : seats[p].role = r /\ Authorised(p)}) <= Capacity[r]

\* In a session that has been closed nobody has an active seat, and no claim or
\* restore that was under way gets one after all.
ClosedAdmitsNobody == ~IsOpen => \A p \in People : ~seats[p].is_active

\* "Replacement permanently invalidates earlier inactive leases": who has been
\* replaced or removed never holds a seat again, not by a heartbeat or restore
\* that was under way and not by claiming anew.
RevokedStaysOut ==
  [][\A p \in People : seats[p].revoked => seats'[p].revoked /\ ~seats'[p].is_active]_vars

\* A lease that is still running ends only by its holder's own logout, by the
\* operator or by time: nobody else's claim, restore or logout ends it.
LeasesAreHonoured ==
  [][\A p \in People :
       Authorised(p) /\ ~Authorised(p)' =>
         Tick \/ Archive \/ Remove(p) \/ ServeDisconnect(p)]_vars

\* A page whose seat was given to somebody else does not stay open: its heartbeat,
\* its resync or realtime finds out, unless it goes offline again and again.
HolderLearns ==
  \A p \in People :
    \/ []<><<Pause(p)>>_vars
    \/ (page[p] = "open" /\ seats[p].revoked) ~> page[p] # "open"

\* A seat whose tab is gone is given up in the end, whatever heartbeats and restores
\* the tab had left under way; "closing a tab lets the existing lease expire".
AbandonedIsFreed ==
  \A p \in People :
    (page[p] = "away" /\ Authorised(p)) ~> (page[p] # "away" \/ ~Authorised(p))
=============================================================================
