--------------------------- MODULE SeatLeaseProofs --------------------------
(* What SeatLease promises of the seats, for any people, roles, capacities   *)
(* and lease.  The places are counted by their active seats, expired or not: *)
(* a claim releases those that expired and then adds one where there is room *)
(* (Occupied), and nothing else makes a seat active.                         *)
EXTENDS SeatLease, FiniteSetTheorems, TLAPS

CallTables == [People -> [Slots -> Call]]

Holders(table, r) == {p \in People : table[p].role = r /\ table[p].is_active}

\* No role has more active seats than places.
Occupied(table) == \A r \in Roles : Cardinality(Holders(table, r)) <= Capacity[r]

\* A seat that has been replaced or removed is not active.
RevokedIsInactive(table) == \A p \in People : table[p].revoked => ~table[p].is_active

IInv ==
  /\ TypeOK
  /\ Occupied(seats)
  /\ RevokedIsInactive(seats)
  /\ ClosedAdmitsNobody

-----------------------------------------------------------------------------
(* Types.                                                                    *)

LEMMA SeatFields ==
  ASSUME NEW seat \in Seat
  PROVE  /\ seat.role \in Roles \cup {NoRole} /\ seat.is_active \in BOOLEAN
         /\ seat.revoked \in BOOLEAN /\ seat.age \in Ages /\ seat.age \in Nat
BY TimeoutIsNat, SMT DEF Seat, Ages

LEMMA FirstAge == 0 \in Ages
BY TimeoutIsNat, SMT DEF Ages

\* A seat with one of its fields replaced.
LEMMA ActiveType ==
  ASSUME NEW seat \in Seat, NEW is_active \in BOOLEAN
  PROVE  /\ [seat EXCEPT !.is_active = is_active] \in Seat
         /\ [seat EXCEPT !.is_active = is_active]
              = [role |-> seat.role, is_active |-> is_active,
                 revoked |-> seat.revoked, age |-> seat.age]
BY DEF Seat

LEMMA AgeType ==
  ASSUME NEW seat \in Seat, NEW age \in Ages
  PROVE  /\ [seat EXCEPT !.age = age] \in Seat
         /\ [seat EXCEPT !.age = age]
              = [role |-> seat.role, is_active |-> seat.is_active,
                 revoked |-> seat.revoked, age |-> age]
BY DEF Seat

LEMMA RevokedType ==
  ASSUME NEW seat \in Seat, NEW revoked \in BOOLEAN
  PROVE  /\ [seat EXCEPT !.revoked = revoked] \in Seat
         /\ [seat EXCEPT !.revoked = revoked]
              = [role |-> seat.role, is_active |-> seat.is_active,
                 revoked |-> revoked, age |-> seat.age]
BY DEF Seat

LEMMA EndedType ==
  ASSUME NEW seat \in Seat
  PROVE  /\ Ended(seat) \in Seat
         /\ Ended(seat).role = seat.role /\ Ended(seat).revoked = seat.revoked
         /\ ~Ended(seat).is_active
<1> DEFINE left == [seat EXCEPT !.is_active = FALSE]
<1>1. /\ left \in Seat /\ left.role = seat.role /\ left.revoked = seat.revoked
      /\ ~left.is_active
  <2>1. FALSE \in BOOLEAN OBVIOUS
  <2>2. left \in Seat BY <2>1, ActiveType, Zenon
  <2>3. left = [role |-> seat.role, is_active |-> FALSE, revoked |-> seat.revoked,
                age |-> seat.age]
    BY <2>1, ActiveType, Zenon
  <2> HIDE DEF left
  <2>4. left.role = seat.role /\ left.revoked = seat.revoked /\ left.is_active = FALSE
    BY <2>3, Zenon
  <2> QED BY <2>2, <2>4, Zenon
<1>2. Ended(seat) = [left EXCEPT !.age = 0] BY Zenon DEF Ended
<1> HIDE DEF left
<1>3. /\ Ended(seat) \in Seat
      /\ Ended(seat) = [role |-> left.role, is_active |-> left.is_active,
                        revoked |-> left.revoked, age |-> 0]
  BY <1>1, <1>2, FirstAge, AgeType
<1>4. /\ Ended(seat).role = left.role /\ Ended(seat).revoked = left.revoked
      /\ Ended(seat).is_active = left.is_active
  BY <1>3
<1> QED BY <1>1, <1>3, <1>4, Zenon

LEMMA ReleasedType ==
  ASSUME TypeOK
  PROVE  Released \in [People -> Seat]
BY EndedType DEF Released, TypeOK

\* What a release does to a seat.
LEMMA ReleasedSeat ==
  ASSUME TypeOK, NEW p \in People
  PROVE  /\ Released[p] \in Seat
         /\ Released[p].role = seats[p].role
         /\ Released[p].revoked = seats[p].revoked
         /\ Released[p].is_active => seats[p].is_active /\ Released[p] = seats[p]
         /\ seats[p].is_active /\ seats[p].age <= Timeout => Released[p] = seats[p]
<1>1. seats[p] \in Seat BY DEF TypeOK
<1>2. Released[p] = IF Stale(seats[p]) THEN Ended(seats[p]) ELSE seats[p] BY DEF Released
<1>3. CASE Stale(seats[p])
  <2>1. seats[p].age > Timeout BY <1>3 DEF Stale
  <2>2. ~(seats[p].age <= Timeout) BY <2>1, <1>1, SeatFields, TimeoutIsNat
  <2> QED BY <1>1, <1>2, <1>3, <2>2, EndedType
<1>4. CASE ~Stale(seats[p]) BY <1>1, <1>2, <1>4
<1> QED BY <1>3, <1>4

LEMMA ClaimedType ==
  ASSUME TypeOK, NEW p \in People, NEW r \in Roles
  PROVE  Claimed(p, r) \in [People -> Seat]
<1>1. [role |-> r, is_active |-> TRUE, revoked |-> FALSE, age |-> 0] \in Seat
  BY FirstAge DEF Seat
<1>2. ASSUME NEW q \in People
      PROVE  [Released[q] EXCEPT !.revoked = @ \/ (Released[q].role = r /\ ~Released[q].is_active)]
               \in Seat
  <2> DEFINE replaced == Released[q].revoked \/ (Released[q].role = r /\ ~Released[q].is_active)
  <2>1. Released[q] \in Seat BY ReleasedSeat
  <2>2. replaced \in BOOLEAN BY Zenon
  <2> HIDE DEF replaced
  <2>3. [Released[q] EXCEPT !.revoked = replaced] \in Seat BY <2>1, <2>2, RevokedType
  <2> QED BY <2>3, Zenon DEF replaced
<1> QED BY <1>1, <1>2 DEF Claimed

\* What a claim does to the seat of who claims.
LEMMA ClaimedOwn ==
  ASSUME NEW p \in People, NEW r \in Roles
  PROVE  /\ Claimed(p, r)[p].role = r /\ Claimed(p, r)[p].is_active
         /\ ~Claimed(p, r)[p].revoked /\ Claimed(p, r)[p].age = 0
<1> DEFINE own == Claimed(p, r)[p]
<1>1. own = [role |-> r, is_active |-> TRUE, revoked |-> FALSE, age |-> 0] BY DEF Claimed
<1> HIDE DEF own
<1>2. own.role = r /\ own.age = 0 BY <1>1
<1>3. own.is_active = TRUE /\ own.revoked = FALSE BY <1>1, Zenon
<1>4. own.role = r /\ own.is_active /\ ~own.revoked /\ own.age = 0 BY <1>2, <1>3, Zenon
<1> QED BY <1>4 DEF own

\* What a claim does to the seats of the others.
LEMMA ClaimedOther ==
  ASSUME TypeOK, NEW p \in People, NEW r \in Roles, NEW q \in People, q # p
  PROVE  /\ Claimed(p, r)[q].role = seats[q].role
         /\ Claimed(p, r)[q].is_active = Released[q].is_active
         /\ Claimed(p, r)[q].age = Released[q].age
         /\ seats[q].revoked => Claimed(p, r)[q].revoked
         /\ Claimed(p, r)[q].is_active /\ ~seats[q].revoked => ~Claimed(p, r)[q].revoked
<1> DEFINE replaced == Released[q].revoked \/ (Released[q].role = r /\ ~Released[q].is_active)
<1>1. Claimed(p, r)[q] = [Released[q] EXCEPT !.revoked = replaced] BY Zenon DEF Claimed
<1>2. replaced \in BOOLEAN BY Zenon
<1>3. Released[q] \in Seat /\ Released[q].role = seats[q].role
      /\ Released[q].revoked = seats[q].revoked
  BY ReleasedSeat
<1>4. seats[q].revoked => replaced BY <1>3
<1>5. Released[q].is_active /\ ~seats[q].revoked => ~replaced BY <1>3
<1> HIDE DEF replaced
<1>6. Claimed(p, r)[q] = [role |-> Released[q].role, is_active |-> Released[q].is_active,
                          revoked |-> replaced, age |-> Released[q].age]
  BY <1>1, <1>2, <1>3, RevokedType
<1>7. /\ Claimed(p, r)[q].role = Released[q].role
      /\ Claimed(p, r)[q].is_active = Released[q].is_active
      /\ Claimed(p, r)[q].revoked = replaced
      /\ Claimed(p, r)[q].age = Released[q].age
  BY <1>6
<1> QED BY <1>3, <1>4, <1>5, <1>7, Zenon

LEMMA AnnouncedType ==
  ASSUME NEW table
  PROVE  Announced(table) \in [People -> BOOLEAN]
<1>1. ASSUME NEW q \in People
      PROVE  (\/ notices[q]
              \/ /\ page[q] = "open"
                 /\ \/ Stale(seats[q]) /\ ~Stale(table[q])
                    \/ seats[q].is_active /\ ~table[q].is_active
                    \/ table[q].revoked /\ ~seats[q].revoked) \in BOOLEAN
  BY Zenon
<1> QED BY <1>1, Zenon DEF Announced

-----------------------------------------------------------------------------
(* Types of the calls.                                                       *)

LEMMA CallFields ==
  ASSUME NEW call \in Call
  PROVE  \/ call = Idle
         \/ call.op \in Ops /\ call.answer \in {"pending", "orphan"} \cup Results
BY DEF Call

LEMMA SentType ==
  ASSUME NEW op \in Ops
  PROVE  Sent(op) \in Call
BY DEF Sent, Call

LEMMA IdleType == Idle \in Call
BY DEF Call

LEMMA AnsweredType ==
  ASSUME NEW call \in Call, call.op \in Ops,
         NEW answer \in {"pending", "orphan"} \cup Results
  PROVE  [call EXCEPT !.answer = answer] \in Call
<1>1. call # Idle BY SMT DEF Idle, Ops
<1>2. call \in [op : Ops, answer : {"pending", "orphan"} \cup Results] BY <1>1 DEF Call
<1>3. [call EXCEPT !.answer = answer] \in [op : Ops, answer : {"pending", "orphan"} \cup Results]
  BY <1>2
<1> QED BY <1>3 DEF Call

LEMMA SetType ==
  ASSUME TypeOK, NEW p \in People, NEW s \in Slots, NEW call \in Call
  PROVE  [calls EXCEPT ![p][s] = call] \in CallTables
BY DEF TypeOK, CallTables

LEMMA ResultType ==
  ASSUME TypeOK, NEW p \in People, NEW s \in Slots, NEW ops, Reached(p, s, ops),
         NEW answer \in Results, Result(p, s, answer)
  PROVE  calls' \in CallTables
<1>1. calls[p][s] \in Call BY DEF TypeOK
<1>2. calls[p][s].op \in Ops
  BY <1>1, CallFields, SMT DEF Reached, Idle
<1> DEFINE call == IF calls[p][s].answer = "orphan" THEN Idle
                   ELSE [calls[p][s] EXCEPT !.answer = answer]
<1>3. call \in Call BY <1>1, <1>2, AnsweredType, IdleType
<1>4. calls' = [calls EXCEPT ![p][s] = call] BY Zenon DEF Result
<1> HIDE DEF call
<1> QED BY <1>3, <1>4, SetType

LEMMA DroppedType ==
  ASSUME TypeOK, NEW p \in People, NEW slots
  PROVE  [calls EXCEPT ![p] = Dropped(p, slots)] \in CallTables
<1>1. ASSUME NEW s \in Slots
      PROVE  (IF s \notin slots \/ calls[p][s].answer = "orphan" THEN calls[p][s]
              ELSE IF calls[p][s].answer = "pending" THEN [calls[p][s] EXCEPT !.answer = "orphan"]
              ELSE Idle) \in Call
  <2>1. calls[p][s] \in Call BY DEF TypeOK
  <2>2. calls[p][s].answer = "pending" => calls[p][s].op \in Ops
    BY <2>1, CallFields, SMT DEF Idle
  <2>3. calls[p][s].answer = "pending" => [calls[p][s] EXCEPT !.answer = "orphan"] \in Call
    BY <2>1, <2>2, AnsweredType
  <2> QED BY <2>1, <2>3, IdleType
<1>2. Dropped(p, slots) \in [Slots -> Call] BY <1>1, Zenon DEF Dropped
<1> QED BY <1>2 DEF TypeOK, CallTables

-----------------------------------------------------------------------------
(* The browser: it changes no seat.                                          *)

LEMMA UnsubscribeType ==
  ASSUME TypeOK, NEW p \in People, Unsubscribe(p)
  PROVE  notices' \in [People -> BOOLEAN]
BY Zenon DEF TypeOK, Unsubscribe

LEMMA InvalidateType ==
  ASSUME TypeOK, NEW p \in People, Invalidate(p)
  PROVE  /\ page' \in [People -> Pages]
         /\ calls' \in CallTables
         /\ notices' \in [People -> BOOLEAN]
<1>1. "gated" \in Pages BY DEF Pages
<1>2. page' \in [People -> Pages] BY <1>1 DEF TypeOK, Invalidate
<1>3. calls' \in CallTables BY DroppedType DEF Invalidate
<1>4. notices' \in [People -> BOOLEAN] BY UnsubscribeType DEF Invalidate
<1> QED BY <1>2, <1>3, <1>4

LEMMA SetCallType ==
  ASSUME TypeOK, NEW p \in People, NEW s \in Slots, NEW call \in Call, SetCall(p, s, call)
  PROVE  /\ page' \in [People -> Pages]
         /\ calls' \in CallTables
         /\ notices' \in [People -> BOOLEAN]
BY SetType DEF SetCall, TypeOK

LEMMA CallTypes ==
  /\ \A op \in Ops : Sent(op) \in Call
  /\ Idle \in Call
  /\ {"claim", "restore", "heartbeat", "retry", "disconnect"} \subseteq Ops
  /\ {"page", "beat", "resync"} \subseteq Slots
  /\ {"away", "joining", "loading", "gated", "open"} \subseteq Pages
BY SentType, IdleType DEF Ops, Slots, Pages

\* A page that moves on: where it is, and what calls and notices become.
PageTypes ==
  /\ page' \in [People -> Pages]
  /\ calls' \in CallTables
  /\ notices' \in [People -> BOOLEAN]

BrowserStep(p) ==
  \/ Answer(p)
  \/ Join(p) \/ Startup(p) \/ Logout(p)
  \/ Beat(p) \/ Pause(p) \/ Resync(p)
  \/ Unload(p) \/ CloseTab(p)
  \/ Notice(p)
  \/ LostPage(p) \/ LostCall(p)
  \/ \E s \in Slots : LoseOrphan(p, s)

LEMMA BrowserTypes ==
  ASSUME TypeOK, NEW p \in People, BrowserStep(p)
  PROVE  UNCHANGED <<status, seats>> /\ TypeOK'
<1> SUFFICES UNCHANGED <<status, seats>> /\ PageTypes BY DEF TypeOK, PageTypes, CallTables
<1>1. \A where \in Pages : [page EXCEPT ![p] = where] \in [People -> Pages] BY DEF TypeOK
<1>2. page \in [People -> Pages] /\ calls \in CallTables /\ notices \in [People -> BOOLEAN]
  BY DEF TypeOK, CallTables
<1>3. CASE Join(p) BY <1>1, <1>2, <1>3, CallTypes, SetType DEF Join, PageTypes
<1>4. CASE Startup(p) BY <1>1, <1>2, <1>4, CallTypes, SetType DEF Startup, PageTypes
<1>5. CASE Logout(p) BY <1>5, CallTypes, SetCallType DEF Logout, PageTypes
<1>6. CASE Beat(p) BY <1>6, CallTypes, SetCallType DEF Beat, PageTypes
<1>7. CASE Resync(p) BY <1>7, CallTypes, SetCallType DEF Resync, PageTypes
<1>8. CASE Pause(p) BY <1>2, <1>8, DroppedType DEF Pause, PageTypes
<1>9. CASE Unload(p) BY <1>1, <1>9, CallTypes, DroppedType, UnsubscribeType DEF Unload, PageTypes
<1>10. CASE CloseTab(p)
  BY <1>1, <1>10, CallTypes, DroppedType, UnsubscribeType DEF CloseTab, PageTypes
<1>11. CASE Notice(p) BY <1>11, InvalidateType DEF Notice, PageTypes
<1>12. CASE LostCall(p) BY <1>12, InvalidateType DEF LostCall, PageTypes
<1>13. CASE LostPage(p)
  <2>1. page' \in [People -> Pages]
    BY <1>1, <1>13, CallTypes DEF LostPage
  <2>2. calls' \in CallTables BY <1>13, DroppedType DEF LostPage
  <2>3. notices' \in [People -> BOOLEAN]
    BY <1>2, <1>13, UnsubscribeType DEF LostPage
  <2> QED BY <1>13, <2>1, <2>2, <2>3 DEF LostPage, PageTypes
<1>14. ASSUME NEW s \in Slots, LoseOrphan(p, s)
       PROVE  UNCHANGED <<status, seats>> /\ PageTypes
  BY <1>14, CallTypes, SetCallType DEF LoseOrphan, PageTypes
<1>15. CASE BeatAnswer(p)
  BY <1>15, CallTypes, SetCallType, InvalidateType DEF BeatAnswer, PageTypes
<1>16. CASE ResyncAnswer(p)
  BY <1>16, CallTypes, SetCallType, InvalidateType DEF ResyncAnswer, PageTypes
<1>17. CASE PageAnswer(p)
  <2> DEFINE call == calls[p]["page"]
  <2>1. UNCHANGED <<status, seats>> BY <1>17 DEF PageAnswer
  <2>2. CASE /\ call.op = "claim" /\ call.answer = "ok"
             /\ page' = [page EXCEPT ![p] = "loading"]
             /\ calls' = [calls EXCEPT ![p]["page"] = Sent("restore")]
             /\ UNCHANGED notices
    BY <1>1, <1>2, <2>1, <2>2, CallTypes, SetType DEF PageTypes
  <2>3. CASE /\ call.op = "claim" /\ call.answer # "ok"
             /\ page' = [page EXCEPT ![p] = "away"]
             /\ calls' = [calls EXCEPT ![p]["page"] = Idle]
             /\ UNCHANGED notices
    BY <1>1, <1>2, <2>1, <2>3, CallTypes, SetType DEF PageTypes
  <2>4. CASE /\ call.op = "restore"
             /\ page' = [page EXCEPT ![p] = IF call.answer = "ok" THEN "open" ELSE "gated"]
             /\ calls' = [calls EXCEPT ![p]["page"] = Idle]
             /\ UNCHANGED notices
    <3>1. (IF call.answer = "ok" THEN "open" ELSE "gated") \in Pages BY CallTypes
    <3> HIDE DEF call
    <3> QED BY <1>1, <1>2, <2>1, <2>4, <3>1, CallTypes, SetType DEF PageTypes
  <2>5. CASE /\ call.op = "disconnect"
             /\ page' = [page EXCEPT ![p] = "away"]
             /\ calls' = [calls EXCEPT ![p] = Dropped(p, Slots)]
             /\ Unsubscribe(p)
    BY <1>1, <1>2, <2>1, <2>5, CallTypes, DroppedType, UnsubscribeType DEF PageTypes
  <2> QED BY <1>17, <2>2, <2>3, <2>4, <2>5 DEF PageAnswer
<1> QED
  BY <1>3, <1>4, <1>5, <1>6, <1>7, <1>8, <1>9, <1>10, <1>11, <1>12, <1>13, <1>14, <1>15,
     <1>16, <1>17 DEF BrowserStep, Answer

-----------------------------------------------------------------------------
(* The places.                                                               *)

LEMMA HoldersAreFinite ==
  ASSUME NEW table, NEW r \in Roles
  PROVE  /\ IsFiniteSet(Holders(table, r))
         /\ Cardinality(Holders(table, r)) \in Nat
         /\ Capacity[r] \in Nat
<1>1. Holders(table, r) \in SUBSET People BY DEF Holders
<1>2. IsFiniteSet(Holders(table, r)) BY <1>1, PeopleAreFinite, FS_Subset
<1> QED BY <1>2, FS_CardinalityType, CapacityIsNat

\* Where no seat becomes active or changes its role, no role gets more holders.
LEMMA FewerHolders ==
  ASSUME Occupied(seats), NEW table,
         \A q \in People : table[q].is_active => seats[q].is_active /\ table[q].role = seats[q].role
  PROVE  Occupied(table)
<1> SUFFICES ASSUME NEW r \in Roles PROVE Cardinality(Holders(table, r)) <= Capacity[r]
  BY DEF Occupied
<1>1. Holders(table, r) \in SUBSET Holders(seats, r) BY DEF Holders
<1>2. Cardinality(Holders(table, r)) <= Cardinality(Holders(seats, r))
  BY <1>1, HoldersAreFinite, FS_Subset
<1>3. Cardinality(Holders(seats, r)) <= Capacity[r] BY DEF Occupied
<1> QED BY <1>2, <1>3, HoldersAreFinite

\* A claim adds one to those it found, when they were fewer than the places.
LEMMA ClaimOccupied ==
  ASSUME TypeOK, Occupied(seats), NEW p \in People, NEW r \in Roles, MayClaim(p, r)
  PROVE  Occupied(Claimed(p, r))
<1> DEFINE table == Claimed(p, r)
<1>2. table[p].role = r BY ClaimedOwn
<1>3. ASSUME NEW q \in People, q # p
      PROVE  table[q].role = seats[q].role /\ table[q].is_active = Released[q].is_active
  BY <1>3, ClaimedOther
<1> SUFFICES ASSUME NEW s \in Roles PROVE Cardinality(Holders(table, s)) <= Capacity[s]
  BY DEF Occupied
<1> HIDE DEF table
<1>4. CASE s = r
  <2> DEFINE others == Occupants(Released, r, p)
  <2>1. \A q \in People : Released[q].role = seats[q].role BY ReleasedSeat
  <2>2. Holders(table, r) \subseteq others \cup {p} BY <1>3, <2>1 DEF Holders, Occupants
  <2>3. IsFiniteSet(others) /\ Cardinality(others) \in Nat
    <3>1. others \in SUBSET People BY DEF Occupants
    <3>2. IsFiniteSet(others) BY <3>1, PeopleAreFinite, FS_Subset
    <3> QED BY <3>2, FS_CardinalityType
  <2>4. p \notin others BY DEF Occupants
  <2>5. Cardinality(others) < Capacity[r] BY DEF MayClaim
  <2> HIDE DEF others
  <2>6. IsFiniteSet(others \cup {p}) /\ Cardinality(others \cup {p}) = Cardinality(others) + 1
    BY <2>3, <2>4, FS_AddElement
  <2>7. Cardinality(Holders(table, r)) <= Cardinality(others \cup {p})
    BY <2>2, <2>6, FS_Subset
  <2> QED BY <1>4, <2>3, <2>5, <2>6, <2>7, HoldersAreFinite
<1>5. CASE s # r
  <2>1. \A q \in People : Released[q].is_active => seats[q].is_active BY ReleasedSeat
  <2>2. Holders(table, s) \in SUBSET Holders(seats, s)
    BY <1>2, <1>3, <1>5, <2>1, Zenon DEF Holders
  <2>3. Cardinality(Holders(table, s)) <= Cardinality(Holders(seats, s))
    BY <2>2, HoldersAreFinite, FS_Subset
  <2>4. Cardinality(Holders(seats, s)) <= Capacity[s] BY DEF Occupied
  <2> QED BY <2>3, <2>4, HoldersAreFinite
<1> QED BY <1>4, <1>5

LEMMA ClaimRevoked ==
  ASSUME TypeOK, RevokedIsInactive(seats), NEW p \in People, NEW r \in Roles
  PROVE  RevokedIsInactive(Claimed(p, r))
<1> SUFFICES ASSUME NEW q \in People, Claimed(p, r)[q].revoked, Claimed(p, r)[q].is_active
             PROVE  FALSE
  BY DEF RevokedIsInactive
<1>1. CASE q = p BY <1>1, ClaimedOwn
<1>2. CASE q # p
  <2>1. /\ Claimed(p, r)[q].is_active = Released[q].is_active
        /\ Claimed(p, r)[q].is_active /\ ~seats[q].revoked => ~Claimed(p, r)[q].revoked
    BY <1>2, ClaimedOther
  <2>2. Released[q].is_active => seats[q].is_active BY ReleasedSeat
  <2>3. seats[q].is_active BY <2>1, <2>2
  <2>4. ~seats[q].revoked BY <2>3 DEF RevokedIsInactive
  <2> QED BY <2>1, <2>4
<1> QED BY <1>1, <1>2

\* A step in which no seat becomes active, changes its role or is revoked while active.
LEMMA NobodyJoins ==
  ASSUME IInv, seats' \in [People -> Seat],
         status' = status \/ ~IsOpen \/ \A q \in People : ~seats'[q].is_active,
         \A q \in People : seats'[q].is_active =>
           /\ seats[q].is_active /\ seats'[q].role = seats[q].role
           /\ seats'[q].revoked = seats[q].revoked
  PROVE  /\ Occupied(seats)'
         /\ RevokedIsInactive(seats)'
         /\ ClosedAdmitsNobody'
<1>1. Occupied(seats') BY FewerHolders DEF IInv
<1>2. RevokedIsInactive(seats') BY DEF IInv, RevokedIsInactive
<1>3. ClosedAdmitsNobody' BY DEF IInv, ClosedAdmitsNobody, IsOpen
<1> QED BY <1>1, <1>2, <1>3 DEF Occupied, RevokedIsInactive, Holders

-----------------------------------------------------------------------------
(* The database, call by call.                                               *)

LEMMA WriteTypes ==
  ASSUME TypeOK, NEW table \in [People -> Seat], Write(table), calls' \in CallTables,
         UNCHANGED <<status, page>>
  PROVE  TypeOK' /\ seats' = table
<1>1. notices' \in [People -> BOOLEAN] BY AnnouncedType DEF Write
<1> QED BY <1>1 DEF Write, TypeOK, CallTables

LEMMA NoWriteTypes ==
  ASSUME TypeOK, calls' \in CallTables, UNCHANGED <<status, seats, page, notices>>
  PROVE  TypeOK'
BY DEF TypeOK, CallTables

LEMMA SameSeats ==
  ASSUME IInv, TypeOK', UNCHANGED <<status, seats>>
  PROVE  IInv'
BY DEF IInv, Occupied, Holders, RevokedIsInactive, ClosedAdmitsNobody, IsOpen

\* A claim or restore that the database grants.
LEMMA ClaimInv ==
  ASSUME IInv, NEW p \in People, NEW r \in Roles, MayClaim(p, r), Write(Claimed(p, r)),
         calls' \in CallTables, UNCHANGED <<status, page>>
  PROVE  IInv'
<1>1. TypeOK' /\ seats' = Claimed(p, r) BY ClaimedType, WriteTypes DEF IInv
<1>2. Occupied(seats') BY <1>1, ClaimOccupied DEF IInv
<1>3. RevokedIsInactive(seats') BY <1>1, ClaimRevoked DEF IInv
<1>4. ClosedAdmitsNobody' BY DEF ClosedAdmitsNobody, MayClaim, IsOpen
<1> QED BY <1>1, <1>2, <1>3, <1>4 DEF IInv, Occupied, Holders, RevokedIsInactive

LEMMA ServeClaimInv ==
  ASSUME IInv, NEW p \in People, NEW r \in Roles, ServeClaim(p, r)
  PROVE  IInv'
<1>1. calls' \in CallTables
  BY ResultType, CallTypes DEF ServeClaim, IInv, Results
<1>2. CASE MayClaim(p, r) BY <1>1, <1>2, ClaimInv DEF ServeClaim
<1>3. CASE ~MayClaim(p, r)
  BY <1>1, <1>3, NoWriteTypes, SameSeats DEF ServeClaim, IInv
<1> QED BY <1>2, <1>3

LEMMA ServeRestoreInv ==
  ASSUME IInv, NEW p \in People, NEW s \in Slots, ServeRestore(p, s)
  PROVE  IInv'
<1>1. calls' \in CallTables BY ResultType DEF ServeRestore, IInv, Results
<1>2. CASE MayRestore(p) BY <1>1, <1>2, ClaimInv DEF ServeRestore, MayRestore
<1>3. CASE ~MayRestore(p)
  BY <1>1, <1>3, NoWriteTypes, SameSeats DEF ServeRestore, IInv
<1> QED BY <1>2, <1>3

LEMMA ServeHeartbeatInv ==
  ASSUME IInv, NEW p \in People, ServeHeartbeat(p)
  PROVE  IInv'
<1>1. TypeOK BY DEF IInv
<1>2. calls' \in CallTables
  <2>1. "beat" \in Slots /\ (IF IsOpen THEN "rejoin" ELSE "refused") \in Results
    BY CallTypes DEF Results
  <2> QED BY <1>1, <2>1, ResultType DEF ServeHeartbeat, Results
<1>3. CASE Authorised(p)
  <2>1. seats' = [seats EXCEPT ![p] = [seats[p] EXCEPT !.age = 0]]
    BY <1>3, Zenon DEF ServeHeartbeat
  <2>2. /\ [seats[p] EXCEPT !.age = 0] \in Seat
        /\ [seats[p] EXCEPT !.age = 0] = [role |-> seats[p].role, is_active |-> seats[p].is_active,
                                          revoked |-> seats[p].revoked, age |-> 0]
    BY <1>1, FirstAge, AgeType DEF TypeOK
  <2>3. seats' \in [People -> Seat] BY <1>1, <2>1, <2>2 DEF TypeOK
  <2>4. \A q \in People : /\ seats'[q].is_active = seats[q].is_active
                          /\ seats'[q].role = seats[q].role
                          /\ seats'[q].revoked = seats[q].revoked
    BY <1>1, <2>1, <2>2 DEF TypeOK
  <2>5. TypeOK' BY <1>1, <1>2, <2>3 DEF ServeHeartbeat, TypeOK, CallTables
  <2> QED BY <2>3, <2>4, <2>5, NobodyJoins DEF IInv, ServeHeartbeat
<1>4. CASE ~Authorised(p)
  BY <1>1, <1>2, <1>4, NoWriteTypes, SameSeats DEF ServeHeartbeat
<1> QED BY <1>3, <1>4

LEMMA ServeDisconnectInv ==
  ASSUME IInv, NEW p \in People, ServeDisconnect(p)
  PROVE  IInv'
<1>1. TypeOK BY DEF IInv
<1>2. calls' \in CallTables
  BY <1>1, CallTypes, ResultType DEF ServeDisconnect, Results
<1>3. CASE IsOpen
  <2> DEFINE table == [Released EXCEPT ![p] = Ended(@)]
  <2>1. Released \in [People -> Seat] BY <1>1, ReleasedType
  <2>2. /\ Ended(Released[p]) \in Seat /\ ~Ended(Released[p]).is_active
    BY <2>1, EndedType
  <2>3. /\ table \in [People -> Seat] /\ ~table[p].is_active
        /\ \A q \in People : q # p => table[q] = Released[q]
    BY <2>1, <2>2
  <2>4. Write(table) BY <1>3 DEF ServeDisconnect
  <2> HIDE DEF table
  <2>5. TypeOK' /\ seats' = table BY <1>1, <1>2, <2>3, <2>4, WriteTypes DEF ServeDisconnect
  <2>6. \A q \in People : table[q].is_active =>
           seats[q].is_active /\ table[q].role = seats[q].role
           /\ table[q].revoked = seats[q].revoked
    BY <1>1, <2>3, ReleasedSeat
  <2> QED BY <2>3, <2>5, <2>6, NobodyJoins DEF IInv, ServeDisconnect
<1>4. CASE ~IsOpen BY <1>1, <1>2, <1>4, NoWriteTypes, SameSeats DEF ServeDisconnect
<1> QED BY <1>3, <1>4

LEMMA RemoveInv ==
  ASSUME IInv, NEW p \in People, Remove(p)
  PROVE  IInv'
<1>1. TypeOK /\ calls \in CallTables BY DEF IInv, TypeOK, CallTables
<1> DEFINE removed == [Ended(seats[p]) EXCEPT !.revoked = TRUE]
           table == [seats EXCEPT ![p] = removed]
<1>2. removed \in Seat /\ ~removed.is_active
  <2>1. Ended(seats[p]) \in Seat /\ ~Ended(seats[p]).is_active
    BY <1>1, EndedType DEF TypeOK
  <2>2. TRUE \in BOOLEAN OBVIOUS
  <2>3. /\ removed \in Seat
        /\ removed = [role |-> Ended(seats[p]).role, is_active |-> Ended(seats[p]).is_active,
                      revoked |-> TRUE, age |-> Ended(seats[p]).age]
    BY <2>1, <2>2, RevokedType, Zenon
  <2> HIDE DEF removed
  <2>4. removed.is_active = Ended(seats[p]).is_active BY <2>3, Zenon
  <2> QED BY <2>1, <2>3, <2>4, Zenon
<1>3. Write(table) BY DEF Remove
<1> HIDE DEF removed
<1>4. /\ table \in [People -> Seat] /\ ~table[p].is_active
      /\ \A q \in People : q # p => table[q] = seats[q]
  BY <1>1, <1>2 DEF TypeOK
<1> HIDE DEF table
<1>5. TypeOK' /\ seats' = table BY <1>1, <1>3, <1>4, WriteTypes DEF Remove
<1>6. \A q \in People : table[q].is_active =>
         seats[q].is_active /\ table[q].role = seats[q].role /\ table[q].revoked = seats[q].revoked
  BY <1>4
<1> QED BY <1>4, <1>5, <1>6, NobodyJoins DEF IInv, Remove

LEMMA ArchiveInv ==
  ASSUME IInv, Archive
  PROVE  IInv'
<1> DEFINE table == [p \in People |-> Ended(seats[p])]
<1>1. \A p \in People : Ended(seats[p]) \in Seat /\ ~Ended(seats[p]).is_active
  BY EndedType DEF IInv, TypeOK
<1>2. table \in [People -> Seat] /\ \A q \in People : ~table[q].is_active BY <1>1
<1>3. Write(table) BY DEF Archive
<1> HIDE DEF table
<1>4. notices' \in [People -> BOOLEAN] /\ seats' = table BY <1>3, AnnouncedType DEF Write
<1>5. TypeOK' BY <1>2, <1>4 DEF Archive, IInv, TypeOK, Statuses
<1> QED BY <1>2, <1>4, <1>5, NobodyJoins DEF IInv

LEMMA DeleteInv ==
  ASSUME IInv, Delete
  PROVE  IInv'
<1>1. TypeOK' BY DEF Delete, IInv, TypeOK, Statuses
<1>2. ~IsOpen BY DEF Delete, IsOpen
<1> QED BY <1>1, <1>2, NobodyJoins DEF IInv, Delete, TypeOK

LEMMA TickInv ==
  ASSUME IInv, Tick
  PROVE  IInv'
<1> DEFINE Older(seat) == [seat EXCEPT !.age = @ + 1]
<1>1. ASSUME NEW p \in People, seats[p].age <= Timeout
      PROVE  /\ Older(seats[p]) \in Seat
             /\ Older(seats[p]).is_active = seats[p].is_active
             /\ Older(seats[p]).role = seats[p].role
             /\ Older(seats[p]).revoked = seats[p].revoked
  <2>1. seats[p] \in Seat BY DEF IInv, TypeOK
  <2>2. seats[p].age + 1 \in Ages
    BY <1>1, <2>1, SeatFields, TimeoutIsNat DEF Ages
  <2>3. /\ Older(seats[p]) \in Seat
        /\ Older(seats[p]) = [role |-> seats[p].role, is_active |-> seats[p].is_active,
                              revoked |-> seats[p].revoked, age |-> seats[p].age + 1]
    BY <2>1, <2>2, AgeType, Zenon
  <2> HIDE DEF Older
  <2> QED BY <2>3
<1>2. \A p \in People : seats'[p] = IF seats[p].is_active /\ seats[p].age <= Timeout
                                    THEN Older(seats[p]) ELSE seats[p]
  BY DEF Tick
<1>3. seats' \in [People -> Seat]
  <2>1. \A p \in People : seats[p] \in Seat BY DEF IInv, TypeOK
  <2>2. seats' = [p \in People |-> IF seats[p].is_active /\ seats[p].age <= Timeout
                                   THEN Older(seats[p]) ELSE seats[p]]
    BY DEF Tick
  <2> HIDE DEF Older
  <2> QED BY <1>1, <2>1, <2>2
<1>4. \A p \in People : /\ seats'[p].is_active = seats[p].is_active
                        /\ seats'[p].role = seats[p].role
                        /\ seats'[p].revoked = seats[p].revoked
  <2> HIDE DEF Older
  <2> QED BY <1>1, <1>2
<1>5. TypeOK' BY <1>3 DEF Tick, IInv, TypeOK
<1> QED BY <1>3, <1>4, <1>5, NobodyJoins DEF IInv, Tick

-----------------------------------------------------------------------------
(* All steps.                                                                *)

LEMMA InitInv == Init => IInv
<1> SUFFICES ASSUME Init PROVE IInv OBVIOUS
<1>1. NoSeat \in Seat /\ NoSeat.role \notin Roles
  BY FirstAge, NoRoleIsNone DEF NoSeat, Seat
<1>2. ~NoSeat.is_active /\ ~NoSeat.revoked
  <2>1. NoSeat.is_active = FALSE /\ NoSeat.revoked = FALSE BY Zenon DEF NoSeat
  <2> QED BY <2>1, Zenon
<1>3. \A p \in People : seats[p] = NoSeat BY DEF Init
<1>4. TypeOK
  BY <1>1, CallTypes DEF Init, TypeOK, Statuses
<1>5. Occupied(seats)
  <2>1. \A r \in Roles : Holders(seats, r) = {} BY <1>1, <1>3 DEF Holders
  <2> QED BY <2>1, FS_EmptySet, HoldersAreFinite DEF Occupied
<1>6. RevokedIsInactive(seats) BY <1>2, <1>3 DEF RevokedIsInactive
<1>7. ClosedAdmitsNobody BY DEF Init, ClosedAdmitsNobody, IsOpen
<1> QED BY <1>4, <1>5, <1>6, <1>7 DEF IInv

LEMMA NextInv == IInv /\ [Next]_vars => IInv'
<1> SUFFICES ASSUME IInv, [Next]_vars PROVE IInv' OBVIOUS
<1>1. ASSUME NEW p \in People, NEW r \in Roles, ServeClaim(p, r) PROVE IInv'
  BY <1>1, ServeClaimInv
<1>2. ASSUME NEW p \in People, NEW s \in Slots, ServeRestore(p, s) PROVE IInv'
  BY <1>2, ServeRestoreInv
<1>3. ASSUME NEW p \in People, ServeHeartbeat(p) PROVE IInv' BY <1>3, ServeHeartbeatInv
<1>4. ASSUME NEW p \in People, ServeDisconnect(p) PROVE IInv' BY <1>4, ServeDisconnectInv
<1>5. ASSUME NEW p \in People, Remove(p) PROVE IInv' BY <1>5, RemoveInv
<1>6. CASE Archive BY <1>6, ArchiveInv
<1>7. CASE Delete BY <1>7, DeleteInv
<1>8. CASE Tick BY <1>8, TickInv
<1>9. ASSUME NEW p \in People, BrowserStep(p) PROVE IInv'
  BY <1>9, BrowserTypes, SameSeats DEF IInv
<1>10. CASE UNCHANGED vars
  <2>1. TypeOK' BY <1>10 DEF IInv, TypeOK, vars
  <2> QED BY <1>10, <2>1, SameSeats DEF vars
<1>11. \/ \E p \in People : Serve(p) \/ Remove(p) \/ BrowserStep(p)
       \/ Archive \/ Delete \/ Tick \/ UNCHANGED vars
  BY DEF Next, BrowserStep
<1> QED BY <1>1, <1>2, <1>3, <1>4, <1>5, <1>6, <1>7, <1>8, <1>9, <1>10, <1>11 DEF Serve

-----------------------------------------------------------------------------
(* The theorems.                                                             *)

\* However claims, restores, heartbeats, logouts, removals and the end of the session
\* follow each other, no role has more active seats than places.
THEOREM InductiveInvariant == Spec => []IInv
BY InitInv, NextInv, PTL DEF Spec

\* Sessions, seats, pages, calls and notices keep their types.
THEOREM TypesHold == Spec => []TypeOK
<1>1. IInv => TypeOK BY DEF IInv
<1> QED BY <1>1, InductiveInvariant, PTL

\* No role has more holders with authority than claim_session_role_seat has places for.
THEOREM PlacesSuffice == Spec => []CapacityHolds
<1>1. IInv => CapacityHolds
  <2> SUFFICES ASSUME IInv, NEW r \in Roles
               PROVE  Cardinality({p \in People : seats[p].role = r /\ Authorised(p)}) <= Capacity[r]
    BY DEF CapacityHolds
  <2> DEFINE authorised == {p \in People : seats[p].role = r /\ Authorised(p)}
  <2>1. authorised \in SUBSET Holders(seats, r) BY DEF Holders, Authorised
  <2> HIDE DEF authorised
  <2>2. IsFiniteSet(authorised) /\ Cardinality(authorised) <= Cardinality(Holders(seats, r))
    BY <2>1, HoldersAreFinite, FS_Subset
  <2>3. Cardinality(Holders(seats, r)) <= Capacity[r] BY DEF IInv, Occupied
  <2>4. Cardinality(authorised) \in Nat BY <2>2, FS_CardinalityType
  <2>5. Cardinality(authorised) <= Capacity[r] BY <2>2, <2>3, <2>4, HoldersAreFinite
  <2> QED BY <2>5 DEF authorised
<1> QED BY <1>1, InductiveInvariant, PTL

\* An archived or deleted session has no active seat, whatever calls were under way.
THEOREM ClosedIsEmpty == Spec => []ClosedAdmitsNobody
<1>1. IInv => ClosedAdmitsNobody BY DEF IInv
<1> QED BY <1>1, InductiveInvariant, PTL

\* What a step does to the seats, for the two theorems about steps.
LEMMA SeatSteps ==
  ASSUME [Next]_vars
  PROVE  \/ UNCHANGED <<status, seats>>
         \/ \E p \in People, r \in Roles :
               MayClaim(p, r) /\ seats' = Claimed(p, r) /\ status' = status
         \/ \E p \in People : Authorised(p) /\ seats' = [seats EXCEPT ![p].age = 0] /\ status' = status
         \/ \E p \in People : /\ ServeDisconnect(p) /\ status' = status
                              /\ seats' = [Released EXCEPT ![p] = Ended(@)]
         \/ \E p \in People : /\ Remove(p) /\ status' = status
                              /\ seats' = [seats EXCEPT ![p] = [Ended(@) EXCEPT !.revoked = TRUE]]
         \/ Archive
         \/ Delete
         \/ Tick
<1>1. ASSUME NEW p \in People, NEW r \in Roles, ServeClaim(p, r)
      PROVE  \/ UNCHANGED <<status, seats>>
             \/ MayClaim(p, r) /\ seats' = Claimed(p, r) /\ status' = status
  BY <1>1 DEF ServeClaim, Write
<1>2. ASSUME NEW p \in People, NEW s \in Slots, ServeRestore(p, s)
      PROVE  \/ UNCHANGED <<status, seats>>
             \/ \E r \in Roles : MayClaim(p, r) /\ seats' = Claimed(p, r) /\ status' = status
  BY <1>2 DEF ServeRestore, MayRestore, Write
<1>3. ASSUME NEW p \in People, ServeHeartbeat(p)
      PROVE  \/ UNCHANGED <<status, seats>>
             \/ Authorised(p) /\ seats' = [seats EXCEPT ![p].age = 0] /\ status' = status
  BY <1>3, Zenon DEF ServeHeartbeat
<1>4. ASSUME NEW p \in People, ServeDisconnect(p)
      PROVE  \/ UNCHANGED <<status, seats>>
             \/ status' = status /\ seats' = [Released EXCEPT ![p] = Ended(@)]
  BY <1>4, Zenon DEF ServeDisconnect, Write
<1>5. ASSUME NEW p \in People, Remove(p)
      PROVE  status' = status /\ seats' = [seats EXCEPT ![p] = [Ended(@) EXCEPT !.revoked = TRUE]]
  BY <1>5, Zenon DEF Remove, Write
<1>6. ASSUME NEW p \in People, BrowserStep(p) PROVE UNCHANGED <<status, seats>>
  BY <1>6 DEF BrowserStep, Answer, PageAnswer, BeatAnswer, ResyncAnswer, Join, Startup, Logout,
     Beat, Pause, Resync, Unload, CloseTab, Notice, LostPage, LostCall, LoseOrphan
<1>7. \/ \E p \in People : Serve(p) \/ Remove(p) \/ BrowserStep(p)
      \/ Archive \/ Delete \/ Tick \/ UNCHANGED vars
  BY DEF Next, BrowserStep
<1>8. UNCHANGED vars => UNCHANGED <<status, seats>> BY DEF vars
<1>9. ASSUME NEW p \in People, Serve(p)
      PROVE  \/ UNCHANGED <<status, seats>>
             \/ \E r \in Roles : MayClaim(p, r) /\ seats' = Claimed(p, r) /\ status' = status
             \/ Authorised(p) /\ seats' = [seats EXCEPT ![p].age = 0] /\ status' = status
             \/ /\ ServeDisconnect(p) /\ status' = status
                /\ seats' = [Released EXCEPT ![p] = Ended(@)]
  BY <1>1, <1>2, <1>3, <1>4, <1>9, Zenon DEF Serve
<1> QED BY <1>5, <1>6, <1>7, <1>8, <1>9, Zenon

\* A seat that is removed: revoked, and not active.
LEMMA RemovedSeat ==
  ASSUME NEW seat \in Seat
  PROVE  LET removed == [Ended(seat) EXCEPT !.revoked = TRUE]
         IN  removed.revoked /\ ~removed.is_active
<1> DEFINE removed == [Ended(seat) EXCEPT !.revoked = TRUE]
<1>1. Ended(seat) \in Seat /\ ~Ended(seat).is_active BY EndedType
<1>2. TRUE \in BOOLEAN OBVIOUS
<1>3. removed = [role |-> Ended(seat).role, is_active |-> Ended(seat).is_active,
                 revoked |-> TRUE, age |-> Ended(seat).age]
  BY <1>1, <1>2, RevokedType, Zenon
<1> HIDE DEF removed
<1>4. removed.revoked = TRUE /\ removed.is_active = Ended(seat).is_active BY <1>3, Zenon
<1>5. removed.revoked /\ ~removed.is_active BY <1>1, <1>4, Zenon
<1> QED BY <1>5, Zenon DEF removed

LEMMA OlderSeat ==
  ASSUME NEW seat \in Seat, seat.age <= Timeout
  PROVE  /\ [seat EXCEPT !.age = @ + 1].is_active = seat.is_active
         /\ [seat EXCEPT !.age = @ + 1].revoked = seat.revoked
<1>1. seat.age + 1 \in Ages BY SeatFields, TimeoutIsNat DEF Ages
<1> DEFINE older == [seat EXCEPT !.age = @ + 1]
<1>2. older = [role |-> seat.role, is_active |-> seat.is_active, revoked |-> seat.revoked,
               age |-> seat.age + 1]
  BY <1>1, AgeType, Zenon
<1> HIDE DEF older
<1>3. older.is_active = seat.is_active /\ older.revoked = seat.revoked BY <1>2
<1> QED BY <1>3 DEF older

\* Who has been replaced by a claim or removed by an operator never has an active seat
\* again: not by what was under way, not by restoring, not by claiming anew.
THEOREM ReplacedForGood == Spec => RevokedStaysOut
<1> DEFINE StaysOut(p) == seats[p].revoked => seats'[p].revoked /\ ~seats'[p].is_active
<1>1. IInv /\ [Next]_vars => \A p \in People : StaysOut(p)
  <2> SUFFICES ASSUME IInv, [Next]_vars, NEW q \in People, seats[q].revoked
               PROVE  seats'[q].revoked /\ ~seats'[q].is_active
    OBVIOUS
  <2>0. /\ TypeOK /\ seats \in [People -> Seat] /\ \A p \in People : seats[p] \in Seat
        /\ ~seats[q].is_active
    BY DEF IInv, TypeOK, RevokedIsInactive
  <2>1. CASE UNCHANGED seats BY <2>0, <2>1
  <2>2. ASSUME NEW p \in People, NEW r \in Roles, MayClaim(p, r), seats' = Claimed(p, r)
        PROVE  seats'[q].revoked /\ ~seats'[q].is_active
    <3>1. q # p BY <2>2 DEF MayClaim
    <3>2. Claimed(p, r)[q].revoked /\ Claimed(p, r)[q].is_active = Released[q].is_active
      BY <2>0, <3>1, ClaimedOther
    <3>3. Released[q].is_active => seats[q].is_active BY <2>0, ReleasedSeat
    <3>4. ~Claimed(p, r)[q].is_active BY <2>0, <3>2, <3>3
    <3> QED BY <2>2, <3>2, <3>4
  <2>3. ASSUME NEW p \in People, Authorised(p), seats' = [seats EXCEPT ![p].age = 0]
        PROVE  seats'[q].revoked /\ ~seats'[q].is_active
    <3>1. q # p BY <2>3 DEF Authorised
    <3>2. seats'[q] = seats[q] BY <2>0, <2>3, <3>1
    <3> QED BY <2>0, <3>2
  <2>4. ASSUME NEW p \in People, seats' = [Released EXCEPT ![p] = Ended(@)]
        PROVE  seats'[q].revoked /\ ~seats'[q].is_active
    <3>1. Released \in [People -> Seat] BY <2>0, ReleasedType
    <3>2. /\ Released[q] \in Seat /\ Released[q].revoked
          /\ Released[q].is_active => seats[q].is_active
      BY <2>0, ReleasedSeat
    <3>3. CASE q = p
      <4>1. seats'[q] = Ended(Released[q]) BY <2>4, <3>1, <3>3
      <4>2. Ended(Released[q]).revoked = Released[q].revoked /\ ~Ended(Released[q]).is_active
        BY <3>2, EndedType
      <4> QED BY <3>2, <4>1, <4>2
    <3>4. CASE q # p
      <4>1. seats'[q] = Released[q] BY <2>4, <3>1, <3>4
      <4> QED BY <2>0, <3>2, <4>1
    <3> QED BY <3>3, <3>4
  <2>5. ASSUME NEW p \in People,
               seats' = [seats EXCEPT ![p] = [Ended(@) EXCEPT !.revoked = TRUE]]
        PROVE  seats'[q].revoked /\ ~seats'[q].is_active
    <3>1. CASE q = p
      <4>1. seats'[q] = [Ended(seats[q]) EXCEPT !.revoked = TRUE] BY <2>0, <2>5, <3>1
      <4> QED BY <2>0, <4>1, RemovedSeat
    <3>2. CASE q # p
      <4>1. seats'[q] = seats[q] BY <2>0, <2>5, <3>2
      <4> QED BY <2>0, <4>1
    <3> QED BY <3>1, <3>2
  <2>6. CASE Archive
    <3>1. seats'[q] = Ended(seats[q]) BY <2>6 DEF Archive, Write
    <3> QED BY <2>0, <3>1, EndedType
  <2>7. CASE Delete BY <2>0, <2>7 DEF Delete
  <2>8. CASE Tick
    <3>1. seats'[q] = seats[q] BY <2>0, <2>8 DEF Tick
    <3> QED BY <2>0, <3>1
  <2> QED BY <2>1, <2>2, <2>3, <2>4, <2>5, <2>6, <2>7, <2>8, SeatSteps
<1>2. IInv /\ [Next]_vars =>
        [\A p \in People : seats[p].revoked => seats'[p].revoked /\ ~seats'[p].is_active]_vars
  BY <1>1
<1> QED BY <1>2, InductiveInvariant, PTL DEF Spec, RevokedStaysOut

\* A lease that is still running ends by its holder's logout, by removal, with the session
\* or by time, and by nobody else's claim, restore or logout.
THEOREM LeasesHold == Spec => LeasesAreHonoured
<1> DEFINE Honoured(q) ==
      Authorised(q) /\ ~Authorised(q)' => Tick \/ Archive \/ Remove(q) \/ ServeDisconnect(q)
<1>1. IInv /\ [Next]_vars => \A p \in People : Honoured(p)
  <2> SUFFICES ASSUME IInv, [Next]_vars, NEW q \in People, Authorised(q),
                      ~(Tick \/ Archive \/ Remove(q) \/ ServeDisconnect(q))
               PROVE  Authorised(q)'
    OBVIOUS
  <2>0. /\ TypeOK /\ seats \in [People -> Seat] /\ \A p \in People : seats[p] \in Seat
        /\ IsOpen /\ seats[q].is_active /\ ~seats[q].revoked /\ seats[q].age <= Timeout
    BY DEF IInv, TypeOK, Authorised
  <2>a. ASSUME status' = status, seats'[q] = seats[q] PROVE Authorised(q)'
    BY <2>0, <2>a DEF Authorised, IsOpen
  <2>b. Released[q] = seats[q] BY <2>0, ReleasedSeat
  <2>1. CASE UNCHANGED <<status, seats>> BY <2>1, <2>a
  <2>2. ASSUME NEW p \in People, NEW r \in Roles, seats' = Claimed(p, r), status' = status
        PROVE  Authorised(q)'
    <3>1. CASE q = p
      <4>1. seats'[q].is_active /\ ~seats'[q].revoked /\ seats'[q].age = 0
        BY <2>2, <3>1, ClaimedOwn
      <4> QED BY <2>0, <2>2, <4>1, TimeoutIsNat DEF Authorised, IsOpen
    <3>2. CASE q # p
      <4>1. /\ Claimed(p, r)[q].is_active = Released[q].is_active
            /\ Claimed(p, r)[q].age = Released[q].age
            /\ Claimed(p, r)[q].is_active /\ ~seats[q].revoked => ~Claimed(p, r)[q].revoked
        BY <2>0, <3>2, ClaimedOther
      <4>2. Claimed(p, r)[q].is_active /\ ~Claimed(p, r)[q].revoked
        BY <2>0, <2>b, <4>1
      <4>3. Claimed(p, r)[q].age <= Timeout BY <2>0, <2>b, <4>1
      <4> QED BY <2>0, <2>2, <4>2, <4>3 DEF Authorised, IsOpen
    <3> QED BY <3>1, <3>2
  <2>3. ASSUME NEW p \in People, seats' = [seats EXCEPT ![p].age = 0], status' = status
        PROVE  Authorised(q)'
    <3>1. CASE q = p
      <4> DEFINE renewed == [seats[q] EXCEPT !.age = 0]
      <4>1. seats'[q] = renewed BY <2>0, <2>3, <3>1
      <4>2. renewed = [role |-> seats[q].role, is_active |-> seats[q].is_active,
                       revoked |-> seats[q].revoked, age |-> 0]
        BY <2>0, FirstAge, AgeType
      <4> HIDE DEF renewed
      <4>3. renewed.is_active = seats[q].is_active /\ renewed.revoked = seats[q].revoked
            /\ renewed.age = 0
        BY <4>2
      <4>4. renewed.is_active /\ ~renewed.revoked /\ renewed.age <= Timeout
        BY <2>0, <4>3, TimeoutIsNat
      <4> QED BY <2>0, <2>3, <4>1, <4>4 DEF Authorised, IsOpen
    <3>2. CASE q # p
      <4>1. seats'[q] = seats[q] BY <2>0, <2>3, <3>2
      <4> QED BY <2>3, <2>a, <4>1
    <3> QED BY <3>1, <3>2
  <2>4. ASSUME NEW p \in People, q # p, seats' = [Released EXCEPT ![p] = Ended(@)],
               status' = status
        PROVE  Authorised(q)'
    <3>1. Released \in [People -> Seat] BY <2>0, ReleasedType
    <3>2. seats'[q] = seats[q] BY <2>4, <2>b, <3>1
    <3> QED BY <2>4, <2>a, <3>2
  <2>5. ASSUME NEW p \in People, q # p, status' = status,
               seats' = [seats EXCEPT ![p] = [Ended(@) EXCEPT !.revoked = TRUE]]
        PROVE  Authorised(q)'
    <3>1. seats'[q] = seats[q] BY <2>0, <2>5
    <3> QED BY <2>5, <2>a, <3>1
  <2>6. ~Delete BY <2>0 DEF Delete, IsOpen
  <2> QED BY <2>1, <2>2, <2>3, <2>4, <2>5, <2>6, SeatSteps
<1>2. IInv /\ [Next]_vars =>
        [\A p \in People :
           Authorised(p) /\ ~Authorised(p)' =>
             Tick \/ Archive \/ Remove(p) \/ ServeDisconnect(p)]_vars
  BY <1>1
<1> QED BY <1>2, InductiveInvariant, PTL DEF Spec, LeasesAreHonoured
=============================================================================
