------------------------ MODULE StoreReconcileProofs ------------------------
(***************************************************************************)
(* Theorems about StoreReconcile for any rows, versions, resyncs and       *)
(* number of attempts: types, that known rows stay, and that a merged      *)
(* snapshot of a connected channel leaves no row missing.                  *)
(***************************************************************************)
EXTENDS StoreReconcile, TLAPS

-----------------------------------------------------------------------------
(* The inductive invariant.                                                 *)

\* The store has the row or its INSERT is on its way to it.
Known(r) == store[r] # 0 \/ OnItsWay(r)

\* What a query remembers is of rows that exist, and the rows that its snapshot lacks
\* will be known without it when the channel has been up since.
QueryInv(query) ==
    /\ \A r \in Rows : query.atQueryStart[r] # 0 => table[r] # 0
    /\ query.step = "seen" =>
         \A r \in Rows : /\ query.atQueryStart[r] # 0 => query.fetched[r] # 0
                         /\ query.fetched[r] # 0 => table[r] # 0
    /\ query.fresh =>
         /\ query.step = "seen" /\ channel = "subscribed"
         /\ \A r \in Rows : table[r] # 0 /\ query.fetched[r] = 0 => Known(r)

\* Nothing is stored or sent but rows of the table.
RowsExist ==
    /\ \A r \in Rows : store[r] # 0 => table[r] # 0
    /\ \A i \in 1..Len(transit) : table[transit[i].row] # 0
    /\ \A change \in replies : table[change.row] # 0

\* Until the stores have loaded there is no channel.
NotYetSubscribed ==
    boot \in {"loading", "loaded"} =>
        channel = "none" /\ ~reconnecting /\ transit = <<>> /\ ~resyncDue

IInv ==
    /\ TypeOK
    /\ RowsExist
    /\ \A q \in Queries : QueryInv(queries[q])
    /\ NotYetSubscribed
    /\ covered => channel = "subscribed"
    /\ CoveredMissesNothing

-----------------------------------------------------------------------------
(* Queries.                                                                 *)

LEMMA EmptyIsContents == Empty \in Contents
<1>1. 0 \in Versions BY MaxVersionAssumption DEF Versions
<1>2. QED BY <1>1 DEF Empty, Contents

LEMMA NoQueryIsQuery == NoQuery \in QueryStates
BY EmptyIsContents, Zenon DEF NoQuery, QueryStates

\* A query that is asked keeps the store as it is then.
LEMMA AskedFields ==
    ASSUME NEW contents \in Contents
    PROVE  /\ Asked(contents) \in QueryStates
           /\ Asked(contents).step = "asked"
           /\ Asked(contents).atQueryStart = contents
           /\ Asked(contents).fresh = FALSE
<1>1. /\ Asked(contents).step = "asked" /\ Asked(contents).atQueryStart = contents
      /\ Asked(contents).fresh = FALSE
    BY DEF Asked, NoQuery
<1>2. Asked(contents) \in QueryStates
    BY NoQueryIsQuery, Zenon DEF Asked, QueryStates
<1>3. QED BY <1>1, <1>2

LEMMA NoQueryInv == QueryInv(NoQuery)
<1>1. NoQuery.step = "none" /\ NoQuery.atQueryStart = Empty /\ NoQuery.fresh = FALSE
    BY DEF NoQuery
<1>2. \A r \in Rows : Empty[r] = 0 BY DEF Empty
<1>3. QED BY <1>1, <1>2 DEF QueryInv

LEMMA InitInv == Init => IInv
<1> SUFFICES ASSUME Init PROVE IInv OBVIOUS
<1>1. TypeOK
    <2>1. [q \in Queries |-> IF q = "boot" THEN Asked(Empty) ELSE NoQuery]
            \in [Queries -> QueryStates]
        BY EmptyIsContents, NoQueryIsQuery, AskedFields
    <2>2. table \in Contents BY MaxVersionAssumption DEF Init, Contents, Versions
    <2>3. 0 \in 0..MaxAttempts BY MaxAttemptsAssumption
    <2>4. <<>> \in Seq(Changes) OBVIOUS
    <2>5. queries \in [Queries -> QueryStates] BY <2>1, Zenon DEF Init
    <2>6. QED BY <2>2, <2>3, <2>4, <2>5, EmptyIsContents, Zenon DEF Init, TypeOK
<1>2. RowsExist BY DEF Init, RowsExist, Empty
<1>3. \A q \in Queries : QueryInv(queries[q])
    <2> TAKE q \in Queries
    <2>1. queries[q] = Asked(Empty) \/ queries[q] = NoQuery BY Zenon DEF Init
    <2>2. QueryInv(Asked(Empty))
        <3>1. \A r \in Rows : Empty[r] = 0 BY DEF Empty
        <3>2. QED BY <3>1, EmptyIsContents, AskedFields DEF QueryInv
    <2>3. QED BY <2>1, <2>2, NoQueryInv
<1>4. NotYetSubscribed /\ (covered => channel = "subscribed") /\ CoveredMissesNothing
    BY DEF Init, NotYetSubscribed, CoveredMissesNothing
<1>5. QED BY <1>1, <1>2, <1>3, <1>4 DEF IInv

-----------------------------------------------------------------------------
(* Rows become known and stay so.                                           *)

\* Rows are not deleted; and as long as the channel is up, a row that is known stays
\* known and one that is new becomes so.
Progress ==
    /\ \A r \in Rows : table[r] # 0 => table'[r] # 0
    /\ channel' = "subscribed" =>
         \A r \in Rows : (table[r] # 0 => Known(r)) => (table'[r] # 0 => Known(r)')

\* What progress leaves of a query.
LEMMA QueryInvKept ==
    ASSUME IInv, Progress, NEW q \in Queries, queries'[q] = queries[q],
           queries[q].fresh => channel' = "subscribed"
    PROVE  QueryInv(queries[q])'
<1>1. QueryInv(queries[q]) BY DEF IInv
<1>2. queries'[q].fresh =>
        \A r \in Rows : table'[r] # 0 /\ queries'[q].fetched[r] = 0 => Known(r)'
    <2> SUFFICES ASSUME queries[q].fresh, NEW r \in Rows,
                        table'[r] # 0, queries[q].fetched[r] = 0
                 PROVE  Known(r)'
        OBVIOUS
    <2>1. table[r] # 0 => Known(r) BY <1>1 DEF QueryInv
    <2>2. QED BY <2>1 DEF Progress
<1>3. QED BY <1>1, <1>2 DEF QueryInv, Progress

\* And of what has been covered.
LEMMA CoverageKept ==
    ASSUME IInv, Progress, covered, channel' = "subscribed"
    PROVE  \A r \in Rows : ~Missing(r)'
<1> TAKE r \in Rows
<1>1. table[r] # 0 => Known(r) BY DEF IInv, CoveredMissesNothing, Missing, Known
<1>2. table'[r] # 0 => Known(r)' BY <1>1 DEF Progress
<1>3. QED BY <1>2 DEF Missing, Known

LEMMA AppendedIsOnItsWay ==
    ASSUME TypeOK, NEW change \in Changes, transit' = Append(transit, change), NEW x
    PROVE  /\ transit' \in Seq(Changes)
           /\ OnItsWay(x) => OnItsWay(x)'
           /\ change.row = x /\ change.version = 1 => OnItsWay(x)'
           /\ \A i \in 1..Len(transit') :
                transit'[i] = change \/ \E j \in 1..Len(transit) : transit'[i] = transit[j]
<1>1. transit \in Seq(Changes) BY DEF TypeOK
<1>2. /\ Len(transit) \in Nat /\ Len(transit') = Len(transit) + 1
      /\ transit'[Len(transit) + 1] = change
      /\ \A i \in 1..Len(transit) : transit'[i] = transit[i]
      /\ transit' \in Seq(Changes)
    BY <1>1
<1>3. OnItsWay(x) => OnItsWay(x)'
    <2> SUFFICES ASSUME NEW i \in 1..Len(transit),
                        transit[i].row = x, transit[i].version = 1
                 PROVE  OnItsWay(x)'
        BY DEF OnItsWay
    <2>1. i \in 1..Len(transit') /\ transit'[i] = transit[i] BY <1>2
    <2>2. QED BY <2>1 DEF OnItsWay
<1>4. change.row = x /\ change.version = 1 => OnItsWay(x)'
    <2>1. Len(transit) + 1 \in 1..Len(transit') BY <1>2
    <2>2. QED BY <1>2, <2>1 DEF OnItsWay
<1>5. \A i \in 1..Len(transit') :
         transit'[i] = change \/ \E j \in 1..Len(transit) : transit'[i] = transit[j]
    <2> TAKE i \in 1..Len(transit')
    <2>1. i = Len(transit) + 1 \/ i \in 1..Len(transit) BY <1>2
    <2>2. QED BY <1>2, <2>1
<1>6. QED BY <1>2, <1>3, <1>4, <1>5

\* What updateFromServer makes of the store.
LEMMA AppliedIsContents ==
    ASSUME NEW contents \in Contents, NEW change \in Changes
    PROVE  /\ Applied(contents, change) \in Contents
           /\ \A x \in Rows :
                /\ contents[x] # 0 => Applied(contents, change)[x] # 0
                /\ Applied(contents, change)[x] # 0 => contents[x] # 0 \/ change.row = x
                /\ change.row = x /\ change.version = 1 => Applied(contents, change)[x] # 0
<1>1. /\ change.row \in Rows /\ change.version \in 1..MaxVersion
      /\ change.version \in Versions /\ change.version # 0
    BY MaxVersionAssumption DEF Changes, Versions
<1>2. QED BY <1>1 DEF Applied, Contents

\* A write of a row, whoever makes it.
LEMMA WriteInv ==
    ASSUME IInv, NEW r \in Rows, OthersWrite(r) \/ OwnWrite(r)
    PROVE  IInv'
<1> DEFINE change == [row |-> r, version |-> table'[r]]
<1>1. TypeOK BY DEF IInv
<1>2. /\ table[r] < MaxVersion /\ table' = [table EXCEPT ![r] = table[r] + 1]
      /\ transit' = IF channel = "subscribed" THEN Append(transit, change) ELSE transit
      /\ store' = store /\ channel' = channel /\ attempts' = attempts
      /\ reconnecting' = reconnecting /\ boot' = boot /\ queries' = queries
      /\ resyncDue' = resyncDue /\ status' = status /\ covered' = covered
      /\ replies' = replies \/ replies' = replies \cup {change}
    BY DEF OthersWrite, OwnWrite, Write, connection, syncing
<1>3. /\ table'[r] = table[r] + 1 /\ table[r] \in Nat
      /\ \A x \in Rows \ {r} : table'[x] = table[x]
      /\ table'[r] \in 1..MaxVersion
      /\ table' \in Contents
    <2>1. table \in [Rows -> 0..MaxVersion] BY <1>1 DEF TypeOK, Contents, Versions
    <2>2. table[r] + 1 \in 1..MaxVersion /\ table[r] \in Nat
        BY <2>1, <1>2, MaxVersionAssumption
    <2>3. table' \in [Rows -> 0..MaxVersion] BY <2>1, <2>2, <1>2
    <2>4. QED BY <2>1, <2>2, <2>3, <1>2 DEF Contents, Versions
<1>4. change \in Changes BY <1>3, Zenon DEF Changes
<1>5. change.row = r /\ change.version = table'[r] OBVIOUS
<1> HIDE DEF change
<1>6. /\ transit' \in Seq(Changes)
      /\ \A x : OnItsWay(x) => OnItsWay(x)'
      /\ channel = "subscribed" /\ table[r] = 0 => OnItsWay(r)'
      /\ \A i \in 1..Len(transit') :
           transit'[i] = change \/ \E j \in 1..Len(transit) : transit'[i] = transit[j]
    <2>1. CASE channel = "subscribed"
        <3>1. transit' = Append(transit, change) BY <2>1, <1>2
        <3>2. table[r] = 0 => change.version = 1 BY <1>3, <1>5
        <3>3. QED BY <3>1, <3>2, <1>1, <1>4, <1>5, AppendedIsOnItsWay
    <2>2. CASE channel # "subscribed"
        <3>1. transit' = transit BY <2>2, <1>2
        <3>2. QED BY <3>1, <2>2, <1>1 DEF TypeOK, OnItsWay
    <2>3. QED BY <2>1, <2>2
<1>7. TypeOK'
    <2>1. replies' \subseteq Changes BY <1>1, <1>2, <1>4 DEF TypeOK
    <2>2. QED BY <1>1, <1>2, <1>3, <1>6, <2>1, Zenon DEF TypeOK
<1>8. \A x \in Rows : table[x] # 0 => table'[x] # 0
    BY <1>3
<1>9. Progress
    <2>1. ASSUME NEW x \in Rows, channel' = "subscribed", table[x] # 0 => Known(x),
                 table'[x] # 0
          PROVE  Known(x)'
        <3>1. CASE table[x] # 0
            BY <3>1, <2>1, <1>2, <1>6 DEF Known
        <3>2. CASE table[x] = 0
            <4>1. x = r BY <3>2, <2>1, <1>3
            <4>2. QED BY <4>1, <3>2, <2>1, <1>2, <1>6 DEF Known
        <3>3. QED BY <3>1, <3>2
    <2>2. QED BY <2>1, <1>8 DEF Progress
<1>10. RowsExist'
    <2>1. \A x \in Rows : store'[x] # 0 => table'[x] # 0
        BY <1>2, <1>8 DEF IInv, RowsExist
    <2>2. \A i \in 1..Len(transit') : table'[transit'[i].row] # 0
        <3> TAKE i \in 1..Len(transit')
        <3>1. CASE transit'[i] = change BY <3>1, <1>3, <1>5
        <3>2. ASSUME NEW j \in 1..Len(transit), transit'[i] = transit[j]
              PROVE  table'[transit'[i].row] # 0
            <4>1. transit[j] \in Changes BY <1>1 DEF TypeOK
            <4>2. transit[j].row \in Rows /\ table[transit[j].row] # 0
                BY <4>1 DEF Changes, IInv, RowsExist
            <4>3. QED BY <3>2, <4>2, <1>8
        <3>3. QED BY <3>1, <3>2, <1>6
    <2>3. \A y \in replies' : table'[y.row] # 0
        <3> TAKE y \in replies'
        <3>1. CASE y = change BY <3>1, <1>3, <1>5
        <3>2. CASE y \in replies
            <4>1. y \in Changes BY <3>2, <1>1 DEF TypeOK
            <4>2. y.row \in Rows /\ table[y.row] # 0
                BY <3>2, <4>1 DEF Changes, IInv, RowsExist
            <4>3. QED BY <4>2, <1>8
        <3>3. QED BY <3>1, <3>2, <1>2
    <2>4. QED BY <2>1, <2>2, <2>3 DEF RowsExist
<1>11. \A q \in Queries : QueryInv(queries[q])'
    <2> TAKE q \in Queries
    <2>1. queries[q].fresh => channel' = "subscribed"
        BY <1>2 DEF IInv, QueryInv
    <2>2. queries'[q] = queries[q] BY <1>2
    <2>3. QED BY <2>1, <2>2, <1>9, QueryInvKept
<1>12. NotYetSubscribed'
    <2>1. CASE boot \in {"loading", "loaded"}
        <3>1. channel # "subscribed" BY <2>1 DEF IInv, NotYetSubscribed
        <3>2. QED BY <2>1, <3>1, <1>2 DEF IInv, NotYetSubscribed
    <2>2. CASE boot \notin {"loading", "loaded"}
        BY <2>2, <1>2 DEF NotYetSubscribed
    <2>3. QED BY <2>1, <2>2
<1>13. covered' => channel' = "subscribed" BY <1>2 DEF IInv
<1>14. CoveredMissesNothing'
    BY <1>2, <1>9, <1>13, CoverageKept DEF CoveredMissesNothing
<1>15. QED BY <1>7, <1>10, <1>11, <1>12, <1>13, <1>14 DEF IInv

\* A change reaches the store, as an event or as the answer to an own write.
LEMMA ChangeInv ==
    ASSUME IInv, Deliver \/ ReplyArrives
    PROVE  IInv' /\ \A r \in Rows : store[r] # 0 => store'[r] # 0
<1>1. TypeOK BY DEF IInv
<1>2. PICK change \in Changes :
        /\ store' = Applied(store, change)
        /\ table[change.row] # 0
        /\ \/ /\ transit # <<>> /\ change = transit[1] /\ transit' = Tail(transit)
              /\ replies' = replies
           \/ transit' = transit /\ replies' = replies \ {change}
    <2>1. CASE Deliver
        <3>1. /\ transit # <<>> /\ store' = Applied(store, Head(transit))
              /\ transit' = Tail(transit) /\ replies' = replies
            BY <2>1 DEF Deliver
        <3>2. /\ Head(transit) = transit[1] /\ 1 \in 1..Len(transit)
              /\ transit[1] \in Changes
            BY <3>1, <1>1 DEF TypeOK
        <3>3. table[transit[1].row] # 0 BY <3>2 DEF IInv, RowsExist
        <3>4. QED BY <3>1, <3>2, <3>3
    <2>2. CASE ReplyArrives
        <3>1. PICK change \in replies :
                /\ store' = Applied(store, change)
                /\ transit' = transit /\ replies' = replies \ {change}
            BY <2>2 DEF ReplyArrives
        <3>2. change \in Changes /\ table[change.row] # 0
            BY <1>1 DEF TypeOK, IInv, RowsExist
        <3>3. QED BY <3>1, <3>2
    <2>3. QED BY <2>1, <2>2
<1>3. /\ table' = table /\ channel' = channel /\ attempts' = attempts
      /\ reconnecting' = reconnecting /\ boot' = boot /\ queries' = queries
      /\ resyncDue' = resyncDue /\ status' = status /\ covered' = covered
    BY DEF Deliver, ReplyArrives, connection, syncing
<1>4. /\ store' \in Contents
      /\ \A x \in Rows :
           /\ store[x] # 0 => store'[x] # 0
           /\ store'[x] # 0 => store[x] # 0 \/ change.row = x
           /\ change.row = x /\ change.version = 1 => store'[x] # 0
    BY <1>1, <1>2, AppliedIsContents DEF TypeOK
<1>5. transit' \in Seq(Changes) /\ replies' \subseteq Changes
    BY <1>1, <1>2 DEF TypeOK
<1>6. TypeOK' BY <1>1, <1>3, <1>4, <1>5, Zenon DEF TypeOK
<1>7. ASSUME NEW x \in Rows, Known(x) PROVE Known(x)'
    <2>1. CASE store[x] # 0 BY <2>1, <1>4 DEF Known
    <2>2. ASSUME NEW i \in 1..Len(transit), transit[i].row = x, transit[i].version = 1
          PROVE  Known(x)'
        <3>1. CASE transit' = transit BY <3>1, <2>2 DEF Known, OnItsWay
        <3>2. CASE transit # <<>> /\ change = transit[1] /\ transit' = Tail(transit)
            <4>1. CASE i = 1 BY <4>1, <3>2, <2>2, <1>4 DEF Known
            <4>2. CASE i # 1
                <5>1. transit \in Seq(Changes) BY <1>1 DEF TypeOK
                <5>2. i - 1 \in 1..Len(transit') /\ transit'[i - 1] = transit[i]
                    BY <5>1, <4>2, <3>2
                <5>3. QED BY <5>2, <2>2 DEF Known, OnItsWay
            <4>3. QED BY <4>1, <4>2
        <3>3. QED BY <3>1, <3>2, <1>2
    <2>3. QED BY <2>1, <2>2, <1>7 DEF Known, OnItsWay
<1>8. Progress BY <1>3, <1>7 DEF Progress
<1>9. RowsExist'
    <2>1. \A x \in Rows : store'[x] # 0 => table'[x] # 0
        BY <1>2, <1>3, <1>4 DEF IInv, RowsExist
    <2>2. \A i \in 1..Len(transit') : table'[transit'[i].row] # 0
        <3> TAKE i \in 1..Len(transit')
        <3>1. transit \in Seq(Changes) BY <1>1 DEF TypeOK
        <3>2. CASE transit' = transit BY <3>2, <1>3 DEF IInv, RowsExist
        <3>3. CASE transit # <<>> /\ transit' = Tail(transit)
            <4>1. i + 1 \in 1..Len(transit) /\ transit'[i] = transit[i + 1]
                BY <3>1, <3>3
            <4>2. QED BY <4>1, <1>3 DEF IInv, RowsExist
        <3>4. QED BY <3>2, <3>3, <1>2
    <2>3. \A y \in replies' : table'[y.row] # 0
        BY <1>2, <1>3 DEF IInv, RowsExist
    <2>4. QED BY <2>1, <2>2, <2>3 DEF RowsExist
<1>10. \A q \in Queries : QueryInv(queries[q])'
    <2> TAKE q \in Queries
    <2>1. queries[q].fresh => channel' = "subscribed"
        BY <1>3 DEF IInv, QueryInv
    <2>2. queries'[q] = queries[q] BY <1>3
    <2>3. QED BY <2>1, <2>2, <1>8, QueryInvKept
<1>11. NotYetSubscribed'
    <2>1. CASE boot \in {"loading", "loaded"}
        <3>1. transit = <<>> BY <2>1 DEF IInv, NotYetSubscribed
        <3>2. transit' = <<>> BY <3>1, <1>2
        <3>3. QED BY <2>1, <3>2, <1>3 DEF IInv, NotYetSubscribed
    <2>2. CASE boot \notin {"loading", "loaded"}
        BY <2>2, <1>3 DEF NotYetSubscribed
    <2>3. QED BY <2>1, <2>2
<1>12. covered' => channel' = "subscribed" BY <1>3 DEF IInv
<1>13. CoveredMissesNothing'
    BY <1>3, <1>8, <1>12, CoverageKept DEF CoveredMissesNothing
<1>14. QED BY <1>4, <1>6, <1>9, <1>10, <1>11, <1>12, <1>13 DEF IInv

-----------------------------------------------------------------------------
(* Steps that leave the rows where they are.                                *)

\* What is stored and sent does not change.
RowsRest ==
    /\ table' = table /\ store' = store /\ transit' = transit /\ replies' = replies

LEMMA RestIsProgress ==
    ASSUME IInv, RowsRest
    PROVE  Progress /\ RowsExist' /\ \A r \in Rows : store[r] # 0 => store'[r] # 0
BY DEF RowsRest, Progress, Known, OnItsWay, IInv, RowsExist

\* The channel comes up or tries to, and the browser's network events.
LEMMA ConnectionInv ==
    ASSUME IInv,
           \/ FirstSubscribed \/ Reconnected \/ Resubscribe
           \/ RejoinFails \/ Online \/ Offline
    PROVE  IInv' /\ \A r \in Rows : store[r] # 0 => store'[r] # 0
<1>1. TypeOK BY DEF IInv
<1>2. /\ RowsRest /\ queries' = queries /\ covered' = covered /\ boot' = boot
      /\ attempts' \in {attempts, 0} /\ resyncDue' \in BOOLEAN
      /\ reconnecting' \in BOOLEAN
      /\ channel' \in {channel, "subscribed", "subscribing"}
      /\ channel = "subscribed" => channel' = "subscribed"
      /\ status' \in {"syncing", "synced", "error", "offline"}
    BY <1>1, Zenon DEF TypeOK, FirstSubscribed, Reconnected, Resubscribe, RejoinFails, Online,
                Offline, RowsRest, connection, syncing
<1>3. TypeOK'
    <2>1. attempts' \in 0..MaxAttempts
        BY <1>1, <1>2, MaxAttemptsAssumption DEF TypeOK
    <2>2. channel' \in {"none", "subscribing", "subscribed", "waiting", "failed", "closed"}
        BY <1>1, <1>2 DEF TypeOK
    <2>3. QED BY <1>1, <1>2, <2>1, <2>2, Zenon DEF TypeOK, RowsRest
<1>4. Progress /\ RowsExist' /\ \A r \in Rows : store[r] # 0 => store'[r] # 0
    BY <1>2, RestIsProgress
<1>5. \A q \in Queries : QueryInv(queries[q])'
    <2> TAKE q \in Queries
    <2>1. queries[q].fresh => channel' = "subscribed"
        BY <1>2 DEF IInv, QueryInv
    <2>2. queries'[q] = queries[q] BY <1>2
    <2>3. QED BY <2>1, <2>2, <1>4, QueryInvKept
<1>6. NotYetSubscribed'
    <2>1. CASE boot \in {"loading", "loaded"}
        <3>1. channel = "none" /\ ~reconnecting BY <2>1 DEF IInv, NotYetSubscribed
        <3>2. FALSE
            BY <2>1, <3>1 DEF FirstSubscribed, Reconnected, Resubscribe, RejoinFails,
                              Online, Offline
        <3>3. QED BY <3>2
    <2>2. CASE boot \notin {"loading", "loaded"}
        BY <2>2, <1>2 DEF NotYetSubscribed
    <2>3. QED BY <2>1, <2>2
<1>7. covered' => channel' = "subscribed" BY <1>2 DEF IInv
<1>8. CoveredMissesNothing'
    BY <1>2, <1>4, <1>7, CoverageKept DEF CoveredMissesNothing
<1>9. QED BY <1>3, <1>4, <1>5, <1>6, <1>7, <1>8 DEF IInv

LEMMA StaleQuery ==
    ASSUME NEW query \in QueryStates
    PROVE  LET stale == [query EXCEPT !.fresh = FALSE]
           IN  /\ stale \in QueryStates
               /\ stale.step = query.step /\ stale.fresh = FALSE
               /\ stale.atQueryStart = query.atQueryStart
               /\ stale.fetched = query.fetched
BY DEF QueryStates

\* The channel goes down.
LEMMA OutageInv ==
    ASSUME IInv, ChannelFails \/ ChannelCloses
    PROVE  IInv' /\ \A r \in Rows : store[r] # 0 => store'[r] # 0
<1>1. TypeOK BY DEF IInv
<1>2. /\ table' = table /\ store' = store /\ transit' = <<>> /\ replies' = replies
      /\ boot' = boot /\ resyncDue' = resyncDue /\ covered' = FALSE
      /\ queries' = [q \in Queries |-> [queries[q] EXCEPT !.fresh = FALSE]]
      /\ channel \in {"subscribing", "subscribed"}
    BY DEF ChannelFails, ChannelCloses
<1>3. /\ channel' \in {"none", "subscribing", "subscribed", "waiting", "failed", "closed"}
      /\ attempts' \in 0..MaxAttempts
      /\ reconnecting' \in BOOLEAN
      /\ status' \in {"syncing", "synced", "error", "offline"}
    <2>1. CASE ChannelCloses BY <2>1, <1>1, Zenon DEF ChannelCloses, TypeOK
    <2>2. CASE ChannelFails
        <3>1. \/ /\ attempts < MaxAttempts /\ channel' = "waiting"
                 /\ attempts' = attempts + 1 /\ reconnecting' = TRUE /\ status' = "syncing"
              \/ /\ channel' = "failed" /\ status' = "error"
                 /\ attempts' = attempts /\ reconnecting' = reconnecting
            BY <2>2, Zenon DEF ChannelFails, AttemptsLeft, NextAttempt
        <3>2. attempts \in 0..MaxAttempts BY <1>1 DEF TypeOK
        <3>3. attempts' \in 0..MaxAttempts BY <3>1, <3>2, MaxAttemptsAssumption
        <3>4. QED BY <3>1, <3>3, <1>1, Zenon DEF TypeOK
    <2>3. QED BY <2>1, <2>2
<1>4. \A q \in Queries :
        /\ queries'[q] \in QueryStates
        /\ queries'[q].step = queries[q].step /\ queries'[q].fresh = FALSE
        /\ queries'[q].atQueryStart = queries[q].atQueryStart
        /\ queries'[q].fetched = queries[q].fetched
    <2> TAKE q \in Queries
    <2>1. queries[q] \in QueryStates BY <1>1 DEF TypeOK
    <2>2. queries'[q] = [queries[q] EXCEPT !.fresh = FALSE] BY <1>2
    <2>3. QED BY <2>1, <2>2, StaleQuery
<1>5. queries' \in [Queries -> QueryStates] BY <1>2, <1>4
<1>6. <<>> \in Seq(Changes) OBVIOUS
<1>7. TypeOK' BY <1>1, <1>2, <1>3, <1>5, <1>6, Zenon DEF TypeOK
<1>8. \A q \in Queries : QueryInv(queries[q])'
    BY <1>2, <1>4 DEF IInv, QueryInv
<1>9. RowsExist' BY <1>2 DEF IInv, RowsExist
<1>10. NotYetSubscribed' BY <1>2 DEF IInv, NotYetSubscribed
<1>11. QED BY <1>2, <1>7, <1>8, <1>9, <1>10 DEF IInv, CoveredMissesNothing

-----------------------------------------------------------------------------
(* The sync service.                                                        *)

LEMMA SnapshotInv ==
    ASSUME IInv, NEW q \in Queries, SnapshotTaken(q)
    PROVE  IInv' /\ \A r \in Rows : store[r] # 0 => store'[r] # 0
<1> DEFINE up == channel = "subscribed"
           seen == [queries[q] EXCEPT !.step = "seen", !.fetched = table, !.fresh = up]
<1>1. TypeOK BY DEF IInv
<1>2. /\ RowsRest /\ channel' = channel /\ attempts' = attempts
      /\ reconnecting' = reconnecting /\ boot' = boot /\ resyncDue' = resyncDue
      /\ status' = status /\ covered' = covered
    BY DEF SnapshotTaken, RowsRest, connection
<1>3. queries[q] \in QueryStates /\ table \in Contents /\ up \in BOOLEAN
    BY <1>1 DEF TypeOK
<1>4. queries' = [queries EXCEPT ![q] = seen]
    BY <1>1, <1>3, Zenon DEF SnapshotTaken, TypeOK
<1>5. /\ seen \in QueryStates /\ seen.step = "seen" /\ seen.fresh = up
      /\ seen.atQueryStart = queries[q].atQueryStart /\ seen.fetched = table
    <2> HIDE DEF up
    <2>1. QED BY <1>3, Zenon DEF QueryStates
<1> HIDE DEF seen
<1>6. /\ queries'[q] = seen /\ \A p \in Queries \ {q} : queries'[p] = queries[p]
      /\ queries' \in [Queries -> QueryStates]
    BY <1>1, <1>4, <1>5 DEF TypeOK
<1>7. TypeOK' BY <1>1, <1>2, <1>6, Zenon DEF TypeOK, RowsRest
<1>8. Progress /\ RowsExist' /\ \A r \in Rows : store[r] # 0 => store'[r] # 0
    BY <1>2, RestIsProgress
<1>9. QueryInv(queries[q])'
    <2>1. QueryInv(queries[q]) BY DEF IInv
    <2>2. QED BY <2>1, <1>2, <1>5, <1>6 DEF QueryInv, RowsRest
<1>10. \A p \in Queries : QueryInv(queries[p])'
    <2> TAKE p \in Queries
    <2>1. CASE p = q BY <2>1, <1>9
    <2>2. CASE p # q
        <3>1. queries'[p] = queries[p] BY <2>2, <1>6
        <3>2. queries[p].fresh => channel' = "subscribed"
            BY <1>2 DEF IInv, QueryInv
        <3>3. QED BY <3>1, <3>2, <1>8, QueryInvKept
    <2>3. QED BY <2>1, <2>2
<1>11. NotYetSubscribed' BY <1>2 DEF IInv, NotYetSubscribed, RowsRest
<1>12. covered' => channel' = "subscribed" BY <1>2 DEF IInv
<1>13. CoveredMissesNothing'
    BY <1>2, <1>8, <1>12, CoverageKept DEF CoveredMissesNothing
<1>14. QED BY <1>7, <1>8, <1>10, <1>11, <1>12, <1>13 DEF IInv

\* initialize loads the store, before anything else can reach it.
LEMMA LoadInv ==
    ASSUME IInv, Loaded \/ SubscribeAndReconcile
    PROVE  IInv' /\ (boot # "loading" => \A r \in Rows : store[r] # 0 => store'[r] # 0)
<1>1. TypeOK BY DEF IInv
<1>2. "boot" \in Queries BY DEF Queries
<1>3. queries["boot"] \in QueryStates BY <1>1, <1>2 DEF TypeOK
<1>4. /\ channel = "none" /\ ~reconnecting /\ transit = <<>> /\ ~resyncDue /\ ~covered
      /\ \A q \in Queries : queries[q].fresh = FALSE
    <2>1. boot \in {"loading", "loaded"} BY DEF Loaded, SubscribeAndReconcile
    <2>2. channel = "none" /\ ~reconnecting /\ transit = <<>> /\ ~resyncDue /\ ~covered
        BY <2>1 DEF IInv, NotYetSubscribed
    <2>3. \A q \in Queries : ~queries[q].fresh BY <2>2 DEF IInv, QueryInv
    <2>4. \A q \in Queries : queries[q].fresh \in BOOLEAN
        BY <1>1, Zenon DEF TypeOK, QueryStates
    <2>5. QED BY <2>2, <2>3, <2>4
<1>5. /\ table' = table /\ transit' = transit /\ replies' = replies
      /\ attempts' = attempts /\ reconnecting' = reconnecting
      /\ resyncDue' = resyncDue /\ status' = status /\ covered' = covered
    BY DEF Loaded, SubscribeAndReconcile, connection
<1>6. ASSUME NEW query \in QueryStates,
             queries' = [queries EXCEPT !["boot"] = query],
             query.fresh = FALSE, QueryInv(query)',
             store' \in Contents, \A r \in Rows : store'[r] # 0 => table[r] # 0,
             \/ boot' = "loaded" /\ channel' = channel
             \/ boot' = "reconciling" /\ channel' = "subscribing"
      PROVE  IInv'
    <2>1. queries' \in [Queries -> QueryStates] BY <1>1, <1>2, <1>6 DEF TypeOK
    <2>2. TypeOK' BY <1>1, <1>5, <1>6, <2>1, Zenon DEF TypeOK
    <2>3. RowsExist' BY <1>5, <1>6 DEF IInv, RowsExist
    <2>4. \A q \in Queries : QueryInv(queries[q])'
        <3> TAKE q \in Queries
        <3>1. CASE q = "boot"
            <4>1. queries'["boot"] = query BY <1>1, <1>2, <1>6 DEF TypeOK
            <4>2. QED BY <3>1, <4>1, <1>6 DEF QueryInv
        <3>2. CASE q # "boot"
            <4>1. queries'[q] = queries[q] BY <3>2, <1>1, <1>6 DEF TypeOK
            <4>2. QED BY <4>1, <1>4, <1>5 DEF IInv, QueryInv
        <3>3. QED BY <3>1, <3>2
    <2>5. NotYetSubscribed' BY <1>4, <1>5, <1>6 DEF NotYetSubscribed
    <2>6. ~covered' BY <1>4, <1>5
    <2>7. QED BY <2>2, <2>3, <2>4, <2>5, <2>6 DEF IInv, CoveredMissesNothing
<1>7. CASE Loaded
    <2>1. /\ queries["boot"].step = "seen" /\ store' = queries["boot"].fetched
          /\ queries' = [queries EXCEPT !["boot"] = NoQuery]
          /\ boot = "loading" /\ boot' = "loaded" /\ channel' = channel
        BY <1>7 DEF Loaded, connection
    <2>2. store' \in Contents BY <2>1, <1>3, Zenon DEF QueryStates
    <2>3. \A r \in Rows : store'[r] # 0 => table[r] # 0
        BY <2>1, <1>2 DEF IInv, QueryInv
    <2>4. NoQuery.fresh = FALSE BY DEF NoQuery
    <2>5. QueryInv(NoQuery)'
        <3>1. NoQuery.step = "none" /\ NoQuery.atQueryStart = Empty BY DEF NoQuery
        <3>2. \A r \in Rows : Empty[r] = 0 BY DEF Empty
        <3>3. QED BY <2>4, <3>1, <3>2 DEF QueryInv
    <2>6. QED BY <2>1, <2>2, <2>3, <2>4, <2>5, <1>6, NoQueryIsQuery
<1>8. CASE SubscribeAndReconcile
    <2>1. /\ queries' = [queries EXCEPT !["boot"] = Asked(store)]
          /\ store' = store /\ boot' = "reconciling" /\ channel' = "subscribing"
        BY <1>8 DEF SubscribeAndReconcile
    <2>2. store \in Contents BY <1>1 DEF TypeOK
    <2>3. /\ Asked(store) \in QueryStates /\ Asked(store).step = "asked"
          /\ Asked(store).atQueryStart = store /\ Asked(store).fresh = FALSE
        BY <2>2, AskedFields
    <2>4. \A r \in Rows : store[r] # 0 => table[r] # 0 BY DEF IInv, RowsExist
    <2> DEFINE asked == Asked(store)
    <2>5. asked' = asked BY <2>1 DEF Asked
    <2>6. QueryInv(Asked(store))'
        BY <2>1, <2>3, <2>4, <2>5, <1>5 DEF QueryInv
    <2>7. \A r \in Rows : store'[r] # 0 => table[r] # 0 BY <2>1, <2>4
    <2>8. IInv' BY <2>1, <2>2, <2>3, <2>6, <2>7, <1>6
    <2>9. QED BY <2>1, <2>8
<1>9. QED BY <1>7, <1>8

\* A resync is asked for, or fails.
LEMMA ResyncInv ==
    ASSUME IInv, StartResync \/ \E q \in Resyncs : ResyncFails(q)
    PROVE  IInv' /\ \A r \in Rows : store[r] # 0 => store'[r] # 0
<1>1. TypeOK BY DEF IInv
<1>2. /\ RowsRest /\ channel' = channel /\ attempts' = attempts
      /\ reconnecting' = reconnecting /\ boot' = boot /\ covered' = covered
      /\ resyncDue' = resyncDue \/ resyncDue' = FALSE
      /\ ~resyncDue => resyncDue' = resyncDue
      /\ status' \in {"syncing", "error"}
    BY DEF StartResync, ResyncFails, RowsRest, connection
<1>3. store \in Contents BY <1>1 DEF TypeOK
<1>4. PICK q \in Queries, query \in {NoQuery, Asked(store)} :
        queries' = [queries EXCEPT ![q] = query]
    BY DEF StartResync, ResyncFails, Queries
<1>5. query \in QueryStates /\ query.fresh = FALSE
    <2>1. NoQuery.fresh = FALSE BY DEF NoQuery
    <2>2. QED BY <2>1, <1>3, <1>4, NoQueryIsQuery, AskedFields
<1>6. /\ queries'[q] = query /\ \A p \in Queries \ {q} : queries'[p] = queries[p]
      /\ queries' \in [Queries -> QueryStates]
    BY <1>1, <1>4, <1>5 DEF TypeOK
<1>7. TypeOK'
    <2>1. resyncDue' \in BOOLEAN BY <1>1, <1>2 DEF TypeOK
    <2>2. status' \in {"syncing", "synced", "error", "offline"} BY <1>2
    <2>3. QED BY <1>1, <1>2, <1>6, <2>1, <2>2, Zenon DEF TypeOK, RowsRest
<1>8. Progress /\ RowsExist' /\ \A r \in Rows : store[r] # 0 => store'[r] # 0
    BY <1>2, RestIsProgress
<1>9. QueryInv(queries[q])'
    <2>1. CASE query = NoQuery
        <3>1. /\ queries'[q].step = "none" /\ queries'[q].atQueryStart = Empty
              /\ queries'[q].fresh = FALSE
            BY <2>1, <1>6 DEF NoQuery
        <3>2. \A r \in Rows : Empty[r] = 0 BY DEF Empty
        <3>3. QED BY <3>1, <3>2 DEF QueryInv
    <2>2. CASE query = Asked(store)
        <3>1. /\ queries'[q].step = "asked" /\ queries'[q].atQueryStart = store
              /\ queries'[q].fresh = FALSE
            BY <2>2, <1>3, <1>6, AskedFields
        <3>2. QED BY <3>1, <1>2 DEF QueryInv, RowsRest, IInv, RowsExist
    <2>3. QED BY <1>4, <2>1, <2>2
<1>10. \A p \in Queries : QueryInv(queries[p])'
    <2> TAKE p \in Queries
    <2>1. CASE p = q BY <2>1, <1>9
    <2>2. CASE p # q
        <3>1. queries'[p] = queries[p] BY <2>2, <1>6
        <3>2. queries[p].fresh => channel' = "subscribed"
            BY <1>2 DEF IInv, QueryInv
        <3>3. QED BY <3>1, <3>2, <1>8, QueryInvKept
    <2>3. QED BY <2>1, <2>2
<1>11. NotYetSubscribed' BY <1>2 DEF IInv, NotYetSubscribed, RowsRest
<1>12. covered' => channel' = "subscribed" BY <1>2 DEF IInv
<1>13. CoveredMissesNothing'
    BY <1>2, <1>8, <1>12, CoverageKept DEF CoveredMissesNothing
<1>14. QED BY <1>7, <1>8, <1>10, <1>11, <1>12, <1>13 DEF IInv

\* What reconcile... makes of the store: what it had stays, what the snapshot brings is
\* added.
LEMMA MergedIsContents ==
    ASSUME TypeOK, NEW query \in QueryStates, query.step = "seen",
           QueryInv(query)
    PROVE  /\ Merged(query) \in Contents
           /\ \A r \in Rows :
                /\ store[r] # 0 => Merged(query)[r] # 0
                /\ query.fetched[r] # 0 => Merged(query)[r] # 0
                /\ Merged(query)[r] # 0 => store[r] # 0 \/ query.fetched[r] # 0
<1>1. store \in Contents /\ query.fetched \in Contents
    BY Zenon DEF TypeOK, QueryStates
<1>2. \A r \in Rows : query.atQueryStart[r] # 0 => query.fetched[r] # 0
    BY DEF QueryInv
<1>3. QED BY <1>1, <1>2 DEF Merged, Contents

\* A snapshot is merged.
LEMMA ReconciledInv ==
    ASSUME IInv, BootReconciled \/ \E q \in Resyncs : ResyncDone(q)
    PROVE  IInv' /\ \A r \in Rows : store[r] # 0 => store'[r] # 0
<1>1. TypeOK BY DEF IInv
<1>2. PICK q \in Queries : Reconciled(q)
    BY DEF BootReconciled, ResyncDone, Queries
<1>3. /\ queries[q].step = "seen" /\ store' = Merged(queries[q])
      /\ queries' = [queries EXCEPT ![q] = NoQuery]
      /\ covered' = (covered \/ queries[q].fresh)
      /\ table' = table /\ transit' = transit /\ replies' = replies
      /\ channel' = channel /\ attempts' = attempts
      /\ reconnecting' = reconnecting /\ resyncDue' = resyncDue
    BY <1>2 DEF Reconciled, connection
<1>4. /\ boot' = boot \/ boot' = "ready"
      /\ status' \in {"syncing", "synced"}
    BY DEF BootReconciled, ResyncDone
<1>5. queries[q] \in QueryStates /\ QueryInv(queries[q])
    BY <1>1 DEF TypeOK, IInv
<1>6. /\ store' \in Contents
      /\ \A r \in Rows :
           /\ store[r] # 0 => store'[r] # 0
           /\ queries[q].fetched[r] # 0 => store'[r] # 0
           /\ store'[r] # 0 => store[r] # 0 \/ queries[q].fetched[r] # 0
    BY <1>1, <1>3, <1>5, MergedIsContents
<1>7. /\ queries'[q] = NoQuery /\ \A p \in Queries \ {q} : queries'[p] = queries[p]
      /\ queries' \in [Queries -> QueryStates]
    BY <1>1, <1>3, NoQueryIsQuery DEF TypeOK
<1>8. TypeOK'
    <2>1. covered' \in BOOLEAN BY <1>3
    <2>2. boot' \in {"loading", "loaded", "reconciling", "ready"}
        BY <1>1, <1>4 DEF TypeOK
    <2>3. status' \in {"syncing", "synced", "error", "offline"} BY <1>4
    <2>4. QED BY <1>1, <1>3, <1>6, <1>7, <2>1, <2>2, <2>3, Zenon DEF TypeOK
<1>9. \A r \in Rows : Known(r) => Known(r)'
    BY <1>3, <1>6 DEF Known, OnItsWay
<1>10. Progress BY <1>3, <1>9 DEF Progress
<1>11. RowsExist' BY <1>3, <1>5, <1>6 DEF IInv, RowsExist, QueryInv
<1>12. \A p \in Queries : QueryInv(queries[p])'
    <2> TAKE p \in Queries
    <2>1. CASE p = q
        <3>1. /\ queries'[q].step = "none" /\ queries'[q].atQueryStart = Empty
              /\ queries'[q].fresh = FALSE
            BY <1>7 DEF NoQuery
        <3>2. \A r \in Rows : Empty[r] = 0 BY DEF Empty
        <3>3. QED BY <2>1, <3>1, <3>2 DEF QueryInv
    <2>2. CASE p # q
        <3>1. queries'[p] = queries[p] BY <2>2, <1>7
        <3>2. queries[p].fresh => channel' = "subscribed"
            BY <1>3 DEF IInv, QueryInv
        <3>3. QED BY <3>1, <3>2, <1>10, QueryInvKept
    <2>3. QED BY <2>1, <2>2
<1>13. NotYetSubscribed' BY <1>3, <1>4 DEF IInv, NotYetSubscribed
<1>14. covered' => channel' = "subscribed" BY <1>3, <1>5 DEF IInv, QueryInv
<1>15. CoveredMissesNothing'
    <2>1. CASE covered
        BY <2>1, <1>10, <1>14, <1>3, CoverageKept DEF CoveredMissesNothing
    <2>2. CASE queries[q].fresh
        <3>1. ASSUME NEW r \in Rows, table[r] # 0 PROVE Known(r)'
            <4>1. CASE queries[q].fetched[r] # 0 BY <4>1, <1>6 DEF Known
            <4>2. CASE queries[q].fetched[r] = 0
                BY <4>2, <3>1, <2>2, <1>5, <1>9 DEF QueryInv
            <4>3. QED BY <4>1, <4>2
        <3>2. QED BY <3>1, <1>3 DEF CoveredMissesNothing, Missing, Known
    <2>3. QED BY <2>1, <2>2, <1>3 DEF CoveredMissesNothing
<1>16. QED BY <1>6, <1>8, <1>11, <1>12, <1>13, <1>14, <1>15 DEF IInv

-----------------------------------------------------------------------------
(* The theorems.                                                            *)

LEMMA NextInv ==
    ASSUME IInv, [Next]_vars
    PROVE  IInv' /\ (boot # "loading" => \A r \in Rows : store[r] # 0 => store'[r] # 0)
<1>1. CASE UNCHANGED vars
    <2>1. /\ RowsRest /\ channel' = channel /\ attempts' = attempts
          /\ reconnecting' = reconnecting /\ boot' = boot /\ queries' = queries
          /\ resyncDue' = resyncDue /\ status' = status /\ covered' = covered
        BY <1>1 DEF vars, RowsRest
    <2>2. QED
        BY <2>1 DEF RowsRest, IInv, TypeOK, RowsExist, QueryInv, NotYetSubscribed,
                    CoveredMissesNothing, Missing, Known, OnItsWay
<1>2. CASE Environment
    <2>1. ASSUME NEW r \in Rows, OthersWrite(r) \/ OwnWrite(r)
          PROVE  IInv' /\ store' = store
        BY <2>1, WriteInv DEF OthersWrite, OwnWrite
    <2>2. QED BY <1>2, <2>1, OutageInv, ConnectionInv, ResyncInv DEF Environment
<1>3. CASE Deliver \/ ReplyArrives BY <1>3, ChangeInv
<1>4. CASE ChannelStep BY <1>4, ConnectionInv DEF ChannelStep
<1>5. CASE SyncStep
    BY <1>5, SnapshotInv, LoadInv, ResyncInv, ReconciledInv DEF SyncStep
<1>6. QED BY <1>1, <1>2, <1>3, <1>4, <1>5 DEF Next

\* Whatever is lost, overtaken or asked for twice, what the store and the queries hold
\* are rows of the table, and what a fresh snapshot lacks is known or on its way.
THEOREM InductiveInvariant == Spec => []IInv
<1>1. IInv /\ [Next]_vars => IInv' BY NextInv
<1>2. QED BY InitInv, <1>1, PTL DEF Spec

\* The store, the channel, the queries and the status keep their types; in particular
\* the attempts stay within their limit.
THEOREM TypesHold == Spec => []TypeOK
<1>1. IInv => TypeOK BY DEF IInv
<1>2. QED BY <1>1, InductiveInvariant, PTL

\* Once a snapshot of the connected time is merged, a committed row is in the store or its
\* INSERT on its way, for any number of rows and overlapping resyncs.
THEOREM NothingIsMissed == Spec => []CoveredMissesNothing
<1>1. IInv => CoveredMissesNothing BY DEF IInv
<1>2. QED BY <1>1, InductiveInvariant, PTL

\* After the first load no merge, event or answer takes a row off the screen.
THEOREM RowsAreKept == Spec => RowsStay
<1>1. IInv /\ [Next]_vars =>
        [boot # "loading" => \A r \in Rows : store[r] # 0 => store'[r] # 0]_vars
    BY NextInv
<1>2. QED BY <1>1, InductiveInvariant, PTL DEF Spec, RowsStay
=============================================================================
