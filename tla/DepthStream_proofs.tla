------------------------- MODULE DepthStream_proofs -------------------------
(***************************************************************************)
(* For every history of the venue, any number of levels and of requests in *)
(* flight: a cache that claims to be in step holds the venue's book, and a *)
(* pair that should have a stream has exactly one on its way or at work.   *)
(***************************************************************************)
EXTENDS DepthStream, TLAPS

-----------------------------------------------------------------------------
\* Between the update before an event and its last one, a level the event leaves out
\* has the quantity it has at the end.
LEMMA UntouchedStays ==
    ASSUME NEW e \in Events, NEW n \in (e.U - 1)..e.u,
           NEW l \in Levels, l \notin Touched(e)
    PROVE  VenueBook[n][l] = VenueBook[e.u][l]
BY DEF Touched

\* An event without a gap carries the venue's book to the event's last update.
LEMMA AppliedIsVenueBook ==
    ASSUME NEW c \in [book : Books, lastUpdateId : Ids, buffered : Seq(Events),
                      desync : {"none", "fresh", "overdue"}],
           NEW e \in Events, ~Gap(c, e), c.book = VenueBook[c.lastUpdateId]
    PROVE  Applied(c, e).book = VenueBook[e.u]
<1>1. c.lastUpdateId \in (e.U - 1)..e.u
  BY DEF Gap, Events, Ids
<1>2. VenueBook[e.u] \in Books
  BY VenueAssumption, BoundsAssumption DEF Events, Ids
<1>3. \A l \in Levels : l \notin Touched(e) => c.book[l] = VenueBook[e.u][l]
  BY <1>1, UntouchedStays
<1>. QED
  BY <1>2, <1>3 DEF Applied, Books

-----------------------------------------------------------------------------
\* An answer in hand names an update of the venue.
AnswersNamed == \A r \in Requests : fetches[r].at = "answered" => fetches[r].id \in Ids

TypedFeed == TypeOK /\ AnswersNamed

\* The three outcomes of an event keep the cache and the requests what they are.
LEMMA HandlingTyped ==
    ASSUME TypedFeed, NEW e \in Events, HandleDepthUpdate(e)
    PROVE  /\ cache' \in [book : Books, lastUpdateId : Ids \cup {0},
                          buffered : Seq(Events), desync : {"none", "fresh", "overdue"}]
           /\ Len(cache'.buffered) <= MaxBuffered
           /\ fetches' \in [Requests -> [at : {"idle", "asked", "answered"},
                                         id : Ids \cup {0}]]
           /\ \A r \in Requests : fetches'[r].at = "answered" => fetches'[r].id \in Ids
<1>. USE DEF TypedFeed, TypeOK, AnswersNamed
<1>1. CASE cache.lastUpdateId = 0 /\ cache' = Buffer(cache, e) /\ UNCHANGED fetches
  <2>. DEFINE all == Append(cache.buffered, e)
  <2>1. all \in Seq(Events) /\ Len(all) = Len(cache.buffered) + 1 /\ all /= <<>>
    <3>1. cache.buffered \in Seq(Events)
      OBVIOUS
    <3>. QED
      BY <3>1
  <2>2. Tail(all) \in Seq(Events) /\ Len(Tail(all)) = Len(cache.buffered)
    BY <2>1
  <2>. HIDE DEF all
  <2>3. cache'.book = cache.book /\ cache'.lastUpdateId = cache.lastUpdateId
        /\ cache'.buffered = (IF Len(all) > MaxBuffered THEN Tail(all) ELSE all)
        /\ cache'.desync = (IF cache.desync = "none" THEN "fresh" ELSE cache.desync)
        /\ cache' = [book |-> cache'.book, lastUpdateId |-> cache'.lastUpdateId,
                     buffered |-> cache'.buffered, desync |-> cache'.desync]
    BY <1>1 DEF Buffer, all
  <2>4. Len(cache'.buffered) <= MaxBuffered
    BY <2>1, <2>2, <2>3, BoundsAssumption
  <2>. QED
    BY <1>1, <2>1, <2>2, <2>3, <2>4
<1>2. CASE /\ cache' = [cache EXCEPT !.lastUpdateId = 0, !.desync = "fresh"]
           /\ \E r \in GapRequests : fetches' = [fetches EXCEPT ![r] = Asked]
  <2>1. PICK r \in GapRequests : fetches' = [fetches EXCEPT ![r] = Asked]
    BY <1>2
  <2>2. /\ fetches' \in [Requests -> [at : {"idle", "asked", "answered"},
                                       id : Ids \cup {0}]]
        /\ \A q \in Requests : fetches'[q].at = "answered" => fetches'[q].id \in Ids
    BY <2>1 DEF Asked, Requests
  <2>3. /\ cache' \in [book : Books, lastUpdateId : Ids \cup {0},
                        buffered : Seq(Events), desync : {"none", "fresh", "overdue"}]
        /\ cache'.buffered = cache.buffered
    BY <1>2
  <2>. QED
    BY <2>2, <2>3
<1>3. CASE cache' = Applied(cache, e) /\ UNCHANGED fetches
  <2>1. VenueBook[e.u] \in Books /\ e.u \in Ids
    BY VenueAssumption, BoundsAssumption DEF Events, Ids
  <2>2. [l \in Levels |-> IF l \in Touched(e) THEN VenueBook[e.u][l]
                          ELSE cache.book[l]] \in Books
    BY <2>1 DEF Books
  <2>. QED
    BY <1>3, <2>1, <2>2 DEF Applied
<1>. QED
  BY <1>1, <1>2, <1>3 DEF HandleDepthUpdate

\* Whatever comes of starting a stream, its state keeps its types.
LEMMA ContinueTyped ==
    ASSUME TypeOK, NEW r \in Requests, Continue(r)
    PROVE  /\ conn' \in {"none", "opening", "open", "dead"} /\ heard' \in BOOLEAN
           /\ desired' \in BOOLEAN /\ timer' \in BOOLEAN /\ faults' \in Nat
<1>1. /\ conn \in {"none", "opening", "open", "dead"} /\ heard \in BOOLEAN
      /\ desired \in BOOLEAN /\ timer \in BOOLEAN /\ faults \in Nat
  BY DEF TypeOK
<1>2. CASE UNCHANGED <<conn, heard, desired, timer, faults>>
  BY <1>1, <1>2
<1>3. CASE desired' = TRUE /\ UNCHANGED <<conn, heard, timer, faults>>
  BY <1>1, <1>3
<1>4. CASE /\ desired' = TRUE /\ conn' = "opening" /\ heard' = TRUE
           /\ UNCHANGED <<timer, faults>>
  BY <1>1, <1>4
<1>5. CASE /\ desired' = TRUE /\ faults' = faults + 1 /\ timer' = TRUE
           /\ UNCHANGED <<conn, heard>>
  BY <1>1, <1>5
<1>. QED
  BY <1>2, <1>3, <1>4, <1>5, Zenon DEF Continue, StartDepthStream, Fault

\* An empty cache has its type.
LEMMA EmptyTyped ==
    /\ EmptyCache \in [book : Books, lastUpdateId : Ids \cup {0}, buffered : Seq(Events),
                       desync : {"none", "fresh", "overdue"}]
    /\ EmptyCache.lastUpdateId = 0 /\ Len(EmptyCache.buffered) <= MaxBuffered
<1>1. EmptyBook \in Books /\ Len(<<>>) = 0 /\ <<>> \in Seq(Events)
  BY DEF EmptyBook, Books
<1>. QED
  BY <1>1, BoundsAssumption DEF EmptyCache

\* Every step keeps the types, and every answer still names an update.
LEMMA TypedStep == TypedFeed /\ [Next]_vars => TypedFeed'
<1>. SUFFICES ASSUME TypedFeed, [Next]_vars PROVE TypedFeed'
  OBVIOUS
<1>. USE DEF TypedFeed, TypeOK, AnswersNamed, venueVars, socketVars, Fault
<1>1. CASE Deliver
  <2>1. Head(wire) \in Events /\ Tail(wire) \in Seq(Events)
    BY <1>1 DEF Deliver
  <2>2. HandleDepthUpdate(Head(wire))
    BY <1>1 DEF Deliver
  <2>. QED
    BY <1>1, <2>1, <2>2, HandlingTyped DEF Deliver
<1>2. CASE DeliverLate
  <2>1. Head(late) \in Events /\ Tail(late) \in Seq(Events)
    BY <1>2 DEF DeliverLate
  <2>2. HandleDepthUpdate(Head(late))
    BY <1>2 DEF DeliverLate
  <2>. QED
    BY <1>2, <2>1, <2>2, HandlingTyped DEF DeliverLate
<1>3. CASE Close
  BY <1>3 DEF Close
<1>4. CASE ReconnectFires
  <2>1. /\ fetches' \in [Requests -> [at : {"idle", "asked", "answered"},
                                       id : Ids \cup {0}]]
        /\ \A r \in Requests : fetches'[r].at = "answered" => fetches'[r].id \in Ids
    BY <1>4 DEF ReconnectFires, Asked, Requests
  <2>. QED
    BY <1>4, <2>1, EmptyTyped DEF ReconnectFires
<1>5. CASE WatchdogRestart
  BY <1>5 DEF WatchdogRestart
<1>6. CASE WatchdogResnapshot
  BY <1>6 DEF WatchdogResnapshot, Asked, Requests
<1>7. CASE DesyncAges
  BY <1>7 DEF DesyncAges
<1>8. CASE Silence
  BY <1>8 DEF Silence
<1>9. CASE VenueUpdates
  BY <1>9, BoundsAssumption DEF VenueUpdates, Ids
<1>10. CASE Open
  BY <1>10 DEF Open
<1>11. CASE Send
  <2>1. [U |-> sent + 1, u |-> now] \in Events
    BY <1>11, BoundsAssumption DEF Send, Events, Ids
  <2>. QED
    BY <1>11, <2>1 DEF Send
<1>12. CASE Stall
  BY <1>12 DEF Stall
<1>13. ASSUME NEW r \in Requests, Answer(r) PROVE TypedFeed'
  BY <1>13 DEF Answer
<1>14. ASSUME NEW r \in Requests, SnapshotLands(r) PROVE TypedFeed'
  <2>. DEFINE fresh == Restarted(cache, fetches[r].id)
  <2>1. fetches[r].id \in Ids
    BY <1>14 DEF SnapshotLands
  <2>2. VenueBook[fetches[r].id] \in Books
    BY <2>1, VenueAssumption, BoundsAssumption DEF Ids
  <2>3. /\ fresh \in [book : Books, lastUpdateId : Ids \cup {0},
                      buffered : Seq(Events), desync : {"none", "fresh", "overdue"}]
        /\ fresh.buffered = <<>>
    BY <2>1, <2>2 DEF Restarted
  <2>4. cache' = fresh
    BY <1>14, <2>3 DEF SnapshotLands, ProcessBuffered
  <2>5. /\ conn' \in {"none", "opening", "open", "dead"} /\ heard' \in BOOLEAN
        /\ desired' \in BOOLEAN /\ timer' \in BOOLEAN /\ faults' \in Nat
    <3>1. Continue(r)
      BY <1>14 DEF SnapshotLands
    <3>. QED
      BY <3>1, ContinueTyped
  <2>6. /\ fetches' = [fetches EXCEPT ![r] = NoFetch]
        /\ UNCHANGED <<now, sent, wire, late, failures>>
    BY <1>14 DEF SnapshotLands
  <2>7. Len(<<>>) = 0
    OBVIOUS
  <2>. HIDE DEF fresh
  <2>. QED
    BY <2>3, <2>4, <2>5, <2>6, <2>7, BoundsAssumption DEF NoFetch
<1>15. ASSUME NEW r \in Requests, SnapshotFails(r) PROVE TypedFeed'
  <2>1. /\ conn' \in {"none", "opening", "open", "dead"} /\ heard' \in BOOLEAN
        /\ desired' \in BOOLEAN /\ timer' \in BOOLEAN /\ faults' \in Nat
    <3>1. Continue(r)
      BY <1>15 DEF SnapshotFails
    <3>. QED
      BY <3>1, ContinueTyped
  <2>2. /\ fetches' = [fetches EXCEPT ![r] = NoFetch] /\ failures' \in Nat
        /\ UNCHANGED <<now, sent, wire, late, cache>>
    BY <1>15 DEF SnapshotFails
  <2>. QED
    BY <2>1, <2>2 DEF NoFetch
<1>16. CASE UNCHANGED vars
  BY <1>16 DEF vars
<1>. QED
  BY <1>1, <1>2, <1>3, <1>4, <1>5, <1>6, <1>7, <1>8, <1>9, <1>10, <1>11, <1>12, <1>13,
     <1>14, <1>15, <1>16 DEF Next, Request

LEMMA TypedInit == Init => TypedFeed
<1>. SUFFICES ASSUME Init PROVE TypedFeed
  OBVIOUS
<1>1. cache \in [book : Books, lastUpdateId : Ids \cup {0}, buffered : Seq(Events),
                 desync : {"none", "fresh", "overdue"}]
      /\ Len(cache.buffered) <= MaxBuffered
  BY EmptyTyped DEF Init
<1>2. /\ fetches \in [Requests -> [at : {"idle", "asked", "answered"}, id : Ids \cup {0}]]
      /\ \A r \in Requests : fetches[r].at /= "answered"
  BY DEF Init, NoFetch, Asked
<1>3. 1 \in Ids /\ <<>> \in Seq(Events)
  BY BoundsAssumption DEF Ids
<1>. QED
  BY <1>1, <1>2, <1>3 DEF Init, TypedFeed, TypeOK, AnswersNamed

\* The types of the feed, the bound of the resync buffer among them, which the
\* splice in handleDepthUpdate keeps.
THEOREM FeedTyped == Spec => []TypeOK
<1>1. Spec => []TypedFeed
  BY TypedInit, TypedStep, PTL DEF Spec
<1>2. TypedFeed => TypeOK
  BY DEF TypedFeed
<1>. QED
  BY <1>1, <1>2, PTL

-----------------------------------------------------------------------------
\* A step that touches the cache at all empties it, leaves it out of step, takes a
\* snapshot or applies an event that has no gap.
LEMMA CacheStep ==
    ASSUME TypedFeed, CacheIsVenueBook, [Next]_vars
    PROVE  CacheIsVenueBook'
<1>. USE DEF CacheIsVenueBook
<1>1. ASSUME NEW e \in Events, HandleDepthUpdate(e) PROVE CacheIsVenueBook'
  <2>1. CASE cache.lastUpdateId = 0 /\ cache' = Buffer(cache, e)
    <3>1. cache'.lastUpdateId = 0
      BY <2>1 DEF Buffer, TypedFeed, TypeOK
    <3>. QED
      BY <3>1
  <2>2. CASE cache' = [cache EXCEPT !.lastUpdateId = 0, !.desync = "fresh"]
    <3>1. cache'.lastUpdateId = 0
      BY <2>2 DEF TypedFeed, TypeOK
    <3>. QED
      BY <3>1
  <2>3. CASE cache.lastUpdateId /= 0 /\ ~Gap(cache, e) /\ cache' = Applied(cache, e)
    <3>1. cache'.book = VenueBook[e.u]
      BY <2>3, AppliedIsVenueBook DEF TypedFeed, TypeOK
    <3>2. cache'.lastUpdateId = e.u
      BY <2>3 DEF Applied, TypedFeed, TypeOK
    <3>. QED
      BY <3>1, <3>2
  <2>. QED
    BY <1>1, <2>1, <2>2, <2>3 DEF HandleDepthUpdate
<1>2. CASE Deliver
  <2>1. Head(wire) \in Events /\ HandleDepthUpdate(Head(wire))
    BY <1>2 DEF Deliver, TypedFeed, TypeOK
  <2>. QED
    BY <1>1, <2>1
<1>3. CASE DeliverLate
  <2>1. Head(late) \in Events /\ HandleDepthUpdate(Head(late))
    BY <1>3 DEF DeliverLate, TypedFeed, TypeOK
  <2>. QED
    BY <1>1, <2>1
<1>4. CASE ReconnectFires
  BY <1>4, EmptyTyped DEF ReconnectFires
<1>5. ASSUME NEW r \in Requests, SnapshotLands(r) PROVE CacheIsVenueBook'
  <2>1. cache' = Restarted(cache, fetches[r].id)
    BY <1>5 DEF SnapshotLands, ProcessBuffered, Restarted
  <2>. QED
    BY <2>1 DEF Restarted
<1>6. CASE WatchdogResnapshot \/ DesyncAges
  <2>1. cache'.book = cache.book /\ cache'.lastUpdateId = cache.lastUpdateId
    BY <1>6 DEF WatchdogResnapshot, DesyncAges, TypedFeed, TypeOK
  <2>. QED
    BY <2>1
<1>7. CASE UNCHANGED cache
  BY <1>7
<1>. QED
  BY <1>2, <1>3, <1>4, <1>5, <1>6, <1>7
  DEF Next, vars, Request, Close, WatchdogRestart, Silence, VenueUpdates, Open, Send, Stall,
      Answer, SnapshotFails

\* For every venue, a cache that claims to stand at an update holds its book: no loss,
\* late event or overlapping snapshot lets a wrong book through to the ladder.
THEOREM CacheMatchesVenue == Spec => []CacheIsVenueBook
<1>1. Init => CacheIsVenueBook
  BY EmptyTyped DEF Init, CacheIsVenueBook
<1>2. TypedFeed /\ CacheIsVenueBook /\ [Next]_vars => CacheIsVenueBook'
  BY CacheStep
<1>. QED
  BY <1>1, <1>2, TypedInit, TypedStep, PTL DEF Spec

-----------------------------------------------------------------------------
\* The inductive invariant of the reconnects: only a pair that was started has a
\* socket or a timer.
Wanted == conn /= "none" \/ timer => desired

OneReconnect == NothingStranded /\ ReconnectIsAlone /\ Wanted

LEMMA ReconnectStep ==
    ASSUME TypeOK, OneReconnect, [Next]_vars
    PROVE  OneReconnect'
<1>. USE DEF OneReconnect, NothingStranded, ReconnectIsAlone, Wanted, Reconnecting
<1>1. fetches["connect"] \in [at : {"idle", "asked", "answered"}, id : Ids \cup {0}]
      /\ DOMAIN fetches = Requests /\ "connect" \in Requests
  BY DEF TypeOK, Requests
<1>2. ASSUME NEW e \in Events, HandleDepthUpdate(e) PROVE fetches'["connect"] = fetches["connect"]
  BY <1>1, <1>2, BoundsAssumption DEF HandleDepthUpdate
<1>3. CASE Deliver
  <2>1. Head(wire) \in Events /\ HandleDepthUpdate(Head(wire))
    BY <1>3 DEF Deliver, TypeOK
  <2>2. fetches'["connect"] = fetches["connect"]
    BY <1>2, <2>1
  <2>. QED
    BY <1>3, <2>2 DEF Deliver
<1>4. CASE DeliverLate
  <2>1. Head(late) \in Events /\ HandleDepthUpdate(Head(late))
    BY <1>4 DEF DeliverLate, TypeOK
  <2>2. fetches'["connect"] = fetches["connect"]
    BY <1>2, <2>1
  <2>. QED
    BY <1>4, <2>2 DEF DeliverLate
<1>5. CASE Close
  BY <1>5 DEF Close
<1>6. CASE ReconnectFires
  <2>1. fetches'["connect"] /= NoFetch
    BY <1>1, <1>6 DEF ReconnectFires, Asked, NoFetch
  <2>. QED
    BY <1>6, <2>1 DEF ReconnectFires, socketVars
<1>7. ASSUME NEW r \in Requests, fetches[r].at /= "idle",
             fetches' = [fetches EXCEPT ![r] = NoFetch], Continue(r)
      PROVE  OneReconnect'
  <2>1. CASE r = "connect"
    <3>1. fetches["connect"] /= NoFetch /\ fetches'["connect"] = NoFetch
      BY <1>1, <1>7, <2>1 DEF NoFetch
    <3>2. conn = "none" /\ ~timer
      BY <3>1
    <3>. QED
      BY <1>7, <2>1, <3>1, <3>2 DEF Continue, StartDepthStream
  <2>2. CASE r /= "connect"
    <3>1. fetches'["connect"] = fetches["connect"]
      BY <1>1, <1>7, <2>2
    <3>. QED
      BY <1>7, <2>2, <3>1 DEF Continue
  <2>. QED
    BY <2>1, <2>2
<1>8. ASSUME NEW r \in Requests, SnapshotLands(r) \/ SnapshotFails(r) PROVE OneReconnect'
  BY <1>7, <1>8 DEF SnapshotLands, SnapshotFails
<1>9. ASSUME NEW r \in Requests, Answer(r) PROVE OneReconnect'
  <2>1. fetches["connect"] /= NoFetch <=> fetches'["connect"] /= NoFetch
    BY <1>1, <1>9 DEF Answer, NoFetch
  <2>. QED
    BY <1>9, <2>1 DEF Answer, socketVars
<1>10. CASE WatchdogRestart
  BY <1>10 DEF WatchdogRestart
<1>11. CASE WatchdogResnapshot
  <2>1. fetches'["connect"] = fetches["connect"]
    BY <1>1, <1>11 DEF WatchdogResnapshot
  <2>. QED
    BY <1>11, <2>1 DEF WatchdogResnapshot, socketVars
<1>12. CASE DesyncAges \/ Silence \/ VenueUpdates \/ Send
  BY <1>12 DEF DesyncAges, Silence, VenueUpdates, Send, socketVars
<1>13. CASE Open \/ Stall
  BY <1>13 DEF Open, Stall
<1>14. CASE UNCHANGED vars
  BY <1>14 DEF vars
<1>. QED
  BY <1>3, <1>4, <1>5, <1>6, <1>8, <1>9, <1>10, <1>11, <1>12, <1>13, <1>14
  DEF Next, Request

LEMMA ReconnectInit == Init => OneReconnect
BY DEF Init, OneReconnect, NothingStranded, ReconnectIsAlone, Wanted, Reconnecting

\* A pair that should have a stream is never left without a socket or a reconnect on
\* its way: the watchdog's branch for it has nothing to do.
THEOREM NoPairStranded == Spec => []NothingStranded
<1>1. OneReconnect => NothingStranded
  BY DEF OneReconnect
<1>2. TypeOK /\ OneReconnect /\ [Next]_vars => OneReconnect'
  BY ReconnectStep
<1>. QED
  BY <1>1, <1>2, ReconnectInit, FeedTyped, PTL DEF Spec

\* No reconnect, which empties the cache, is ever on its way beside a live socket or a
\* second reconnect.
THEOREM ReconnectsStayAlone == Spec => []ReconnectIsAlone
<1>1. OneReconnect => ReconnectIsAlone
  BY DEF OneReconnect
<1>2. TypeOK /\ OneReconnect /\ [Next]_vars => OneReconnect'
  BY ReconnectStep
<1>. QED
  BY <1>1, <1>2, ReconnectInit, FeedTyped, PTL DEF Spec
=============================================================================
