---------------------------- MODULE DepthStream ----------------------------
(***************************************************************************)
(* The depth feed of one pair: a cache of the venue's order book, which    *)
(* REST snapshots start and the events of a websocket carry on.  The       *)
(* socket may close, or fall silent without closing; a superseded socket   *)
(* may still deliver; requests for a snapshot overlap, are answered late   *)
(* or fail.  A step is one callback of the module or one of the venue.     *)
(* Pairs share nothing but the watchdog's timer.                           *)
(***************************************************************************)
EXTENDS Integers, SequencesExt

CONSTANTS
    Levels,         \* price levels, of both sides
    MaxUpdates,     \* bound: the venue's last update id
    VenueBook,      \* the quantity on each level after each update, 0 for none
    GapRequests,    \* bound: snapshot requests of gaps that may be in flight
    MaxWire,        \* bound: events on their way on a socket
    MaxBuffered,    \* MAX_BUFFERED_EVENTS
    MaxFaults,      \* bound: sockets that close, stall or cannot be made
    MaxFailures     \* bound: snapshot requests that fail

Ids == 1..MaxUpdates
Books == [Levels -> Nat]

ASSUME VenueAssumption == VenueBook \in [0..MaxUpdates -> Books]
ASSUME BoundsAssumption ==
    /\ MaxUpdates \in Nat \ {0} /\ MaxWire \in Nat /\ MaxBuffered \in Nat
    /\ MaxFaults \in Nat /\ MaxFailures \in Nat /\ GapRequests \cap {"connect", "watchdog"} = {}

\* Who may have asked for a snapshot: the start or a reconnect, the watchdog, a gap.
Requests == {"connect", "watchdog"} \cup GapRequests

VARIABLES
    now,        \* the venue's last update id
    conn,       \* the socket in depthConnections; "dead" delivers nothing and is not closed
    sent,       \* the last id the venue has sent on it
    wire,       \* its events on their way
    late,       \* events of a terminated socket that may still be delivered
    heard,      \* depthActivity is younger than DEPTH_SILENCE_MS
    desired,    \* the pair is in depthStreams
    timer,      \* a reconnect is scheduled
    cache,      \* orderBookCache; desync is the clock of desyncSince
    fetches,    \* the snapshot requests in flight
    faults, failures

venueVars == <<now, sent>>
socketVars == <<conn, wire, late, heard>>
vars == <<now, conn, sent, wire, late, heard, desired, timer, cache, fetches,
          faults, failures>>

Events == [U : Ids, u : Ids]
NoFetch == [at |-> "idle", id |-> 0]
Asked == [at |-> "asked", id |-> 0]
EmptyBook == [l \in Levels |-> 0]
EmptyCache == [book |-> EmptyBook, lastUpdateId |-> 0, buffered |-> <<>>, desync |-> "none"]

\* The process has just asked for its first snapshot.
Init ==
    /\ now = 1 /\ conn = "none" /\ sent = 0 /\ wire = <<>> /\ late = <<>>
    /\ heard = FALSE /\ desired = FALSE /\ timer = FALSE
    /\ cache = EmptyCache
    /\ fetches = [r \in Requests |-> IF r = "connect" THEN Asked ELSE NoFetch]
    /\ faults = 0 /\ failures = 0

Fault == faults < MaxFaults /\ faults' = faults + 1

-----------------------------------------------------------------------------
\* applyDepthEvent: an event gives the final quantity of every level that any of
\* its updates touched.
Touched(e) ==
    {l \in Levels : \E i \in (e.U - 1)..e.u : VenueBook[i][l] /= VenueBook[e.u][l]}

Applied(c, e) ==
    [c EXCEPT !.book = [l \in Levels |-> IF l \in Touched(e) THEN VenueBook[e.u][l]
                                         ELSE c.book[l]],
              !.lastUpdateId = e.u]

\* What a snapshot leaves of the cache: the events buffered meanwhile go too.
Restarted(c, id) ==
    [book |-> VenueBook[id], lastUpdateId |-> id, buffered |-> <<>>, desync |-> "none"]

\* processBufferedEvents: from the first event that covers the snapshot on.
Replayed(c) ==
    LET covers(e) == e.U <= c.lastUpdateId /\ e.u >= c.lastUpdateId
        first == SelectInSeq(c.buffered, covers)
        valid == IF first = 0 THEN <<>> ELSE SubSeq(c.buffered, first, Len(c.buffered))
    IN [FoldLeft(Applied, c, valid) EXCEPT !.buffered = <<>>]

ProcessBuffered(c) == IF c.buffered = <<>> THEN c ELSE Replayed(c)

BufferUnbounded(c, e) ==                 \* mutant: the oldest are kept, too
    [c EXCEPT !.buffered = Append(@, e), !.desync = IF @ = "none" THEN "fresh" ELSE @]

BufferUnclocked(c, e) ==                 \* mutant: desyncSince is not set
    [c EXCEPT !.buffered = IF Len(@) < MaxBuffered THEN Append(@, e) ELSE @]

Buffer(c, e) ==
    LET all == Append(c.buffered, e)
    IN [c EXCEPT
          !.buffered = IF Len(all) > MaxBuffered THEN Tail(all) ELSE all,
          !.desync = IF @ = "none" THEN "fresh" ELSE @]

GapLoose(c, e) == e.U > c.lastUpdateId + 2 \/ e.u < c.lastUpdateId   \* mutant

Gap(c, e) == e.U > c.lastUpdateId + 1 \/ e.u < c.lastUpdateId

-----------------------------------------------------------------------------
\* handleDepthUpdate: without a snapshot the event waits; after a gap it is dropped
\* and a snapshot asked for; otherwise it is applied.
HandleDepthUpdate(e) ==
    \/ /\ cache.lastUpdateId = 0
       /\ cache' = Buffer(cache, e)
       /\ UNCHANGED fetches
    \/ /\ cache.lastUpdateId /= 0 /\ Gap(cache, e)
       /\ cache' = [cache EXCEPT !.lastUpdateId = 0, !.desync = "fresh"]
       /\ \E r \in GapRequests : /\ fetches[r] = NoFetch
                                 /\ fetches' = [fetches EXCEPT ![r] = Asked]
    \/ /\ cache.lastUpdateId /= 0 /\ ~Gap(cache, e)
       /\ cache' = Applied(cache, e)
       /\ UNCHANGED fetches

\* 'message' of the current socket, and of one terminated before.
Deliver ==
    /\ conn = "open" /\ wire /= <<>>
    /\ HandleDepthUpdate(Head(wire))
    /\ wire' = Tail(wire) /\ heard' = TRUE
    /\ UNCHANGED <<venueVars, conn, late, desired, timer, faults, failures>>

DeliverLate ==
    /\ late /= <<>>
    /\ HandleDepthUpdate(Head(late))
    /\ late' = Tail(late) /\ heard' = TRUE
    /\ UNCHANGED <<venueVars, conn, wire, desired, timer, faults, failures>>

CloseUnscheduled ==                      \* mutant: 'close' schedules nothing
    /\ conn /= "none" /\ Fault
    /\ conn' = "none" /\ wire' = <<>>
    /\ UNCHANGED <<venueVars, late, heard, desired, timer, cache, fetches,
                   failures>>

\* 'close' of the current socket.
Close ==
    /\ conn /= "none" /\ Fault
    /\ conn' = "none" /\ wire' = <<>>
    /\ timer' = TRUE
    /\ UNCHANGED <<venueVars, late, heard, desired, cache, fetches, failures>>

-----------------------------------------------------------------------------
\* The timer of scheduleDepthReconnect, as far as its await.
ReconnectFires ==
    /\ timer /\ desired
    /\ timer' = FALSE
    /\ cache' = EmptyCache
    /\ fetches' = [fetches EXCEPT !["connect"] = Asked]
    /\ UNCHANGED <<venueVars, socketVars, desired, faults, failures>>

\* startDepthStream: nothing to do for a pair that has a socket; the constructor may
\* throw, and is then tried again later.
StartDepthStream ==
    /\ desired' = TRUE
    /\ \/ conn /= "none" /\ UNCHANGED <<conn, heard, timer, faults>>
       \/ /\ conn = "none"
          /\ conn' = "opening" /\ heard' = TRUE /\ UNCHANGED <<timer, faults>>
       \/ /\ conn = "none" /\ Fault
          /\ timer' = TRUE /\ UNCHANGED <<conn, heard>>

\* fetchDepthSnapshot comes back.  The start and a reconnect go on to the stream,
\* with or without a snapshot; the others, with one, to what was buffered.
Continue(r) ==
    IF r = "connect" THEN StartDepthStream
    ELSE UNCHANGED <<conn, heard, desired, timer, faults>>

SnapshotLands(r) ==
    LET fresh == Restarted(cache, fetches[r].id)
    IN /\ fetches[r].at = "answered"
       /\ fetches' = [fetches EXCEPT ![r] = NoFetch]
       /\ cache' = IF r = "connect" THEN fresh ELSE ProcessBuffered(fresh)
       /\ Continue(r)
       /\ UNCHANGED <<venueVars, wire, late, failures>>

SnapshotFails(r) ==
    /\ fetches[r].at /= "idle" /\ failures < MaxFailures
    /\ fetches' = [fetches EXCEPT ![r] = NoFetch]
    /\ failures' = failures + 1
    /\ Continue(r)
    /\ UNCHANGED <<venueVars, wire, late, cache>>

-----------------------------------------------------------------------------
\* runDepthWatchdog.  Its third finding, a pair with neither a socket nor a reconnect
\* on its way, does not occur: NothingStranded.
WatchdogRestartKeeping ==                \* mutant: the silent socket stays registered
    /\ desired /\ conn /= "none" /\ ~heard
    /\ timer' = TRUE
    /\ UNCHANGED <<venueVars, socketVars, desired, cache, fetches, faults, failures>>

\* A silent socket is terminated and its events may still trickle in.
WatchdogRestart ==
    /\ desired /\ conn /= "none" /\ ~heard
    /\ conn' = "none" /\ wire' = <<>> /\ late' = wire
    /\ timer' = TRUE
    /\ UNCHANGED <<venueVars, heard, desired, cache, fetches, faults, failures>>

WatchdogResnapshot ==
    /\ desired /\ conn /= "none" /\ heard
    /\ cache.lastUpdateId = 0 /\ cache.desync = "overdue"
    /\ fetches["watchdog"] = NoFetch
    /\ cache' = [cache EXCEPT !.desync = "fresh"]
    /\ fetches' = [fetches EXCEPT !["watchdog"] = Asked]
    /\ UNCHANGED <<venueVars, socketVars, desired, timer, faults, failures>>

\* DEPTH_DESYNC_RECOVERY_MS is longer than any request takes.
DesyncAges ==
    /\ cache.desync = "fresh" /\ \A r \in Requests : fetches[r] = NoFetch
    /\ cache' = [cache EXCEPT !.desync = "overdue"]
    /\ UNCHANGED <<venueVars, socketVars, desired, timer, fetches, faults, failures>>

\* DEPTH_SILENCE_MS pass without an event: the socket is dead or the market is quiet.
\* A market whose events wait in the buffer is taken to be busy: more would follow.
Silence ==
    /\ heard
    /\ \/ conn = "dead"
       \/ conn = "open" /\ wire = <<>> /\ sent = now /\ cache.buffered = <<>>
    /\ heard' = FALSE
    /\ UNCHANGED <<venueVars, conn, wire, late, desired, timer, cache, fetches, faults,
                   failures>>

-----------------------------------------------------------------------------
\* The venue and the network.
VenueUpdates ==
    /\ now < MaxUpdates
    /\ now' = now + 1
    /\ UNCHANGED <<sent, socketVars, desired, timer, cache, fetches, faults, failures>>

Open ==
    /\ conn = "opening"
    /\ conn' = "open" /\ sent' = now
    /\ UNCHANGED <<now, wire, late, heard, desired, timer, cache, fetches, faults,
                   failures>>

Send ==
    /\ conn = "open" /\ sent < now /\ Len(wire) < MaxWire
    /\ wire' = Append(wire, [U |-> sent + 1, u |-> now])
    /\ sent' = now
    /\ UNCHANGED <<now, conn, late, heard, desired, timer, cache, fetches, faults,
                   failures>>

Stall ==
    /\ conn \in {"opening", "open"} /\ Fault
    /\ conn' = "dead"
    /\ UNCHANGED <<venueVars, wire, late, heard, desired, timer, cache, fetches, failures>>

Answer(r) ==
    /\ fetches[r].at = "asked"
    /\ fetches' = [fetches EXCEPT ![r] = [at |-> "answered", id |-> now]]
    /\ UNCHANGED <<venueVars, socketVars, desired, timer, cache, faults, failures>>

-----------------------------------------------------------------------------
Request(r) == Answer(r) \/ SnapshotLands(r) \/ SnapshotFails(r)

Next ==
    \/ Deliver \/ DeliverLate \/ Close \/ ReconnectFires
    \/ WatchdogRestart \/ WatchdogResnapshot \/ DesyncAges \/ Silence
    \/ VenueUpdates \/ Open \/ Send \/ Stall
    \/ \E r \in Requests : Request(r)

Spec == Init /\ [][Next]_vars

\* Requests come back, timers and the watchdog run, and what was sent on a socket
\* that lives arrives.
Fairness ==
    /\ WF_vars(Open) /\ WF_vars(Send) /\ WF_vars(Deliver) /\ WF_vars(DeliverLate)
    /\ WF_vars(ReconnectFires) /\ WF_vars(WatchdogRestart) /\ WF_vars(WatchdogResnapshot)
    /\ WF_vars(DesyncAges) /\ WF_vars(Silence)
    /\ \A r \in Requests : WF_vars(Request(r))

FairSpec == Spec /\ Fairness

-----------------------------------------------------------------------------
TypeOK ==
    /\ now \in Ids /\ sent \in Ids \cup {0}
    /\ conn \in {"none", "opening", "open", "dead"}
    /\ wire \in Seq(Events) /\ late \in Seq(Events)
    /\ heard \in BOOLEAN /\ desired \in BOOLEAN /\ timer \in BOOLEAN
    /\ cache \in [book : Books, lastUpdateId : Ids \cup {0}, buffered : Seq(Events),
                  desync : {"none", "fresh", "overdue"}]
    /\ Len(cache.buffered) <= MaxBuffered
    /\ fetches \in [Requests -> [at : {"idle", "asked", "answered"}, id : Ids \cup {0}]]
    /\ faults \in Nat /\ failures \in Nat

\* Whatever is lost, late or asked twice, a cache that claims to stand at an update
\* of the venue holds the book the venue had then: the ladder is built from it.
CacheIsVenueBook ==
    cache.lastUpdateId /= 0 => cache.book = VenueBook[cache.lastUpdateId]

\* While the timer's callback waits for its snapshot the pair is in `reconnecting`.
Reconnecting == desired /\ fetches["connect"] /= NoFetch

\* A pair that should have a stream has a socket or a reconnect on its way, without
\* the watchdog having to look for one.
NothingStranded == desired => conn /= "none" \/ timer \/ Reconnecting

\* No reconnect, which empties the book, is on its way beside a socket or another.
ReconnectIsAlone ==
    /\ timer \/ Reconnecting => conn = "none"
    /\ ~(timer /\ Reconnecting)

\* After any close, silence, gap or failed request there is a stream again, and at
\* the same time a book in step with it.
Recovers == desired ~> (conn = "open" /\ cache.lastUpdateId /= 0)

\* A buffered event that covers the snapshot is in the book once the snapshot is.
BufferedEventsApplied ==
    [][\A r \in Requests \ {"connect"} :
          fetches[r].at = "answered" /\ fetches'[r] = NoFetch /\ cache' /= cache =>
             \A i \in DOMAIN cache.buffered :
                LET e == cache.buffered[i]
                IN e.U <= fetches[r].id /\ e.u >= fetches[r].id
                      => cache'.lastUpdateId >= e.u]_vars
=============================================================================
