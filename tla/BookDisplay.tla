----------------------------- MODULE BookDisplay -----------------------------
(***************************************************************************)
(* From the publisher of the order book to the screen of one trader: the    *)
(* single-flight publish of spotapi (bookPublish.controller.js), the socket *)
(* and the REST snapshots that carry its payloads, and the OrderBook panel  *)
(* of the frontend, which draws some of them, queues or refuses others, and *)
(* decides whether the ticket beside it may be used (OrderBook.tsx,         *)
(* useOrderBookResync.ts).                                                  *)
(*                                                                          *)
(* A book is the venue's update id it stands at; its levels are left out.   *)
(* What the depth cache and the ladder amount to is `truth`: DepthStream    *)
(* and PaperLadder model how it comes about.                                *)
(***************************************************************************)
EXTENDS Naturals, FiniteSets

CONSTANTS
    Pairs, None,
    MaxChanges,      \* bound: how often the truth changes, over all pairs
    MaxSwitches,     \* bound: how often the trader moves to another pair
    MaxLosses,       \* bound: how often the socket stops delivering
    MaxMounts        \* bound: snapshots asked for by the panel itself, under way

ASSUME NoneAssumption == None \notin Pairs
ASSUME PairsAssumption == Pairs # {}
ASSUME BoundsAssumption ==
    {MaxChanges, MaxSwitches, MaxLosses, MaxMounts} \subseteq Nat

VARIABLES
    truth,   \* of a pair: the update id of its book, and whether it can fill
    pub,     \* inFlight, the build under way, pendingRepublish; and what is owed
    conn,    \* is the socket delivering
    rest,    \* snapshot requests of the panel under way
    ui,      \* the refs and the state of the panel and of its resync hook
    best,    \* ghost: the newest book of a pair ever drawn
    used     \* what has been used of the bounds

vars == <<truth, pub, conn, rest, ui, best, used>>

Ids == 0..(MaxChanges + 1)
Payload == [pair : Pairs, id : Ids, healthy : BOOLEAN]
ASSUME NoPayloadAssumption == None \notin Payload
Blank(p) == [pair |-> p, id |-> 0, healthy |-> FALSE]
NoBook == [pair |-> None, id |-> 0]
Fetch(kind, p) == [kind |-> kind, pair |-> p, book |-> None]

Idle == [at |-> "idle", book |-> None, pending |-> FALSE, owed |-> FALSE]

Init ==
    /\ \E h \in BOOLEAN : truth = [p \in Pairs |-> [id |-> 1, healthy |-> h]]
    /\ pub = Idle
    /\ conn = TRUE
    /\ LET p == CHOOSE q \in Pairs : TRUE IN  \* the pairs are alike
         /\ ui = [pair |-> p, current |-> None, health |-> "pending", drawn |-> NoBook,
                  lastId |-> [q \in Pairs |-> 0], queued |-> None, timer |-> FALSE,
                  lastPainted |-> None, age |-> 0, stale |-> FALSE]
         /\ rest = {Fetch("mount", p)}
    /\ best = [p \in Pairs |-> 0]
    /\ used = [changes |-> 0, switches |-> 0, losses |-> 0]

Spend(what, max) == used[what] < max /\ used' = [used EXCEPT ![what] = @ + 1]

---------------------------------------------------------------------------
\* The service.

\* The venue's book moves on; a breaker trips or clears; a ladder is purged,
\* rewritten (its old rows are gone before the new ones are there) or built.  What
\* happens to a pair while it is not shown does not show.
Change(p) ==
    /\ p = ui.pair
    /\ Spend("changes", MaxChanges)
    /\ \E h \in BOOLEAN, step \in {0, 1} :
         /\ step = 0 => h # truth[p].healthy
         /\ truth' = [truth EXCEPT ![p] = [id |-> @.id + step, healthy |-> h]]
    /\ UNCHANGED <<pub, conn, rest, ui, best>>

\* buildPublishedBook looks at the depth and at the ladder's state in one go.
Built(p) ==
    IF truth[p].healthy THEN [pair |-> p, id |-> truth[p].id, healthy |-> TRUE]
    ELSE Blank(p)

\* publishOrderBook for the pair shown.  An event of the feed, or the heartbeat, asks
\* for a publish: it starts a run, or leaves a note for the run there is.
Publish ==
    /\ pub' = IF pub.at = "idle" THEN [pub EXCEPT !.at = "started", !.owed = TRUE]
              ELSE [pub EXCEPT !.pending = TRUE, !.owed = TRUE]
    /\ UNCHANGED <<truth, conn, rest, ui, best, used>>

Look ==
    /\ pub.at = "started"
    /\ pub' = [pub EXCEPT !.at = "counting", !.book = Built(ui.pair), !.owed = FALSE]
    /\ UNCHANGED <<truth, conn, rest, ui, best, used>>

\* Then it counts the ladder's rows in redis, and redis wins.
Counted(b) == {b} \cup (IF truth[b.pair].healthy THEN {} ELSE {Blank(b.pair)})

---------------------------------------------------------------------------
\* The panel.

\* The ordering guard, by the venue's update id.  RefusesNone: the last answer wins.
RefusesNone(u, b) == FALSE
Refuses(u, b) == b.id < u.lastId[b.pair]

\* handleOrderBookData: a payload of another pair is ignored; the first payload of
\* a pair clears the ladder of the last one; the verdict is taken; an unhealthy
\* book is blanked, an older one refused, any other replaces what is drawn.
HandleOrderBookData(u, b) ==
    LET kept == IF u.current \in {None, b.pair} THEN u.drawn ELSE NoBook
        heard == [u EXCEPT !.current = b.pair, !.drawn = kept,
                           !.health = IF b.healthy THEN "healthy" ELSE "unhealthy"]
    IN  CASE b.pair # u.pair -> u
          [] b.pair = u.pair /\ ~b.healthy -> [heard EXCEPT !.drawn = NoBook]
          [] b.pair = u.pair /\ b.healthy /\ Refuses(u, b) -> heard
          [] OTHER -> [heard EXCEPT !.lastId[b.pair] = b.id,
                                    !.drawn = [pair |-> b.pair, id |-> b.id]]

PaintBook(u, b) ==
    HandleOrderBookData([u EXCEPT !.queued = None, !.lastPainted = b.healthy], b)

\* queueBookPaint: a change of verdict is painted at once; a frame already waiting
\* takes the newer payload; else it is painted now or, within the repaint interval,
\* later.
QueueBookPaint(u, b) ==
    IF u.lastPainted # b.healthy THEN {PaintBook([u EXCEPT !.timer = FALSE], b)}
    ELSE IF u.timer THEN {[u EXCEPT !.queued = b]}
    ELSE {PaintBook(u, b), [u EXCEPT !.queued = b, !.timer = TRUE]}

\* Every way to draw goes through here: the ghost keeps the newest book drawn.
Shows(u) ==
    /\ ui' = u
    /\ best' = IF u.drawn.pair = None \/ u.drawn.id <= best[u.drawn.pair] THEN best
               ELSE [best EXCEPT ![u.drawn.pair] = u.drawn.id]

\* A note left during the run is another round.  NextRunNone: it is wiped with the
\* rest as the build ends.
NextRunNone == "idle"
NextRun == IF pub.pending THEN "started" ELSE "idle"

\* The payload goes out, and a note left meanwhile is another round.  The socket
\* keeps the order and a payload on it is no later than one still being built, so it
\* comes in at once, or is lost.  It is a sign of life, drawn or not.
Emit ==
    /\ pub.at = "counting"
    /\ pub' = [pub EXCEPT !.at = NextRun, !.book = None, !.pending = FALSE]
    /\ IF conn
       THEN \E b \in Counted(pub.book) :
              \E u \in QueueBookPaint([ui EXCEPT !.age = 0, !.stale = FALSE], b) : Shows(u)
       ELSE UNCHANGED <<ui, best>>
    /\ UNCHANGED <<truth, conn, rest, used>>

TimerFires ==
    /\ ui.timer
    /\ LET u == [ui EXCEPT !.timer = FALSE]
       IN  Shows(IF ui.queued = None THEN u ELSE PaintBook(u, ui.queued))
    /\ UNCHANGED <<truth, pub, conn, rest, used>>

\* The clean-up of the socket's subscription.  UnsubscribedKeeping: the frame that
\* waits is left for the timer.
UnsubscribedKeeping(u) == [u EXCEPT !.lastPainted = None]
Unsubscribed(u) == [u EXCEPT !.queued = None, !.timer = FALSE, !.lastPainted = None]

\* Another pair: what waits to be painted is dropped, nothing is known of the new
\* one, its snapshot is asked for.  The ladder drawn and the age of the last sign
\* of life stay.  The runs of the pair left go on, and nobody here looks at what they
\* send: handleOrderBookMessage compares it with the pair shown.
SwitchPair(p) ==
    /\ p # ui.pair
    /\ Spend("switches", MaxSwitches)
    /\ Cardinality({f \in rest : f.kind = "mount"}) < MaxMounts
    /\ Shows([Unsubscribed(ui) EXCEPT !.pair = p, !.health = "pending"])
    /\ rest' = rest \cup {Fetch("mount", p)}
    /\ pub' = Idle
    /\ UNCHANGED <<truth, conn>>

\* The socket stops delivering, with what is under way; it may still look connected.
Lose ==
    /\ conn /\ Spend("losses", MaxLosses)
    /\ conn' = FALSE
    /\ UNCHANGED <<truth, pub, rest, ui, best>>

\* It delivers again: the manager reports a reconnect, and a snapshot is asked for;
\* or nothing was noticed.
Restored ==
    /\ ~conn /\ conn' = TRUE
    /\ \/ UNCHANGED rest
       \/ /\ Cardinality({f \in rest : f.kind = "mount"}) < MaxMounts
          /\ rest' = rest \cup {Fetch("mount", ui.pair)}
    /\ UNCHANGED <<truth, pub, ui, best, used>>

\* A snapshot is built by orderBookData beside the publisher, and is not serialised
\* with it.
Answer(f) ==
    /\ f.book = None
    /\ rest' = (rest \ {f}) \cup {[f EXCEPT !.book = Built(f.pair)]}
    /\ UNCHANGED <<truth, pub, conn, ui, best, used>>

\* It arrives, and is handled without the throttle.  One of the watchdog's counts
\* as a sign of life too.
Arrive(f) ==
    /\ f.book # None
    /\ rest' = rest \ {f}
    /\ Shows(HandleOrderBookData([ui EXCEPT !.age = IF f.kind = "resync" THEN 0 ELSE @], f.book))
    /\ UNCHANGED <<truth, pub, conn, used>>

\* Either way may fail, silently.
FetchFails(f) ==
    /\ rest' = rest \ {f}
    /\ UNCHANGED <<truth, pub, conn, ui, best, used>>

Snapshot == \E f \in rest : Answer(f) \/ Arrive(f) \/ FetchFails(f)

Resyncing == \E f \in rest : f.kind = "resync"

\* Silence for longer than twice the threshold.  SilentTooLong: longer than it is ever
\* seen to last.
SilentTooLong == ui.age > 2
Silent == ui.age = 2

\* The watchdog of the resync hook, every second.
Watchdog ==
    /\ Shows([ui EXCEPT !.stale = Silent])
    /\ rest' = IF ui.age > 0 /\ ~Resyncing THEN rest \cup {Fetch("resync", ui.pair)} ELSE rest
    /\ UNCHANGED <<truth, pub, conn, used>>

\* Silence lasts: more than 3 s, more than 6 s.
Age ==
    /\ ~conn /\ ui.age < 2
    /\ Shows([ui EXCEPT !.age = @ + 1])
    /\ UNCHANGED <<truth, pub, conn, rest, used>>

Next ==
    \/ \E p \in Pairs : Change(p) \/ SwitchPair(p)
    \/ Publish \/ Look \/ Emit \/ TimerFires \/ Lose \/ Restored \/ Snapshot \/ Watchdog \/ Age

\* The heartbeat, the event loops and the timers go on; nothing is promised of the
\* network, the trader or the venue.
Fairness ==
    /\ WF_vars(Publish) /\ WF_vars(Look) /\ WF_vars(Emit)
    /\ WF_vars(TimerFires) /\ WF_vars(Snapshot)
    /\ WF_vars(Watchdog) /\ WF_vars(Age)

Spec == Init /\ [][Next]_vars
FairSpec == Spec /\ Fairness

---------------------------------------------------------------------------
\* A book that one may trade against: bookUsable.
Usable == ui.health = "healthy" /\ ~ui.stale

\* Everything has its shape; a frame waits only for a timer to paint it.
TypeOK ==
    /\ truth \in [Pairs -> [id : Ids, healthy : BOOLEAN]]
    /\ pub.at \in {"idle", "started", "counting"} /\ pub.book \in Payload \cup {None}
    /\ (pub.book # None) = (pub.at = "counting")
    /\ \A f \in rest : f.pair \in Pairs /\ f.book \in Payload \cup {None}
    /\ Cardinality({f \in rest : f.kind = "resync"}) <= 1
    /\ ui.health \in {"pending", "healthy", "unhealthy"}
    /\ (ui.queued # None) = ui.timer
    /\ ui.queued # None => ui.queued.pair = ui.pair /\ ui.queued.healthy = ui.lastPainted

\* A publish that was asked for is not dropped: when no run is left, the last
\* payload was read after the last request.  bookPublish.controller.js:271-277
\* folds requests into one more run.
NoRequestForgotten == pub.at = "idle" => ~pub.owed

\* A ladder one may trade against is one of the pair on the screen, and never older
\* than one already drawn of it, whatever the order in which the socket, the paint
\* timer and up to three snapshots deliver (OrderBook.tsx:430-478).
UsableIsNewest ==
    Usable /\ ui.drawn # NoBook =>
        ui.drawn.pair = ui.pair /\ ui.drawn.id >= best[ui.drawn.pair]

Drawn(p) == ui.drawn = [pair |-> p, id |-> truth[p].id]

\* When the venue and the trader rest, the screen tells the truth for good: what may
\* be traded against is drawn as it is, a dead book is not tradable; and if the
\* socket stays up, a book that can fill is tradable.
ScreenSettles ==
    /\ <>[](Usable => truth[ui.pair].healthy /\ Drawn(ui.pair))
    /\ <>[]conn => <>[](truth[ui.pair].healthy => Usable)
=============================================================================
