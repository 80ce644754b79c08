-------------------------- MODULE BookDisplay_proofs --------------------------
(***************************************************************************)
(* What BookDisplay promises whatever the bounds: no publish is dropped, and *)
(* what may be traded against is of the pair shown and never an older book. *)
(***************************************************************************)
EXTENDS BookDisplay, FiniteSetTheorems, TLAPS

---------------------------------------------------------------------------
\* The publisher: a request is served by the run that is about to look, or by
\* the note left for the next one; and a note is only left while a run is on.
PubInv ==
    /\ pub.at \in {"idle", "started", "counting"}
    /\ pub.owed => pub.at = "started" \/ pub.pending
    /\ pub.pending => pub.at # "idle"
    /\ pub = [at |-> pub.at, book |-> pub.book, pending |-> pub.pending, owed |-> pub.owed]

\* Every state of a behaviour satisfies it: the publisher's two flags never
\* lose a request between them (publishOrderBook).
LEMMA PubInvariant == Spec => []PubInv
<1>1. Init => PubInv
  BY DEF Init, PubInv, Idle
<1>2. PubInv /\ [Next]_vars => PubInv'
  <2> SUFFICES ASSUME PubInv, [Next]_vars PROVE PubInv'
    OBVIOUS
  <2>1. CASE Publish
    BY <2>1 DEF PubInv, Publish
  <2>2. CASE Look
    BY <2>2 DEF PubInv, Look
  <2>3. CASE Emit
    BY <2>3 DEF PubInv, Emit, NextRun
  <2>4. CASE \E p \in Pairs : SwitchPair(p)
    BY <2>4 DEF PubInv, SwitchPair, Idle
  <2>5. CASE UNCHANGED pub
    BY <2>5 DEF PubInv
  <2> QED
    BY <2>1, <2>2, <2>3, <2>4, <2>5
    DEF Next, vars, Change, TimerFires, Lose, Restored, Snapshot, Answer, Arrive,
        FetchFails, Watchdog, Age
<1> QED
  BY <1>1, <1>2, PTL DEF Spec

\* A publish that was asked for is not dropped (bookPublish.controller.js:271-277),
\* for any number of pairs, changes, switches and losses.
THEOREM RequestsAreServed == Spec => []NoRequestForgotten
<1>1. PubInv => NoRequestForgotten
  BY DEF PubInv, NoRequestForgotten
<1> QED
  BY <1>1, PubInvariant, PTL

---------------------------------------------------------------------------
\* The panel.  A book is what a payload carries, whatever the bounds.
Book == [pair : Pairs, id : Nat, healthy : BOOLEAN]
Verdicts == {"pending", "healthy", "unhealthy"}

Panel == [pair : Pairs, current : Pairs \cup {None}, health : Verdicts,
          drawn : [pair : Pairs, id : Nat] \cup {NoBook},
          lastId : [Pairs -> Nat], queued : Book \cup {None}, timer : BOOLEAN,
          lastPainted : BOOLEAN \cup {None}, age : Nat, stale : BOOLEAN]

\* What is drawn is of the pair last heard of, and the newest book of it accepted;
\* a verdict of healthy was given for the pair on the screen.
Consistent(u) ==
    /\ u \in Panel
    /\ u.drawn # NoBook => u.drawn.pair = u.current /\ u.drawn.id = u.lastId[u.drawn.pair]
    /\ u.health = "healthy" => u.current = u.pair

\* No book newer than the one the ordering guard remembers was ever drawn.
Covers(u, b) == b \in [Pairs -> Nat] /\ \A p \in Pairs : b[p] <= u.lastId[p]

TruthInv == truth \in [Pairs -> [id : Nat, healthy : BOOLEAN]]
PubBookInv == pub.at = "counting" => pub.book \in Book
RestInv == \A f \in rest :
    /\ f = [kind |-> f.kind, pair |-> f.pair, book |-> f.book]
    /\ f.pair \in Pairs /\ f.book \in Book \cup {None}
PanelInv == Consistent(ui) /\ Covers(ui, best)

ScreenInv == PubInv /\ TruthInv /\ PubBookInv /\ RestInv /\ PanelInv

\* A payload leaves the panel consistent, and what it remembers only grows.
LEMMA HandleKeeps ==
    ASSUME NEW u, Consistent(u), NEW b \in Book
    PROVE  LET v == HandleOrderBookData(u, b)
           IN /\ Consistent(v)
              /\ \A p \in Pairs : u.lastId[p] <= v.lastId[p]
<1> DEFINE kept == IF u.current \in {None, b.pair} THEN u.drawn ELSE NoBook
           heard == [u EXCEPT !.current = b.pair, !.drawn = kept,
                              !.health = IF b.healthy THEN "healthy" ELSE "unhealthy"]
           v == HandleOrderBookData(u, b)
<1>a. /\ b.pair \in Pairs /\ b.id \in Nat /\ b.healthy \in BOOLEAN
      /\ u \in Panel
  BY DEF Book, Consistent
<1>b. /\ kept \in [pair : Pairs, id : Nat] \cup {NoBook}
      /\ kept # NoBook => kept.pair = b.pair /\ kept.id = u.lastId[b.pair]
  BY <1>a, NoneAssumption DEF Consistent, Panel, NoBook
<1>c. /\ heard \in Panel
      /\ heard.pair = u.pair /\ heard.current = b.pair
      /\ heard.drawn = kept /\ heard.lastId = u.lastId
  <2> HIDE DEF kept
  <2> QED
    BY <1>a, <1>b DEF Panel, Verdicts
<1>d. u.lastId \in [Pairs -> Nat]
  BY <1>a DEF Panel
<1>1. CASE b.pair # u.pair
  BY <1>1, <1>a, <1>d DEF HandleOrderBookData
<1>2. CASE b.pair = u.pair /\ ~b.healthy
  <2>1. v = [heard EXCEPT !.drawn = NoBook]
    BY <1>2 DEF HandleOrderBookData
  <2> HIDE DEF heard, v
  <2>2. /\ v \in Panel
        /\ v.pair = u.pair /\ v.current = b.pair
        /\ v.drawn = NoBook /\ v.lastId = u.lastId
    BY <1>c, <2>1 DEF Panel
  <2> QED
    BY <1>2, <1>d, <2>2 DEF Consistent, v
<1>3. CASE b.pair = u.pair /\ b.healthy /\ Refuses(u, b)
  <2>1. v = heard
    BY <1>3 DEF HandleOrderBookData
  <2> HIDE DEF heard, v, kept
  <2> QED
    BY <1>3, <1>b, <1>c, <1>d, <2>1 DEF Consistent, v
<1>4. CASE b.pair = u.pair /\ b.healthy /\ ~Refuses(u, b)
  <2>1. v = [heard EXCEPT !.lastId[b.pair] = b.id, !.drawn = [pair |-> b.pair, id |-> b.id]]
    BY <1>4 DEF HandleOrderBookData
  <2>2. u.lastId[b.pair] <= b.id
    BY <1>4, <1>a, <1>d DEF Refuses
  <2> HIDE DEF heard, v, kept
  <2>3. /\ v \in Panel
        /\ v.pair = u.pair /\ v.current = b.pair
        /\ v.drawn = [pair |-> b.pair, id |-> b.id]
        /\ v.lastId = [u.lastId EXCEPT ![b.pair] = b.id]
    BY <1>a, <1>c, <2>1 DEF Panel
  <2> QED
    BY <1>4, <1>a, <1>d, <2>2, <2>3 DEF Consistent, v
<1> QED
  BY <1>1, <1>2, <1>3, <1>4 DEF Book

\* Drawing a consistent panel whose guard covers what was drawn keeps both.
LEMMA ShowsKeeps ==
    ASSUME NEW u, Consistent(u), Covers(u, best), Shows(u)
    PROVE  PanelInv'
<1>1. ui' = u
  BY DEF Shows
<1>2. u.lastId \in [Pairs -> Nat] /\ best \in [Pairs -> Nat]
  BY DEF Consistent, Covers, Panel
<1>3. u.drawn # NoBook => u.drawn.pair \in Pairs /\ u.drawn.id = u.lastId[u.drawn.pair]
  BY DEF Consistent, Panel
<1>4. CASE u.drawn = NoBook
  BY <1>1, <1>4 DEF Shows, NoBook, PanelInv
<1>5. CASE u.drawn # NoBook
  BY <1>1, <1>2, <1>3, <1>5 DEF Shows, PanelInv, Covers
<1> QED
  BY <1>4, <1>5

\* A field that Consistent does not speak of may be set.
SameDrawing(u, v) ==
    /\ v \in Panel
    /\ v.pair = u.pair /\ v.current = u.current /\ v.health = u.health
    /\ v.drawn = u.drawn /\ v.lastId = u.lastId

LEMMA QuietFields ==
    ASSUME NEW u, Consistent(u), NEW c, Covers(u, c), NEW v, SameDrawing(u, v)
    PROVE  Consistent(v) /\ Covers(v, c)
BY DEF Consistent, Covers, SameDrawing

\* What was covered stays covered when the guard's memory grows.
LEMMA CoversGrows ==
    ASSUME NEW u, NEW v, Consistent(u), Consistent(v), NEW b, Covers(u, b),
           \A p \in Pairs : u.lastId[p] <= v.lastId[p]
    PROVE  Covers(v, b)
<1>1. u.lastId \in [Pairs -> Nat] /\ v.lastId \in [Pairs -> Nat]
  BY DEF Consistent, Panel
<1> QED
  BY <1>1 DEF Covers

LEMMA PaintKeeps ==
    ASSUME NEW u, Consistent(u), NEW c, Covers(u, c), NEW b \in Book
    PROVE  Consistent(PaintBook(u, b)) /\ Covers(PaintBook(u, b), c)
<1> DEFINE w == [u EXCEPT !.queued = None, !.lastPainted = b.healthy]
<1>1. SameDrawing(u, w)
  BY DEF SameDrawing, Consistent, Panel, Book
<1>2. PaintBook(u, b) = HandleOrderBookData(w, b)
  BY DEF PaintBook
<1> HIDE DEF w
<1>3. Consistent(w) /\ Covers(w, c)
  BY <1>1, QuietFields
<1>4. /\ Consistent(HandleOrderBookData(w, b))
      /\ \A p \in Pairs : w.lastId[p] <= HandleOrderBookData(w, b).lastId[p]
  BY <1>3, HandleKeeps
<1> QED
  BY <1>2, <1>3, <1>4, CoversGrows

\* Queued or painted, a payload keeps the panel consistent.
LEMMA QueueKeeps ==
    ASSUME NEW u, Consistent(u), NEW c, Covers(u, c), NEW b \in Book,
           NEW v \in QueueBookPaint(u, b)
    PROVE  Consistent(v) /\ Covers(v, c)
<1> DEFINE w == [u EXCEPT !.timer = FALSE]
<1>1. SameDrawing(u, w)
  BY DEF SameDrawing, Consistent, Panel
<1>2. v \in {PaintBook(w, b), PaintBook(u, b), [u EXCEPT !.queued = b],
             [u EXCEPT !.queued = b, !.timer = TRUE]}
  BY DEF QueueBookPaint
<1> HIDE DEF w
<1>3. CASE v = PaintBook(w, b)
  <2>1. Consistent(w) /\ Covers(w, c)
    BY <1>1, QuietFields
  <2> QED
    BY <1>3, <2>1, PaintKeeps
<1>4. CASE v = PaintBook(u, b)
  BY <1>4, PaintKeeps
<1>5. CASE v = [u EXCEPT !.queued = b]
  <2>1. SameDrawing(u, v)
    BY <1>5 DEF SameDrawing, Consistent, Panel
  <2> QED
    BY <2>1, QuietFields
<1>6. CASE v = [u EXCEPT !.queued = b, !.timer = TRUE]
  <2>1. SameDrawing(u, v)
    BY <1>6 DEF SameDrawing, Consistent, Panel
  <2> QED
    BY <2>1, QuietFields
<1> QED
  BY <1>2, <1>3, <1>4, <1>5, <1>6

LEMMA BuiltIsBook == ASSUME TruthInv, NEW p \in Pairs PROVE Built(p) \in Book /\ Blank(p) \in Book
BY DEF TruthInv, Built, Blank, Book

LEMMA ScreenInit == Init => ScreenInv
<1> SUFFICES ASSUME Init PROVE ScreenInv
  OBVIOUS
<1>1. PubInv /\ TruthInv /\ PubBookInv
  BY DEF Init, PubInv, TruthInv, PubBookInv, Idle
<1>2. PICK p \in Pairs :
        /\ ui = [pair |-> p, current |-> None, health |-> "pending", drawn |-> NoBook,
                 lastId |-> [q \in Pairs |-> 0], queued |-> None, timer |-> FALSE,
                 lastPainted |-> None, age |-> 0, stale |-> FALSE]
        /\ rest = {Fetch("mount", p)}
  BY PairsAssumption DEF Init
<1>3. RestInv
  BY <1>2 DEF RestInv, Fetch
<1>4. Consistent(ui)
  <2>1. ui \in Panel
    BY <1>2 DEF Panel, Verdicts
  <2> QED
    BY <1>2, <2>1 DEF Consistent
<1>5. Covers(ui, best)
  BY <1>2 DEF Covers, Init
<1> QED
  BY <1>1, <1>3, <1>4, <1>5 DEF ScreenInv, PanelInv

LEMMA ChangeKeeps == ASSUME ScreenInv, NEW p \in Pairs, Change(p) PROVE ScreenInv'
<1>1. TruthInv'
  BY DEF ScreenInv, TruthInv, Change
<1>2. /\ PubInv' /\ PubBookInv' /\ RestInv' /\ PanelInv'
  BY DEF ScreenInv, PubInv, PubBookInv, RestInv, PanelInv, Change
<1> QED
  BY <1>1, <1>2 DEF ScreenInv

LEMMA PublisherKeeps == ASSUME ScreenInv, Publish \/ Look PROVE ScreenInv'
<1>1. PubInv' /\ TruthInv' /\ RestInv' /\ PanelInv'
  BY DEF ScreenInv, PubInv, TruthInv, RestInv, PanelInv, Publish, Look
<1>2. Built(ui.pair) \in Book
  BY BuiltIsBook DEF ScreenInv, PanelInv, Consistent, Panel
<1>3. PubBookInv'
  BY <1>2 DEF ScreenInv, PubInv, PubBookInv, Publish, Look
<1> QED
  BY <1>1, <1>3 DEF ScreenInv

LEMMA EmitKeeps == ASSUME ScreenInv, Emit PROVE ScreenInv'
<1>1. PubInv' /\ TruthInv' /\ RestInv' /\ PubBookInv'
  BY DEF ScreenInv, PubInv, TruthInv, RestInv, PubBookInv, Emit, NextRun
<1>2. PanelInv'
  <2>1. CASE ~conn
    BY <2>1 DEF Emit, ScreenInv, PanelInv
  <2>2. CASE conn
    <3> DEFINE w == [ui EXCEPT !.age = 0, !.stale = FALSE]
    <3>a. PICK b \in Counted(pub.book) : \E u \in QueueBookPaint(w, b) : Shows(u)
      BY <2>2 DEF Emit
    <3>1. PICK u \in QueueBookPaint(w, b) : Shows(u)
      BY <3>a
    <3>2. b \in Book
      BY <3>a, BuiltIsBook DEF Counted, Emit, ScreenInv, PubBookInv, Book
    <3>3. SameDrawing(ui, w)
      BY DEF SameDrawing, ScreenInv, PanelInv, Consistent, Panel
    <3> HIDE DEF w
    <3>4. Consistent(w) /\ Covers(w, best)
      BY <3>3, QuietFields DEF ScreenInv, PanelInv
    <3>5. Consistent(u) /\ Covers(u, best)
      BY <3>1, <3>2, <3>4, QueueKeeps
    <3> QED
      BY <3>1, <3>5, ShowsKeeps
  <2> QED
    BY <2>1, <2>2
<1> QED
  BY <1>1, <1>2 DEF ScreenInv

LEMMA TimerKeeps == ASSUME ScreenInv, TimerFires PROVE ScreenInv'
<1>1. PubInv' /\ TruthInv' /\ RestInv' /\ PubBookInv'
  BY DEF ScreenInv, PubInv, TruthInv, RestInv, PubBookInv, TimerFires
<1> DEFINE w == [ui EXCEPT !.timer = FALSE]
<1>2. SameDrawing(ui, w)
  BY DEF SameDrawing, ScreenInv, PanelInv, Consistent, Panel
<1>3. ui.queued \in Book \cup {None}
  BY DEF ScreenInv, PanelInv, Consistent, Panel
<1>4. Shows(IF ui.queued = None THEN w ELSE PaintBook(w, ui.queued))
  BY DEF TimerFires
<1> HIDE DEF w
<1>5. Consistent(w) /\ Covers(w, best)
  BY <1>2, QuietFields DEF ScreenInv, PanelInv
<1>6. CASE ui.queued = None
  BY <1>1, <1>4, <1>5, <1>6, ShowsKeeps DEF ScreenInv
<1>7. CASE ui.queued # None
  <2>1. ui.queued \in Book
    BY <1>3, <1>7
  <2>2. Consistent(PaintBook(w, ui.queued)) /\ Covers(PaintBook(w, ui.queued), best)
    BY <1>5, <2>1, PaintKeeps
  <2> QED
    BY <1>1, <1>4, <1>7, <2>2, ShowsKeeps DEF ScreenInv
<1> QED
  BY <1>6, <1>7

LEMMA SwitchKeeps == ASSUME ScreenInv, NEW p \in Pairs, SwitchPair(p) PROVE ScreenInv'
<1> DEFINE w == [Unsubscribed(ui) EXCEPT !.pair = p, !.health = "pending"]
<1>1. PubInv' /\ TruthInv' /\ PubBookInv'
  BY DEF ScreenInv, PubInv, TruthInv, PubBookInv, SwitchPair, Idle
<1>2. RestInv'
  BY DEF ScreenInv, RestInv, SwitchPair, Fetch
<1>3. /\ w \in Panel
      /\ w.health = "pending" /\ w.current = ui.current
      /\ w.drawn = ui.drawn /\ w.lastId = ui.lastId
  BY DEF ScreenInv, PanelInv, Consistent, Panel, Unsubscribed, Verdicts
<1>4. Shows(w)
  BY DEF SwitchPair
<1> HIDE DEF w
<1>5. Consistent(w) /\ Covers(w, best)
  BY <1>3 DEF ScreenInv, PanelInv, Consistent, Covers
<1> QED
  BY <1>1, <1>2, <1>4, <1>5, ShowsKeeps DEF ScreenInv

LEMMA SocketKeeps == ASSUME ScreenInv, Lose \/ Restored PROVE ScreenInv'
<1>1. ui.pair \in Pairs
  BY DEF ScreenInv, PanelInv, Consistent, Panel
<1>2. RestInv'
  BY <1>1 DEF ScreenInv, RestInv, Lose, Restored, Fetch
<1>3. PubInv' /\ TruthInv' /\ PubBookInv' /\ PanelInv'
  BY DEF ScreenInv, PubInv, TruthInv, PubBookInv, PanelInv, Lose, Restored
<1> QED
  BY <1>2, <1>3 DEF ScreenInv

LEMMA SnapshotKeeps == ASSUME ScreenInv, Snapshot PROVE ScreenInv'
<1>1. PICK f \in rest : Answer(f) \/ Arrive(f) \/ FetchFails(f)
  BY DEF Snapshot
<1>2. /\ f = [kind |-> f.kind, pair |-> f.pair, book |-> f.book]
      /\ f.pair \in Pairs /\ f.book \in Book \cup {None}
  BY <1>1 DEF ScreenInv, RestInv
<1>3. PubInv' /\ TruthInv' /\ PubBookInv'
  BY <1>1 DEF ScreenInv, PubInv, TruthInv, PubBookInv, Answer, Arrive, FetchFails
<1>4. CASE Answer(f)
  <2>1. Built(f.pair) \in Book
    BY <1>2, BuiltIsBook DEF ScreenInv
  <2>2. RestInv'
    BY <1>2, <1>4, <2>1 DEF ScreenInv, RestInv, Answer
  <2> QED
    BY <1>3, <1>4, <2>2 DEF ScreenInv, PanelInv, Answer
<1>5. CASE Arrive(f)
  <2> DEFINE w == [ui EXCEPT !.age = IF f.kind = "resync" THEN 0 ELSE @]
  <2>1. RestInv'
    BY <1>5 DEF ScreenInv, RestInv, Arrive
  <2>2. f.book \in Book
    BY <1>2, <1>5 DEF Arrive
  <2>3. SameDrawing(ui, w)
    BY DEF SameDrawing, ScreenInv, PanelInv, Consistent, Panel
  <2>4. Shows(HandleOrderBookData(w, f.book))
    BY <1>5 DEF Arrive
  <2> HIDE DEF w
  <2>5. Consistent(w) /\ Covers(w, best)
    BY <2>3, QuietFields DEF ScreenInv, PanelInv
  <2>6. /\ Consistent(HandleOrderBookData(w, f.book))
        /\ \A p \in Pairs : w.lastId[p] <= HandleOrderBookData(w, f.book).lastId[p]
    BY <2>2, <2>5, HandleKeeps
  <2>7. Covers(HandleOrderBookData(w, f.book), best)
    BY <2>5, <2>6, CoversGrows
  <2> QED
    BY <1>3, <2>1, <2>4, <2>6, <2>7, ShowsKeeps DEF ScreenInv
<1>6. CASE FetchFails(f)
  BY <1>3, <1>6 DEF ScreenInv, RestInv, PanelInv, FetchFails
<1> QED
  BY <1>1, <1>4, <1>5, <1>6

LEMMA ClockKeeps == ASSUME ScreenInv, Watchdog \/ Age PROVE ScreenInv'
<1>1. PubInv' /\ TruthInv' /\ PubBookInv'
  BY DEF ScreenInv, PubInv, TruthInv, PubBookInv, Watchdog, Age
<1>2. ui \in Panel /\ ui.pair \in Pairs
  BY DEF ScreenInv, PanelInv, Consistent, Panel
<1>3. CASE Watchdog
  <2> DEFINE w == [ui EXCEPT !.stale = Silent]
  <2>1. RestInv'
    BY <1>2, <1>3 DEF ScreenInv, RestInv, Watchdog, Fetch
  <2>2. SameDrawing(ui, w)
    BY <1>2 DEF SameDrawing, Panel, Silent
  <2>3. Shows(w)
    BY <1>3 DEF Watchdog
  <2> HIDE DEF w
  <2>4. Consistent(w) /\ Covers(w, best)
    BY <2>2, QuietFields DEF ScreenInv, PanelInv
  <2> QED
    BY <1>1, <2>1, <2>3, <2>4, ShowsKeeps DEF ScreenInv
<1>4. CASE Age
  <2> DEFINE w == [ui EXCEPT !.age = @ + 1]
  <2>1. RestInv'
    BY <1>4 DEF ScreenInv, RestInv, Age
  <2>2. SameDrawing(ui, w)
    BY <1>2 DEF SameDrawing, Panel
  <2>3. Shows(w)
    BY <1>4 DEF Age
  <2> HIDE DEF w
  <2>4. Consistent(w) /\ Covers(w, best)
    BY <2>2, QuietFields DEF ScreenInv, PanelInv
  <2> QED
    BY <1>1, <2>1, <2>3, <2>4, ShowsKeeps DEF ScreenInv
<1> QED
  BY <1>3, <1>4

\* The inductive invariant of publisher, requests and panel.
LEMMA ScreenInvariant == Spec => []ScreenInv
<1>1. ScreenInv /\ [Next]_vars => ScreenInv'
  <2>1. ASSUME ScreenInv, UNCHANGED vars PROVE ScreenInv'
    BY <2>1 DEF vars, ScreenInv, PubInv, TruthInv, PubBookInv, RestInv, PanelInv
  <2> QED
    BY <2>1, ChangeKeeps, PublisherKeeps, EmitKeeps, TimerKeeps, SwitchKeeps, SocketKeeps,
       SnapshotKeeps, ClockKeeps DEF Next
<1> QED
  BY <1>1, ScreenInit, PTL DEF Spec

\* A ladder one may trade against is one of the pair on the screen, and never older
\* than one already drawn of it (OrderBook.tsx:430-478): for any number of pairs,
\* changes, switches, losses and snapshots under way.
THEOREM TradableIsNewest == Spec => []UsableIsNewest
<1>1. ScreenInv => UsableIsNewest
  <2> SUFFICES ASSUME ScreenInv, Usable, ui.drawn # NoBook
               PROVE  ui.drawn.pair = ui.pair /\ ui.drawn.id >= best[ui.drawn.pair]
    BY DEF UsableIsNewest
  <2>1. ui.drawn.pair = ui.pair /\ ui.drawn.id = ui.lastId[ui.drawn.pair]
    BY DEF ScreenInv, PanelInv, Consistent, Usable
  <2>2. ui.drawn.pair \in Pairs /\ ui.lastId \in [Pairs -> Nat] /\ best \in [Pairs -> Nat]
    BY DEF ScreenInv, PanelInv, Consistent, Covers, Panel
  <2> QED
    BY <2>1, <2>2 DEF ScreenInv, PanelInv, Covers
<1> QED
  BY <1>1, ScreenInvariant, PTL

---------------------------------------------------------------------------
\* Types, within the bounds.

\* A frame that waits has its timer, is of the pair shown and of the verdict painted.
FrameOK(u) ==
    /\ (u.queued # None) = u.timer
    /\ u.queued # None => /\ u.queued \in Payload
                          /\ u.queued.pair = u.pair /\ u.queued.healthy = u.lastPainted

\* The update id counts the changes.
TruthBounded ==
    /\ used \in [changes : Nat, switches : Nat, losses : Nat]
    /\ used.changes <= MaxChanges
    /\ \A p \in Pairs : truth[p].id \in 0..(used.changes + 1)

\* A build under way is of the pair shown.
BuildOK ==
    /\ pub.at # "counting" => pub.book = None
    /\ pub.at = "counting" => pub.book \in Payload /\ pub.book.pair = ui.pair

RequestsOK ==
    /\ \A f \in rest : f.book \in Payload \cup {None}
    /\ \A f, g \in rest : f.kind = "resync" /\ g.kind = "resync" => f = g

FramesInv == TruthBounded /\ BuildOK /\ RequestsOK /\ FrameOK(ui)

LEMMA BuiltBounded ==
    ASSUME TruthInv, TruthBounded, NEW p \in Pairs
    PROVE  /\ Built(p) \in Payload /\ Built(p).pair = p
           /\ Blank(p) \in Payload /\ Blank(p).pair = p
<1>1. MaxChanges \in Nat /\ used.changes \in Nat /\ used.changes <= MaxChanges
  BY BoundsAssumption DEF TruthBounded
<1>2. truth[p].id \in Ids /\ 0 \in Ids
  BY <1>1 DEF TruthBounded, Ids
<1>3. truth[p] \in [id : Nat, healthy : BOOLEAN]
  BY DEF TruthInv
<1> QED
  BY <1>2, <1>3 DEF Built, Blank, Payload

LEMMA HandleLeavesFrame ==
    ASSUME NEW u \in Panel, NEW b
    PROVE  LET v == HandleOrderBookData(u, b)
           IN /\ v.queued = u.queued /\ v.timer = u.timer /\ v.pair = u.pair
              /\ v.lastPainted = u.lastPainted
BY DEF HandleOrderBookData, Panel

LEMMA PaintFrame ==
    ASSUME NEW u \in Panel, u.timer = FALSE, NEW b \in Payload
    PROVE  FrameOK(PaintBook(u, b))
<1> DEFINE w == [u EXCEPT !.queued = None, !.lastPainted = b.healthy]
           v == PaintBook(u, b)
<1>1. b \in [pair : Pairs, id : Ids, healthy : BOOLEAN]
  BY DEF Payload
<1>2. w \in Panel /\ w.queued = None /\ w.timer = FALSE
  BY <1>1 DEF Panel
<1>3. v = HandleOrderBookData(w, b)
  BY DEF PaintBook
<1> HIDE DEF w, v
<1>4. v.queued = None /\ v.timer = FALSE
  BY <1>2, <1>3, HandleLeavesFrame
<1> QED
  BY <1>4 DEF FrameOK, v

LEMMA QueueFrame ==
    ASSUME NEW u \in Panel, FrameOK(u), NEW b \in Payload, b.pair = u.pair, b \in Book,
           NEW v \in QueueBookPaint(u, b)
    PROVE  FrameOK(v) /\ v.pair = u.pair
<1> DEFINE w == [u EXCEPT !.timer = FALSE]
           x == [u EXCEPT !.queued = b]
           y == [u EXCEPT !.queued = b, !.timer = TRUE]
<1>1. /\ w \in Panel /\ w.timer = FALSE /\ w.pair = u.pair
      /\ x.queued = b /\ x.timer = u.timer /\ x.pair = u.pair /\ x.lastPainted = u.lastPainted
      /\ y.queued = b /\ y.timer = TRUE /\ y.pair = u.pair /\ y.lastPainted = u.lastPainted
  BY DEF Panel
<1>2. u.timer \in BOOLEAN /\ b # None
  BY NoPayloadAssumption DEF Panel
<1>3. \A z \in Panel : PaintBook(z, b).pair = z.pair
  <2> SUFFICES ASSUME NEW z \in Panel PROVE PaintBook(z, b).pair = z.pair
    OBVIOUS
  <2> DEFINE d == [z EXCEPT !.queued = None, !.lastPainted = b.healthy]
  <2>1. d \in Panel /\ d.pair = z.pair
    BY DEF Panel, Book
  <2>2. PaintBook(z, b) = HandleOrderBookData(d, b)
    BY DEF PaintBook
  <2> HIDE DEF d
  <2> QED
    BY <2>1, <2>2, HandleLeavesFrame
<1>4. \/ v = PaintBook(w, b)
      \/ u.lastPainted = b.healthy /\ u.timer /\ v = x
      \/ u.lastPainted = b.healthy /\ ~u.timer /\ v = PaintBook(u, b)
      \/ u.lastPainted = b.healthy /\ ~u.timer /\ v = y
  BY DEF QueueBookPaint
<1> HIDE DEF w, x, y
<1>5. CASE v = PaintBook(w, b)
  BY <1>1, <1>3, <1>5, PaintFrame
<1>6. CASE u.lastPainted = b.healthy /\ u.timer /\ v = x
  BY <1>1, <1>2, <1>6 DEF FrameOK
<1>7. CASE u.lastPainted = b.healthy /\ ~u.timer /\ v = PaintBook(u, b)
  BY <1>2, <1>3, <1>7, PaintFrame
<1>8. CASE u.lastPainted = b.healthy /\ ~u.timer /\ v = y
  BY <1>1, <1>2, <1>8 DEF FrameOK
<1> QED
  BY <1>4, <1>5, <1>6, <1>7, <1>8

LEMMA FramesInit == Init => FramesInv
<1> SUFFICES ASSUME Init PROVE FramesInv
  OBVIOUS
<1>1. TruthBounded
  <2>1. used = [changes |-> 0, switches |-> 0, losses |-> 0]
    BY DEF Init
  <2>2. \A p \in Pairs : truth[p].id = 1
    BY DEF Init
  <2> QED
    BY <2>1, <2>2, BoundsAssumption DEF TruthBounded
<1>2. BuildOK /\ RequestsOK /\ FrameOK(ui)
  <2>1. pub = Idle
    BY DEF Init
  <2>2. PICK p \in Pairs :
          /\ ui = [pair |-> p, current |-> None, health |-> "pending", drawn |-> NoBook,
                   lastId |-> [q \in Pairs |-> 0], queued |-> None, timer |-> FALSE,
                   lastPainted |-> None, age |-> 0, stale |-> FALSE]
          /\ rest = {Fetch("mount", p)}
    BY PairsAssumption DEF Init
  <2>3. BuildOK
    BY <2>1 DEF Idle, BuildOK
  <2>4. RequestsOK
    BY <2>2 DEF Fetch, RequestsOK
  <2>5. ui.queued = None /\ ui.timer = FALSE
    BY <2>2
  <2> QED
    BY <2>3, <2>4, <2>5 DEF FrameOK
<1> QED
  BY <1>1, <1>2 DEF FramesInv

LEMMA UsedOf ==
    ASSUME TruthBounded, NEW what \in {"changes", "switches", "losses"}, NEW max \in Nat,
           Spend(what, max)
    PROVE  /\ used' \in [changes : Nat, switches : Nat, losses : Nat]
           /\ used'.changes = IF what = "changes" THEN used.changes + 1 ELSE used.changes
           /\ what = "changes" => used'.changes <= max
<1>1. /\ used \in [changes : Nat, switches : Nat, losses : Nat]
      /\ used' = [used EXCEPT ![what] = @ + 1] /\ used[what] < max
  BY DEF Spend, TruthBounded
<1>2. CASE what = "changes"
  BY <1>1, <1>2
<1>3. CASE what = "switches"
  BY <1>1, <1>3
<1>4. CASE what = "losses"
  BY <1>1, <1>4
<1> QED
  BY <1>2, <1>3, <1>4

LEMMA MaxTyped ==
    MaxChanges \in Nat /\ MaxSwitches \in Nat /\ MaxLosses \in Nat /\ MaxMounts \in Nat
BY BoundsAssumption

LEMMA FramesInductive == ScreenInv /\ FramesInv /\ [Next]_vars => FramesInv'
<1> SUFFICES ASSUME ScreenInv, FramesInv, [Next]_vars PROVE FramesInv'
  OBVIOUS
<1>1. /\ TruthInv /\ PubInv /\ RestInv /\ ui \in Panel
      /\ TruthBounded /\ BuildOK /\ RequestsOK /\ FrameOK(ui)
  BY DEF ScreenInv, PanelInv, Consistent, FramesInv
<1>2. ui.pair \in Pairs /\ ui.timer \in BOOLEAN
  BY <1>1 DEF Panel
<1>3. ASSUME NEW p \in Pairs, Change(p) PROVE FramesInv'
  <2>1. PICK h \in BOOLEAN, step \in {0, 1} :
          truth' = [truth EXCEPT ![p] = [id |-> @.id + step, healthy |-> h]]
    BY <1>3 DEF Change
  <2>2. /\ used' \in [changes : Nat, switches : Nat, losses : Nat]
        /\ used'.changes = used.changes + 1 /\ used'.changes <= MaxChanges
    BY <1>1, <1>3, UsedOf, MaxTyped DEF Change
  <2>3. ASSUME NEW q \in Pairs PROVE truth'[q].id \in 0..(used'.changes + 1)
    <3>1. /\ truth[q].id \in 0..(used.changes + 1) /\ used.changes \in Nat
          /\ truth'[q].id = IF q = p THEN truth[q].id + step ELSE truth[q].id
      BY <1>1, <2>1 DEF TruthBounded, TruthInv
    <3> QED
      BY <2>2, <3>1
  <2>4. TruthBounded'
    BY <2>2, <2>3 DEF TruthBounded
  <2> QED
    BY <1>1, <1>3, <2>4 DEF Change, FramesInv, BuildOK, RequestsOK
<1>4. CASE Publish \/ Look
  <2>1. Built(ui.pair) \in Payload /\ Built(ui.pair).pair = ui.pair
    BY <1>1, <1>2, BuiltBounded
  <2>2. BuildOK'
    BY <1>1, <1>4, <2>1 DEF Publish, Look, PubInv, BuildOK
  <2> QED
    BY <1>1, <1>4, <2>2 DEF Publish, Look, FramesInv, TruthBounded, RequestsOK
<1>5. CASE Emit
  <2>1. BuildOK'
    <3>1. pub'.at \in {"started", "idle"} /\ pub'.book = None
      BY <1>1, <1>5 DEF Emit, NextRun, PubInv
    <3> QED
      BY <3>1 DEF BuildOK
  <2>2. TruthBounded' /\ RequestsOK'
    BY <1>1, <1>5 DEF Emit, TruthBounded, RequestsOK
  <2>3. FrameOK(ui)'
    <3>1. CASE ~conn
      BY <1>1, <1>5, <3>1 DEF Emit
    <3>2. CASE conn
      <4> DEFINE w == [ui EXCEPT !.age = 0, !.stale = FALSE]
      <4>1. PICK b \in Counted(pub.book) : \E u \in QueueBookPaint(w, b) : Shows(u)
        BY <1>5, <3>2 DEF Emit
      <4>2. PICK u \in QueueBookPaint(w, b) : Shows(u)
        BY <4>1
      <4>3. pub.book \in Payload /\ pub.book.pair = ui.pair
        BY <1>1, <1>5 DEF Emit, BuildOK
      <4>4. b \in Payload /\ b.pair = ui.pair
        BY <1>1, <1>2, <4>1, <4>3, BuiltBounded DEF Counted
      <4>5. b \in Book
        BY <4>4, MaxTyped DEF Payload, Book, Ids
      <4>6. w \in Panel /\ w.pair = ui.pair /\ FrameOK(w)
        BY <1>1 DEF Panel, FrameOK
      <4> HIDE DEF w
      <4>7. FrameOK(u)
        BY <4>2, <4>4, <4>5, <4>6, QueueFrame
      <4> QED
        BY <4>2, <4>7 DEF Shows
    <3> QED
      BY <3>1, <3>2
  <2>4. BuildOK' /\ TruthBounded' /\ RequestsOK' /\ FrameOK(ui)'
    BY <2>1, <2>2, <2>3
  <2> QED
    BY <2>4 DEF FramesInv
<1>6. CASE TimerFires
  <2> DEFINE w == [ui EXCEPT !.timer = FALSE]
  <2>1. /\ w \in Panel /\ w.timer = FALSE /\ w.pair = ui.pair /\ w.queued = ui.queued
    BY <1>1 DEF Panel
  <2>2. ui' = IF ui.queued = None THEN w ELSE PaintBook(w, ui.queued)
    BY <1>6 DEF TimerFires, Shows
  <2> HIDE DEF w
  <2>3. ui.queued # None /\ ui.queued \in Payload /\ ui.queued.pair = ui.pair
    BY <1>1, <1>6 DEF TimerFires, FrameOK
  <2>4. FrameOK(ui')
    BY <2>1, <2>2, <2>3, PaintFrame
  <2>5. ui'.pair = ui.pair
    <3> DEFINE d == [w EXCEPT !.queued = None, !.lastPainted = ui.queued.healthy]
    <3>1. d \in Panel /\ d.pair = w.pair
      BY <2>1, <2>3 DEF Panel, Payload
    <3>2. PaintBook(w, ui.queued) = HandleOrderBookData(d, ui.queued)
      BY DEF PaintBook
    <3> HIDE DEF d
    <3> QED
      BY <2>1, <2>2, <2>3, <3>1, <3>2, HandleLeavesFrame
  <2>6. BuildOK' /\ TruthBounded' /\ RequestsOK'
    BY <1>1, <1>6, <2>5 DEF TimerFires, BuildOK, TruthBounded, RequestsOK
  <2> QED
    BY <2>4, <2>6 DEF FramesInv
<1>7. ASSUME NEW p \in Pairs, SwitchPair(p) PROVE FramesInv'
  <2> DEFINE w == [Unsubscribed(ui) EXCEPT !.pair = p, !.health = "pending"]
  <2>1. w.queued = None /\ w.timer = FALSE
    BY <1>1 DEF Panel, Unsubscribed
  <2>2. ui' = w
    BY <1>7 DEF SwitchPair, Shows
  <2> HIDE DEF w
  <2>3. FrameOK(ui')
    BY <2>1, <2>2 DEF FrameOK
  <2>4. BuildOK'
    BY <1>7 DEF SwitchPair, Idle, BuildOK
  <2>5. TruthBounded'
    <3>1. used' \in [changes : Nat, switches : Nat, losses : Nat] /\ used'.changes = used.changes
      BY <1>1, <1>7, UsedOf, MaxTyped DEF SwitchPair
    <3> QED
      BY <1>1, <1>7, <3>1 DEF SwitchPair, TruthBounded
  <2>6. RequestsOK'
    <3>1. rest' = rest \cup {Fetch("mount", p)}
      BY <1>7 DEF SwitchPair
    <3>2. Fetch("mount", p).kind = "mount" /\ Fetch("mount", p).book = None
      BY DEF Fetch
    <3> QED
      BY <1>1, <3>1, <3>2 DEF RequestsOK
  <2> QED
    BY <2>3, <2>4, <2>5, <2>6 DEF FramesInv
<1>8. CASE Lose \/ Restored
  <2>1. TruthBounded'
    <3>1. used' = used \/ (/\ used' \in [changes : Nat, switches : Nat, losses : Nat]
                           /\ used'.changes = used.changes)
      BY <1>1, <1>8, UsedOf, MaxTyped DEF Lose, Restored
    <3> QED
      BY <1>1, <1>8, <3>1 DEF Lose, Restored, TruthBounded
  <2>2. RequestsOK'
    <3>1. rest' = rest \/ rest' = rest \cup {Fetch("mount", ui.pair)}
      BY <1>8 DEF Lose, Restored
    <3>2. Fetch("mount", ui.pair).kind = "mount" /\ Fetch("mount", ui.pair).book = None
      BY DEF Fetch
    <3> QED
      BY <1>1, <3>1, <3>2 DEF RequestsOK
  <2>3. pub' = pub /\ ui' = ui
    BY <1>8 DEF Lose, Restored
  <2> QED
    BY <1>1, <2>1, <2>2, <2>3 DEF FramesInv, BuildOK
<1>9. CASE Snapshot
  <2>1. PICK f \in rest : Answer(f) \/ Arrive(f) \/ FetchFails(f)
    BY <1>9 DEF Snapshot
  <2>2. /\ f = [kind |-> f.kind, pair |-> f.pair, book |-> f.book] /\ f.pair \in Pairs
        /\ f.book \in Payload \cup {None}
    BY <1>1 DEF RestInv, RequestsOK
  <2>3. RequestsOK'
    <3> DEFINE g == [f EXCEPT !.book = Built(f.pair)]
    <3>1. rest' = (rest \ {f}) \cup {g} \/ rest' = rest \ {f}
      BY <2>1 DEF Answer, Arrive, FetchFails
    <3>2. g.kind = f.kind /\ g.book = Built(f.pair)
      BY <2>2
    <3>3. Built(f.pair) \in Payload
      BY <1>1, <2>2, BuiltBounded
    <3> HIDE DEF g
    <3> QED
      BY <1>1, <3>1, <3>2, <3>3 DEF RequestsOK
  <2>4. FrameOK(ui)' /\ ui'.pair = ui.pair
    <3>1. CASE ui' = ui
      BY <1>1, <3>1
    <3>2. CASE Arrive(f)
      <4> DEFINE w == [ui EXCEPT !.age = IF f.kind = "resync" THEN 0 ELSE @]
      <4>1. /\ w \in Panel /\ w.queued = ui.queued /\ w.timer = ui.timer
            /\ w.pair = ui.pair /\ w.lastPainted = ui.lastPainted
        BY <1>1 DEF Panel
      <4>2. ui' = HandleOrderBookData(w, f.book)
        BY <3>2 DEF Arrive, Shows
      <4> HIDE DEF w
      <4>3. /\ ui'.queued = ui.queued /\ ui'.timer = ui.timer
            /\ ui'.pair = ui.pair /\ ui'.lastPainted = ui.lastPainted
        BY <4>1, <4>2, HandleLeavesFrame
      <4> QED
        BY <1>1, <4>3 DEF FrameOK
    <3> QED
      BY <2>1, <3>1, <3>2 DEF Answer, FetchFails
  <2>5. BuildOK' /\ TruthBounded'
    BY <1>1, <2>1, <2>4 DEF Answer, Arrive, FetchFails, BuildOK, TruthBounded
  <2> QED
    BY <2>3, <2>4, <2>5 DEF FramesInv
<1>10. CASE Watchdog \/ Age
  <2>1. /\ ui'.queued = ui.queued /\ ui'.timer = ui.timer
        /\ ui'.pair = ui.pair /\ ui'.lastPainted = ui.lastPainted
    BY <1>1, <1>10 DEF Watchdog, Age, Shows, Panel
  <2>2. RequestsOK'
    <3>1. \/ rest' = rest
          \/ ~Resyncing /\ rest' = rest \cup {Fetch("resync", ui.pair)}
      BY <1>10 DEF Watchdog, Age
    <3>2. Fetch("resync", ui.pair).book = None
      BY DEF Fetch
    <3> QED
      BY <1>1, <3>1, <3>2 DEF RequestsOK, Resyncing
  <2>3. FrameOK(ui)'
    BY <1>1, <2>1 DEF FrameOK
  <2> QED
    BY <1>1, <1>10, <2>1, <2>2, <2>3 DEF Watchdog, Age, FramesInv, BuildOK, TruthBounded
<1>11. CASE UNCHANGED vars
  BY <1>1, <1>11 DEF vars, FramesInv, TruthBounded, BuildOK, RequestsOK
<1> QED
  BY <1>3, <1>4, <1>5, <1>6, <1>7, <1>8, <1>9, <1>10, <1>11 DEF Next

\* Everything has its shape: a build under way is of the pair shown, a frame waits only
\* for a timer to paint it and with the verdict already painted, and one resync is under
\* way at most; for any number of pairs, changes, switches, losses and snapshots.
THEOREM DisplayTyped == Spec => []TypeOK
<1>1. ScreenInv /\ FramesInv => TypeOK
  <2> SUFFICES ASSUME ScreenInv, FramesInv PROVE TypeOK
    OBVIOUS
  <2>1. truth \in [Pairs -> [id : Ids, healthy : BOOLEAN]]
    <3>1. truth \in [Pairs -> [id : Nat, healthy : BOOLEAN]]
      BY DEF ScreenInv, TruthInv
    <3>2. \A p \in Pairs : truth[p].id \in Ids
      BY MaxTyped DEF FramesInv, TruthBounded, Ids
    <3> QED
      BY <3>1, <3>2
  <2>2. /\ pub.at \in {"idle", "started", "counting"} /\ pub.book \in Payload \cup {None}
        /\ pub.at = "counting" => pub.book # None
        /\ pub.at # "counting" => pub.book = None
    BY NoPayloadAssumption DEF ScreenInv, PubInv, FramesInv, BuildOK
  <2>3. \A f \in rest : f.pair \in Pairs /\ f.book \in Payload \cup {None}
    BY DEF ScreenInv, RestInv, FramesInv, RequestsOK
  <2>4. Cardinality({f \in rest : f.kind = "resync"}) <= 1
    <3> DEFINE S == {f \in rest : f.kind = "resync"}
    <3>1. \A f, g \in S : f = g
      BY DEF FramesInv, RequestsOK
    <3>2. S = {} \/ \E f : S = {f}
      BY <3>1
    <3> HIDE DEF S
    <3>3. Cardinality(S) = 0 \/ Cardinality(S) = 1
      BY <3>2, FS_EmptySet, FS_Singleton
    <3> QED
      BY <3>3 DEF S
  <2>5. ui.health \in {"pending", "healthy", "unhealthy"}
    BY DEF ScreenInv, PanelInv, Consistent, Panel, Verdicts
  <2>6. /\ (ui.queued # None) = ui.timer
        /\ ui.queued # None => ui.queued.pair = ui.pair /\ ui.queued.healthy = ui.lastPainted
    BY DEF FramesInv, FrameOK
  <2>7. (pub.book # None) = (pub.at = "counting")
    BY <2>2
  <2> QED
    BY <2>1, <2>2, <2>3, <2>4, <2>5, <2>6, <2>7 DEF TypeOK
<1> QED
  BY <1>1, ScreenInvariant, FramesInit, FramesInductive, PTL DEF Spec
=============================================================================
