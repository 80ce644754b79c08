------------------------- MODULE PaperLadder_proofs -------------------------
(***************************************************************************)
(* With one pair visited by the cron, and any number dropped from its      *)
(* list: the matcher fills only from a ladder its own tick built, and what *)
(* the gate accepts has rows to take, whatever redis refuses and whenever. *)
(***************************************************************************)
EXTENDS PaperLadder, TLAPS

\* The cron's list has one pair.  With a second one the sweep of orphans can take a
\* ladder whose own tick is writing it, and neither property holds.
OneVisited == \A p, q \in Visited : p = q

-----------------------------------------------------------------------------
\* The inductive invariant, pair by pair.

Reading(p) == tick[p].at \in {"read_buys", "read_sells", "matching", "relist"}
Clearing(p) == tick[p].at \in {"list", "delete"}
Replacing(p) ==
    \/ tick[p].at \in {"replace", "write"}
    \/ Clearing(p) /\ tick[p].back = "write"

\* The row a fill has taken out and not yet put back.
Out(p) == IF tick[p].at = "relist" THEN tick[p].left ELSE {}

\* A tick has read nothing, and built nothing, before it gets to the matcher; and it
\* does not sweep its own pair.
FreshAt(p) ==
    /\ p \notin tick[p].todo
    /\ ~Reading(p) => tick[p].seen = {} /\ tick[p].built = None
    /\ Replacing(p) => tick[p].gen \in Generations

\* Of the ladder being cleared: whose it is, that nobody believes in it unless it is
\* about to be replaced, and which of its rows may still be there.
ClearAt(p) ==
    LET t == tick[p]
    IN Clearing(p) =>
          /\ t.target \in Pairs /\ t.back # "idle"
          /\ t.back = "sweep" <=> t.target # p
          /\ t.back # "write" => ladder[t.target] = {}
          /\ \A r \in rows[t.target] :
                IF t.at = "list" THEN t.side = "buy" \/ r[2] = "sell"
                ELSE r \in t.left \/ (t.side = "buy" /\ r[2] = "sell")

\* What is being written lies on an empty book.
WriteAt(p) ==
    LET t == tick[p]
    IN t.at = "write" =>
          /\ rows[p] \cup t.left \subseteq RowsOf(t.gen, Sides)
          /\ RowsOf(t.gen, t.sides) \subseteq rows[p] \cup t.left

\* What the matcher may meet is this tick's own ladder.
ReadAt(p) ==
    Reading(p) =>
        \/ torn[p]
        \/ /\ rows[p] \cup tick[p].seen \cup Out(p)
                 \subseteq RowsOf(tick[p].built, Sides)
           /\ tick[p].built # None => lastIds[p] = tick[p].built

\* A ladder known to be gone is gone.
GoneAt(p) ==
    p \in purged /\ lastIds[p] = None =>
        \/ rows[p] = {} \/ torn[p]
        \/ tick[p].at = "write"
        \/ Clearing(p) /\ tick[p].back = "read_buys"

\* Two ladders never rest in one book.
OneGenAt(p) ==
    \E g \in Generations :
        rows[p] \cup tick[p].seen \cup Out(p) \subseteq RowsOf(g, Sides)

\* What the process believes in is there.
BackedAt(p) ==
    \A s \in ladder[p] :
        \/ <<lastIds[p], s>> \in rows[p] \cup Out(p)
        \/ s \in eaten[p] \/ Syncing(p)

InertAt(p) == p \notin Visited => tick[p] = IdleTick

PairInv(p) ==
    /\ InertAt(p) /\ FreshAt(p) /\ ClearAt(p) /\ WriteAt(p) /\ ReadAt(p)
    /\ p \in Visited => GoneAt(p)
    /\ OneGenAt(p) /\ BackedAt(p)

LadderInv == TypeOK /\ \A p \in Pairs : PairInv(p)

LEMMA Busy ==
    ASSUME LadderInv, NEW p \in Pairs, tick[p].at # "idle"
    PROVE  p \in Visited
BY DEF LadderInv, PairInv, InertAt, IdleTick

\* A pair the step leaves alone, but for rows that go and a belief that ends.
LEMMA RestKeeps ==
    ASSUME LadderInv, NEW q \in Pairs, q \notin Visited,
           tick'[q] = tick[q], rows'[q] \subseteq rows[q],
           \/ ladder'[q] = {}
           \/ UNCHANGED <<rows[q], ladder[q], lastIds[q], eaten[q]>>
    PROVE  PairInv(q)'
<1>1. tick'[q] = IdleTick /\ tick[q] = IdleTick
  BY DEF LadderInv, PairInv, InertAt
<1>2. /\ tick'[q].at = "idle" /\ tick'[q].todo = {}
      /\ tick'[q].seen = {} /\ tick'[q].built = None
  BY <1>1 DEF IdleTick
<1>3. InertAt(q)' /\ FreshAt(q)' /\ ClearAt(q)' /\ WriteAt(q)' /\ ReadAt(q)'
  BY <1>1, <1>2 DEF InertAt, FreshAt, ClearAt, WriteAt, ReadAt, Reading, Clearing,
                    Replacing
<1>4. OneGenAt(q)'
  BY <1>1, <1>2 DEF LadderInv, PairInv, OneGenAt, Out
<1>5. BackedAt(q)'
  BY <1>1, <1>2 DEF LadderInv, PairInv, BackedAt, Out, Syncing
<1> QED
  BY <1>3, <1>4, <1>5 DEF PairInv

LEMMA Composes ==
    ASSUME LadderInv, OneVisited, NEW p \in Visited, TypeOK', PairInv(p)',
           \A q \in Pairs : q # p =>
              /\ tick'[q] = tick[q] /\ rows'[q] \subseteq rows[q]
              /\ \/ ladder'[q] = {}
                 \/ UNCHANGED <<rows[q], ladder[q], lastIds[q], eaten[q]>>
    PROVE  LadderInv'
<1>1. ASSUME NEW q \in Pairs PROVE PairInv(q)'
  <2>1. CASE q = p
    BY <2>1
  <2>2. CASE q # p
    <3>1. q \notin Visited
      BY <2>2 DEF OneVisited
    <3> QED
      BY <2>2, <3>1, RestKeeps
  <2> QED
    BY <2>1, <2>2
<1> QED
  BY <1>1 DEF LadderInv

LEMMA TickTyped ==
    ASSUME tick \in [Pairs -> Tick], NEW p \in Pairs, NEW t \in Tick,
           tick' = [tick EXCEPT ![p] = t]
    PROVE  /\ tick' \in [Pairs -> Tick] /\ tick'[p] = t
           /\ \A q \in Pairs : q # p => tick'[q] = tick[q]
OBVIOUS

\* A step that moves the tick of p and nothing else of the model.
LEMMA OnlyTick ==
    ASSUME LadderInv, OneVisited, NEW p \in Visited, NEW u \in Tick,
           tick' = [tick EXCEPT ![p] = u],
           UNCHANGED <<rows, memory, depth, ghosts>>, faults' \in 0..MaxFaults
    PROVE  tick'[p] = u /\ (PairInv(p)' => LadderInv')
<1>1. /\ tick' \in [Pairs -> Tick] /\ tick'[p] = u
      /\ \A q \in Pairs : q # p => tick'[q] = tick[q]
  BY VisitedAssumption, TickTyped DEF LadderInv, TypeOK
<1>2. TypeOK'
  BY <1>1 DEF LadderInv, TypeOK, memory, ghosts
<1>3. ASSUME PairInv(p)' PROVE LadderInv'
  <2>1. UNCHANGED <<rows, ladder, lastIds, eaten>>
    BY DEF memory, ghosts
  <2> QED
    BY <1>1, <1>2, <1>3, <2>1, Composes
<1> QED
  BY <1>1, <1>3

\* A step that moves the tick of p and its rows.
LEMMA TickAndRows ==
    ASSUME LadderInv, OneVisited, NEW p \in Visited, NEW u \in Tick,
           tick' = [tick EXCEPT ![p] = u],
           NEW q \in Pairs, NEW R \in SUBSET Row, rows' = [rows EXCEPT ![q] = R],
           q # p => R \subseteq rows[q] /\ ladder[q] = {},
           UNCHANGED <<memory, depth, faults, torn>>,
           eaten' \in [Pairs -> SUBSET Sides],
           \A x \in Pairs : x # p => eaten'[x] = eaten[x]
    PROVE  /\ tick'[p] = u /\ rows'[q] = R
           /\ \A x \in Pairs : x # q => rows'[x] = rows[x]
           /\ PairInv(p)' => LadderInv'
<1>1. /\ tick' \in [Pairs -> Tick] /\ tick'[p] = u
      /\ \A x \in Pairs : x # p => tick'[x] = tick[x]
  BY VisitedAssumption, TickTyped DEF LadderInv, TypeOK
<1>2. /\ rows' \in [Pairs -> SUBSET Row] /\ rows'[q] = R
      /\ \A x \in Pairs : x # q => rows'[x] = rows[x]
  BY DEF LadderInv, TypeOK
<1>3. TypeOK'
  BY <1>1, <1>2 DEF LadderInv, TypeOK, memory
<1>4. ASSUME PairInv(p)' PROVE LadderInv'
  <2>1. ladder' = ladder /\ lastIds' = lastIds
    BY DEF memory
  <2>2. ASSUME NEW x \in Pairs, x # p
        PROVE  /\ tick'[x] = tick[x] /\ rows'[x] \subseteq rows[x]
               /\ \/ ladder'[x] = {}
                  \/ UNCHANGED <<rows[x], ladder[x], lastIds[x], eaten[x]>>
    BY <1>1, <1>2, <2>1, <2>2
  <2> QED
    BY <1>3, <1>4, <2>2, Composes
<1> QED
  BY <1>1, <1>2, <1>4

LEMMA TickAndOwnRows ==
    ASSUME LadderInv, OneVisited, NEW p \in Visited, NEW u \in Tick,
           tick' = [tick EXCEPT ![p] = u],
           NEW R \in SUBSET Row, rows' = [rows EXCEPT ![p] = R],
           UNCHANGED <<memory, depth, faults, torn>>,
           eaten' \in [Pairs -> SUBSET Sides],
           \A x \in Pairs : x # p => eaten'[x] = eaten[x]
    PROVE  tick'[p] = u /\ rows'[p] = R /\ (PairInv(p)' => LadderInv')
<1>1. /\ tick' \in [Pairs -> Tick] /\ tick'[p] = u
      /\ \A x \in Pairs : x # p => tick'[x] = tick[x]
  BY VisitedAssumption, TickTyped DEF LadderInv, TypeOK
<1>2. /\ rows' \in [Pairs -> SUBSET Row] /\ rows'[p] = R
      /\ \A x \in Pairs : x # p => rows'[x] = rows[x]
  BY VisitedAssumption DEF LadderInv, TypeOK
<1>3. TypeOK'
  BY <1>1, <1>2 DEF LadderInv, TypeOK, memory
<1>4. ASSUME PairInv(p)' PROVE LadderInv'
  <2>1. ladder' = ladder /\ lastIds' = lastIds
    BY DEF memory
  <2> QED
    BY <1>1, <1>2, <1>3, <1>4, <2>1, Composes
<1> QED
  BY <1>1, <1>2, <1>4

-----------------------------------------------------------------------------
\* Clearing.

LEMMA ListSideKeeps ==
    ASSUME LadderInv, OneVisited, NEW p \in Pairs, ListSide(p)
    PROVE  LadderInv'
<1> DEFINE t == tick[p]
           left == {r \in rows[t.target] : r[2] = t.side}
           u == [t EXCEPT !.at = "delete", !.left = left]
<1>1. p \in Visited /\ t \in Tick /\ t.at = "list" /\ t.target \in Pairs /\ PairInv(p)
  BY Busy DEF ListSide, At, LadderInv, TypeOK, PairInv, ClearAt, Clearing
<1>2. left \subseteq Row
  BY <1>1 DEF LadderInv, TypeOK
<1>3. u \in Tick
  BY <1>1, <1>2 DEF Tick
<1>4. /\ u.at = "delete" /\ u.left = left /\ u.target = t.target /\ u.back = t.back
      /\ u.side = t.side /\ u.gen = t.gen /\ u.sides = t.sides
      /\ u.seen = t.seen /\ u.built = t.built /\ u.todo = t.todo
  BY <1>1 DEF Tick
<1>5. tick' = [tick EXCEPT ![p] = u]
  BY <1>1 DEF ListSide, LadderInv, TypeOK
<1> HIDE DEF u
<1>6. UNCHANGED <<rows, memory, depth, faults, ghosts>>
  BY DEF ListSide
<1>7. tick'[p] = u /\ (PairInv(p)' => LadderInv')
  BY <1>1, <1>3, <1>5, <1>6, OnlyTick DEF LadderInv, TypeOK
<1>8. InertAt(p)' /\ FreshAt(p)' /\ WriteAt(p)' /\ ReadAt(p)'
  BY <1>1, <1>4, <1>6, <1>7
     DEF PairInv, InertAt, FreshAt, WriteAt, ReadAt, Reading, Clearing, Replacing
<1>9. ClearAt(p)'
  BY <1>1, <1>4, <1>6, <1>7
     DEF PairInv, ClearAt, Clearing, memory, Sides, Tick, LadderInv, TypeOK, Row
<1>10. GoneAt(p)' /\ OneGenAt(p)' /\ BackedAt(p)'
  BY <1>1, <1>4, <1>6, <1>7
     DEF PairInv, GoneAt, OneGenAt, BackedAt, Out, Syncing, Clearing, memory, ghosts
<1> QED
  BY <1>7, <1>8, <1>9, <1>10 DEF PairInv

LEMMA NextSideKeeps ==
    ASSUME LadderInv, OneVisited, NEW p \in Pairs, NextSide(p)
    PROVE  LadderInv'
<1> DEFINE t == tick[p]
           u == [t EXCEPT !.at = "list", !.side = "sell"]
<1>1. /\ p \in Visited /\ t \in Tick /\ PairInv(p)
      /\ t.at = "delete" /\ t.left = {} /\ t.side = "buy"
  BY Busy DEF NextSide, At, LadderInv, TypeOK
<1>2. u \in Tick
  BY <1>1 DEF Tick, Sides
<1>3. /\ u.at = "list" /\ u.left = t.left /\ u.target = t.target /\ u.back = t.back
      /\ u.side = "sell" /\ u.gen = t.gen /\ u.sides = t.sides
      /\ u.seen = t.seen /\ u.built = t.built /\ u.todo = t.todo
  BY <1>1 DEF Tick
<1>4. tick' = [tick EXCEPT ![p] = u]
  BY <1>1 DEF NextSide, LadderInv, TypeOK
<1> HIDE DEF u
<1>5. UNCHANGED <<rows, memory, depth, faults, ghosts>>
  BY DEF NextSide
<1>6. tick'[p] = u /\ (PairInv(p)' => LadderInv')
  BY <1>1, <1>2, <1>4, <1>5, OnlyTick DEF LadderInv, TypeOK
<1>7. InertAt(p)' /\ FreshAt(p)' /\ WriteAt(p)' /\ ReadAt(p)'
  BY <1>1, <1>3, <1>5, <1>6
     DEF PairInv, InertAt, FreshAt, WriteAt, ReadAt, Reading, Clearing, Replacing
<1>8. ClearAt(p)'
  BY <1>1, <1>3, <1>5, <1>6 DEF PairInv, ClearAt, Clearing, memory
<1>9. GoneAt(p)' /\ OneGenAt(p)' /\ BackedAt(p)'
  BY <1>1, <1>3, <1>5, <1>6
     DEF PairInv, GoneAt, OneGenAt, BackedAt, Out, Syncing, Clearing, memory, ghosts
<1> QED
  BY <1>6, <1>7, <1>8, <1>9 DEF PairInv

LEMMA DeleteRowKeeps ==
    ASSUME LadderInv, OneVisited, NEW p \in Pairs, DeleteRow(p)
    PROVE  LadderInv'
<1> DEFINE t == tick[p]
           q == t.target
<1>1. PICK r \in t.left : /\ rows' = [rows EXCEPT ![q] = @ \ {r}]
                          /\ tick' = [tick EXCEPT ![p].left = @ \ {r}]
  BY DEF DeleteRow
<1> DEFINE u == [t EXCEPT !.left = @ \ {r}]
           R == rows[q] \ {r}
<1>2. p \in Visited /\ t \in Tick /\ PairInv(p) /\ t.at = "delete"
  BY Busy DEF DeleteRow, At, LadderInv, TypeOK
<1>3. /\ q \in Pairs /\ (q = p \/ t.back # "write")
      /\ t.back # "write" => ladder[q] = {}
  BY <1>2 DEF PairInv, ClearAt, Clearing
<1>4. u \in Tick /\ R \in SUBSET Row
  BY <1>2, <1>3 DEF Tick, LadderInv, TypeOK
<1>5. /\ u.at = "delete" /\ u.left = t.left \ {r} /\ u.target = t.target
      /\ u.back = t.back /\ u.side = t.side /\ u.gen = t.gen /\ u.sides = t.sides
      /\ u.seen = t.seen /\ u.built = t.built /\ u.todo = t.todo
  BY <1>2 DEF Tick
<1>6. tick' = [tick EXCEPT ![p] = u] /\ rows' = [rows EXCEPT ![q] = R]
  BY <1>1, <1>2, <1>3 DEF LadderInv, TypeOK
<1>7. R \subseteq rows[q]
  OBVIOUS
<1> HIDE DEF u, R
<1>8. UNCHANGED <<memory, depth, faults, ghosts>>
  BY DEF DeleteRow
<1>9. /\ tick'[p] = u /\ rows'[q] = R /\ (q # p => rows'[p] = rows[p])
      /\ PairInv(p)' => LadderInv'
  <2> HIDE DEF q
  <2>1. UNCHANGED <<memory, depth, faults, torn>>
    BY <1>8 DEF ghosts
  <2>2. eaten' = eaten /\ eaten' \in [Pairs -> SUBSET Sides]
    BY <1>8 DEF ghosts, LadderInv, TypeOK
  <2>3. \A x \in Pairs : x # p => eaten'[x] = eaten[x]
    BY <2>2
  <2>4. q # p => R \subseteq rows[q] /\ ladder[q] = {}
    BY <1>3, <1>7
  <2>5. p \in Pairs /\ q \in Pairs
    BY <1>3
  <2>6. /\ tick'[p] = u /\ rows'[q] = R
        /\ \A x \in Pairs : x # q => rows'[x] = rows[x]
        /\ PairInv(p)' => LadderInv'
    BY <1>2, <1>3, <1>4, <1>6, <2>1, <2>2, <2>3, <2>4, TickAndRows
  <2> QED
    BY <2>5, <2>6
<1>10. R = rows[q] \ {r}
  BY DEF R
<1>11. InertAt(p)' /\ FreshAt(p)' /\ WriteAt(p)' /\ ReadAt(p)'
  BY <1>2, <1>5, <1>8, <1>9
     DEF PairInv, InertAt, FreshAt, WriteAt, ReadAt, Reading, Clearing, Replacing
<1>12. ClearAt(p)'
  BY <1>2, <1>5, <1>8, <1>9, <1>10 DEF PairInv, ClearAt, Clearing, memory
<1>13. rows'[p] \subseteq rows[p]
  BY <1>7, <1>9
<1>14. GoneAt(p)' /\ OneGenAt(p)'
  BY <1>2, <1>5, <1>8, <1>9, <1>13
     DEF PairInv, GoneAt, OneGenAt, Out, Clearing, memory, ghosts
<1>15. BackedAt(p)'
  BY <1>2, <1>3, <1>5, <1>8, <1>9
     DEF PairInv, BackedAt, Out, Syncing, memory, ghosts
<1> QED
  BY <1>9, <1>11, <1>12, <1>14, <1>15 DEF PairInv

LEMMA EndPurgeKeeps ==
    ASSUME LadderInv, OneVisited, NEW p \in Pairs, EndPurge(p)
    PROVE  LadderInv'
<1> DEFINE t == tick[p]
           q == t.target
           u == [t EXCEPT !.at = t.back]
<1>1. /\ p \in Visited /\ t \in Tick /\ PairInv(p) /\ t.at = "delete"
      /\ t.left = {} /\ t.side = "sell" /\ t.back # "write"
  BY Busy DEF EndPurge, Cleared, At, LadderInv, TypeOK
<1>2. /\ q \in Pairs /\ t.back \in {"sweep", "read_buys"} /\ rows[q] = {}
      /\ t.back = "sweep" <=> q # p
  BY <1>1 DEF PairInv, ClearAt, Clearing, Tick
<1>3. u \in Tick
  BY <1>1, <1>2 DEF Tick
<1>4. /\ u.at = t.back /\ u.left = t.left /\ u.target = t.target
      /\ u.back = t.back /\ u.side = t.side /\ u.gen = t.gen /\ u.sides = t.sides
      /\ u.seen = t.seen /\ u.built = t.built /\ u.todo = t.todo
  BY <1>1 DEF Tick
<1>5. tick' = [tick EXCEPT ![p] = u]
  BY <1>1 DEF EndPurge, Goto, LadderInv, TypeOK
<1> HIDE DEF u
<1>6. /\ tick' \in [Pairs -> Tick] /\ tick'[p] = u
      /\ \A x \in Pairs : x # p => tick'[x] = tick[x]
  BY <1>3, <1>5, TickTyped DEF LadderInv, TypeOK
<1>7. /\ ladder' = [ladder EXCEPT ![q] = {}] /\ lastIds' = [lastIds EXCEPT ![q] = None]
      /\ torn' = [torn EXCEPT ![q] = FALSE] /\ purged' = purged \cup {q}
      /\ lastSyncAt' = [lastSyncAt EXCEPT ![q] = None]
      /\ UNCHANGED <<rows, depth, faults, eaten>>
  BY DEF EndPurge
<1> HIDE DEF q
<1>8. TypeOK'
  BY <1>2, <1>6, <1>7 DEF LadderInv, TypeOK
<1>9. /\ ladder'[q] = {}
      /\ \A x \in Pairs : x # q => ladder'[x] = ladder[x] /\ lastIds'[x] = lastIds[x]
                                   /\ torn'[x] = torn[x]
  BY <1>2, <1>7 DEF LadderInv, TypeOK
<1>10. InertAt(p)' /\ FreshAt(p)' /\ ClearAt(p)' /\ WriteAt(p)' /\ OneGenAt(p)'
  BY <1>1, <1>2, <1>4, <1>6, <1>7
     DEF PairInv, InertAt, FreshAt, ClearAt, WriteAt, OneGenAt, Out, Reading, Clearing,
         Replacing
<1>11. ReadAt(p)' /\ GoneAt(p)'
  <2>1. CASE q = p
    BY <1>1, <1>2, <1>4, <1>6, <1>7, <2>1
       DEF PairInv, FreshAt, ReadAt, GoneAt, Out, Reading, Clearing
  <2>2. CASE q # p
    BY <1>1, <1>2, <1>4, <1>6, <1>7, <1>9, <2>2
       DEF PairInv, FreshAt, ReadAt, GoneAt, Reading, Clearing
  <2> QED
    BY <2>1, <2>2
<1>12. BackedAt(p)'
  BY <1>1, <1>2, <1>4, <1>6, <1>7, <1>9 DEF PairInv, BackedAt, Out, Syncing
<1>13. ASSUME NEW x \in Pairs, x # p
       PROVE  /\ tick'[x] = tick[x] /\ rows'[x] \subseteq rows[x]
              /\ \/ ladder'[x] = {}
                 \/ UNCHANGED <<rows[x], ladder[x], lastIds[x], eaten[x]>>
  BY <1>6, <1>7, <1>9, <1>13
<1> QED
  BY <1>1, <1>8, <1>10, <1>11, <1>12, <1>13, Composes DEF PairInv

LEMMA PurgeFailsKeeps ==
    ASSUME LadderInv, OneVisited, NEW p \in Pairs, PurgeFails(p)
    PROVE  LadderInv'
<1> DEFINE t == tick[p]
           q == t.target
           u == [t EXCEPT !.at = t.back, !.left = {}]
<1>1. /\ p \in Visited /\ t \in Tick /\ PairInv(p) /\ t.at \in {"list", "delete"}
      /\ t.back # "write"
  BY Busy DEF PurgeFails, LadderInv, TypeOK
<1>2. /\ q \in Pairs /\ t.back \in {"sweep", "read_buys"}
      /\ t.back = "sweep" <=> q # p
  BY <1>1 DEF PairInv, ClearAt, Clearing, Tick
<1>3. u \in Tick
  BY <1>1, <1>2 DEF Tick
<1>4. /\ u.at = t.back /\ u.left = {} /\ u.target = t.target
      /\ u.back = t.back /\ u.side = t.side /\ u.gen = t.gen /\ u.sides = t.sides
      /\ u.seen = t.seen /\ u.built = t.built /\ u.todo = t.todo
  BY <1>1 DEF Tick
<1>5. tick' = [tick EXCEPT ![p] = u]
  BY <1>1 DEF PurgeFails, LadderInv, TypeOK
<1> HIDE DEF u
<1>6. /\ tick' \in [Pairs -> Tick] /\ tick'[p] = u
      /\ \A x \in Pairs : x # p => tick'[x] = tick[x]
  BY <1>3, <1>5, TickTyped DEF LadderInv, TypeOK
<1>7. /\ torn' = [torn EXCEPT ![q] = TRUE] /\ faults' \in 0..MaxFaults
      /\ UNCHANGED <<rows, memory, depth, eaten>>
  BY FaultsAssumption DEF PurgeFails, Refused, LadderInv, TypeOK
<1> HIDE DEF q
<1>8. TypeOK'
  BY <1>2, <1>6, <1>7 DEF LadderInv, TypeOK, memory
<1>9. torn'[q] /\ (q # p => torn'[p] = torn[p])
  BY <1>2, <1>7 DEF LadderInv, TypeOK
<1>10. InertAt(p)' /\ FreshAt(p)' /\ ClearAt(p)' /\ WriteAt(p)' /\ OneGenAt(p)'
  BY <1>1, <1>2, <1>4, <1>6, <1>7
     DEF PairInv, InertAt, FreshAt, ClearAt, WriteAt, OneGenAt, Out, Reading, Clearing,
         Replacing
<1>11. ReadAt(p)' /\ GoneAt(p)'
  <2>1. CASE q = p
    BY <1>9, <2>1 DEF ReadAt, GoneAt
  <2>2. CASE q # p
    BY <1>1, <1>2, <1>4, <1>6, <1>7, <1>9, <2>2
       DEF PairInv, ReadAt, GoneAt, Reading, Clearing, memory
  <2> QED
    BY <2>1, <2>2
<1>12. BackedAt(p)'
  BY <1>1, <1>2, <1>4, <1>6, <1>7 DEF PairInv, BackedAt, Out, Syncing, memory
<1>13. UNCHANGED <<rows, ladder, lastIds, eaten>>
  BY <1>7 DEF memory
<1> QED
  BY <1>1, <1>6, <1>8, <1>10, <1>11, <1>12, <1>13, Composes DEF PairInv

-----------------------------------------------------------------------------
\* The sweep.

LEMMA StartTickKeeps ==
    ASSUME LadderInv, OneVisited, NEW p \in Pairs, StartTick(p)
    PROVE  LadderInv'
<1> DEFINE t == tick[p]
           todo == {q \in Pairs \ {p} : lastSyncAt[q] = 2}
           u == [IdleTick EXCEPT !.at = "sweep", !.todo = todo]
<1>1. /\ p \in Visited /\ t \in Tick /\ PairInv(p) /\ t.at = "idle"
  BY DEF StartTick, At, LadderInv, TypeOK
<1>2. u \in Tick
  BY DEF Tick, IdleTick, Sides
<1>3. u.at = "sweep" /\ u.left = {} /\ u.seen = {} /\ u.built = None /\ p \notin u.todo
  BY DEF IdleTick
<1>4. tick' = [tick EXCEPT ![p] = u]
  BY DEF StartTick
<1> HIDE DEF u
<1>5. UNCHANGED <<rows, memory, depth, faults, ghosts>>
  BY DEF StartTick
<1>6. tick'[p] = u /\ (PairInv(p)' => LadderInv')
  BY <1>1, <1>2, <1>4, <1>5, OnlyTick DEF LadderInv, TypeOK
<1>7. InertAt(p)' /\ FreshAt(p)' /\ ClearAt(p)' /\ WriteAt(p)' /\ ReadAt(p)'
  BY <1>1, <1>3, <1>6
     DEF InertAt, FreshAt, ClearAt, WriteAt, ReadAt, Reading, Clearing, Replacing
<1>8. GoneAt(p)' /\ OneGenAt(p)' /\ BackedAt(p)'
  BY <1>1, <1>3, <1>5, <1>6
     DEF PairInv, GoneAt, OneGenAt, BackedAt, Out, Syncing, Clearing, memory, ghosts
<1> QED
  BY <1>6, <1>7, <1>8 DEF PairInv

LEMMA EndSweepKeeps ==
    ASSUME LadderInv, OneVisited, NEW p \in Pairs, EndSweep(p)
    PROVE  LadderInv'
<1> DEFINE t == tick[p]
           u == [t EXCEPT !.at = "decide"]
<1>1. p \in Visited /\ t \in Tick /\ PairInv(p) /\ t.at = "sweep"
  BY Busy DEF EndSweep, At, LadderInv, TypeOK
<1>2. u \in Tick
  BY <1>1 DEF Tick
<1>3. /\ u.at = "decide" /\ u.left = t.left /\ u.target = t.target
      /\ u.seen = t.seen /\ u.built = t.built /\ u.todo = t.todo
  BY <1>1 DEF Tick
<1>4. tick' = [tick EXCEPT ![p] = u]
  BY <1>1 DEF EndSweep, Goto, LadderInv, TypeOK
<1> HIDE DEF u
<1>5. UNCHANGED <<rows, memory, depth, faults, ghosts>>
  BY DEF EndSweep
<1>6. tick'[p] = u /\ (PairInv(p)' => LadderInv')
  BY <1>1, <1>2, <1>4, <1>5, OnlyTick DEF LadderInv, TypeOK
<1>7. InertAt(p)' /\ FreshAt(p)' /\ ClearAt(p)' /\ WriteAt(p)' /\ ReadAt(p)'
  BY <1>1, <1>3, <1>6
     DEF PairInv, InertAt, FreshAt, ClearAt, WriteAt, ReadAt, Reading, Clearing,
         Replacing
<1>8. GoneAt(p)' /\ OneGenAt(p)' /\ BackedAt(p)'
  BY <1>1, <1>3, <1>5, <1>6
     DEF PairInv, GoneAt, OneGenAt, BackedAt, Out, Syncing, Clearing, memory, ghosts
<1> QED
  BY <1>6, <1>7, <1>8 DEF PairInv

\* "Gone" is said before anything is deleted.
LEMMA StartPurgeKeeps ==
    ASSUME LadderInv, OneVisited, NEW p \in Visited, NEW q \in Pairs,
           NEW back \in {"sweep", "read_buys"}, back = "sweep" <=> q # p,
           q # p => tick[p].at = "sweep",
           NEW f \in Tick, f.seen = {}, f.built = None, p \notin f.todo,
           StartPurge(p, q, back, f), faults' \in 0..MaxFaults,
           UNCHANGED <<rows, lastIds, lastSyncAt, purged, depth, ghosts>>
    PROVE  LadderInv'
<1> DEFINE u == [f EXCEPT !.at = "list", !.side = "buy", !.target = q, !.back = back]
<1>1. u \in Tick
  BY DEF Tick, Sides
<1>2. /\ u.at = "list" /\ u.side = "buy" /\ u.target = q /\ u.back = back
      /\ u.seen = {} /\ u.built = None /\ p \notin u.todo
  BY DEF Tick
<1>3. tick' = [tick EXCEPT ![p] = u] /\ ladder' = [ladder EXCEPT ![q] = {}]
  BY DEF StartPurge
<1> HIDE DEF u
<1>4. p \in Pairs /\ PairInv(p)
  BY VisitedAssumption DEF LadderInv
<1>5. /\ tick' \in [Pairs -> Tick] /\ tick'[p] = u
      /\ \A x \in Pairs : x # p => tick'[x] = tick[x]
  BY <1>1, <1>3, <1>4, TickTyped DEF LadderInv, TypeOK
<1>6. TypeOK'
  BY <1>3, <1>5 DEF LadderInv, TypeOK, ghosts
<1>7. /\ ladder'[q] = {}
      /\ \A x \in Pairs : x # q => ladder'[x] = ladder[x]
  BY <1>3 DEF LadderInv, TypeOK
<1>8. InertAt(p)' /\ FreshAt(p)' /\ WriteAt(p)' /\ ReadAt(p)'
  BY <1>2, <1>5 DEF InertAt, FreshAt, WriteAt, ReadAt, Reading, Clearing, Replacing
<1>9. ClearAt(p)'
  BY <1>2, <1>5, <1>6, <1>7 DEF ClearAt, Clearing, TypeOK, Row, Sides
<1>10. GoneAt(p)' /\ OneGenAt(p)'
  BY <1>2, <1>4, <1>5, <1>7
     DEF PairInv, GoneAt, OneGenAt, Out, Clearing, ghosts
<1>11. BackedAt(p)'
  BY <1>2, <1>4, <1>5, <1>7 DEF PairInv, BackedAt, Out, Syncing, ghosts
<1>12. ASSUME NEW x \in Pairs, x # p
       PROVE  /\ tick'[x] = tick[x] /\ rows'[x] \subseteq rows[x]
              /\ \/ ladder'[x] = {}
                 \/ UNCHANGED <<rows[x], ladder[x], lastIds[x], eaten[x]>>
  BY <1>5, <1>7, <1>12 DEF ghosts
<1> QED
  BY <1>6, <1>8, <1>9, <1>10, <1>11, <1>12, Composes DEF PairInv

LEMMA SweepOrphanKeeps ==
    ASSUME LadderInv, OneVisited, NEW p \in Pairs, SweepOrphan(p)
    PROVE  LadderInv'
<1> DEFINE t == tick[p]
<1>1. /\ p \in Visited /\ t \in Tick /\ PairInv(p) /\ t.at = "sweep"
  BY Busy DEF SweepOrphan, At, LadderInv, TypeOK
<1>2. PICK q \in t.todo : StartPurge(p, q, "sweep", [t EXCEPT !.todo = @ \ {q}])
  BY DEF SweepOrphan
<1> DEFINE f == [t EXCEPT !.todo = @ \ {q}]
<1>3. q \in Pairs /\ q # p
  BY <1>1 DEF PairInv, FreshAt, Tick
<1>4. f \in Tick /\ f.seen = {} /\ f.built = None /\ p \notin f.todo
  BY <1>1 DEF PairInv, FreshAt, Reading, Tick
<1>5. /\ UNCHANGED <<rows, lastIds, lastSyncAt, purged, depth, ghosts>>
      /\ faults' \in 0..MaxFaults
  BY DEF SweepOrphan, LadderInv, TypeOK
<1>6. StartPurge(p, q, "sweep", f)
  BY <1>2
<1> HIDE DEF f
<1> QED
  BY <1>1, <1>3, <1>4, <1>5, <1>6, StartPurgeKeeps

LEMMA SyncFailsKeeps ==
    ASSUME LadderInv, OneVisited, NEW p \in Pairs, SyncFails(p)
    PROVE  LadderInv'
<1> DEFINE t == tick[p]
           f == [t EXCEPT !.left = {}]
<1>1. /\ p \in Visited /\ t \in Tick /\ PairInv(p) /\ ~Reading(p)
  BY Busy DEF SyncFails, Syncing, Reading, LadderInv, TypeOK
<1>2. f \in Tick /\ f.seen = {} /\ f.built = None /\ p \notin f.todo
  BY <1>1 DEF PairInv, FreshAt, Tick
<1>3. /\ UNCHANGED <<rows, lastIds, lastSyncAt, purged, depth, ghosts>>
      /\ faults' \in 0..MaxFaults
  BY FaultsAssumption DEF SyncFails, Refused, LadderInv, TypeOK
<1>4. StartPurge(p, p, "read_buys", f)
  BY DEF SyncFails
<1> HIDE DEF f
<1> QED
  BY <1>1, <1>2, <1>3, <1>4, StartPurgeKeeps

LEMMA RefuseLadderKeeps ==
    ASSUME LadderInv, OneVisited, NEW p \in Pairs, RefuseLadder(p)
    PROVE  LadderInv'
<1> DEFINE t == tick[p]
           u == [t EXCEPT !.at = "read_buys"]
<1>1. /\ p \in Visited /\ t \in Tick /\ PairInv(p) /\ t.at = "decide"
  BY Busy DEF RefuseLadder, At, LadderInv, TypeOK
<1>2. t.seen = {} /\ t.built = None /\ p \notin t.todo
  BY <1>1 DEF PairInv, FreshAt, Reading
<1>3. /\ UNCHANGED <<rows, lastIds, lastSyncAt, purged, depth, ghosts>>
      /\ faults' = faults
  BY DEF RefuseLadder
<1>4. CASE StartPurge(p, p, "read_buys", t)
  BY <1>1, <1>2, <1>3, <1>4, StartPurgeKeeps DEF LadderInv, TypeOK
<1>5. CASE /\ p \in purged /\ lastIds[p] = None
           /\ ladder' = [ladder EXCEPT ![p] = {}]
           /\ Goto(p, "read_buys")
  <2>1. u \in Tick
    BY <1>1 DEF Tick
  <2>2. /\ u.at = "read_buys" /\ u.left = t.left /\ u.target = t.target
        /\ u.seen = {} /\ u.built = None /\ p \notin u.todo
    BY <1>1, <1>2 DEF Tick
  <2>3. tick' = [tick EXCEPT ![p] = u]
    BY <1>1, <1>5 DEF Goto, LadderInv, TypeOK
  <2> HIDE DEF u
  <2>4. /\ tick' \in [Pairs -> Tick] /\ tick'[p] = u
        /\ \A x \in Pairs : x # p => tick'[x] = tick[x]
    BY <2>1, <2>3, TickTyped DEF LadderInv, TypeOK
  <2>5. TypeOK' /\ ladder'[p] = {} /\ \A x \in Pairs : x # p => ladder'[x] = ladder[x]
    BY <1>3, <1>5, <2>4 DEF LadderInv, TypeOK, ghosts
  <2>6. rows[p] = {} \/ torn[p]
    BY <1>1, <1>5 DEF PairInv, GoneAt, Clearing
  <2>7. InertAt(p)' /\ FreshAt(p)' /\ ClearAt(p)' /\ WriteAt(p)' /\ BackedAt(p)'
    BY <1>1, <2>2, <2>4, <2>5
       DEF InertAt, FreshAt, ClearAt, WriteAt, BackedAt, Reading, Clearing, Replacing
  <2>8. ReadAt(p)' /\ GoneAt(p)'
    BY <1>3, <2>2, <2>4, <2>6 DEF ReadAt, GoneAt, Out, ghosts
  <2>9. OneGenAt(p)'
    BY <1>1, <1>3, <2>2, <2>4 DEF PairInv, OneGenAt, Out
  <2>10. ASSUME NEW x \in Pairs, x # p
         PROVE  /\ tick'[x] = tick[x] /\ rows'[x] \subseteq rows[x]
                /\ UNCHANGED <<rows[x], ladder[x], lastIds[x], eaten[x]>>
    BY <1>3, <2>4, <2>5, <2>10 DEF ghosts
  <2> QED
    BY <1>1, <2>5, <2>7, <2>8, <2>9, <2>10, Composes DEF PairInv
<1> QED
  BY <1>4, <1>5 DEF RefuseLadder, DropLadder

-----------------------------------------------------------------------------
\* The sync.

LEMMA RowsAreRows ==
    ASSUME NEW g \in Generations, NEW S \in SUBSET Sides
    PROVE  RowsOf(g, S) \in SUBSET Row
BY DEF RowsOf, Row

\* There is a name for the rows of a new ladder.
LEMMA FreshName ==
    ASSUME TypeOK, NEW p \in Pairs, OneGenAt(p)
    PROVE  (CHOOSE g \in Unused(p) : TRUE) \in Generations
<1>1. PICK g \in Generations : rows[p] \subseteq RowsOf(g, Sides)
  BY DEF OneGenAt
<1>2. lastIds[p] \in Generations \cup {None}
  BY DEF TypeOK
<1>3. PICK h \in Generations : h # g /\ h # lastIds[p]
  <2>1. Generations \ {g, lastIds[p]} # {}
    BY <1>2, GenerationsAssumption
  <2> QED
    BY <2>1
<1>4. \A r \in rows[p] : r[1] = g
  BY <1>1 DEF RowsOf
<1>5. h \in Unused(p)
  BY <1>3, <1>4 DEF Unused
<1>6. (CHOOSE n \in Unused(p) : TRUE) \in Unused(p)
  BY <1>5
<1> QED
  BY <1>6 DEF Unused

LEMMA BuildLadderKeeps ==
    ASSUME LadderInv, OneVisited, NEW p \in Pairs, BuildLadder(p)
    PROVE  LadderInv'
<1> DEFINE t == tick[p]
           new == CHOOSE g \in Unused(p) : TRUE
           left == IF lastIds[p] = None THEN {} ELSE RowsOf(lastIds[p], Sides)
<1>1. PICK sides \in SUBSET Sides :
         tick' = [tick EXCEPT ![p].at = "replace", ![p].gen = new, ![p].sides = sides,
                              ![p].left = left]
  BY DEF BuildLadder
<1> DEFINE u == [t EXCEPT !.at = "replace", !.gen = new, !.sides = sides, !.left = left]
<1>2. p \in Visited /\ t \in Tick /\ PairInv(p) /\ t.at = "decide"
  BY Busy DEF BuildLadder, At, LadderInv, TypeOK
<1>3. new \in Generations
  BY <1>2, FreshName DEF LadderInv, PairInv
<1>4. left \in SUBSET Row
  <2>1. lastIds[p] \in Generations \cup {None}
    BY DEF LadderInv, TypeOK
  <2> QED
    BY <2>1, RowsAreRows
<1> HIDE DEF new, left
<1>5. u \in Tick
  BY <1>2, <1>3, <1>4 DEF Tick
<1>6. /\ u.at = "replace" /\ u.left = left /\ u.gen = new /\ u.sides = sides
      /\ u.seen = t.seen /\ u.built = t.built /\ u.todo = t.todo
  BY <1>2 DEF Tick
<1>7. tick' = [tick EXCEPT ![p] = u]
  BY <1>1, <1>2 DEF LadderInv, TypeOK
<1> HIDE DEF u
<1>8. UNCHANGED <<rows, memory, depth, faults, ghosts>>
  BY DEF BuildLadder
<1>9. tick'[p] = u /\ (PairInv(p)' => LadderInv')
  BY <1>2, <1>5, <1>7, <1>8, OnlyTick DEF LadderInv, TypeOK
<1>10. InertAt(p)' /\ FreshAt(p)' /\ ClearAt(p)' /\ WriteAt(p)' /\ ReadAt(p)'
  BY <1>2, <1>3, <1>6, <1>9
     DEF PairInv, InertAt, FreshAt, ClearAt, WriteAt, ReadAt, Reading, Clearing,
         Replacing
<1>11. GoneAt(p)' /\ OneGenAt(p)' /\ BackedAt(p)'
  BY <1>2, <1>6, <1>8, <1>9
     DEF PairInv, GoneAt, OneGenAt, BackedAt, Out, Syncing, Clearing, memory, ghosts
<1> QED
  BY <1>9, <1>10, <1>11 DEF PairInv

LEMMA DeletePreviousKeeps ==
    ASSUME LadderInv, OneVisited, NEW p \in Pairs, DeletePrevious(p)
    PROVE  LadderInv'
<1> DEFINE t == tick[p]
<1>1. p \in Visited /\ t \in Tick /\ PairInv(p) /\ t.at = "replace"
  BY Busy DEF DeletePrevious, At, LadderInv, TypeOK
<1>2. UNCHANGED <<memory, depth, faults, ghosts>>
  BY DEF DeletePrevious
<1>3. ASSUME NEW r \in t.left, rows' = [rows EXCEPT ![p] = @ \ {r}],
             tick' = [tick EXCEPT ![p].left = @ \ {r}]
      PROVE  LadderInv'
  <2> DEFINE u == [t EXCEPT !.left = @ \ {r}]
             R == rows[p] \ {r}
  <2>1. u \in Tick /\ R \in SUBSET Row
    BY <1>1 DEF Tick, LadderInv, TypeOK
  <2>2. /\ u.at = "replace" /\ u.gen = t.gen
        /\ u.seen = t.seen /\ u.built = t.built /\ u.todo = t.todo
    BY <1>1 DEF Tick
  <2>3. tick' = [tick EXCEPT ![p] = u] /\ rows' = [rows EXCEPT ![p] = R]
    BY <1>1, <1>3 DEF LadderInv, TypeOK
  <2>4. R \subseteq rows[p]
    OBVIOUS
  <2> HIDE DEF u, R
  <2>5. UNCHANGED <<memory, depth, faults, torn>> /\ eaten' = eaten
    BY <1>2 DEF ghosts
  <2>6. eaten' \in [Pairs -> SUBSET Sides] /\ \A x \in Pairs : x # p => eaten'[x] = eaten[x]
    BY <2>5 DEF LadderInv, TypeOK
  <2>7. tick'[p] = u /\ rows'[p] = R /\ (PairInv(p)' => LadderInv')
    BY <1>1, <2>1, <2>3, <2>5, <2>6, TickAndOwnRows
  <2>8. InertAt(p)' /\ FreshAt(p)' /\ ClearAt(p)' /\ WriteAt(p)' /\ ReadAt(p)'
    BY <1>1, <2>2, <2>7
       DEF PairInv, InertAt, FreshAt, ClearAt, WriteAt, ReadAt, Reading, Clearing,
           Replacing
  <2>9. GoneAt(p)' /\ OneGenAt(p)' /\ BackedAt(p)'
    BY <1>1, <1>2, <2>2, <2>4, <2>7
       DEF PairInv, GoneAt, OneGenAt, BackedAt, Out, Syncing, Clearing, memory, ghosts
  <2> QED
    BY <2>7, <2>8, <2>9 DEF PairInv
<1>4. ASSUME tick' = [tick EXCEPT ![p].at = "list", ![p].side = "buy",
                                  ![p].target = p, ![p].back = "write"],
             UNCHANGED rows
      PROVE  LadderInv'
  <2> DEFINE u == [t EXCEPT !.at = "list", !.side = "buy", !.target = p, !.back = "write"]
  <2>1. u \in Tick
    BY <1>1 DEF Tick, Sides
  <2>2. /\ u.at = "list" /\ u.side = "buy" /\ u.target = p /\ u.back = "write"
        /\ u.gen = t.gen /\ u.seen = t.seen /\ u.built = t.built /\ u.todo = t.todo
    BY <1>1 DEF Tick
  <2>3. tick' = [tick EXCEPT ![p] = u]
    BY <1>1, <1>4 DEF LadderInv, TypeOK
  <2> HIDE DEF u
  <2>4. UNCHANGED <<rows, memory, depth, faults, ghosts>>
    BY <1>2, <1>4
  <2>5. tick'[p] = u /\ (PairInv(p)' => LadderInv')
    BY <1>1, <2>1, <2>3, <2>4, OnlyTick DEF LadderInv, TypeOK
  <2>6. InertAt(p)' /\ FreshAt(p)' /\ ClearAt(p)' /\ WriteAt(p)' /\ ReadAt(p)'
    BY <1>1, <2>2, <2>5
       DEF PairInv, InertAt, FreshAt, ClearAt, WriteAt, ReadAt, Reading, Clearing,
           Replacing
  <2>7. GoneAt(p)' /\ OneGenAt(p)' /\ BackedAt(p)'
    BY <1>1, <2>2, <2>4, <2>5
       DEF PairInv, GoneAt, OneGenAt, BackedAt, Out, Syncing, Clearing, memory, ghosts
  <2> QED
    BY <2>5, <2>6, <2>7 DEF PairInv
<1> QED
  BY <1>3, <1>4 DEF DeletePrevious

LEMMA StartWritingKeeps ==
    ASSUME LadderInv, OneVisited, NEW p \in Pairs, StartWriting(p)
    PROVE  LadderInv'
<1> DEFINE t == tick[p]
           left == RowsOf(t.gen, t.sides)
           u == [t EXCEPT !.at = "write", !.left = left]
<1>1. /\ p \in Visited /\ t \in Tick /\ PairInv(p) /\ t.at = "delete"
      /\ t.left = {} /\ t.side = "sell" /\ t.back = "write"
  BY Busy DEF StartWriting, Cleared, At, LadderInv, TypeOK
<1>2. t.target = p /\ rows[p] = {} /\ t.gen \in Generations
  BY <1>1 DEF PairInv, ClearAt, FreshAt, Clearing, Replacing
<1>3. left \in SUBSET Row /\ left \subseteq RowsOf(t.gen, Sides)
  <2>1. t.sides \in SUBSET Sides
    BY <1>1 DEF Tick
  <2> QED
    BY <1>2, <2>1, RowsAreRows DEF RowsOf
<1> HIDE DEF left
<1>4. u \in Tick
  BY <1>1, <1>3 DEF Tick
<1>5. /\ u.at = "write" /\ u.left = left /\ u.gen = t.gen /\ u.sides = t.sides
      /\ u.seen = t.seen /\ u.built = t.built /\ u.todo = t.todo
  BY <1>1 DEF Tick
<1>6. tick' = [tick EXCEPT ![p] = u]
  BY <1>1 DEF StartWriting, left, LadderInv, TypeOK
<1> HIDE DEF u
<1>7. UNCHANGED <<rows, memory, depth, faults, ghosts>>
  BY DEF StartWriting
<1>8. tick'[p] = u /\ (PairInv(p)' => LadderInv')
  BY <1>1, <1>4, <1>6, <1>7, OnlyTick DEF LadderInv, TypeOK
<1>9. InertAt(p)' /\ FreshAt(p)' /\ ClearAt(p)' /\ ReadAt(p)'
  BY <1>1, <1>2, <1>5, <1>8
     DEF PairInv, InertAt, FreshAt, ClearAt, ReadAt, Reading, Clearing, Replacing
<1>10. WriteAt(p)'
  BY <1>2, <1>3, <1>5, <1>7, <1>8 DEF WriteAt, left
<1>11. GoneAt(p)' /\ OneGenAt(p)' /\ BackedAt(p)'
  BY <1>1, <1>5, <1>7, <1>8
     DEF PairInv, GoneAt, OneGenAt, BackedAt, Out, Syncing, Clearing, memory, ghosts
<1> QED
  BY <1>8, <1>9, <1>10, <1>11 DEF PairInv

LEMMA WriteRowKeeps ==
    ASSUME LadderInv, OneVisited, NEW p \in Pairs, WriteRow(p)
    PROVE  LadderInv'
<1> DEFINE t == tick[p]
<1>1. PICK r \in t.left : /\ rows' = [rows EXCEPT ![p] = @ \cup {r}]
                          /\ tick' = [tick EXCEPT ![p].left = @ \ {r}]
  BY DEF WriteRow
<1> DEFINE u == [t EXCEPT !.left = @ \ {r}]
           R == rows[p] \cup {r}
<1>2. p \in Visited /\ t \in Tick /\ PairInv(p) /\ t.at = "write"
  BY Busy DEF WriteRow, At, LadderInv, TypeOK
<1>3. u \in Tick /\ R \in SUBSET Row
  BY <1>2 DEF Tick, LadderInv, TypeOK
<1>4. /\ u.at = "write" /\ u.left = t.left \ {r} /\ u.gen = t.gen /\ u.sides = t.sides
      /\ u.seen = t.seen /\ u.built = t.built /\ u.todo = t.todo
  BY <1>2 DEF Tick
<1>5. tick' = [tick EXCEPT ![p] = u] /\ rows' = [rows EXCEPT ![p] = R]
  BY <1>1, <1>2 DEF LadderInv, TypeOK
<1>6. R \cup u.left = rows[p] \cup t.left
  BY <1>4
<1> HIDE DEF u, R
<1>7. UNCHANGED <<memory, depth, faults, torn>> /\ eaten' = eaten
  BY DEF WriteRow, ghosts
<1>8. eaten' \in [Pairs -> SUBSET Sides] /\ \A x \in Pairs : x # p => eaten'[x] = eaten[x]
  BY <1>7 DEF LadderInv, TypeOK
<1>9. tick'[p] = u /\ rows'[p] = R /\ (PairInv(p)' => LadderInv')
  BY <1>2, <1>3, <1>5, <1>7, <1>8, TickAndOwnRows
<1>10. InertAt(p)' /\ FreshAt(p)' /\ ClearAt(p)' /\ ReadAt(p)'
  BY <1>2, <1>4, <1>9
     DEF PairInv, InertAt, FreshAt, ClearAt, ReadAt, Reading, Clearing, Replacing
<1>11. WriteAt(p)'
  BY <1>2, <1>4, <1>6, <1>9 DEF PairInv, WriteAt
<1>12. GoneAt(p)' /\ BackedAt(p)'
  BY <1>2, <1>4, <1>9 DEF GoneAt, BackedAt, Syncing
<1>13. OneGenAt(p)'
  BY <1>2, <1>4, <1>9, <1>11
     DEF PairInv, OneGenAt, WriteAt, FreshAt, Out, Reading, Replacing
<1> QED
  BY <1>9, <1>10, <1>11, <1>12, <1>13 DEF PairInv

LEMMA RecordLadderKeeps ==
    ASSUME LadderInv, OneVisited, NEW p \in Pairs, RecordLadder(p)
    PROVE  LadderInv'
<1> DEFINE t == tick[p]
           u == [t EXCEPT !.at = "read_buys", !.built = t.gen]
<1>1. p \in Visited /\ t \in Tick /\ PairInv(p) /\ t.at = "write" /\ t.left = {}
  BY Busy DEF RecordLadder, At, LadderInv, TypeOK
<1>2. /\ t.gen \in Generations /\ t.seen = {} /\ p \notin t.todo
      /\ rows[p] \subseteq RowsOf(t.gen, Sides) /\ RowsOf(t.gen, t.sides) \subseteq rows[p]
  BY <1>1 DEF PairInv, FreshAt, WriteAt, Reading, Replacing
<1>3. u \in Tick
  BY <1>1, <1>2 DEF Tick
<1>4. /\ u.at = "read_buys" /\ u.built = t.gen
      /\ u.gen = t.gen /\ u.seen = {} /\ p \notin u.todo
  BY <1>1, <1>2 DEF Tick
<1>5. tick' = [tick EXCEPT ![p] = u]
  BY <1>1 DEF RecordLadder, LadderInv, TypeOK
<1> HIDE DEF u
<1>6. /\ tick' \in [Pairs -> Tick] /\ tick'[p] = u
      /\ \A x \in Pairs : x # p => tick'[x] = tick[x]
  BY <1>3, <1>5, TickTyped DEF LadderInv, TypeOK
<1>7. /\ lastIds' = [lastIds EXCEPT ![p] = t.gen] /\ ladder' = [ladder EXCEPT ![p] = t.sides]
      /\ lastSyncAt' = [lastSyncAt EXCEPT ![p] = 0] /\ purged' = purged \ {p}
      /\ torn' = [torn EXCEPT ![p] = FALSE] /\ eaten' = [eaten EXCEPT ![p] = {}]
      /\ UNCHANGED <<rows, depth, faults>>
  BY DEF RecordLadder
<1>8. t.sides \in SUBSET Sides
  BY <1>1 DEF Tick
<1>9. TypeOK'
  BY <1>2, <1>6, <1>7, <1>8 DEF LadderInv, TypeOK
<1>10. /\ lastIds'[p] = t.gen /\ ladder'[p] = t.sides
       /\ \A x \in Pairs : x # p => /\ ladder'[x] = ladder[x] /\ lastIds'[x] = lastIds[x]
                                    /\ eaten'[x] = eaten[x]
  BY <1>7 DEF LadderInv, TypeOK
<1>11. InertAt(p)' /\ FreshAt(p)' /\ ClearAt(p)' /\ WriteAt(p)' /\ GoneAt(p)'
  BY <1>1, <1>4, <1>6, <1>7
     DEF InertAt, FreshAt, ClearAt, WriteAt, GoneAt, Reading, Clearing, Replacing
<1>12. ReadAt(p)' /\ OneGenAt(p)'
  BY <1>2, <1>4, <1>6, <1>7, <1>10 DEF ReadAt, OneGenAt, Out
<1>13. BackedAt(p)'
  BY <1>2, <1>7, <1>10 DEF BackedAt, RowsOf
<1>14. ASSUME NEW x \in Pairs, x # p
       PROVE  /\ tick'[x] = tick[x] /\ rows'[x] \subseteq rows[x]
              /\ UNCHANGED <<rows[x], ladder[x], lastIds[x], eaten[x]>>
  BY <1>6, <1>7, <1>10, <1>14
<1> QED
  BY <1>1, <1>9, <1>11, <1>12, <1>13, <1>14, Composes DEF PairInv

-----------------------------------------------------------------------------
\* The matcher.

LEMMA ReadSideKeeps ==
    ASSUME LadderInv, OneVisited, NEW p \in Pairs,
           NEW from \in {"read_buys", "read_sells"}, NEW side \in Sides,
           NEW to \in {"read_sells", "matching"}, ReadSide(p, from, side, to)
    PROVE  LadderInv'
<1> DEFINE t == tick[p]
           seen == t.seen \cup {r \in rows[p] : r[2] = side}
           u == [t EXCEPT !.at = to, !.seen = seen]
<1>1. p \in Visited /\ t \in Tick /\ PairInv(p) /\ t.at = from
  BY Busy DEF ReadSide, At, LadderInv, TypeOK
<1>2. seen \in SUBSET Row /\ seen \subseteq rows[p] \cup t.seen
  BY <1>1 DEF Tick, LadderInv, TypeOK
<1>3. u \in Tick
  BY <1>1, <1>2 DEF Tick
<1>4. /\ u.at = to /\ u.left = t.left /\ u.seen = seen /\ u.built = t.built
      /\ u.todo = t.todo
  BY <1>1 DEF Tick
<1>5. tick' = [tick EXCEPT ![p] = u]
  BY <1>1 DEF ReadSide, LadderInv, TypeOK
<1> HIDE DEF u, seen
<1>6. UNCHANGED <<rows, memory, depth, faults, ghosts>>
  BY DEF ReadSide
<1>7. tick'[p] = u /\ (PairInv(p)' => LadderInv')
  BY <1>1, <1>3, <1>5, <1>6, OnlyTick DEF LadderInv, TypeOK
<1>8. InertAt(p)' /\ FreshAt(p)' /\ ClearAt(p)' /\ WriteAt(p)'
  BY <1>1, <1>4, <1>7
     DEF PairInv, InertAt, FreshAt, ClearAt, WriteAt, Reading, Clearing, Replacing
<1>9. ReadAt(p)'
  BY <1>1, <1>2, <1>4, <1>6, <1>7
     DEF PairInv, ReadAt, Out, Reading, memory, ghosts
<1>10. GoneAt(p)' /\ OneGenAt(p)' /\ BackedAt(p)'
  BY <1>1, <1>2, <1>4, <1>6, <1>7
     DEF PairInv, GoneAt, OneGenAt, BackedAt, Out, Syncing, Clearing, memory, ghosts
<1> QED
  BY <1>7, <1>8, <1>9, <1>10 DEF PairInv

\* A tick that ends, or gives up reading.
LEMMA LeaveKeeps ==
    ASSUME LadderInv, OneVisited, NEW p \in Pairs,
           tick[p].at \in {"read_buys", "read_sells", "matching"},
           tick' = [tick EXCEPT ![p] = IdleTick],
           UNCHANGED <<rows, memory, depth, ghosts>>, faults' \in 0..MaxFaults
    PROVE  LadderInv'
<1> DEFINE t == tick[p]
<1>1. p \in Visited /\ PairInv(p)
  BY Busy DEF LadderInv
<1>2. IdleTick \in Tick
  BY DEF IdleTick, Tick, Sides
<1>3. /\ IdleTick.at = "idle" /\ IdleTick.seen = {} /\ IdleTick.built = None
      /\ IdleTick.todo = {}
  BY DEF IdleTick
<1>4. tick'[p] = IdleTick /\ (PairInv(p)' => LadderInv')
  BY <1>1, <1>2, OnlyTick
<1>5. InertAt(p)' /\ FreshAt(p)' /\ ClearAt(p)' /\ WriteAt(p)' /\ ReadAt(p)'
  BY <1>3, <1>4
     DEF InertAt, FreshAt, ClearAt, WriteAt, ReadAt, Reading, Clearing, Replacing
<1>6. GoneAt(p)' /\ OneGenAt(p)' /\ BackedAt(p)'
  BY <1>1, <1>3, <1>4
     DEF PairInv, GoneAt, OneGenAt, BackedAt, Out, Syncing, Clearing, memory, ghosts
<1> QED
  BY <1>4, <1>5, <1>6 DEF PairInv

LEMMA FillKeeps ==
    ASSUME LadderInv, OneVisited, NEW p \in Pairs, Fill(p)
    PROVE  LadderInv'
<1> DEFINE t == tick[p]
<1>1. PICK r \in t.seen, to \in {"matching", "relist"} :
         /\ rows' = [rows EXCEPT ![p] = @ \ {r}]
         /\ tick' = [tick EXCEPT ![p].at = to, ![p].seen = @ \ {r},
                        ![p].left = IF to = "relist" THEN {r} ELSE {}]
         /\ eaten' = IF to = "relist" THEN eaten
                     ELSE [eaten EXCEPT ![p] = @ \cup {r[2]}]
  BY DEF Fill
<1> DEFINE left == IF to = "relist" THEN {r} ELSE {}
           u == [t EXCEPT !.at = to, !.seen = @ \ {r}, !.left = left]
           R == rows[p] \ {r}
<1>2. p \in Visited /\ t \in Tick /\ PairInv(p) /\ t.at = "matching"
  BY Busy DEF Fill, At, LadderInv, TypeOK
<1>3. r \in Row /\ r[2] \in Sides
  BY <1>2 DEF Tick, Row
<1>4. left \in SUBSET Row /\ R \in SUBSET Row
  BY <1>3 DEF LadderInv, TypeOK
<1>5. u \in Tick
  BY <1>2, <1>4 DEF Tick
<1>6. /\ u.at = to /\ u.left = left /\ u.seen = t.seen \ {r} /\ u.built = t.built
      /\ u.todo = t.todo
  BY <1>2 DEF Tick
<1>7. tick' = [tick EXCEPT ![p] = u] /\ rows' = [rows EXCEPT ![p] = R]
  BY <1>1, <1>2 DEF LadderInv, TypeOK
<1>8. R = rows[p] \ {r} /\ left = (IF to = "relist" THEN {r} ELSE {})
  OBVIOUS
<1> HIDE DEF u, R, left
<1>9. UNCHANGED <<memory, depth, faults, torn>>
  BY DEF Fill
<1>10. /\ eaten' \in [Pairs -> SUBSET Sides]
       /\ \A x \in Pairs : x # p => eaten'[x] = eaten[x]
       /\ eaten[p] \subseteq eaten'[p] /\ (to = "matching" => r[2] \in eaten'[p])
  BY <1>1, <1>3 DEF LadderInv, TypeOK
<1>11. tick'[p] = u /\ rows'[p] = R /\ (PairInv(p)' => LadderInv')
  BY <1>2, <1>4, <1>5, <1>7, <1>9, <1>10, TickAndOwnRows
<1>12. Out(p)' \subseteq {r} /\ (to = "relist" => Out(p)' = {r})
  BY <1>6, <1>8, <1>11 DEF Out
<1>13. InertAt(p)' /\ FreshAt(p)' /\ ClearAt(p)' /\ WriteAt(p)'
  BY <1>2, <1>6, <1>11
     DEF PairInv, InertAt, FreshAt, ClearAt, WriteAt, Reading, Clearing, Replacing
<1>14. rows'[p] \cup tick'[p].seen \cup Out(p)' \subseteq rows[p] \cup t.seen \cup Out(p)
  BY <1>6, <1>8, <1>11, <1>12
<1>15. ReadAt(p)'
  BY <1>2, <1>6, <1>9, <1>11, <1>14 DEF PairInv, ReadAt, Reading, memory
<1>16. GoneAt(p)' /\ OneGenAt(p)'
  BY <1>2, <1>6, <1>8, <1>9, <1>11, <1>14
     DEF PairInv, GoneAt, OneGenAt, Clearing, memory
<1>17. BackedAt(p)'
  <2>1. ASSUME NEW s \in ladder[p]
        PROVE  <<lastIds[p], s>> \in rows[p] \/ s \in eaten[p]
    BY <1>2 DEF PairInv, BackedAt, Out, Syncing
  <2>2. ASSUME NEW s \in ladder[p]
        PROVE  <<lastIds[p], s>> \in rows'[p] \cup Out(p)' \/ s \in eaten'[p]
    <3>1. CASE <<lastIds[p], s>> = r
      BY <1>10, <1>12, <3>1
    <3>2. CASE <<lastIds[p], s>> # r
      BY <1>8, <1>10, <1>11, <2>1, <3>2
    <3> QED
      BY <3>1, <3>2
  <2> QED
    BY <1>9, <2>2 DEF BackedAt, memory
<1> QED
  BY <1>11, <1>13, <1>15, <1>16, <1>17 DEF PairInv

LEMMA RelistKeeps ==
    ASSUME LadderInv, OneVisited, NEW p \in Pairs, Relist(p)
    PROVE  LadderInv'
<1> DEFINE t == tick[p]
           u == [t EXCEPT !.at = "matching", !.left = {}]
           R == rows[p] \cup t.left
<1>1. p \in Visited /\ t \in Tick /\ PairInv(p) /\ t.at = "relist"
  BY Busy DEF Relist, At, LadderInv, TypeOK
<1>2. u \in Tick /\ R \in SUBSET Row
  BY <1>1 DEF Tick, LadderInv, TypeOK
<1>3. u.at = "matching" /\ u.seen = t.seen /\ u.built = t.built /\ u.todo = t.todo
  BY <1>1 DEF Tick
<1>4. tick' = [tick EXCEPT ![p] = u] /\ rows' = [rows EXCEPT ![p] = R]
  BY <1>1 DEF Relist, LadderInv, TypeOK
<1>5. R = rows[p] \cup Out(p)
  BY <1>1 DEF Out
<1> HIDE DEF u, R
<1>6. UNCHANGED <<memory, depth, faults, torn>> /\ eaten' = eaten
  BY DEF Relist, ghosts
<1>7. eaten' \in [Pairs -> SUBSET Sides] /\ \A x \in Pairs : x # p => eaten'[x] = eaten[x]
  BY <1>6 DEF LadderInv, TypeOK
<1>8. tick'[p] = u /\ rows'[p] = R /\ (PairInv(p)' => LadderInv')
  BY <1>1, <1>2, <1>4, <1>6, <1>7, TickAndOwnRows
<1>9. InertAt(p)' /\ FreshAt(p)' /\ ClearAt(p)' /\ WriteAt(p)'
  BY <1>1, <1>3, <1>8
     DEF PairInv, InertAt, FreshAt, ClearAt, WriteAt, Reading, Clearing, Replacing
<1>10. Out(p)' = {}
  BY <1>3, <1>8 DEF Out
<1>11. ReadAt(p)' /\ OneGenAt(p)' /\ BackedAt(p)'
  BY <1>1, <1>3, <1>5, <1>6, <1>8, <1>10
     DEF PairInv, ReadAt, OneGenAt, BackedAt, Reading, Syncing, memory
\* Of a tick that built nothing the matcher has nothing to put back.
<1>12. GoneAt(p)'
  <2>1. lastIds' = lastIds /\ purged' = purged /\ torn' = torn
    BY <1>6 DEF memory
  <2>2. ASSUME p \in purged, lastIds[p] = None, ~torn[p] PROVE R = {}
    <3>1. t.built = None /\ R \subseteq RowsOf(t.built, Sides)
      BY <1>1, <1>5, <2>2 DEF PairInv, ReadAt, Reading
    <3> QED
      BY <1>2, <3>1, NamesAssumption DEF RowsOf, Row
  <2> QED
    BY <1>8, <2>1, <2>2 DEF GoneAt
<1> QED
  BY <1>8, <1>9, <1>11, <1>12 DEF PairInv

-----------------------------------------------------------------------------
\* The environment, the steps together, and the theorems.

\* What a tick does not look at: the depth, and the age of a ladder.
LEMMA AroundKeeps ==
    ASSUME LadderInv, TypeOK',
           UNCHANGED <<rows, lastIds, purged, ladder, tick, torn, eaten>>
    PROVE  LadderInv'
BY DEF LadderInv, PairInv, InertAt, FreshAt, ClearAt, WriteAt, ReadAt, GoneAt, OneGenAt,
       BackedAt, Reading, Clearing, Replacing, Out, Syncing

LEMMA TurnKeeps ==
    ASSUME LadderInv, NEW p \in Pairs, Turn(p)
    PROVE  LadderInv'
<1>1. TypeOK'
  BY DEF Turn, LadderInv, TypeOK, memory, ghosts
<1> QED
  BY <1>1, AroundKeeps DEF Turn, memory, ghosts

LEMMA AgeKeeps ==
    ASSUME LadderInv, NEW p \in Pairs, Age(p)
    PROVE  LadderInv'
<1>1. TypeOK'
  BY DEF Age, LadderInv, TypeOK, ghosts
<1> QED
  BY <1>1, AroundKeeps DEF Age, ghosts

LEMMA StepKeeps ==
    ASSUME LadderInv, OneVisited, NEW p \in Pairs, Step(p)
    PROVE  LadderInv'
<1>1. CASE ListSide(p)       BY <1>1, ListSideKeeps
<1>2. CASE DeleteRow(p)      BY <1>2, DeleteRowKeeps
<1>3. CASE NextSide(p)       BY <1>3, NextSideKeeps
<1>4. CASE EndPurge(p)       BY <1>4, EndPurgeKeeps
<1>5. CASE SweepOrphan(p)    BY <1>5, SweepOrphanKeeps
<1>6. CASE EndSweep(p)       BY <1>6, EndSweepKeeps
<1>7. CASE RefuseLadder(p)   BY <1>7, RefuseLadderKeeps
<1>8. CASE BuildLadder(p)    BY <1>8, BuildLadderKeeps
<1>9. CASE DeletePrevious(p) BY <1>9, DeletePreviousKeeps
<1>10. CASE StartWriting(p)  BY <1>10, StartWritingKeeps
<1>11. CASE WriteRow(p)      BY <1>11, WriteRowKeeps
<1>12. CASE RecordLadder(p)  BY <1>12, RecordLadderKeeps
<1>13. CASE ReadBuys(p)      BY <1>13, ReadSideKeeps DEF ReadBuys, Sides
<1>14. CASE ReadSells(p)     BY <1>14, ReadSideKeeps DEF ReadSells, Sides
<1>15. CASE Relist(p)        BY <1>15, RelistKeeps
<1>16. CASE EndTick(p)
  <2>1. faults' \in 0..MaxFaults
    BY <1>16 DEF EndTick, LadderInv, TypeOK
  <2> QED
    BY <1>16, <2>1, LeaveKeeps DEF EndTick, At
<1> QED
  BY <1>1, <1>2, <1>3, <1>4, <1>5, <1>6, <1>7, <1>8, <1>9, <1>10, <1>11, <1>12, <1>13,
     <1>14, <1>15, <1>16 DEF Step

LEMMA LadderInvInductive ==
    ASSUME LadderInv, OneVisited, [Next]_vars
    PROVE  LadderInv'
<1>1. ASSUME NEW p \in Pairs, ReadFails(p) PROVE LadderInv'
  <2>1. faults' \in 0..MaxFaults
    BY <1>1, FaultsAssumption DEF ReadFails, Refused, LadderInv, TypeOK
  <2> QED
    BY <1>1, <2>1, LeaveKeeps DEF ReadFails
<1>2. CASE UNCHANGED vars
  <2>1. TypeOK'
    BY <1>2 DEF vars, LadderInv, TypeOK
  <2> QED
    BY <1>2, <2>1, AroundKeeps DEF vars
<1>3. ASSUME NEW p \in Pairs,
             \/ StartTick(p) \/ Step(p) \/ Fill(p)
             \/ PurgeFails(p) \/ SyncFails(p) \/ ReadFails(p)
             \/ Turn(p) \/ Age(p)
      PROVE  LadderInv'
  BY <1>1, <1>3, StartTickKeeps, StepKeeps, FillKeeps, PurgeFailsKeeps, SyncFailsKeeps,
     TurnKeeps, AgeKeeps
<1> QED
  BY <1>2, <1>3 DEF Next

LEMMA LadderInvInitially ==
    ASSUME Init
    PROVE  LadderInv
<1> DEFINE g == CHOOSE h \in Generations : TRUE
           Has(p, x, y) == IF p \in Visited THEN x ELSE y
<1>1. g \in Generations
  BY GenerationsAssumption
<1>2. /\ rows = [p \in Pairs |-> Has(p, {}, RowsOf(g, Sides))]
      /\ lastIds = [p \in Pairs |-> Has(p, None, g)]
      /\ lastSyncAt = [p \in Pairs |-> Has(p, None, 0)]
      /\ ladder = [p \in Pairs |-> Has(p, {}, Sides)]
      /\ tick = [p \in Pairs |-> IdleTick]
  BY DEF Init
<1>3. /\ purged = {} /\ depth = [p \in Pairs |-> TRUE] /\ faults = 0
      /\ torn = [p \in Pairs |-> FALSE] /\ eaten = [p \in Pairs |-> {}]
  BY DEF Init
<1> HIDE DEF g
<1>4. IdleTick \in Tick
  BY DEF IdleTick, Tick, Sides
<1>5. RowsOf(g, Sides) \in SUBSET Row
  BY <1>1, RowsAreRows
<1>6. TypeOK
  BY <1>1, <1>2, <1>3, <1>4, <1>5, FaultsAssumption DEF TypeOK
<1>7. ASSUME NEW p \in Pairs PROVE PairInv(p)
  <2>1. /\ tick[p] = IdleTick /\ tick[p].at = "idle" /\ tick[p].seen = {}
        /\ tick[p].built = None /\ tick[p].todo = {}
    BY <1>2 DEF IdleTick
  <2>2. InertAt(p) /\ FreshAt(p) /\ ClearAt(p) /\ WriteAt(p) /\ ReadAt(p)
    BY <2>1 DEF InertAt, FreshAt, ClearAt, WriteAt, ReadAt, Reading, Clearing, Replacing
  <2>3. CASE p \in Visited
    BY <1>1, <1>2, <1>3, <2>1, <2>2, <2>3 DEF PairInv, GoneAt, OneGenAt, BackedAt, Out
  <2>4. CASE p \notin Visited
    BY <1>1, <1>2, <2>1, <2>2, <2>4 DEF PairInv, OneGenAt, BackedAt, Out, RowsOf
  <2> QED
    BY <2>3, <2>4
<1> QED
  BY <1>6, <1>7 DEF LadderInv

\* With one pair on the cron's list, every behaviour of the ladders, of however many
\* pairs dropped from it, keeps the invariant.
THEOREM LadderInvAlways ==
    ASSUME OneVisited
    PROVE  Spec => []LadderInv
<1>1. Init => LadderInv
  BY LadderInvInitially
<1>2. LadderInv /\ [Next]_vars => LadderInv'
  BY LadderInvInductive
<1> QED
  BY <1>1, <1>2, PTL DEF Spec

\* What the process and redis keep of the ladders has its type.
THEOREM LadderTypes ==
    ASSUME OneVisited
    PROVE  Spec => []TypeOK
<1>1. LadderInv => TypeOK
  BY DEF LadderInv
<1> QED
  BY <1>1, LadderInvAlways, PTL

\* The matcher (matchingcall) only ever fills from a ladder this very tick has built
\* from healthy depth: after a sync that was refused or failed it finds none, unless
\* redis refused the purge as well.
THEOREM FillsFromOwnLadder ==
    ASSUME OneVisited
    PROVE  Spec => []OwnLadderOnly
<1>1. ASSUME LadderInv PROVE OwnLadderOnly
  <2>1. ASSUME NEW p \in Pairs
        PROVE  tick[p].seen \subseteq RowsOf(tick[p].built, Sides) \/ torn[p]
    <3>1. CASE Reading(p)
      BY <1>1, <3>1 DEF LadderInv, PairInv, ReadAt
    <3>2. CASE ~Reading(p)
      BY <1>1, <3>2 DEF LadderInv, PairInv, FreshAt
    <3> QED
      BY <3>1, <3>2
  <2> QED
    BY <2>1 DEF OwnLadderOnly
<1> QED
  BY <1>1, LadderInvAlways, PTL

\* A market order the gate accepts (orderGate.js) has rows in redis to take, but for
\* those a fill has consumed since the last sync or a sync is replacing: the process
\* says "gone" before it deletes and "there" only after it has written everything.
THEOREM AcceptedHasRows ==
    ASSUME OneVisited
    PROVE  Spec => []AcceptedIsBacked
<1>1. ASSUME LadderInv PROVE AcceptedIsBacked
  <2>1. ASSUME NEW p \in Pairs, NEW side \in Sides, Tradable(p, side)
        PROVE  \/ <<lastIds[p], Opposite(side)>> \in rows[p]
               \/ Opposite(side) \in eaten[p]
               \/ Syncing(p) \/ At(p, "relist")
    BY <1>1, <2>1 DEF LadderInv, PairInv, BackedAt, Out, Tradable, At
  <2> QED
    BY <2>1 DEF AcceptedIsBacked
<1> QED
  BY <1>1, LadderInvAlways, PTL
=============================================================================
