----------------------------- MODULE PaperLadder -----------------------------
(***************************************************************************)
(* The synthetic ladder of the paper exchange (spotapi,                     *)
(* paperBook.controller.js): rows the matcher's tick rebuilds from live     *)
(* depth, in the open-order hashes of redis, and what the process remembers *)
(* of them, which is all the order gate (lib/orderGate.js) looks at.  No    *)
(* wallet was debited for these rows, so one that outlives the depth it     *)
(* came from is money for whoever hits it.                                  *)
(*                                                                          *)
(* Every redis command is a step of its own and may be refused.  A row is   *)
(* <<generation, side>>: what one sync wrote on one side.  Ages stand for   *)
(* dates: 0 young enough for the gate (15 s), 1 older, 2 orphaned (30 s).   *)
(***************************************************************************)
EXTENDS Naturals

CONSTANTS
    Pairs, Visited,     \* the cron's list; a pair outside it was dropped from it
    Generations, None,
    MaxFaults           \* bound: how many commands redis refuses

ASSUME VisitedAssumption == Visited \subseteq Pairs
ASSUME NamesAssumption == None \notin Generations /\ None \notin 0..2
\* Every sync names its rows afresh: the last ladder and what is left of another do
\* not use the names up.
ASSUME GenerationsAssumption ==
    \A g, h \in Generations \cup {None} : Generations \ {g, h} # {}
ASSUME FaultsAssumption == MaxFaults \in Nat

VARIABLES
    rows,       \* the paper rows of the open-order hashes, by pair
    lastIds,    \* the generation this process wrote last
    lastSyncAt, \* how long ago
    purged,     \* purgedPairs: pairs whose ladder is known to be gone
    ladder,     \* ladderState: the sides the gate believes to have capacity
    depth,      \* whether the depth of a pair is healthy
    tick,       \* matchingcall, by pair
    faults,
    torn,       \* ghost: a purge was refused, and none has been completed since
    eaten       \* ghost: the sides a fill has consumed since the last sync

vars == <<rows, lastIds, lastSyncAt, purged, ladder, depth, tick, faults, torn, eaten>>
memory == <<lastIds, lastSyncAt, purged, ladder>>
ghosts == <<torn, eaten>>

Sides == {"buy", "sell"}
Opposite(side) == IF side = "buy" THEN "sell" ELSE "buy"
RowsOf(g, S) == {g} \X S

\* at: where the tick is; target: the pair it clears, back: where it goes then;
\* left: rows listed and not yet deleted or written; todo: orphans still to sweep;
\* built: the generation a successful sync wrote; seen: what the matcher has read.
IdleTick == [at |-> "idle", target |-> None, back |-> "idle", side |-> "buy",
             left |-> {}, todo |-> {}, gen |-> None, sides |-> {},
             built |-> None, seen |-> {}]

\* A pair outside the list carries the ladder it had when it was dropped.
Init ==
    LET g == CHOOSE h \in Generations : TRUE
        Has(p, x, y) == IF p \in Visited THEN x ELSE y
    IN /\ rows = [p \in Pairs |-> Has(p, {}, RowsOf(g, Sides))]
       /\ lastIds = [p \in Pairs |-> Has(p, None, g)]
       /\ lastSyncAt = [p \in Pairs |-> Has(p, None, 0)]
       /\ purged = {}
       /\ ladder = [p \in Pairs |-> Has(p, {}, Sides)]
       /\ depth = [p \in Pairs |-> TRUE]
       /\ tick = [p \in Pairs |-> IdleTick]
       /\ faults = 0
       /\ torn = [p \in Pairs |-> FALSE]
       /\ eaten = [p \in Pairs |-> {}]

At(p, at) == tick[p].at = at
Goto(p, at) == tick' = [tick EXCEPT ![p].at = at]
Refused == faults < MaxFaults /\ faults' = faults + 1

---------------------------------------------------------------------------
\* Deleting: the rows of a side are listed, then deleted one by one, side by side.
\* A purge does it, and a sync before it writes.

\* Mutant: the process goes on believing in the ladder until the end.
StartPurgeSilently(p, q, back, fields) ==
    /\ UNCHANGED ladder
    /\ tick' = [tick EXCEPT ![p] = [fields EXCEPT !.at = "list", !.side = "buy",
                                       !.target = q, !.back = back]]

\* purgePaperBook says "gone" before it deletes anything.
StartPurge(p, q, back, fields) ==
    /\ ladder' = [ladder EXCEPT ![q] = {}]
    /\ tick' = [tick EXCEPT ![p] = [fields EXCEPT !.at = "list", !.side = "buy",
                                       !.target = q, !.back = back]]

ListSide(p) ==
    /\ At(p, "list")
    /\ tick' = [tick EXCEPT ![p].at = "delete",
                   ![p].left = {r \in rows[tick[p].target] : r[2] = tick[p].side}]
    /\ UNCHANGED <<rows, memory, depth, faults, ghosts>>

DeleteRow(p) ==
    /\ At(p, "delete")
    /\ \E r \in tick[p].left :
         /\ rows' = [rows EXCEPT ![tick[p].target] = @ \ {r}]
         /\ tick' = [tick EXCEPT ![p].left = @ \ {r}]
    /\ UNCHANGED <<memory, depth, faults, ghosts>>

NextSide(p) ==
    /\ At(p, "delete") /\ tick[p].left = {} /\ tick[p].side = "buy"
    /\ tick' = [tick EXCEPT ![p].at = "list", ![p].side = "sell"]
    /\ UNCHANGED <<rows, memory, depth, faults, ghosts>>

Cleared(p) == At(p, "delete") /\ tick[p].left = {} /\ tick[p].side = "sell"

EndPurge(p) ==
    LET q == tick[p].target
    IN /\ Cleared(p) /\ tick[p].back # "write"
       /\ lastIds' = [lastIds EXCEPT ![q] = None]
       /\ lastSyncAt' = [lastSyncAt EXCEPT ![q] = None]
       /\ purged' = purged \cup {q}
       /\ ladder' = [ladder EXCEPT ![q] = {}]
       /\ torn' = [torn EXCEPT ![q] = FALSE]
       /\ Goto(p, tick[p].back)
       /\ UNCHANGED <<rows, depth, faults, eaten>>

\* Mutant: the pair is forgotten, as if it had been purged.
PurgeFailsForgetting(p) ==
    /\ tick[p].at \in {"list", "delete"} /\ tick[p].back # "write"
    /\ Refused
    /\ torn' = [torn EXCEPT ![tick[p].target] = TRUE]
    /\ lastSyncAt' = [lastSyncAt EXCEPT ![tick[p].target] = None]
    /\ tick' = [tick EXCEPT ![p].at = tick[p].back, ![p].left = {}]
    /\ UNCHANGED <<rows, lastIds, purged, ladder, depth, eaten>>

\* purgePaperBook catches: the pair is not marked as purged.
PurgeFails(p) ==
    /\ tick[p].at \in {"list", "delete"} /\ tick[p].back # "write"
    /\ Refused
    /\ torn' = [torn EXCEPT ![tick[p].target] = TRUE]
    /\ tick' = [tick EXCEPT ![p].at = tick[p].back, ![p].left = {}]
    /\ UNCHANGED <<rows, memory, depth, eaten>>

---------------------------------------------------------------------------
\* One tick: syncPaperBook, then the matcher.

\* sweepOrphanLadders looks at every age first, and purges what it then found old.
StartTick(p) ==
    /\ p \in Visited /\ At(p, "idle")
    /\ tick' = [tick EXCEPT ![p] = [IdleTick EXCEPT !.at = "sweep",
                   !.todo = {q \in Pairs \ {p} : lastSyncAt[q] = 2}]]
    /\ UNCHANGED <<rows, memory, depth, faults, ghosts>>

SweepOrphan(p) ==
    /\ At(p, "sweep")
    /\ \E q \in tick[p].todo :
         StartPurge(p, q, "sweep", [tick[p] EXCEPT !.todo = @ \ {q}])
    /\ UNCHANGED <<rows, lastIds, lastSyncAt, purged, depth, faults, ghosts>>

EndSweep(p) ==
    /\ At(p, "sweep") /\ tick[p].todo = {}
    /\ Goto(p, "decide")
    /\ UNCHANGED <<rows, memory, depth, faults, ghosts>>

\* dropLadder: nothing is deleted of a ladder already known to be gone.
DropLadder(p) ==
    IF p \in purged /\ lastIds[p] = None
    THEN /\ ladder' = [ladder EXCEPT ![p] = {}]
         /\ Goto(p, "read_buys")
    ELSE StartPurge(p, p, "read_buys", tick[p])

\* The depth is bad; or, whatever the depth, the pair is not eligible or the
\* account that owns the ladder is missing.
RefuseLadder(p) ==
    /\ At(p, "decide")
    /\ DropLadder(p)
    /\ UNCHANGED <<rows, lastIds, lastSyncAt, purged, depth, faults, ghosts>>

Unused(p) == Generations \ ({r[1] : r \in rows[p]} \cup {lastIds[p]})

\* What depth makes of a side may be nothing.  The rows of the last sync go first.
BuildLadder(p) ==
    /\ At(p, "decide") /\ depth[p]
    /\ \E sides \in SUBSET Sides :
         tick' = [tick EXCEPT ![p].at = "replace",
                     ![p].gen = CHOOSE g \in Unused(p) : TRUE, ![p].sides = sides,
                     ![p].left = IF lastIds[p] = None THEN {}
                                 ELSE RowsOf(lastIds[p], Sides)]
    /\ UNCHANGED <<rows, memory, depth, faults, ghosts>>

DeletePrevious(p) ==
    /\ At(p, "replace")
    /\ \/ \E r \in tick[p].left :
            /\ rows' = [rows EXCEPT ![p] = @ \ {r}]
            /\ tick' = [tick EXCEPT ![p].left = @ \ {r}]
       \/ /\ tick[p].left = {}
          /\ tick' = [tick EXCEPT ![p].at = "list", ![p].side = "buy",
                         ![p].target = p, ![p].back = "write"]
          /\ UNCHANGED rows
    /\ UNCHANGED <<memory, depth, faults, ghosts>>

StartWriting(p) ==
    /\ Cleared(p) /\ tick[p].back = "write"
    /\ tick' = [tick EXCEPT ![p].at = "write",
                   ![p].left = RowsOf(tick[p].gen, tick[p].sides)]
    /\ UNCHANGED <<rows, memory, depth, faults, ghosts>>

\* Buys are written before sells.
WriteRow(p) ==
    /\ At(p, "write")
    /\ \E r \in tick[p].left :
         /\ r[2] = "sell" => \A x \in tick[p].left : x[2] = "sell"
         /\ rows' = [rows EXCEPT ![p] = @ \cup {r}]
         /\ tick' = [tick EXCEPT ![p].left = @ \ {r}]
    /\ UNCHANGED <<memory, depth, faults, ghosts>>

\* Mutant: the date is written in another unit.
RecordLadderSeconds(p) ==
    /\ At(p, "write") /\ tick[p].left = {}
    /\ lastIds' = [lastIds EXCEPT ![p] = tick[p].gen]
    /\ lastSyncAt' = [lastSyncAt EXCEPT ![p] = 1000]
    /\ purged' = purged \ {p}
    /\ ladder' = [ladder EXCEPT ![p] = tick[p].sides]
    /\ torn' = [torn EXCEPT ![p] = FALSE]
    /\ eaten' = [eaten EXCEPT ![p] = {}]
    /\ tick' = [tick EXCEPT ![p].at = "read_buys", ![p].built = tick[p].gen]
    /\ UNCHANGED <<rows, depth, faults>>

RecordLadder(p) ==
    /\ At(p, "write") /\ tick[p].left = {}
    /\ lastIds' = [lastIds EXCEPT ![p] = tick[p].gen]
    /\ lastSyncAt' = [lastSyncAt EXCEPT ![p] = 0]
    /\ purged' = purged \ {p}
    /\ ladder' = [ladder EXCEPT ![p] = tick[p].sides]
    /\ torn' = [torn EXCEPT ![p] = FALSE]
    /\ eaten' = [eaten EXCEPT ![p] = {}]
    /\ tick' = [tick EXCEPT ![p].at = "read_buys", ![p].built = tick[p].gen]
    /\ UNCHANGED <<rows, depth, faults>>

Syncing(p) ==
    \/ tick[p].at \in {"decide", "replace", "write"}
    \/ tick[p].at \in {"list", "delete"} /\ tick[p].back = "write"

\* Mutant: the failed sync is only written down.
SyncFailsOnly(p) ==
    /\ Syncing(p) /\ Refused
    /\ ladder' = [ladder EXCEPT ![p] = {}]
    /\ tick' = [tick EXCEPT ![p].at = "read_buys", ![p].left = {}]
    /\ UNCHANGED <<rows, lastIds, lastSyncAt, purged, depth, ghosts>>

\* The catch of syncPaperBook purges, as best it can.
SyncFails(p) ==
    /\ Syncing(p) /\ Refused
    /\ StartPurge(p, p, "read_buys", [tick[p] EXCEPT !.left = {}])
    /\ UNCHANGED <<rows, lastIds, lastSyncAt, purged, depth, ghosts>>

\* matchingcall does not look at what the sync answers.
ReadSide(p, from, side, to) ==
    /\ At(p, from)
    /\ tick' = [tick EXCEPT ![p].at = to,
                   ![p].seen = @ \cup {r \in rows[p] : r[2] = side}]
    /\ UNCHANGED <<rows, memory, depth, faults, ghosts>>
ReadBuys(p) == ReadSide(p, "read_buys", "buy", "read_sells")
ReadSells(p) == ReadSide(p, "read_sells", "sell", "matching")

ReadFails(p) ==
    /\ tick[p].at \in {"read_buys", "read_sells"} /\ Refused
    /\ tick' = [tick EXCEPT ![p] = IdleTick]
    /\ UNCHANGED <<rows, memory, depth, ghosts>>

\* A fill deletes the row, and writes back what is left of it if any is.
Fill(p) ==
    /\ At(p, "matching")
    /\ \E r \in tick[p].seen, to \in {"matching", "relist"} :
         /\ rows' = [rows EXCEPT ![p] = @ \ {r}]
         /\ tick' = [tick EXCEPT ![p].at = to, ![p].seen = @ \ {r},
                        ![p].left = IF to = "relist" THEN {r} ELSE {}]
         /\ eaten' = IF to = "relist" THEN eaten
                     ELSE [eaten EXCEPT ![p] = @ \cup {r[2]}]
    /\ UNCHANGED <<memory, depth, faults, torn>>

Relist(p) ==
    /\ At(p, "relist")
    /\ rows' = [rows EXCEPT ![p] = @ \cup tick[p].left]
    /\ tick' = [tick EXCEPT ![p].at = "matching", ![p].left = {}]
    /\ UNCHANGED <<memory, depth, faults, ghosts>>

EndTick(p) ==
    /\ At(p, "matching")
    /\ tick' = [tick EXCEPT ![p] = IdleTick]
    /\ UNCHANGED <<rows, memory, depth, faults, ghosts>>

---------------------------------------------------------------------------
\* The feed of a pair the engine serves turns bad, or good.
Turn(p) ==
    /\ p \in Visited
    /\ depth' = [depth EXCEPT ![p] = ~@]
    /\ UNCHANGED <<rows, memory, tick, faults, ghosts>>

Age(p) ==
    /\ lastSyncAt[p] \in {0, 1}
    /\ lastSyncAt' = [lastSyncAt EXCEPT ![p] = @ + 1]
    /\ UNCHANGED <<rows, lastIds, purged, ladder, depth, tick, faults, ghosts>>

Step(p) ==
    \/ ListSide(p) \/ DeleteRow(p) \/ NextSide(p) \/ EndPurge(p)
    \/ SweepOrphan(p) \/ EndSweep(p)
    \/ RefuseLadder(p) \/ BuildLadder(p) \/ DeletePrevious(p) \/ StartWriting(p)
    \/ WriteRow(p) \/ RecordLadder(p)
    \/ ReadBuys(p) \/ ReadSells(p) \/ Relist(p) \/ EndTick(p)

Next == \E p \in Pairs :
    \/ StartTick(p) \/ Step(p) \/ Fill(p)
    \/ PurgeFails(p) \/ SyncFails(p) \/ ReadFails(p)
    \/ Turn(p) \/ Age(p)

Spec == Init /\ [][Next]_vars

\* The cron fires, what is awaited is answered or refused, and time passes.
Fairness == \A p \in Pairs : WF_vars(StartTick(p)) /\ WF_vars(Step(p)) /\ WF_vars(Age(p))

FairSpec == Spec /\ Fairness

---------------------------------------------------------------------------
Row == Generations \X Sides

Tick == [at : {"idle", "sweep", "decide", "list", "delete", "replace", "write",
               "read_buys", "read_sells", "matching", "relist"},
         target : Pairs \cup {None}, back : {"idle", "sweep", "write", "read_buys"},
         side : Sides, left : SUBSET Row, todo : SUBSET Pairs,
         gen : Generations \cup {None}, sides : SUBSET Sides,
         built : Generations \cup {None}, seen : SUBSET Row]

TypeOK ==
    /\ rows \in [Pairs -> SUBSET Row]
    /\ lastIds \in [Pairs -> Generations \cup {None}]
    /\ lastSyncAt \in [Pairs -> 0..2 \cup {None}]
    /\ purged \subseteq Pairs
    /\ ladder \in [Pairs -> SUBSET Sides]
    /\ depth \in [Pairs -> BOOLEAN]
    /\ tick \in [Pairs -> Tick]
    /\ faults \in 0..MaxFaults
    /\ torn \in [Pairs -> BOOLEAN]
    /\ eaten \in [Pairs -> SUBSET Sides]

\* The gate's answer to a market order: healthy depth, a ladder this process
\* believes in and wrote within 15 s, and capacity on the side the order takes.
Tradable(p, side) ==
    depth[p] /\ lastSyncAt[p] = 0 /\ Opposite(side) \in ladder[p]

\* The matcher only ever fills from a ladder that this very tick has built from
\* healthy depth: after a refused or failed sync it finds none at all.  A purge
\* that redis refused is the exception.
OwnLadderOnly ==
    \A p \in Pairs : tick[p].seen \subseteq RowsOf(tick[p].built, Sides) \/ torn[p]

\* A market order the gate accepts has rows in redis to take: the process never
\* believes in a ladder that is being deleted.  A fill since the last sync may have
\* consumed them, and a sync may be replacing them.  Like the property before, with
\* one pair on the cron's list: with two, the sweep of one may take the ladder of the
\* other, 30 s late but still being written, for an orphan (README, section 3).
AcceptedIsBacked ==
    \A p \in Pairs, side \in Sides :
        Tradable(p, side) =>
            \/ <<lastIds[p], Opposite(side)>> \in rows[p]
            \/ Opposite(side) \in eaten[p]
            \/ Syncing(p) \/ At(p, "relist")

\* The ladder of a pair the cron has stopped visiting does not rest for good: the
\* tick of another pair deletes it, and tries again when redis refuses that.
OrphansAreSwept == \A q \in Pairs \ Visited : (rows[q] # {}) ~> (rows[q] = {})
=============================================================================
