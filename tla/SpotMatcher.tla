---------------------------- MODULE SpotMatcher ----------------------------
(***************************************************************************)
(* The spot exchange in paper mode (botstatus "binance"): placing, the     *)
(* owner's cancel, the sweep of a closing account, and the matcher the     *)
(* cron starts for every pair.  They are asynchronous functions of one     *)
(* node process over one redis connection: the code between two awaits,    *)
(* with the command it issues, is one step, and anything may run between   *)
(* two steps.  The book is hashes in redis; the matcher works on a         *)
(* snapshot of them and writes the outcome back command by command.        *)
(***************************************************************************)
EXTENDS Integers, Sequences, FiniteSetsExt, SequencesExt

CONSTANTS
    Users, Pairs,   \* a pair is named by its base coin, the quote is "usd"
    Orders,         \* what users may ask for, and the rows of the paper ladder
    Request,        \* [Orders -> [user, pair, side, kind, qty, price]]
    Closers,        \* the users who may close their account
    SweepsMidTick,  \* may their orders be claimed while a tick holds the latch?
    Funds,          \* what a user starts with, of every coin
    Lot,            \* the smallest quantity a pair can express
    NoRow

ASSUME RequestAssumption ==
    Request \in [Orders -> [user : Users, pair : Pairs, side : {"buy", "sell"},
                            kind : {"limit", "market", "ladder"},
                            qty : Nat \ {0}, price : Nat \ {0}]]
ASSUME LotAssumption == Lot \in Nat \ {0}
ASSUME FundsAssumption == Funds \in Nat
ASSUME SweepAssumption == SweepsMidTick \in BOOLEAN

VARIABLES
    book,       \* the rows of the open-order hashes
    inOrder,    \* walletbalance_spot_inOrder: what is reserved, by user and coin
    place,      \* how far the placement of each order has come
    claim,      \* the cancel that has claimed an order, and how far it has come
    sweep,      \* the orders a closing account has listed and not yet claimed
    tick,       \* matchingcall, by pair (pairLocks holds those not idle)
    tradePair,  \* the cancel-block latch
    isRun,      \* the latch of the cron
    refunded, earned,   \* the ledger entries of an order, summed
    spent       \* ghost: what fills have taken of an order's escrow

vars == <<book, inOrder, place, claim, sweep, tick, tradePair, isRun,
          refunded, earned, spent>>

-----------------------------------------------------------------------------
Quote == "usd"
Coins == Pairs \cup {Quote}
NoPair == ""
Market == 0     \* the price of a row that says "market"

user(o) == Request[o].user
pair(o) == Request[o].pair
IsBuy(o) == Request[o].side = "buy"
IsLimit(o) == Request[o].kind = "limit"
IsMarket(o) == Request[o].kind = "market"
IsLadder(o) == Request[o].kind = "ladder"
UserOrders == {o \in Orders : ~IsLadder(o)}

CostCoin(o) == IF IsBuy(o) THEN Quote ELSE pair(o)
GainCoin(o) == IF IsBuy(o) THEN pair(o) ELSE Quote
Cost(o) == Request[o].qty * (IF IsBuy(o) THEN Request[o].price ELSE 1)
Field(o) == <<user(o), CostCoin(o)>>

\* `value` is orderValue of a market buy and amount of a market sell, what the
\* order has left; `released` is what a limit order gave back of its reservation.
LimitRow(o) == [qty |-> Request[o].qty, price |-> Request[o].price,
                value |-> 0, released |-> 0]
MarketRow(o) == [qty |-> Request[o].qty, price |-> Market,
                 value |-> Cost(o), released |-> 0]
Row == [qty : Nat, price : Nat, value : Nat, released : Nat]
ASSUME NoRowAssumption == NoRow \notin Row

Positive(n) == IF n > 0 THEN n ELSE 0
AtMost(m, n) == IF m < n THEN m ELSE n
\* The quantity a trade executes.
ExecutedMax(buyRow, sellRow) ==          \* mutant
    IF buyRow.qty < sellRow.qty THEN sellRow.qty ELSE buyRow.qty
Executed(buyRow, sellRow) == AtMost(buyRow.qty, sellRow.qty)

toFixedDown(q) == (q \div Lot) * Lot

reservationRemaining(o, row) == Positive(Cost(o) - row.released)
unspentReservationOf(o, row, consumed) ==
    Positive(reservationRemaining(o, row) - consumed)

\* What a cancel of the row gives back.
Backing(o, row) == IF IsLimit(o) THEN reservationRemaining(o, row) ELSE row.value

\* The balance of the wallet is the sum of its ledger entries (SpotLedger).
Debited(o) == IF place[o] = "new" THEN 0 ELSE Cost(o)
Escrow(o) == Debited(o) - refunded[o] - spent[o]
Free(u, c) ==
    Funds + MapThenSumSet(LAMBDA o : earned[o],
                {o \in UserOrders : user(o) = u /\ GainCoin(o) = c})
          + MapThenSumSet(LAMBDA o : refunded[o] - Debited(o),
                {o \in UserOrders : user(o) = u /\ CostCoin(o) = c})

-----------------------------------------------------------------------------
\* One step of the matcher's settlement: a redis command and its order.  `todo`
\* holds those still to run, so what runs between two of them may be anything.
Op(name, o, amount) == [op |-> name, o |-> o, amount |-> amount, with |-> o]
Refund(o, a) == IF a > 0 THEN <<Op("refund", o, a)>> ELSE <<>>
Release(o, a) == <<Op("release", o, a)>>
ReleaseAll(o) == <<Op("releaseAll", o, 0)>>
Hdel(o) == <<Op("hdel", o, 0)>>
Hset(o) == <<Op("hset", o, 0)>>
settlementCreditBuyer(o, a) ==           \* mutant: the seller's leg is missing
    IF IsBuy(o) /\ ~IsLadder(o) THEN <<Op("credit", o, a)>> ELSE <<>>
settlementCredit(o, a) == IF IsLadder(o) THEN <<>> ELSE <<Op("credit", o, a)>>
Match(taker, other, unit) ==
    <<[op |-> "match", o |-> taker, amount |-> unit, with |-> other]>>
Break(o) == <<Op("break", o, 0)>>

NoClaim == [step |-> "none", by |-> "owner", row |-> NoRow, applied |-> 0]
IdleTick == [at |-> "idle", buys |-> <<>>, sells |-> <<>>,
             rows |-> [o \in Orders |-> NoRow], todo |-> <<>>]

Init ==
    /\ book = [o \in Orders |-> NoRow]
    /\ inOrder = [f \in Users \X Coins |-> 0]
    /\ place = [o \in Orders |-> "new"]
    /\ claim = [o \in Orders |-> NoClaim]
    /\ sweep = [u \in Closers |-> {}]
    /\ tick = [p \in Pairs |-> IdleTick]
    /\ tradePair = NoPair
    /\ isRun = FALSE
    /\ refunded = [o \in Orders |-> 0]
    /\ earned = [o \in Orders |-> 0]
    /\ spent = [o \in Orders |-> 0]

money == <<refunded, earned, spent>>
matcher == <<tick, tradePair, isRun>>

-----------------------------------------------------------------------------
\* The process runs one function at a time: once a tick spins, nothing else runs.
Running == \A p \in Pairs : tick[p].at /= "spinning"
Placing(o, stage) == Running /\ place[o] = stage
Claiming(o, step) == Running /\ claim[o].step = step
At(p, stage) == Running /\ tick[p].at = stage

\* The debit decides: the script takes it only from a balance that covers it.
Debit(o) ==
    /\ Placing(o, "new")
    /\ Free(user(o), CostCoin(o)) >= Cost(o)
    /\ place' = [place EXCEPT ![o] = "debited"]
    /\ UNCHANGED <<book, inOrder, claim, sweep, matcher, money>>

List(o, row) ==
    /\ place' = [place EXCEPT ![o] = "resting"]
    /\ book' = [book EXCEPT ![o] = row]
    /\ UNCHANGED <<inOrder, claim, sweep, matcher, money>>

\* limitOrderPlace debits, reserves and writes the row.
DebitLimit(o) == IsLimit(o) /\ Debit(o)

Reserve(o) ==
    /\ Placing(o, "debited") /\ IsLimit(o)
    /\ place' = [place EXCEPT ![o] = "reserved"]
    /\ inOrder' = [inOrder EXCEPT ![Field(o)] = @ + Cost(o)]
    /\ UNCHANGED <<book, claim, sweep, matcher, money>>

ListLimit(o) == Placing(o, "reserved") /\ IsLimit(o) /\ List(o, LimitRow(o))

\* marketOrderPlace debits and writes the row; nothing is reserved.
DebitMarket(o) == IsMarket(o) /\ Debit(o)

ListMarket(o) == Placing(o, "debited") /\ IsMarket(o) /\ List(o, MarketRow(o))

-----------------------------------------------------------------------------
\* Mutant: the row is read and not taken.
ClaimKeepingRow(S, by) ==
    /\ claim' = [o \in Orders |->
           IF o \in S /\ book[o] /= NoRow
             THEN [step |-> "refund", by |-> by, row |-> book[o], applied |-> 0]
             ELSE claim[o]]
    /\ UNCHANGED book

\* hgetdel: of several claims of a row one gets it, and the book no longer has it.
Claim(S, by) ==
    LET won == {o \in S : book[o] /= NoRow}
    IN /\ book' = [o \in Orders |-> IF o \in won THEN NoRow ELSE book[o]]
       /\ claim' = [o \in Orders |->
              IF o \in won
                THEN [step |-> "refund", by |-> by, row |-> book[o], applied |-> 0]
                ELSE claim[o]]

\* cancelMarketOrder, which the matcher starts and does not wait for.
CancelMarketOrders(S) == Claim(S, "matcher")

\* Mutant: the latch is not looked at.
CancelOrderUnlatched(o) ==
    /\ Running /\ ~IsLadder(o)
    /\ book[o] /= NoRow /\ claim[o] = NoClaim
    /\ Claim({o}, "owner")
    /\ UNCHANGED <<inOrder, place, sweep, matcher, money>>

\* cancelOrder: the latch is looked at in the segment that issues the claim.
CancelOrder(o) ==
    /\ Running /\ ~IsLadder(o)
    /\ book[o] /= NoRow /\ claim[o] = NoClaim
    /\ tradePair /= pair(o)
    /\ Claim({o}, "owner")
    /\ UNCHANGED <<inOrder, place, sweep, matcher, money>>

\* cancelOrderForDeactiveAcc: the open orders are listed, then claimed and
\* cancelled one after the other.  The code does not look at the latch: that is
\* SweepsMidTick, and without it the sweeps are those that no tick overlaps.
ListForClosure(u) ==
    /\ Running /\ sweep[u] = {}
    /\ sweep' = [sweep EXCEPT ![u] =
                    {o \in UserOrders : user(o) = u /\ book[o] /= NoRow}]
    /\ UNCHANGED <<book, inOrder, place, claim, matcher, money>>

ClaimForClosure(u) ==
    /\ Running
    /\ \A o \in Orders :
          claim[o] /= NoClaim /\ user(o) = u => claim[o].by /= "closure"
    /\ \E o \in sweep[u] :
          /\ claim[o] = NoClaim
          /\ SweepsMidTick \/ tradePair /= pair(o)
          /\ sweep' = [sweep EXCEPT ![u] = @ \ {o}]
          /\ Claim({o}, "closure")
    /\ UNCHANGED <<inOrder, place, matcher, money>>

\* Mutant: the reservation stays behind.
ClaimRefundOnly(o) ==
    /\ Claiming(o, "refund")
    /\ refunded' = [refunded EXCEPT ![o] = @ + Backing(o, claim[o].row)]
    /\ claim' = [claim EXCEPT ![o] = NoClaim]
    /\ UNCHANGED <<book, inOrder, place, sweep, matcher, earned, spent>>

\* What every claim goes on to do: pay back what the row still held, then give
\* back its reservation (a market order has none).
ClaimRefund(o) ==
    /\ Claiming(o, "refund")
    /\ refunded' = [refunded EXCEPT ![o] = @ + Backing(o, claim[o].row)]
    /\ claim' = [claim EXCEPT ![o] =
                    IF IsLimit(o) THEN [@ EXCEPT !.step = "release"] ELSE NoClaim]
    /\ UNCHANGED <<book, inOrder, place, sweep, matcher, earned, spent>>

\* releaseInOrder reads the reservation, and takes off what it has read it can.
ClaimReadInOrder(o) ==
    /\ Claiming(o, "release")
    /\ LET applied == AtMost(reservationRemaining(o, claim[o].row),
                             Positive(inOrder[Field(o)]))
       IN claim' = [claim EXCEPT ![o] =
             IF applied > 0 THEN [@ EXCEPT !.step = "write", !.applied = applied]
             ELSE NoClaim]
    /\ UNCHANGED <<book, inOrder, place, sweep, matcher, money>>

ClaimWriteInOrder(o) ==
    /\ Claiming(o, "write")
    /\ inOrder' = [inOrder EXCEPT ![Field(o)] = @ - claim[o].applied]
    /\ claim' = [claim EXCEPT ![o] = NoClaim]
    /\ UNCHANGED <<book, place, sweep, matcher, money>>

-----------------------------------------------------------------------------
\* The cron starts a tick of a pair that has none, while no tick is matching.
StartTick(p) ==
    /\ At(p, "idle") /\ ~isRun
    /\ tick' = [tick EXCEPT ![p].at = "fetching"]
    /\ UNCHANGED <<book, inOrder, place, claim, sweep, tradePair, isRun, money>>

\* syncPaperBook: whatever ladder the depth and its health allow replaces the
\* last one.  Nobody else writes these rows, and only the matcher takes them.
SyncLadder(p) ==
    /\ At(p, "fetching")
    /\ LET ladder == {o \in Orders : IsLadder(o) /\ pair(o) = p}
       IN \E listed \in SUBSET ladder :
             book' = [o \in Orders |-> IF o \notin ladder THEN book[o]
                                       ELSE IF o \in listed THEN LimitRow(o)
                                       ELSE NoRow]
    /\ tick' = [tick EXCEPT ![p].at = "synced"]
    /\ UNCHANGED <<inOrder, place, claim, sweep, tradePair, isRun, money>>

Snapshot(p, buying) ==
    [o \in Orders |-> IF pair(o) = p /\ IsBuy(o) = buying THEN book[o]
                      ELSE tick[p].rows[o]]

ArmAndReadBuys(p) ==
    /\ At(p, "synced")
    /\ tradePair' = p
    /\ tick' = [tick EXCEPT ![p].at = "armed", ![p].rows = Snapshot(p, TRUE)]
    /\ UNCHANGED <<book, inOrder, place, claim, sweep, isRun, money>>

ReadSells(p) ==
    /\ At(p, "armed")
    /\ tick' = [tick EXCEPT ![p].at = "read", ![p].rows = Snapshot(p, FALSE)]
    /\ UNCHANGED <<book, inOrder, place, claim, sweep, tradePair, isRun, money>>

\* Market orders first, then by price.  The date comparator subtracts strings and
\* orders nothing, so rows of one price come in whatever order the hash has.
Sorted(rows, S, buying) ==
    LET better(x, y) == IF buying THEN x > y ELSE x < y
    IN {seq \in SetToSeqs(S) :
           \A i, j \in DOMAIN seq : i < j =>
               ~(rows[seq[i]].price /= Market /\ rows[seq[j]].price = Market)
               /\ (rows[seq[i]].price /= Market =>
                     ~better(rows[seq[j]].price, rows[seq[i]].price))}

Resting(rows, buying) == {o \in Orders : rows[o] /= NoRow /\ IsBuy(o) = buying}

\* Mutants: the latch stays, and market orders left alone are not cancelled.
EndTickArmed(p, alone) ==
    /\ CancelMarketOrders({o \in alone : tick[p].rows[o].price = Market})
    /\ tick' = [tick EXCEPT ![p] = IdleTick]
    /\ isRun' = FALSE
    /\ UNCHANGED <<inOrder, place, sweep, tradePair, money>>

EndTickLeaving(p, alone) ==
    /\ tick' = [tick EXCEPT ![p] = IdleTick]
    /\ tradePair' = IF tradePair = p THEN NoPair ELSE tradePair
    /\ isRun' = FALSE
    /\ UNCHANGED <<book, claim, inOrder, place, sweep, money>>

\* The end of a tick cancels the market orders left alone on their side; the
\* finally of matchingcall gives up the pair's lock, and its latch.
EndTick(p, alone) ==
    /\ CancelMarketOrders({o \in alone : tick[p].rows[o].price = Market})
    /\ tick' = [tick EXCEPT ![p] = IdleTick]
    /\ tradePair' = IF tradePair = p THEN NoPair ELSE tradePair
    /\ isRun' = FALSE
    /\ UNCHANGED <<inOrder, place, sweep, money>>

OneSided(p) ==
    LET buys == Resting(tick[p].rows, TRUE)  sells == Resting(tick[p].rows, FALSE)
    IN /\ At(p, "read")
       /\ buys = {} \/ sells = {}
       /\ EndTick(p, buys \cup sells)

BeginMatching(p) ==
    LET rows == tick[p].rows
    IN /\ At(p, "read")
       /\ Resting(rows, TRUE) /= {} /\ Resting(rows, FALSE) /= {}
       /\ \E buys \in Sorted(rows, Resting(rows, TRUE), TRUE),
             sells \in Sorted(rows, Resting(rows, FALSE), FALSE) :
             LET bid == rows[buys[1]].price  ask == rows[sells[1]].price
                 topCross == bid = Market \/ ask = Market \/ bid >= ask
             IN /\ tick' = [tick EXCEPT ![p].at = "matching",
                               ![p].buys = buys, ![p].sells = sells]
                /\ tradePair' = IF topCross THEN p ELSE tradePair
       /\ isRun' = TRUE
       /\ UNCHANGED <<book, inOrder, place, claim, sweep, money>>

-----------------------------------------------------------------------------
\* One turn of the matching loop, on the heads of the two lists.
RowOf(p, o) == tick[p].rows[o]

Turn(p) ==
    /\ At(p, "matching") /\ tick[p].todo = <<>>
    /\ tick[p].buys /= <<>> /\ tick[p].sells /= <<>>

\* The lists a turn drops orders from without settling anything.
Dropping(p, buys, sells) ==
    tick' = [tick EXCEPT ![p].buys = buys, ![p].sells = sells]

\* The first order of a list that does not say "market", 0 if there is none.
FirstLimit(p, list) == SelectInSeq(list, LAMBDA o : RowOf(p, o).price /= Market)

HasOther(p, list, u) ==
    \E i \in DOMAIN list : RowOf(p, list[i]).price /= Market /\ user(list[i]) /= u

TurnBothMarket(p) ==
    LET buys == tick[p].buys  sells == tick[p].sells
        b == buys[1]  s == sells[1]
        i == FirstLimit(p, buys)  j == FirstLimit(p, sells)
    IN /\ Turn(p)
       /\ RowOf(p, b).price = Market /\ RowOf(p, s).price = Market
       /\ i /= 0 \/ j /= 0
       /\ IF j /= 0 /\ user(b) = user(sells[j])
            THEN Dropping(p, Tail(buys), RemoveAt(sells, j))
          ELSE IF i /= 0 /\ user(s) = user(buys[i])
            THEN Dropping(p, RemoveAt(buys, i), Tail(sells))
          ELSE tick' = [tick EXCEPT ![p].todo =
                   (IF j /= 0 THEN Match(b, sells[j], Lot) ELSE <<>>)
                   \o (IF i /= 0 THEN Match(s, buys[i], Lot) ELSE <<>>)]
       /\ UNCHANGED <<book, inOrder, place, claim, sweep, tradePair, isRun, money>>

TurnMarketBuy(p) ==
    LET buys == tick[p].buys  sells == tick[p].sells
        b == buys[1]  s == sells[1]
    IN /\ Turn(p)
       /\ RowOf(p, b).price = Market /\ RowOf(p, s).price /= Market
       /\ \/ /\ user(b) = user(s) /\ HasOther(p, sells, user(b))
             /\ Dropping(p, buys, Tail(sells))
             /\ UNCHANGED <<book, claim>>
          \/ /\ user(b) = user(s) /\ ~HasOther(p, sells, user(b))
             /\ CancelMarketOrders({b})
             /\ Dropping(p, Tail(buys), Front(sells))
          \/ /\ user(b) /= user(s) /\ RowOf(p, b).value = 0
             /\ CancelMarketOrders({b})
             /\ Dropping(p, Tail(buys), sells)
          \/ /\ user(b) /= user(s) /\ RowOf(p, b).value > 0
             /\ tick' = [tick EXCEPT ![p].todo = Match(b, s, 1)]
             /\ UNCHANGED <<book, claim>>
       /\ UNCHANGED <<inOrder, place, sweep, tradePair, isRun, money>>

TurnMarketSell(p) ==
    LET buys == tick[p].buys  sells == tick[p].sells
        b == buys[1]  s == sells[1]
    IN /\ Turn(p)
       /\ RowOf(p, b).price /= Market /\ RowOf(p, s).price = Market
       /\ \/ /\ user(b) = user(s) /\ HasOther(p, buys, user(b))
             /\ Dropping(p, Tail(buys), sells)
             /\ UNCHANGED <<book, claim>>
          \/ /\ user(b) = user(s) /\ ~HasOther(p, buys, user(b))
             /\ CancelMarketOrders({s})
             /\ Dropping(p, Front(buys), Tail(sells))
          \/ /\ user(b) /= user(s)
             /\ tick' = [tick EXCEPT ![p].todo = Match(s, b, 1)]
             /\ UNCHANGED <<book, claim>>
       /\ UNCHANGED <<inOrder, place, sweep, tradePair, isRun, money>>

\* What a fill of `e` at `price` does to one side: the row it leaves, the commands
\* that record it, and whether the order is complete.  `others`: the opposite list
\* holds more than the counterparty.
LimitSide(o, row, e, price) ==
    LET left == toFixedDown(row.qty - e)
        used == e * (IF IsBuy(o) THEN row.price ELSE 1)
        improved == IF IsBuy(o) THEN Refund(o, e * (row.price - price)) ELSE <<>>
    IN [row |-> [row EXCEPT !.qty = left],
        done |-> left = 0,
        ops |-> improved \o
            IF left = 0
              THEN ReleaseAll(o)
                   \o Refund(o, unspentReservationOf(o, row, used)) \o Hdel(o)
              ELSE Release(o, used) \o Hdel(o) \o Hset(o)]

LadderSide(o, row, e) ==
    LET left == toFixedDown(row.qty - e)
    IN [row |-> [row EXCEPT !.qty = left], done |-> left = 0,
        ops |-> IF left = 0 THEN Hdel(o) ELSE Hdel(o) \o Hset(o)]

MarketBuySideStale(o, row, e, price, others) ==  \* mutant: the value is not reduced
    LET done == toFixedDown(row.qty - e) = 0
    IN [row |-> [row EXCEPT !.qty = 0, !.price = IF done THEN price ELSE Market],
        done |-> done,
        ops |-> IF ~done /\ others THEN Hdel(o) \o Hset(o)
                ELSE Refund(o, row.value) \o Hdel(o)]

MarketBuySide(o, row, e, price, others) ==
    LET value == row.value - e * price
        done == toFixedDown(row.qty - e) = 0
        stays == others \/ value = 0
    IN [row |-> [row EXCEPT !.qty = 0, !.value = value,
                            !.price = IF ~done /\ stays THEN Market ELSE price],
        done |-> done,
        ops |-> IF ~done /\ stays THEN Hdel(o) \o Hset(o)
                ELSE Refund(o, value) \o Hdel(o)]

MarketSellSide(o, row, e, others) ==
    LET left == toFixedDown(row.qty - e)
    IN [row |-> IF left = 0 THEN [row EXCEPT !.qty = 0]
                ELSE [row EXCEPT !.qty = left, !.value = left, !.price = Market],
        done |-> left = 0,
        ops |-> IF left = 0 THEN Hdel(o)
                ELSE IF others THEN Hdel(o) \o Hset(o)
                ELSE Refund(o, row.qty - e) \o Hdel(o)]

FillSide(o, row, e, price, others) ==
    CASE IsLadder(o) -> LadderSide(o, row, e)
      [] IsLimit(o)  -> LimitSide(o, row, e, price)
      [] IsMarket(o) /\ IsBuy(o) -> MarketBuySide(o, row, e, price, others)
      [] OTHER -> MarketSellSide(o, row, e, others)

\* A trade: both rows change at once, then the buyer's commands run, the seller's
\* and the two credits.  A completed side shifts the head off its list, which is
\* not always the order that completed.
Trade(p, rows, b, s, e, price, rest) ==
    LET buys == tick[p].buys  sells == tick[p].sells
        buyer == FillSide(b, rows[b], e, price, \E i \in DOMAIN sells : sells[i] /= s)
        buysLeft == IF buyer.done /\ buys /= <<>> THEN Tail(buys) ELSE buys
        seller == FillSide(s, rows[s], e, price, buysLeft /= <<>>)
        sellsLeft == IF seller.done /\ sells /= <<>> THEN Tail(sells) ELSE sells
    IN /\ tick' = [tick EXCEPT
             ![p].rows = [rows EXCEPT ![b] = buyer.row, ![s] = seller.row],
             ![p].buys = buysLeft, ![p].sells = sellsLeft,
             ![p].todo = buyer.ops \o seller.ops \o settlementCredit(b, e)
                         \o settlementCredit(s, e * price) \o rest]
       /\ spent' = [o \in Orders |->
             IF IsLadder(o) THEN 0
             ELSE IF o = b THEN spent[o] + e * price
             ELSE IF o = s THEN spent[o] + e
             ELSE spent[o]]

TurnLimit(p) ==
    LET buys == tick[p].buys  sells == tick[p].sells
        b == buys[1]  s == sells[1]
        rows == tick[p].rows
    IN /\ Turn(p)
       /\ ~IsMarket(b) /\ ~IsMarket(s)
       /\ \/ /\ rows[b].price < rows[s].price
             /\ tick' = [tick EXCEPT ![p].at = "breaking"]
             /\ UNCHANGED spent
          \/ /\ rows[b].price >= rows[s].price /\ user(b) = user(s)
             /\ IF Len(buys) > Len(sells)
                  THEN Dropping(p, Tail(buys), sells)
                  ELSE Dropping(p, buys, Tail(sells))
             /\ UNCHANGED spent
          \/ /\ rows[b].price >= rows[s].price /\ user(b) /= user(s)
             /\ \E maker \in {b, s} :
                   Trade(p, rows, b, s, Executed(rows[b], rows[s]),
                         rows[maker].price, Break(b))
       /\ UNCHANGED <<book, inOrder, place, claim, sweep, tradePair, isRun,
                      refunded, earned>>

\* marketMatching: the market order takes the price of the other, and a buy its
\* quantity from the money it has left.
MarketMatch(p) ==
    LET op == Head(tick[p].todo)
        o == op.o
        price == tick[p].rows[op.with].price
        value == tick[p].rows[o].value
        afford == ((value \div price) \div op.amount) * op.amount
        rows == [tick[p].rows EXCEPT
                    ![o].price = price,
                    ![o].qty = IF IsBuy(o) THEN afford ELSE value]
        b == IF IsBuy(o) THEN o ELSE op.with
        s == IF IsBuy(o) THEN op.with ELSE o
        e == Executed(rows[b], rows[s])
        rest == Tail(tick[p].todo)
    IN /\ IF e > 0 THEN Trade(p, rows, b, s, e, price, rest)
          ELSE /\ tick' = [tick EXCEPT ![p].rows = rows, ![p].todo = rest]
               /\ UNCHANGED spent
       /\ UNCHANGED <<book, inOrder, place, claim, sweep, tradePair, isRun,
                      refunded, earned>>

\* Nothing in the loop fits the two heads, and nothing in it waits: the process
\* never runs anything else again.
Spin(p) ==
    LET buys == tick[p].buys  sells == tick[p].sells
        bid == RowOf(p, buys[1]).price  ask == RowOf(p, sells[1]).price
    IN /\ Turn(p)
       /\ \/ bid = Market /\ ask = Market
             /\ FirstLimit(p, buys) = 0 /\ FirstLimit(p, sells) = 0
          \/ bid /= Market /\ ask /= Market
             /\ (IsMarket(buys[1]) \/ IsMarket(sells[1]))
       /\ tick' = [tick EXCEPT ![p].at = "spinning"]
       /\ UNCHANGED <<book, inOrder, place, claim, sweep, tradePair, isRun, money>>

-----------------------------------------------------------------------------
\* The settlement of a trade, one redis command at a time.
NextOp(p, name) == Running /\ tick[p].todo /= <<>> /\ Head(tick[p].todo).op = name
Done(p) == tick' = [tick EXCEPT ![p].todo = Tail(@)]

TickRefund(p) ==
    /\ NextOp(p, "refund")
    /\ LET op == Head(tick[p].todo)
       IN refunded' = [refunded EXCEPT ![op.o] = @ + op.amount]
    /\ Done(p)
    /\ UNCHANGED <<book, inOrder, place, claim, sweep, tradePair, isRun, earned, spent>>

TickCredit(p) ==
    /\ NextOp(p, "credit")
    /\ LET op == Head(tick[p].todo)
       IN earned' = [earned EXCEPT ![op.o] = @ + op.amount]
    /\ Done(p)
    /\ UNCHANGED <<book, inOrder, place, claim, sweep, tradePair, isRun, refunded, spent>>

TickHdel(p) ==
    /\ NextOp(p, "hdel")
    /\ book' = [book EXCEPT ![Head(tick[p].todo).o] = NoRow]
    /\ Done(p)
    /\ UNCHANGED <<inOrder, place, claim, sweep, tradePair, isRun, money>>

TickHset(p) ==
    /\ NextOp(p, "hset")
    /\ LET o == Head(tick[p].todo).o
       IN book' = [book EXCEPT ![o] = tick[p].rows[o]]
    /\ Done(p)
    /\ UNCHANGED <<inOrder, place, claim, sweep, tradePair, isRun, money>>

TickMatch(p) == NextOp(p, "match") /\ MarketMatch(p)

TickBreak(p) ==
    /\ NextOp(p, "break")
    /\ tick' = [tick EXCEPT ![p].at = "breaking", ![p].todo = <<>>]
    /\ UNCHANGED <<book, inOrder, place, claim, sweep, tradePair, isRun, money>>

\* releaseInOrder reads what is reserved; a release is clamped to it, and to what
\* the order has left.  The last one retires the reservation whatever was applied.
Retired(o, row) == [row EXCEPT !.released = Cost(o)]

TickReadInOrder(p) ==
    LET op == Head(tick[p].todo)
        o == op.o
        row == tick[p].rows[o]
        final == op.op = "releaseAll"
        release == IF final THEN reservationRemaining(o, row)
                   ELSE AtMost(op.amount, reservationRemaining(o, row))
        applied == AtMost(release, Positive(inOrder[Field(o)]))
        write == Op(IF final THEN "writeAll" ELSE "write", o, applied)
    IN /\ NextOp(p, "release") \/ NextOp(p, "releaseAll")
       /\ tick' = [tick EXCEPT
             ![p].rows[o] = IF final /\ applied = 0 THEN Retired(o, row) ELSE row,
             ![p].todo = (IF applied > 0 THEN <<write>> ELSE <<>>) \o Tail(@)]
       /\ UNCHANGED <<book, inOrder, place, claim, sweep, tradePair, isRun, money>>

TickWriteInOrder(p) ==
    LET op == Head(tick[p].todo)
        o == op.o
        row == tick[p].rows[o]
    IN /\ NextOp(p, "write") \/ NextOp(p, "writeAll")
       /\ inOrder' = [inOrder EXCEPT ![Field(o)] = @ - op.amount]
       /\ tick' = [tick EXCEPT
             ![p].rows[o] = IF op.op = "writeAll" THEN Retired(o, row)
                            ELSE [row EXCEPT !.released = @ + op.amount],
             ![p].todo = Tail(@)]
       /\ UNCHANGED <<book, place, claim, sweep, tradePair, isRun, money>>

\* After the loop, the market orders whose opposite side ran out are cancelled.
FinishTick(p) ==
    LET buys == tick[p].buys  sells == tick[p].sells
    IN /\ tick[p].todo = <<>>
       /\ \/ At(p, "breaking")
          \/ At(p, "matching") /\ (buys = <<>> \/ sells = <<>>)
       /\ EndTick(p, (IF buys = <<>> THEN ToSet(sells) ELSE {})
                     \cup (IF sells = <<>> THEN ToSet(buys) ELSE {}))

-----------------------------------------------------------------------------
TickStep(p) ==
    \/ SyncLadder(p) \/ ArmAndReadBuys(p) \/ ReadSells(p)
    \/ OneSided(p) \/ BeginMatching(p)
    \/ TurnBothMarket(p) \/ TurnMarketBuy(p) \/ TurnMarketSell(p) \/ TurnLimit(p)
    \/ TickMatch(p) \/ TickRefund(p) \/ TickCredit(p) \/ TickHdel(p) \/ TickHset(p)
    \/ TickReadInOrder(p) \/ TickWriteInOrder(p) \/ TickBreak(p)
    \/ FinishTick(p)

ClaimStep(o) == ClaimRefund(o) \/ ClaimReadInOrder(o) \/ ClaimWriteInOrder(o)
PlaceStep(o) == Reserve(o) \/ ListLimit(o) \/ ListMarket(o)

Next ==
    \/ \E o \in Orders :
          \/ DebitLimit(o) \/ DebitMarket(o) \/ PlaceStep(o)
          \/ CancelOrder(o) \/ ClaimStep(o)
    \/ \E u \in Closers : ListForClosure(u) \/ ClaimForClosure(u)
    \/ \E p \in Pairs : StartTick(p) \/ TickStep(p) \/ Spin(p)

Spec == Init /\ [][Next]_vars

\* What is awaited answers, so a function that began goes on; the cron keeps firing.
Fairness ==
    /\ \A p \in Pairs : WF_vars(StartTick(p)) /\ WF_vars(TickStep(p))
    /\ \A o \in Orders : WF_vars(ClaimStep(o)) /\ WF_vars(PlaceStep(o))

FairSpec == Spec /\ Fairness

-----------------------------------------------------------------------------
Claimed == [step : {"none", "refund", "release", "write"},
            by : {"owner", "closure", "matcher"},
            row : Row \cup {NoRow}, applied : Nat]

OpNames == {"match", "refund", "credit", "hdel", "hset", "break",
            "release", "releaseAll", "write", "writeAll"}

Tick == [at : {"idle", "fetching", "synced", "armed", "read", "matching",
               "breaking", "spinning"},
         buys : Seq(Orders), sells : Seq(Orders),
         rows : [Orders -> Row \cup {NoRow}],
         todo : Seq([op : OpNames, o : Orders, amount : Nat, with : Orders])]

TypeOK ==
    /\ book \in [Orders -> Row \cup {NoRow}]
    /\ inOrder \in [Users \X Coins -> Nat]
    /\ place \in [Orders -> {"new", "debited", "reserved", "resting"}]
    /\ claim \in [Orders -> Claimed]
    /\ sweep \in [Closers -> SUBSET Orders]
    /\ tick \in [Pairs -> Tick]
    /\ tradePair \in Pairs \cup {NoPair}
    /\ isRun \in BOOLEAN
    /\ refunded \in [Orders -> Nat]
    /\ earned \in [Orders -> Nat]
    /\ spent \in [Orders -> Nat]

InFlight(o) ==
    \/ place[o] \in {"debited", "reserved"}
    \/ claim[o] /= NoClaim
    \/ \E p \in Pairs : \E i \in DOMAIN tick[p].todo :
          o \in {tick[p].todo[i].o, tick[p].todo[i].with}

\* No schedule of fills, cancels, refunds and sweeps pays out more of an order than
\* was debited for it, where a sweep claims nothing while a tick holds the latch: with
\* SweepsMidTick the tick fills from its snapshot what the sweep has refunded.
NoDoublePay == \A o \in UserOrders : Escrow(o) >= 0

\* An order nobody is working on holds in its row exactly what is left of its
\* escrow, and one that has left the book holds nothing: no money is stranded and
\* the refund of a cancel is always right.
EscrowIsBacked ==
    \A o \in UserOrders : ~InFlight(o) =>
        Escrow(o) = IF book[o] = NoRow THEN 0 ELSE Backing(o, book[o])

\* What is reserved of a coin is what the resting limit orders hold of it, once none
\* of them is being worked on: releases of one coin by several orders' cancels, sweeps
\* and fills interleave between the read and the write, and none is lost or doubled.
\* It too is false of a sweep that overlaps a tick.
InOrderIsReservations ==
    \A u \in Users, c \in Coins :
        LET mine == {o \in UserOrders : IsLimit(o) /\ Field(o) = <<u, c>>}
        IN (\A o \in mine : ~InFlight(o)) =>
              inOrder[<<u, c>>] =
                  MapThenSumSet(LAMBDA o : reservationRemaining(o, book[o]),
                                {o \in mine : book[o] /= NoRow})

\* Where users trade with each other only, every coin is in a wallet or in a row.
CoinsConserved ==
    (\A o \in Orders : ~InFlight(o)) =>
        \A c \in Coins :
            MapThenSumSet(LAMBDA u : Free(u, c), Users)
              + MapThenSumSet(LAMBDA o : Backing(o, book[o]),
                    {o \in UserOrders : CostCoin(o) = c /\ book[o] /= NoRow})
            = Funds * Cardinality(Users)

\* From before it reads the book until it has settled, a tick holds the latch that
\* keeps the owner of an order it has read from cancelling it.
LatchHeldThroughTick ==
    \A p \in Pairs :
        tick[p].at \in {"armed", "read", "matching", "breaking"} => tradePair = p

\* The orders a tick has read or matched and not yet let go of.
Handled(p) ==
    IF tick[p].at \in {"armed", "read"}
      THEN {o \in Orders : tick[p].rows[o] /= NoRow}
    ELSE IF tick[p].at \in {"matching", "breaking"}
      THEN ToSet(tick[p].buys) \cup ToSet(tick[p].sells)
           \cup {op.o : op \in ToSet(tick[p].todo)}
           \cup {op.with : op \in ToSet(tick[p].todo)}
    ELSE {}

\* An order that a cancel has claimed is out of the book and out of the matcher's
\* hands: nobody can fill, settle or write back what is being refunded.
ClaimsAreExclusive ==
    \A o \in Orders : claim[o] /= NoClaim =>
        book[o] = NoRow /\ \A p \in Pairs : o \notin Handled(p)

\* A cancel is refused for the length of a tick, never for good.
LatchIsReleased == \A p \in Pairs : (tradePair = p) ~> (tradePair /= p)

\* A market order never rests for good: it fills, or what is left comes back.
MarketOrdersLeave ==
    \A o \in Orders : IsMarket(o) =>
        ((place[o] /= "new") ~> (place[o] = "resting" /\ book[o] = NoRow
                                 /\ ~InFlight(o)))

\* What OrderEscrow sees of an order: what its escrow holds, and whether it is over.
escrowed == [o \in UserOrders |-> Escrow(o)]
standing == [o \in UserOrders |->
                IF place[o] = "new" THEN "new"
                ELSE IF place[o] = "resting" /\ book[o] = NoRow /\ Escrow(o) = 0
                THEN "closed" ELSE "open"]

\* The book keeps the promise of OrderEscrow for every order a user places.
Escrows == INSTANCE OrderEscrow WITH
    Orders <- UserOrders,
    Stake <- [o \in UserOrders |-> Cost(o)],
    escrow <- escrowed,
    status <- standing

KeepsEscrows == Escrows!Spec
=============================================================================
