--------------------------- MODULE MCSpotMatcher ---------------------------
(***************************************************************************)
(* Instances of SpotMatcher: who asks for what, small enough that every    *)
(* interleaving is explored.  Quantities are multiples of the lot, 2, and  *)
(* prices 1 or 2, so that every quotient the matcher takes is exact.       *)
(***************************************************************************)
EXTENDS SpotMatcher

Ask(u, p, side, kind, qty, price) ==
    [user |-> u, pair |-> p, side |-> side, kind |-> kind, qty |-> qty, price |-> price]

\* Users trading limit orders with each other and, at one price, with themselves.
\* Alice's two buys reserve the same coin, and she may close her account.
MCLimits == [
    b1 |-> Ask("alice", "btc", "buy", "limit", 4, 2),
    b2 |-> Ask("alice", "btc", "buy", "limit", 2, 1),
    s1 |-> Ask("bob", "btc", "sell", "limit", 2, 1),
    s2 |-> Ask("alice", "btc", "sell", "limit", 4, 2)]
MCLimitsOrders == DOMAIN MCLimits

\* A market buy against limit sells, one of them its owner's, and the ladder.
MCMarketBuy == [
    m1 |-> Ask("alice", "btc", "buy", "market", 6, 1),
    s1 |-> Ask("bob", "btc", "sell", "limit", 4, 2),
    s2 |-> Ask("alice", "btc", "sell", "limit", 2, 1),
    l1 |-> Ask("admin", "btc", "sell", "ladder", 2, 1)]
MCMarketBuyOrders == DOMAIN MCMarketBuy

\* Market orders on both sides, with limit orders between them, one of them of the
\* seller himself.
MCOpposing == [
    m1 |-> Ask("alice", "btc", "buy", "market", 6, 1),
    m2 |-> Ask("bob", "btc", "sell", "market", 4, 1),
    s1 |-> Ask("carol", "btc", "sell", "limit", 4, 2),
    b1 |-> Ask("carol", "btc", "buy", "limit", 2, 1),
    b2 |-> Ask("bob", "btc", "buy", "limit", 2, 1)]
MCOpposingOrders == DOMAIN MCOpposing

\* One order of each side on one pair, and a second pair without any.
MCCrossing == [
    b1 |-> Ask("alice", "btc", "buy", "limit", 2, 1),
    s1 |-> Ask("bob", "btc", "sell", "limit", 2, 1)]
MCCrossingOrders == DOMAIN MCCrossing

=============================================================================
