---------------------------- MODULE ResetFreeze ----------------------------
(***************************************************************************)
(* One demo account whose owner asks for a reset, which writes absolute    *)
(* balances, beside everything else that moves its money: placements,      *)
(* cancels and faucet claims, which register as flights and are refused    *)
(* under the freeze of a reset; and the sweep of a closing account and the *)
(* matcher, which are not.  A step is what runs between two awaits, with   *)
(* the redis command it issues.  Prices are 1, so that a fill turns one    *)
(* coin into as much of the other.                                         *)
(***************************************************************************)
EXTENDS Integers, FiniteSets, FiniteSetsExt

CONSTANTS
    Placements,     \* limit orders the owner asks for; also name the orders
    Side, Stake,    \* what they are: [Placements -> {"buy", "sell"}], [Placements -> Nat]
    Cancels, Target,    \* requests to cancel, and which order
    Claims,         \* requests to the faucet, all within one cooldown
    Resets,
    Closers,        \* sweeps of the account being closed: none or one
    Matching,       \* whether the matcher runs
    Errors,         \* which errors happen: "reply_lost", "write_refused", "coins_unread"
    MaxCrashes,     \* bound: how often the process dies
    Seed,           \* FAUCET_AMOUNT: what a claim pays and a reset leaves
    Coin0           \* what the account holds of the base coin at first

Requests == Placements \cup Cancels \cup Claims
Processes == Requests \cup Resets \cup Closers
Coins == {"usd", "btc"}
FaucetCoin == "usd"
NoRow == [qty |-> 0, held |-> 0]
NoToken == "none"

ASSUME KindsDiffer ==
    /\ Requests \cap Resets = {} /\ Requests \cap Closers = {}
    /\ Resets \cap Closers = {} /\ Placements \cap Cancels = {}
    /\ Placements \cap Claims = {} /\ Cancels \cap Claims = {}
    /\ NoToken \notin Processes

ASSUME OrdersTyped ==
    /\ Side \in [Placements -> {"buy", "sell"}] /\ Stake \in [Placements -> Nat \ {0}]
    /\ Target \in [Cancels -> Placements]

ASSUME AmountsTyped == Seed \in Nat /\ Coin0 \in Nat

VARIABLES
    free,       \* walletbalance_spot, by coin
    inOrder,    \* walletbalance_spot_inOrder
    book,       \* the rows of the order hashes: what is left, what is still reserved
    freeze,     \* margin_freeze_<user>: the token of the reset that holds it
    flights,    \* value_flight_<user>: the requests registered
    cooldown,   \* faucet_cooldown_<user>
    pc,         \* how far each process has come
    work,       \* what a cancel or sweep pays back, what a reset has left to clear
    tick,       \* the matcher: its snapshot and the settlement it is in
    crashes,
    granted, paid   \* ghosts: what the account may be worth, and claims paid

money == <<free, inOrder, book>>
ghosts == <<granted, paid>>
vars == <<free, inOrder, book, freeze, flights, cooldown, pc, work, tick, crashes,
          granted, paid>>

-----------------------------------------------------------------------------
CostCoin(o) == IF Side[o] = "buy" THEN "usd" ELSE "btc"
GainCoin(o) == IF Side[o] = "buy" THEN "btc" ELSE "usd"
AtMost(m, n) == IF m < n THEN m ELSE n
Positive(n) == IF n > 0 THEN n ELSE 0

NoWork == [o |-> NoToken, due |-> 0, applied |-> 0, left |-> {}]
NoTick == [at |-> "idle", snap |-> [o \in Placements |-> NoRow], o |-> NoToken,
           q |-> 0, rest |-> 0, unspent |-> 0, applied |-> 0]

Init ==
    /\ free = [c \in Coins |-> IF c = FaucetCoin THEN Seed ELSE Coin0]
    /\ inOrder = [c \in Coins |-> 0]
    /\ book = [o \in Placements |-> NoRow]
    /\ freeze = NoToken /\ flights = {} /\ cooldown = FALSE
    /\ pc = [p \in Processes |-> "new"]
    /\ work = [p \in Processes |-> NoWork]
    /\ tick = NoTick
    /\ crashes = 0
    /\ granted = Seed + Coin0 /\ paid = 0

Goes(p, from, to) == pc[p] = from /\ pc' = [pc EXCEPT ![p] = to]

-----------------------------------------------------------------------------
\* trackValueFlight: looking for the freeze and registering are one script.
TrackUnfrozen(r) ==                      \* mutant: the freeze is not looked at
    /\ Goes(r, "new", "begun")
    /\ flights' = flights \cup {r}
    /\ UNCHANGED <<money, freeze, cooldown, work, tick, crashes, ghosts>>

Track(r) ==
    /\ \/ /\ freeze = NoToken
          /\ Goes(r, "new", "begun")
          /\ flights' = flights \cup {r}
       \/ /\ freeze /= NoToken
          /\ Goes(r, "new", "done")
          /\ UNCHANGED flights
    /\ UNCHANGED <<money, freeze, cooldown, work, tick, crashes, ghosts>>

\* The response has been flushed.
FinishEarly(r) ==                        \* mutant: deregisters when the client hangs up
    /\ r \in flights /\ pc[r] /= "begun"
    /\ flights' = flights \ {r}
    /\ UNCHANGED <<money, freeze, cooldown, pc, work, tick, crashes, ghosts>>

Finish(r) ==
    /\ Goes(r, "responding", "done")
    /\ flights' = flights \ {r}
    /\ UNCHANGED <<money, freeze, cooldown, work, tick, crashes, ghosts>>

DebitOverdrawing(o) ==                   \* mutant: what is there is not compared
    /\ \/ /\ freeze = NoToken
          /\ Goes(o, "begun", "debited")
          /\ free' = [free EXCEPT ![CostCoin(o)] = @ - Stake[o]]
       \/ /\ freeze /= NoToken
          /\ Goes(o, "begun", "responding")
          /\ UNCHANGED free
    /\ UNCHANGED <<inOrder, book, freeze, flights, cooldown, work, tick, crashes, ghosts>>

\* limitOrderPlace: the debit refuses under the freeze and refuses to overdraw.
Debit(o) ==
    LET c == CostCoin(o)
    IN /\ \/ /\ freeze = NoToken /\ free[c] >= Stake[o]
             /\ Goes(o, "begun", "debited")
             /\ free' = [free EXCEPT ![c] = @ - Stake[o]]
          \/ /\ freeze /= NoToken \/ free[c] < Stake[o]
             /\ Goes(o, "begun", "responding")
             /\ UNCHANGED free
       /\ UNCHANGED <<inOrder, book, freeze, flights, cooldown, work, tick, crashes,
                      ghosts>>

Reserve(o) ==
    /\ Goes(o, "debited", "reserved")
    /\ inOrder' = [inOrder EXCEPT ![CostCoin(o)] = @ + Stake[o]]
    /\ UNCHANGED <<free, book, freeze, flights, cooldown, work, tick, crashes, ghosts>>

List(o) ==
    /\ Goes(o, "reserved", "responding")
    /\ book' = [book EXCEPT ![o] = [qty |-> Stake[o], held |-> Stake[o]]]
    /\ UNCHANGED <<free, inOrder, freeze, flights, cooldown, work, tick, crashes, ghosts>>

\* cancelOrder: refused under the latch of the matcher and when the row is gone.
\* A row that is there is taken and its reservation is owed.
Take(p, o, to) ==
    /\ pc' = [pc EXCEPT ![p] = to]
    /\ work' = [work EXCEPT ![p].o = o, ![p].due = book[o].held]
    /\ book' = [book EXCEPT ![o] = NoRow]

ClaimOrder(k) ==
    LET o == Target[k]
    IN /\ pc[k] = "begun"
       /\ \/ /\ tick.at = "idle" /\ book[o] /= NoRow
             /\ Take(k, o, "claimed")
          \/ /\ tick.at /= "idle" \/ book[o] = NoRow
             /\ Goes(k, "begun", "responding")
             /\ UNCHANGED <<book, work>>
       /\ UNCHANGED <<free, inOrder, freeze, flights, cooldown, tick, crashes, ghosts>>

\* Where a cancel or a sweep goes when an order is paid back.
Onward(p) == IF p \in Closers THEN "listed" ELSE "responding"

PayBack(p) ==
    LET w == work[p]
    IN /\ Goes(p, "claimed", "paid_back")
       /\ free' = [free EXCEPT ![CostCoin(w.o)] = @ + w.due]
       /\ UNCHANGED <<inOrder, book, freeze, flights, cooldown, work, tick, crashes,
                      ghosts>>

\* releaseInOrder reads what is reserved, and takes off what it read it could.
ReadInOrder(p) ==
    LET w == work[p]
        applied == AtMost(w.due, Positive(inOrder[CostCoin(w.o)]))
    IN /\ Goes(p, "paid_back", IF applied > 0 THEN "releasing" ELSE Onward(p))
       /\ work' = [work EXCEPT ![p].applied = applied]
       /\ UNCHANGED <<money, freeze, flights, cooldown, tick, crashes, ghosts>>

WriteInOrder(p) ==
    LET w == work[p]
    IN /\ Goes(p, "releasing", Onward(p))
       /\ inOrder' = [inOrder EXCEPT ![CostCoin(w.o)] = @ - w.applied]
       /\ UNCHANGED <<free, book, freeze, flights, cooldown, work, tick, crashes, ghosts>>

-----------------------------------------------------------------------------
\* claimFaucet: the cooldown is taken before anything is paid.
TakeCooldown(k) ==
    /\ \/ /\ ~cooldown
          /\ Goes(k, "begun", "cooling")
       \/ /\ cooldown
          /\ Goes(k, "begun", "responding")
    /\ cooldown' = TRUE
    /\ UNCHANGED <<money, freeze, flights, work, tick, crashes, ghosts>>

\* The script may run and its reply be lost: the claim then sees an error.
Credit(k) ==
    /\ \/ Goes(k, "cooling", "responding")
       \/ "reply_lost" \in Errors /\ Goes(k, "cooling", "failing")
    /\ free' = [free EXCEPT ![FaucetCoin] = @ + Seed]
    /\ granted' = granted + Seed /\ paid' = paid + 1
    /\ UNCHANGED <<inOrder, book, freeze, flights, cooldown, work, tick, crashes>>

CreditFails(k) ==
    /\ Goes(k, "cooling", "failing")
    /\ UNCHANGED <<money, freeze, flights, cooldown, work, tick, crashes, ghosts>>

GiveBackAlways(k) ==                     \* mutant: given back after a credit, too
    /\ pc[k] \in {"failing", "responding"}
    /\ pc' = [pc EXCEPT ![k] = "responding"]
    /\ cooldown' = FALSE
    /\ UNCHANGED <<money, freeze, flights, work, tick, crashes, ghosts>>

\* creditedAny is still false: the cooldown is given back.
GiveBack(k) ==
    /\ Goes(k, "failing", "responding")
    /\ cooldown' = FALSE
    /\ UNCHANGED <<money, freeze, flights, work, tick, crashes, ghosts>>

-----------------------------------------------------------------------------
\* resetFaucet.  Every refusal after the freeze goes through the finally.
TakeFreeze(s) ==
    /\ \/ /\ freeze = NoToken
          /\ Goes(s, "new", "frozen")
          /\ freeze' = s
       \/ /\ freeze /= NoToken
          /\ Goes(s, "new", "done")
          /\ UNCHANGED freeze
    /\ UNCHANGED <<money, flights, cooldown, work, tick, crashes, ghosts>>

ReadFlightsIgnored(s) ==                 \* mutant: no flight is looked for
    /\ Goes(s, "frozen", "collecting")
    /\ UNCHANGED <<money, freeze, flights, cooldown, work, tick, crashes, ghosts>>

ReadFlights(s) ==
    /\ Goes(s, "frozen", IF flights = {} THEN "collecting" ELSE "leaving")
    /\ UNCHANGED <<money, freeze, flights, cooldown, work, tick, crashes, ghosts>>

\* collectUserCoins: the coins to clear are those of the wallet document.  An error of
\* mongo is caught there, and the reset goes on with no coin to clear.
CollectCoins(s) ==
    /\ Goes(s, "collecting", "reading_buys")
    /\ \/ work' = [work EXCEPT ![s].left = Coins]
       \/ "coins_unread" \in Errors /\ work' = [work EXCEPT ![s].left = {}]
    /\ UNCHANGED <<money, freeze, flights, cooldown, tick, crashes, ghosts>>

Resting(side) == \E o \in Placements : Side[o] = side /\ book[o] /= NoRow

ReadBuys(s) ==
    /\ Goes(s, "reading_buys", IF Resting("buy") THEN "leaving" ELSE "reading_sells")
    /\ UNCHANGED <<money, freeze, flights, cooldown, work, tick, crashes, ghosts>>

ReadSells(s) ==
    /\ Goes(s, "reading_sells", IF Resting("sell") THEN "leaving" ELSE "clearing")
    /\ UNCHANGED <<money, freeze, flights, cooldown, work, tick, crashes, ghosts>>

\* zeroOtherBalances: coin by coin what is in order, and the balance of the coins
\* that are not the faucet's.
ClearInOrder(s, c) ==
    /\ c \in work[s].left
    /\ \/ /\ inOrder' = [inOrder EXCEPT ![c] = 0]
          /\ IF c = FaucetCoin
               THEN /\ pc[s] = "clearing" /\ UNCHANGED pc
                    /\ work' = [work EXCEPT ![s].left = @ \ {c}]
               ELSE Goes(s, "clearing", "zeroing") /\ UNCHANGED work
       \/ /\ "write_refused" \in Errors      \* hset throws: the reset ends here
          /\ Goes(s, "clearing", "leaving")
          /\ UNCHANGED <<inOrder, work>>
    /\ UNCHANGED <<free, book, freeze, flights, cooldown, tick, crashes, ghosts>>

\* setBalanceLogged answers null when redis refuses, and nobody looks.
ZeroFree(s, c) ==
    /\ c \in work[s].left \ {FaucetCoin}
    /\ Goes(s, "zeroing", "clearing")
    /\ \/ free' = [free EXCEPT ![c] = 0]
       \/ "write_refused" \in Errors /\ UNCHANGED free
    /\ work' = [work EXCEPT ![s].left = @ \ {c}]
    /\ UNCHANGED <<inOrder, book, freeze, flights, cooldown, tick, crashes, ghosts>>

RestoreUncleared(s) ==                   \* mutant: goes ahead with a coin left
    /\ Goes(s, "clearing", "restored")
    /\ free' = [free EXCEPT ![FaucetCoin] = Seed] /\ granted' = Seed
    /\ UNCHANGED <<inOrder, book, freeze, flights, cooldown, work, tick, crashes, paid>>

Restore(s) ==
    /\ work[s].left = {}
    /\ Goes(s, "clearing", "restored")
    /\ \/ free' = [free EXCEPT ![FaucetCoin] = Seed] /\ granted' = Seed
       \/ "write_refused" \in Errors /\ UNCHANGED <<free, granted>>
    /\ UNCHANGED <<inOrder, book, freeze, flights, cooldown, work, tick, crashes, paid>>

\* releaseClaim gives back only the caller's own freeze.
Leave(s) ==
    /\ pc[s] \in {"leaving", "restored"}
    /\ pc' = [pc EXCEPT ![s] = "done"]
    /\ freeze' = IF freeze = s THEN NoToken ELSE freeze
    /\ UNCHANGED <<money, flights, cooldown, work, tick, crashes, ghosts>>

-----------------------------------------------------------------------------
\* The deadlines: 15 s for a freeze and 30 s for a flight, which the work itself is
\* taken to stay within; a process that died or is slow to leave may not.
ExpireFreeze(s) ==
    /\ freeze = s /\ pc[s] \in {"leaving", "restored", "done", "dead"}
    /\ freeze' = NoToken
    /\ UNCHANGED <<money, flights, cooldown, pc, work, tick, crashes, ghosts>>

ExpireFlightNever(r) ==                  \* mutant: the registration has no deadline
    /\ r \in flights /\ FALSE
    /\ UNCHANGED vars

ExpireFlight(r) ==
    /\ r \in flights /\ pc[r] \in {"responding", "done", "dead"}
    /\ flights' = flights \ {r}
    /\ UNCHANGED <<money, freeze, cooldown, pc, work, tick, crashes, ghosts>>

\* The process dies and starts again: what was in redis stays.
Crash ==
    /\ crashes < MaxCrashes
    /\ crashes' = crashes + 1
    /\ pc' = [p \in Processes |-> IF pc[p] \in {"new", "done"} THEN pc[p] ELSE "dead"]
    /\ work' = [p \in Processes |-> NoWork]
    /\ tick' = NoTick
    /\ UNCHANGED <<money, freeze, flights, cooldown, ghosts>>

-----------------------------------------------------------------------------
\* cancelOrderForDeactiveAcc, called for the owner of a closing account: it registers
\* no flight and looks at no latch and no freeze.
ListForClosure(k) ==
    /\ Goes(k, "new", "listed")
    /\ work' = [work EXCEPT ![k].left = {o \in Placements : book[o] /= NoRow}]
    /\ UNCHANGED <<money, freeze, flights, cooldown, tick, crashes, ghosts>>

ClaimForClosure(k) ==
    /\ pc[k] = "listed"
    /\ \E o \in work[k].left :
          /\ pc' = [pc EXCEPT ![k] = IF book[o] = NoRow THEN "listed" ELSE "claimed"]
          /\ work' = [work EXCEPT ![k].o = o, ![k].due = book[o].held,
                                  ![k].left = @ \ {o}]
          /\ book' = [book EXCEPT ![o] = NoRow]
    /\ UNCHANGED <<free, inOrder, freeze, flights, cooldown, tick, crashes, ghosts>>

\* A tick of the matcher: the latch is up from its snapshot to its end.  An order
\* of this account is matched with somebody else's.
StartTick ==
    /\ Matching /\ tick.at = "idle"
    /\ tick' = [NoTick EXCEPT !.at = "matching", !.snap = book]
    /\ UNCHANGED <<money, freeze, flights, cooldown, pc, work, crashes, ghosts>>

\* How much of it executes is up to the other order.  What completes releases all of
\* its reservation and gets back what the fill did not use.
Match(o) ==
    LET row == tick.snap[o]
    IN /\ tick.at = "matching" /\ row /= NoRow
       /\ \E q \in 1..row.qty :
             tick' = [tick EXCEPT
                !.at = "filled", !.o = o, !.q = q, !.snap[o].qty = row.qty - q,
                !.unspent = IF q = row.qty THEN Positive(row.held - q) ELSE 0,
                !.rest = IF q = row.qty THEN 0 ELSE row.held - AtMost(q, row.held)]
       /\ UNCHANGED <<money, freeze, flights, cooldown, pc, work, crashes, ghosts>>

Released == IF tick.unspent > 0 THEN "refunding" ELSE "leaving"

\* What could not be taken off what is reserved stays on the row.
TickReadInOrder ==
    LET row == tick.snap[tick.o]
        final == row.qty = 0
        release == IF final THEN row.held ELSE AtMost(tick.q, row.held)
        applied == AtMost(release, Positive(inOrder[CostCoin(tick.o)]))
        rest == IF final THEN 0 ELSE row.held - applied
    IN /\ tick.at = "filled"
       /\ tick' = [tick EXCEPT !.at = IF applied > 0 THEN "releasing" ELSE Released,
                               !.applied = applied, !.rest = rest,
                               !.snap[tick.o].held = rest]
       /\ UNCHANGED <<money, freeze, flights, cooldown, pc, work, crashes, ghosts>>

TickWriteInOrder ==
    /\ tick.at = "releasing"
    /\ inOrder' = [inOrder EXCEPT ![CostCoin(tick.o)] = @ - tick.applied]
    /\ tick' = [tick EXCEPT !.at = Released]
    /\ UNCHANGED <<free, book, freeze, flights, cooldown, pc, work, crashes, ghosts>>

TickRefund ==
    /\ tick.at = "refunding"
    /\ free' = [free EXCEPT ![CostCoin(tick.o)] = @ + tick.unspent]
    /\ tick' = [tick EXCEPT !.at = "leaving", !.unspent = 0]
    /\ UNCHANGED <<inOrder, book, freeze, flights, cooldown, pc, work, crashes, ghosts>>

TickHdel ==
    /\ tick.at = "leaving"
    /\ book' = [book EXCEPT ![tick.o] = NoRow]
    /\ tick' = [tick EXCEPT
          !.at = IF tick.snap[tick.o].qty = 0 THEN "crediting" ELSE "relisting"]
    /\ UNCHANGED <<free, inOrder, freeze, flights, cooldown, pc, work, crashes, ghosts>>

TickHset ==
    /\ tick.at = "relisting"
    /\ book' = [book EXCEPT ![tick.o] = tick.snap[tick.o]]
    /\ tick' = [tick EXCEPT !.at = "crediting"]
    /\ UNCHANGED <<free, inOrder, freeze, flights, cooldown, pc, work, crashes, ghosts>>

TickCredit ==
    /\ tick.at = "crediting"
    /\ free' = [free EXCEPT ![GainCoin(tick.o)] = @ + tick.q]
    /\ tick' = [NoTick EXCEPT !.at = "matching", !.snap = tick.snap]
    /\ UNCHANGED <<inOrder, book, freeze, flights, cooldown, pc, work, crashes, ghosts>>

EndTick ==
    /\ tick.at = "matching"
    /\ tick' = NoTick
    /\ UNCHANGED <<money, freeze, flights, cooldown, pc, work, crashes, ghosts>>

-----------------------------------------------------------------------------
RequestStep(r) ==
    \/ Track(r) \/ Finish(r)
    \/ r \in Placements /\ (Debit(r) \/ Reserve(r) \/ List(r))
    \/ r \in Cancels /\ (ClaimOrder(r) \/ PayBack(r) \/ ReadInOrder(r) \/ WriteInOrder(r))
    \/ r \in Claims /\ (TakeCooldown(r) \/ Credit(r) \/ CreditFails(r) \/ GiveBack(r))

ResetStep(s) ==
    \/ TakeFreeze(s) \/ ReadFlights(s) \/ CollectCoins(s) \/ ReadBuys(s) \/ ReadSells(s)
    \/ \E c \in Coins : ClearInOrder(s, c) \/ ZeroFree(s, c)
    \/ Restore(s) \/ Leave(s)

SweepStep(k) ==
    \/ ListForClosure(k) \/ ClaimForClosure(k)
    \/ PayBack(k) \/ ReadInOrder(k) \/ WriteInOrder(k)

Settle ==
    \/ TickReadInOrder \/ TickWriteInOrder \/ TickRefund \/ TickHdel \/ TickHset
    \/ TickCredit

Next ==
    \/ \E r \in Requests : RequestStep(r) \/ ExpireFlight(r)
    \/ \E s \in Resets : ResetStep(s) \/ ExpireFreeze(s)
    \/ \E k \in Closers : SweepStep(k)
    \/ StartTick \/ EndTick \/ Settle
    \/ \E o \in Placements : Match(o)
    \/ Crash

Spec == Init /\ [][Next]_vars

\* What has begun goes on, and time passes.
Fairness ==
    /\ \A r \in Requests : /\ WF_vars(pc[r] /= "new" /\ RequestStep(r))
                           /\ WF_vars(ExpireFlight(r))
    /\ \A s \in Resets : /\ WF_vars(pc[s] /= "new" /\ ResetStep(s))
                         /\ WF_vars(ExpireFreeze(s))

FairSpec == Spec /\ Fairness

-----------------------------------------------------------------------------
Row == [qty : Nat, held : Nat]
TypeOK ==
    /\ free \in [Coins -> Nat] /\ inOrder \in [Coins -> Int]
    /\ book \in [Placements -> Row]
    /\ freeze \in Resets \cup {NoToken} /\ flights \subseteq Requests
    /\ cooldown \in BOOLEAN /\ DOMAIN pc = Processes

\* Where a request or a sweep may still move money, and where a reset writes.
Moving(p) == pc[p] \in {"begun", "debited", "reserved", "claimed", "paid_back",
                        "releasing", "cooling", "failing", "listed"}
Writing(s) == pc[s] \in {"clearing", "zeroing"}

\* While a reset writes its absolute balances, no request of the account is between
\* its first and its last command, and no second reset writes.
ResetIsAlone ==
    \A s \in Resets : Writing(s) =>
        /\ \A r \in Requests : ~Moving(r)
        /\ \A t \in Resets \ {s} : ~Writing(t)

\* A reset that gets as far as writing has proved that nothing rests, and nothing
\* comes to rest before it is done.
NothingRestsAtReset ==
    \A s \in Resets : Writing(s) => \A o \in Placements : book[o] = NoRow

\* What the account has, in its balances and owed to it by what is under way.
Owed(p) ==
    CASE pc[p] \in {"debited", "reserved"} -> Stake[p]
      [] pc[p] = "claimed" -> work[p].due
      [] OTHER -> 0
Backing(o) ==
    IF tick.at \in {"filled", "releasing", "refunding", "leaving"} /\ tick.o = o
      THEN tick.q + tick.rest + tick.unspent
    ELSE book[o].held
         + (IF tick.at = "relisting" /\ tick.o = o THEN tick.rest ELSE 0)
         + (IF tick.at \in {"relisting", "crediting"} /\ tick.o = o THEN tick.q ELSE 0)
Total(v, S) == MapThenSumSet(LAMBDA x : v[x], S)
Worth == Total(free, Coins) + Total([p \in Processes |-> Owed(p)], Processes)
         + Total([o \in Placements |-> Backing(o)], Placements)

\* No order of placing, cancelling, claiming and resetting leaves the account with
\* more than it was given: the seed once reset, and what claims have paid since.  The
\* reset must have been told the account's coins: one it does not clear stays beside
\* the seed.
NoMint == Worth <= granted

\* The faucet pays one claim within one cooldown.
ClaimPaysOnce == paid <= 1

\* A reset that reports success has left the seed and nothing else, as its answer says,
\* when mongo told it the coins and redis took its writes.
ResetTellsTruth ==
    [][\A s \in Resets : pc[s] = "clearing" /\ pc'[s] = "restored" =>
          free' = [c \in Coins |-> IF c = FaucetCoin THEN Seed ELSE 0]]_vars

\* Whatever refuses, fails or dies, the account does not stay frozen or busy.
AccountIsFreed ==
    /\ \A s \in Resets : freeze = s ~> freeze /= s
    /\ \A r \in Requests : r \in flights ~> r \notin flights
=============================================================================
