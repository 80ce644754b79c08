# Cryptodex in TLA+

Cryptodex is a spot exchange for paper money: users trade real market prices with
demo funds.  This directory models the part of it where money moves, checks it with
TLC and proves what holds of it for every instance with TLAPS.

Paths below are relative to the repository's `src/`.  `SC` is
`cryptodex-spotapi/controllers/spot.controller.js`, `RC` is
`cryptodex-spotapi/controllers/redis.controller.js`.

## 1. Inventory

Three services and a frontend share one MongoDB and one Redis.  Redis is the ledger of
record; each service has one connection to it, whose commands run in the order they
were issued, one at a time.  The services call each other over gRPC.  A service is one
node process: what it does between two `await`s nothing interrupts, and at every
`await` anything else may run.  That is the grain of every module here.

| component | state it keeps | operations | hard behaviour | what makes it correct |
|---|---|---|---|---|
| balance scripts (`RC` 413-733) | `walletbalance_spot`, streams `ledger_<field>` | credit, debit, signed apply, logged set | trims, absent fields, refused debits | every movement has its entry, the entries chain and end at the balance |
| ledger replay (`cryptodex-spotapi/lib/ledger.js`) | none of its own | `replayBalance`, `reconcile`, `rebuildBalance` | writers between two reads, trimmed history | a rebuild restores what the account is owed; a verdict is right |
| backup and hydration (`cryptodex-walletapi/controllers/redisWalletBackUp.js`, `wallet.js`) | wallet documents | cron backup, HSETNX seeding | stale copies, lost fields | a seed never overwrites a live balance |
| placement and cancel (`SC` 1261-2483, 5876-5970, 6499-6631) | `buyOpenOrders_<pair>`, `sellOpenOrders_<pair>`, `walletbalance_spot_inOrder` | place limit, place market, cancel, cancel a left-over market order, sweep of a closing account | each is several commands; three cancels race for one row | an order's money is paid out once: to a counterparty or back |
| matcher (`SC` 4327-5823) | `tradePair`, `isRun`, `pairLocks`, a snapshot per tick | cron tick, `matchingcall`, `tradeMatching`, `marketMatching` | works on a snapshot; settles command by command; the latch | no order is filled and refunded; every coin is conserved; ticks end |
| paper ladder (`controllers/paperBook.controller.js`) | synthetic rows in the same hashes, freshness maps | sync, purge, drop, orphan sweep | stale depth, half-built ladders | what is matched was derived from healthy depth |
| order gate, depth health | none | `assertOrderTradable`, `assessDepthHealth` | check-then-act over the ladder | a market order is accepted only when it can fill |
| depth feed (`lib/binanceWebSocket.js`) | cached book per pair, buffered events, timers | snapshot, diff events, reconnect, watchdog | gaps, overlapping snapshots, dead sockets | the cache is the venue's book at its update id, or says it is not |
| book publishing (`controllers/bookPublish.controller.js`) | in-flight and pending maps | publish | requests while one runs | the last request is never lost; sequence numbers grow |
| faucet and reset (`controllers/faucet.controller.js`, `lib/valueFlight.js`) | claim marker, flight tokens, freeze marker | claim, reset | expiry of tokens and freezes, zeroing beside writers | a claim pays once; a reset leaves the opening balance |
| stand-down and deactivation (`lib/accountStandDown.js`, `cryptodex-walletapi/lib/walletStandDown.js`, `cryptodex-userapi/controllers/user.controller.js`) | account mark, `wallet.frozen`, user status, session | freeze, undo, close | partial failure across services, requests in flight | a closed account trades no more and has no open order |
| login and mail tokens (`cryptodex-userapi/controllers/auth.controller.js`) | attempts, block, one-time code, link tokens | register, confirm, log in, reset password | concurrent read-modify-write, replaced tokens | a code or link works once and while it is current |
| order book panel (`cryptodex-frontend/components/spot/OrderBook.tsx`, `hooks/useOrderBookResync.ts`) | refs and state of one panel, a paint timer, a resync watchdog | payloads, snapshots, switch of pair | answers out of order, a silent socket, a throttle | what may be traded against is the newest book of the pair shown |
| fill canary, health (`controllers/fillCanary.js`) | one evaluation in flight, the cached answer, what was last logged | dry run over depth, rows and ladder state; writes nothing else | reads that fall between the steps of a sync or a purge | it reports a book that does not fill, and why |
| tickers, charts, history, KYC, mail, settings, the rest of the frontend | copies and documents | formatting, CRUD | - | not modelled: no state machine of its own |

How they interact: a placement passes the stand-down guard, the gate and the flight
token, debits through a balance script, reserves in `walletbalance_spot_inOrder` and
writes a row.  The cron's tick lets the paper ladder rewrite its rows, arms the latch,
reads both hashes, matches, and writes rows, reservations and balances back.  Cancels
claim a row with one script (`hgetdel`) and then pay it back.  A reset and a
deactivation reach into the same hashes from outside.  The feed's events, and a heartbeat, ask the publisher for a book;
it looks at the depth and the ladder, and sends what it sees over the socket to every
panel, which asks for snapshots of its own beside it.

`PROJECT.json` lists every component with what is and is not modelled of it, and under
`hazards` every place where this goes wrong in a way a test would hardly show.

## 2. Modules

`SpotLedger` - one balance field and its stream.  Each Lua script is one action, because
redis runs it as one.  `Logged` is the `XADD ... MAXLEN ~`: it may leave up to `TrimSlack`
entries more than `MaxLen`, in whichever number the stream's nodes allow.  `truth` is a
ghost: what the account has been granted.

`LedgerReplay` - extends `SpotLedger` with the loss of the field, the two paths between
redis and mongo, and one reader (`reconcile` or `rebuildBalance`), each await a step.
`tainted` and `reader.raced` are ghosts that say what the code cannot know: that a wrong
balance was used as a starting figure, and that a write fell between two reads.

`OrderEscrow` - the abstract specification: every order is an escrow that is filled once,
when it opens, and only drawn on until it closes.

`SpotMatcher` - placing, the owner's cancel, the closing sweep and the matcher.

| state | code |
|---|---|
| `book` | the rows of the open-order hashes; `NoRow` when absent |
| `inOrder` | `walletbalance_spot_inOrder` |
| `place` | how far `limitOrderPlace` / `marketOrderPlace` has come: debit, reserve, list |
| `claim` | a cancel between its `hgetdel` and its last command |
| `sweep` | `orderList` of `cancelOrderForDeactiveAcc` |
| `tick` | the locals of `matchingcall`, per pair: the two sorted lists, the row objects, and in `todo` the commands of the settlement still to be issued |
| `tradePair`, `isRun` | the module's variables of those names |
| `refunded`, `earned` | the ledger entries of an order, summed; `Free` adds them up to the balance |
| `spent` | ghost: what fills have taken of an order's escrow |

An action is what runs between two awaits, with the command it issues.  A tick is
`StartTick`, `SyncLadder`, `ArmAndReadBuys`, `ReadSells`, then turns of the loop
(`TurnLimit`, `TurnMarketBuy`, `TurnMarketSell`, `TurnBothMarket`, `MarketMatch`), each
of which changes the row objects at once and queues its commands, then the commands
(`TickRefund`, `TickReadInOrder`, `TickWriteInOrder`, `TickHdel`, `TickHset`,
`TickCredit`), then `FinishTick`.  The date comparator of the lists subtracts ISO strings
and yields NaN, so rows of one price come in any order: `Sorted` is a set.  `Spin` is the
turn in which no branch applies: nothing in the loop waits, so nothing runs afterwards.

Abstractions.  Quantities are integers, multiples of a `Lot`; a row is its quantity,
price, remaining value and released reservation.  Fees are zero, as they are in this
deployment, and passbooks, histories, charts and sockets are left out.  The dust sweep of
`sweepResidualInOrder` (1e-7 and less) is below the unit of the model.  Who is the maker
of a limit-limit trade follows from dates the model does not keep, so it is a choice.
All live pairs have botstatus "binance"; `liqOrdCreation`, for pairs that are "off", is
left out, and the ladder may be replaced by any subset of its rows at every sync.

`ResetFreeze` - one account whose owner asks for resets, beside its placements, cancels and
claims, the sweep that closes it and the matcher.  `freeze` is `margin_freeze_<user>`,
`flights` is `value_flight_<user>`, `pc` is how far each request, reset or sweep has come.
A reset is `TakeFreeze`, `ReadFlights`, `CollectCoins`, `ReadBuys`, `ReadSells`, then per
coin `ClearInOrder` and `ZeroFree`, then `Restore`, and `Leave`, which every refusal reaches
through the `finally`.  `Errors` turns on three failures: the reply of a credit that ran is
lost (node-redis 3 rejects what is unanswered when the connection breaks), a write of the
reset is refused (`setBalanceLogged` swallows that, `hset` throws it), and mongo does not
tell which coins the wallet has (`collectUserCoins` swallows that and answers none).

Abstractions of `ResetFreeze`.  One pair, limit orders, every price 1, so that amounts of
both coins add up; the matcher reads its snapshot in one step and fills an order by any
amount up to what is left, the other side being somebody else; the sweep reads its list in
one step.  Claims happen within one cooldown.  The deadlines (15 s for a freeze, 30 s for a
flight) only pass once the work they protect is over or dead: the code chooses them so,
and nothing enforces it.

`DepthStream` - the depth cache of one pair (`cryptodex-spotapi/lib/binanceWebSocket.js`)
beside the venue it copies.

| state | code |
|---|---|
| `now`, `sent`, `wire`, `late` | the venue's last update id, what it has sent on the socket, and the events under way on it and on a terminated one |
| `conn` | the pair's entry of `depthConnections`; `"dead"` is a half-open socket |
| `heard` | whether `depthActivity` is younger than `DEPTH_SILENCE_MS` |
| `desired`, `timer` | the entries of `depthStreams` and `reconnectTimers`; `Reconnecting` is `reconnecting` |
| `cache` | the entry of `orderBookCache`; `desync` is `desyncSince`, young or past `DEPTH_DESYNC_RECOVERY_MS` |
| `fetches` | snapshot requests asked and not landed: the start's or a reconnect's, the watchdog's, those of gaps |

The constant `VenueBook` is the history of the venue's book, any history: an event is
built from it, with every level that one of its updates touched.  A request is answered
with the book of that moment and lands later, so an older answer may land after a newer.

Abstractions of `DepthStream`.  One pair: pairs share only the watchdog's timer.  Clocks
are cut down to their order: a request is over (10 s) before a desync is overdue (15 s),
and the silence limit passes only on a dead socket or in a quiet market.  The snapshot's
limit of 1000 levels, the trade tape, the heartbeat and the mirror in redis are left out, as
is `stopBinanceWebSockets`, which only tests call.  The watchdog's branch for a pair
without socket or timer is left out because it never applies: `NothingStranded`.

`PaperLadder` - the synthetic rows (`controllers/paperBook.controller.js`), from the tick
that rebuilds them to the matcher that fills them and the gate that believes in them.

| state | code |
|---|---|
| `rows` | the paper rows in the open-order hashes; a row is the sync that wrote it and its side |
| `lastIds`, `lastSyncAt`, `purged`, `ladder` | the maps `lastIds`, `lastSyncAt`, `purgedPairs`, `ladderState` |
| `depth` | what `assessDepthHealth` says of a pair |
| `tick` | `matchingcall` of a pair: where it is, the rows listed and not yet deleted or written, the orphans still to sweep, what the matcher has read |
| `torn`, `eaten`, `tick.built` | ghosts: a purge was refused; what fills took since the last sync; what a sync of this tick wrote |

Every redis command is a step and may be refused (`MaxFaults` times).  A tick is
`StartTick` and `SweepOrphan` for each old pair, then `RefuseLadder` or `BuildLadder`,
`DeletePrevious`, the listing and deleting of what else is there, `WriteRow` for each row
and `RecordLadder`; or `SyncFails` and its purge; then `ReadBuys`, `ReadSells` and fills.
Abstractions: a side has one row; prices, quantities and the slippage bound of the gate
are left out, so capacity is a side that the last sync wrote; so are the purge at boot, a
crash, and the orders of users, which `SpotMatcher` has.

`AccountClosure` - one account that is closed (`confirmDeActive`), across userapi,
walletapi and spotapi.

| state | code |
|---|---|
| `account`, `frozen`, `session` | `status` of the user document, `wallet.frozen`, the field of the `userToken` hash |
| `marked` | the `account_standdown` hash; nothing in the tree writes it, so it never changes |
| `call` | a `deactivateWallet` call of walletapi: its read, its conditional update, its second read and the answer, per caller; each of the three may throw, which the catch answers |
| `confirm` | the locals of `confirmDeActive`: `freezeAppliedByThisCall`, `sessionPurged`, the sweep's list, the reply; `unsure` is a ghost: a call of it was lost, or answered only that it failed |
| `place` | a placement: its session, the two reads of `resolveStandDown`, the verdict, its row |
| `book`, `out` | open orders in their hash, and those between the two commands of a partial fill |
| `froze` | ghost: whose call froze the wallet |

`Faults` turns on what may fail: the call between services (it never arrives, or its answer
is lost), a read or the update of walletapi, the write of the user document, the purge, the
sweep, the read of the mark.  A write that throws has written nothing, and the account has a
wallet document (without one the answer is `NO_WALLET`, and the closure goes on).
`Overlap` allows two closures of one account at the same time.  Abstractions: the one-time
code is a choice, the open orders of an account are one set, the refunds of the sweep are
in `SpotMatcher`.

`AccountAccess` - the user document and the handlers that change it, each a read, a
decision on the copy, and a write (`Saved`: mongoose writes the paths that differ from the
copy; the login's own writes are `updateOne`).  Dates are ages: within a code's life,
within a reset's, older.  Links and codes are numbers, in the order they were mailed; a
request carries one that was.  A copy keeps only the paths its handler looks at or sets.
A login goes through with its code (`CheckCode`) or without one (`SkipCode`): the checks are
not reached where `TEST_MODE` is set, nor by a request with `otp` and without `otpTextBox`.
The cooldown of `requestOTP` is left out: it holds back a code of the same `requestType`
only, and any type serves.
`Groups` are the sets of handlers that may meet in one behaviour; they only bound the
instance, each putting together handlers that meet in some field, and the theorems hold for
any.  `strikes`, `kindOf` and `raced` are ghosts.

`BookDisplay` - from `publishOrderBook` to the screen.

| state | code |
|---|---|
| `truth` | what the depth cache and the ladder of a pair amount to |
| `pub` | `inFlight` and `pendingRepublish` of the pair shown, and the book under construction; `owed` is a ghost |
| `conn` | whether the socket delivers |
| `rest` | snapshot requests: of the mount or a reconnect, and of the resync hook |
| `ui` | the refs and the state of `OrderBook` and of `useOrderBookResync` |

Abstractions.  A book is its update id; levels, grouping, user orders merged into it and
the `seq` number, which nobody orders by, are left out.  A payload that goes out arrives at
once or is lost: the socket keeps the order, and the next build is later in any case.
Only the pair shown is published and changes; the run of a pair left is discarded by the
panel.  The hook's other triggers (focus, visibility, restored pages), the hidden tab and
pairs of another source are left out: each asks for a snapshot as `Watchdog` does.

`*_proofs` - the theorems (section 4), one module per module they speak of.
`MCSpotMatcher`, `MCResetFreeze`, `MCDepthStream`, `MCAccountAccess` - the instances TLC
runs; the other modules' configurations give their constants directly.

## 3. Runs

| run | question | bounds |
|---|---|---|
| `ledger_replay` | are verdicts and rebuilds right when nothing raced them? | amounts of 1, one loss, streams of 2-3: every trim happens after three movements |
| `matcher_limits` | limit orders only: does everything add up under every interleaving of placing, cancelling, sweeping and filling? | four orders of two users: two buys of one user reserve the same coin, one meets her own sell, partial fills, a better price; she may close her account, and all three of her orders may be swept, though none is claimed while a tick holds the latch (`SweepsMidTick = FALSE`); 227 000 states |
| `matcher_market_buy` | a market order, limit orders on the other side (one its owner's) and the ladder: does it leave, is its remainder right, is the latch given up? | four orders: completes, is cut short, meets only its owner |
| `matcher_opposing` | market orders on both sides with limit orders between them: is every coin accounted for, and does each order keep the promise of `OrderEscrow`? | five orders, one seller bidding himself; deadlock is allowed because the loop really may spin |
| `two_pairs` | (violation) does one latch protect two pairs? | two pairs, an order each side |
| `reset` | does a reset write alone, over nothing that rests, and leave the seed and no more; is one claim paid per cooldown? | two resets, so that one may outlive its freeze; two claims, an order and its cancel, one crash; without the matcher and the sweep |
| `reset_live` | does a freeze, and does a flight, always end, and does a reset stay alone, when the matcher, the sweep, a failing redis and a failing mongo are there? | a reset, an order the matcher fills in one or two parts, the sweep, refused writes, coins that are not told, one crash |
| `depth` | is a cache in step the venue's book, is a reconnect alone, and does a stream in step come back after every fault? | five updates of two levels, a buffer of two, two sockets that close, stall or cannot be made, two failed requests, two gaps' requests in flight |
| `ladder` | is only the newest ladder filled from, does the gate admit only where rows rest, is an abandoned ladder deleted? | a pair the cron visits and one it has dropped, three generations (a fourth behaves as the first), two refused commands: a sync and the purge after it may both fail |
| `closing` | does a closure do what cannot be undone last, does a refused one leave nothing, does the guard admit nobody late? | two closures in a row, an operator's hold, a login, a `showPair`, a placement, all six faults, any number of times |
| `access` | does a save bring a password back; does the third failure block and no other, and do links work, when nothing overlaps? | two handlers at a time, any number in a row, four groups, two links, two codes, one change of password |
| `display` | is a publish dropped, does what may be traded against go back, does the screen settle on the truth? | two pairs, one change, one switch, one loss of the socket, two snapshots and the watchdog's: the least in which three answers can pass each other; 671 000 states |

Prices are 1 or 2 and the lot is 2, so that a fill can leave less than a lot.  Every
branch of the loop is taken in the three matcher runs together; another order multiplies
the states by about twenty.

Fairness (`FairSpec`): weak fairness of every function that has begun, because redis
answers and node runs every callback, and of the cron's tick.  Nobody is obliged to place
or cancel an order.  In `ResetFreeze`: of every request and reset that has begun, and of
the two deadlines, because redis expires keys and clocks advance.  In `DepthStream`: of
requests (axios has a timeout), timers, the watchdog, and of delivery on a socket that
lives; not of faults, nor of the venue's updates.  These are bounded, so `Recovers` is
shown for a market that pauses at some time.  In `PaperLadder`: of the cron, of
every await (answered or refused) and of time; not of fills, nor of refusals, which are
bounded.  In `BookDisplay`: of the heartbeat and the publisher, the paint timer, the
watchdog's second, time, and of a snapshot's being answered or failing (axios has a
timeout); not of the trader, the venue or the socket.  `AccountClosure` and
`AccountAccess` state no liveness: a request that has begun may always fail.

One run shows where the code does not do what the repository says of it, quoted under
`findings`: `two_pairs` (one latch for all pairs).  The passing matcher runs therefore have
one pair.

### Known disagreements

Others were met while modelling and shape the runs.  Most can be seen by changing a
constant of a configuration or by stating the property named:

*Matching.*
* Two market orders alone stop the process: no branch of the loop applies to them (`SC`
  4579), `Spin` repeats and nothing in it waits.
* The sweep of a closing account does not look at the latch, so it refunds an order that a
  tick has read and goes on to fill: `matcher_limits` with `SweepsMidTick = TRUE` violates
  `NoDoublePay`, in fifteen steps, and `InOrderIsReservations`.  The run shows what holds of
  every other meeting of the sweep with fills, cancels and releases.  The sweep registers no flight either, so a reset may write
  the seed between its claim and its refund (`reset` with a closer: `NoMint` fails).
* The matcher deletes and rewrites the row of a partly filled order in two commands.  A
  reset, or the sweep, that reads the book in between finds nothing resting (`reset` with
  the matcher: `NothingRestsAtReset` fails).  What the reset then zeroes is missing from
  later releases, which are clamped (`SC` 516) and leave the row holding more than it has
  left to fill.
* An error inside `marketMatching` is logged and the loop goes on with the rows as they
  are (`SC` 5820); `settlementCredit` answers null after a redis error and the fill stands
  (`SC` 953).  Neither is in `SpotMatcher`, whose commands succeed.

*Ledger and faucet.*
* A credit that ran and whose reply is lost is taken for one that failed: the claim hands
  its cooldown back and may be paid again (`reset` with `reply_lost`: `ClaimPaysOnce`
  fails).
* `setSpotBalance` ignores a refused write (`RC` 592) and reports the seed (`reset` with
  `write_refused`: `ResetTellsTruth` fails).
* A reset whose `collectUserCoins` fails in mongo clears no coin, restores the seed and
  reports success with "Every other coin balance is set to 0" (`faucet.controller.js`
  355-357): `reset` with `coins_unread` violates `NoMint` and `ResetTellsTruth`.
* `reconcile` reads the balance and the entries at two moments, and an absolute set while
  the field is lost hides the loss: the ghosts `raced` and `tainted` of `LedgerReplay` mark
  where its two properties do not hold.

*Depth and ladder.*
* The events buffered while a snapshot is fetched are emptied before they are replayed
  (`binanceWebSocket.js` 183, against 757); the next event is then a gap and asks for
  another snapshot.  `BufferedEventsApplied` of `DepthStream` states the contrary and is in
  no run.
* An older snapshot may overwrite a newer book: a gap's request in flight, the socket
  closes, the reconnect's request lands first.
* `purgedPairs` keeps a pair whose later purge failed, so the next drop takes it for empty
  and deletes nothing (`paperBook` 371, against the comment at 445-448): the ghost `torn`.
* A tick that stalls for longer than the orphan age is swept by another pair's tick while it
  matches (`paperBook` 406-425, against "a ladder older than ORPHAN_MS belongs to a pair the
  engine has stopped matching"; `ladder` with both pairs visited: `OwnLadderOnly` and
  `AcceptedIsBacked` fail).

*Closing an account.*
* A login that has passed its status check mints a session after the purge, `showPair`
  writes back the record it had read, a placement past its guard adds a row after the
  sweep, and a row between the two commands of a partial fill is not swept.
  `ClosedIsQuiet` of `AccountClosure` states the comments' promise and is in no run; what
  holds instead is `NoLateAdmission`.
* A refused closure says "Nothing has changed" (`user.controller.js` 1398, 1451), and the
  comment above the first says that nothing has been written then (1388).  But walletapi
  answers `FREEZE_FAILED` also when its second read throws after the update
  (`walletStandDown.js` 262-271), an undo may be answered `UNFREEZE_FAILED`, which is only
  logged (1091-1094), and an answer may be lost: the freeze then stays on an account that
  is live.  `RefusalLeavesNothing` excepts these closures (`unsure`) and no others.
* With `Overlap = TRUE` two closures at once break `IrreversibleLast` and
  `NoLateAdmission`: the undo of the first lifts the freeze the second relies on
  (`ALREADY_FROZEN`).

*Getting in.*
* `resetPassword` bounds a link's age by `otptime`, which a login code or `resendOTP`
  stamps anew: an old confirmed link becomes valid again (against the comment at
  `auth.controller.js` 1143-1147).
* A `checkForgotPassword` that overlaps the confirmation of an older link leaves the older
  one standing (against 943-946).  Overlapped logins accept one code twice, and overlapped
  failures count once.  Hence `raced`.
* The failure of the very login that lifts a block is not counted, because its copy still
  says `isBlock`: three more follow before the account is blocked again, and
  `ThirdFailureBlocks` counts from there.  The cooldown of `resendMail` reads fields the schema does not have.

*Display.*
* `handleOrderBookData` takes the verdict before it refuses an older payload
  (`OrderBook.tsx` 459, then 465-478): a stale healthy snapshot makes a dead pair tradable
  until the next payload.  `UsableIsNewest` is about the ladder, not that verdict.
* A snapshot of the same update id as a blank that came after it repaints the ladder, and a
  late answer of the watchdog counts as a sign of life.

## 4. Proofs

Proved for every value of the constants:

* `LedgerReplay_proofs!LedgerChain`, `LedgerEndsAtBalance`.  Neither is inductive alone: a
  new entry starts at the balance, so the chain needs the last entry to end there.  The
  invariant is their conjunction with the shape of the stream; a trim keeps both because
  they speak of neighbours and of the last entry only.  No run checks these two:
  `ledger_replay` relies on them.
* `LedgerReplay_proofs!VerdictsAreRight`, `RebuildsAreExact`: any history of movements,
  trims, losses, backups, hydrations and rebuilds.  Here the chain is of no use, for a lost
  field breaks it.  `ReplayInv` says that the replay of the stream is the debt of the
  account as long as nothing was written over a wrong balance (`FigureInv`), and that a
  reader which nothing raced still holds today's debt (`ReaderInv`).  `replayBalance` is a
  recursive function: that it exists, that an entry appended moves it by its delta and that
  cutting a prefix off moves it by nothing where the entries abut, is shown by the least
  counterexample (`LeastNatural`), which needs no induction theorem.

* `SpotMatcher_proofs!ClaimsStayExclusive`, `LatchIsHeld`: any number of orders, users,
  prices and quantities; ladder rows or none; cancels at any moment.  Assumed are one pair,
  no closing account, and finitely many orders; the run `two_pairs` shows what happens
  without the first, and section 3 says what happens without the second.  `ClaimsAreExclusive` says that an order a
  cancel has claimed is in no book row, no list of a tick and no command a tick has still
  to issue: this is the fact the comment above the latch argues for.  It needs
  `MatcherInv`, which adds

  - `OrdersInv`: a row in the book belongs to an order that was listed and is not claimed;
    ladder orders are never claimed.  `hgetdel` then gives a row to one claim only.
  - `LatchInv` and `IdleInv`: from the first read on the latch names the pair, and outside
    of a tick there are no lists and no commands.  Every claim's guard refuses under the
    latch, so what a tick has read stays unclaimed.
  - `ReadInv` and `MatchInv`: the two lists are sequences without repetition over the rows
    that were read, and every queued command concerns an order that is, or was, in them.
    Without repetition matters where a list's element is removed (`shift`, `splice`):
    the market order cancelled there must not be in the list a second time, because from
    then on it may be claimed and paid.

  The proof has a lemma for each action, and below them lemmas on injective sequences,
  on the row a side of a trade leaves (`LimitSideOK`, `MarketBuySideOK`, ...) and on what
  a queue of commands touches (`OpsOver`).

* `SpotMatcher_proofs!NothingIsPaidTwice`, `RowsBackEscrows`, `ReservationsAddUp`,
  `MatcherKeepsEscrows`, `EscrowNeverRefilled`, `MatcherTypes`: the money of the matcher, under the same
  assumptions and on top of `MatcherInv`.  A fill changes the row objects at once and queues
  up to eight commands; between any two of them cancels and placements of other orders run.
  What an escrow should hold therefore depends on what is still queued, and `MoneyInv` has
  to say what that is:

  - An `Agenda` is what the commands left in `todo` will do, read from the last one back
    (`Settles`): for each order a `Plan` - whether its row is to be written back, deleted
    and written back or deleted, what is to be released of its reservation, what is to be
    refunded - and the matches still to come.  Each command takes its part off the plan of
    its order and leaves the others (`Leads`).  The invariant is that there is one.
  - `Due` is what the escrow must hold then: the refunds still queued; for an order whose row
    stays, what that row will back; for a claimed one, what the claim still pays; otherwise
    what the row in the book backs.  `Accounted` says that it holds that much, and exactly
    that much unless the order is a market sell and a lot is more than the unit: the
    remainder of such a sell below the lot is deleted with its row (`SC` 5601-5715).  That
    is why `RowsBackEscrows` assumes that the lot is the unit or no market order sells; the
    other theorems do not.
  - `ListsFit` and `Ready` say what the row objects of the tick are worth next to the book:
    equal to the row in it, complete, or a market sell that was paid back because the other
    side ran out.  This is what a match to come, queued with its order, relies on.
  - `Reserved`: what is reserved of a coin is the sum of what its limit orders still hold of
    it (`Outstanding`).  As with the faucet, the sum is a certificate, additive one order at
    a time, and `ReservationsAddUp` identifies it with the sum the property states.

  One lemma per action shows that it accounts (`TickHdelAccounts`, `TradeAccounts`, ...);
  those of the fills rest on one lemma per kind of order (`LimitSettles`,
  `MarketBuySettles`, ...), which says that the commands a fill queues settle what it took.
  For the refinement an order is open from its debit until it has neither a row nor an
  escrow.  A step that is not its debit only draws on it (`StepDraws`): what could give an
  empty order a row again, a write-back still queued, is planned for an order whose escrow
  still backs that row.  `EscrowNeverRefilled` says the same of the concrete variables, as a
  property of steps: an order that is over is never written back, refunded or filled again.
  `MatcherTypes` has from `Reserved` that no reservation goes below zero.

* `SpotMatcher_proofs!CoinsAreConserved`: any number of users and orders, as long as both
  are finite and no order is the ladder's; one pair, no closing account, and the lot is the
  unit or no market order sells.  What fills take is taken at once, what they earn is
  credited by commands queued behind other commands, so in the middle of a tick the
  wallets and rows of all users are short.  `BalanceInv` says by how much: of each coin,
  what all orders earned, plus the credits still queued, is what fills spent.  `Owes` reads
  a queue from its last command back and gives the credits in it; `Adds` gives the sums, as
  a function on the parts of the set of orders, one element at a time.  A credit moves its
  amount from the queue to its order (`CreditBalances`), a fill adds as much to the queue
  as it takes from its two orders (`TradeBalances`), no other step changes either
  (`BalanceKept`).  When nobody works on an order the queue is empty (`FlowsCancel`), and
  `RowsBackEscrows` turns what is left of the escrows into rows (`CoinsAddUp`).  The
  property's sums are library folds; `TotalIsSum` identifies them with `Adds`, by
  induction over the parts of a finite set (`PartsInduction`), stated for a set of parts
  because a lemma cannot be instantiated with a predicate.

* `ResetFreeze_proofs!ResetsStayAlone`: any number of requests, resets, sweeps, orders,
  coins' amounts and crashes, the matcher running or not.  `AloneInv` adds that a request
  that can still move money is registered, that a reset past its first step holds the
  freeze, and that one past its reading of the registry sees it empty; the last is kept
  because registering and looking for the freeze are one script.
* `ResetFreeze_proofs!NothingRests`: while the matcher does not run.  `RestInv` adds what the
  reset has learned after each of its two reads; a row appears only by a request in
  flight, which `AloneInv` excludes.
* `ResetFreeze_proofs!FaucetPaysOnce`: unless a reply is lost.  `ClaimInv` adds that at most
  one claim is between its cooldown and its answer, and none once one is paid.
* `ResetFreeze_proofs!BalancesTyped`: always; it is where it shows that no debit or release
  goes below zero.
* `ResetFreeze_proofs!NothingMinted`: the sum of both coins, of what requests are owed and of
  what rests never exceeds what was granted, for any finite number of requests, whatever
  crashes.  The invariant (`FundsInv`) carries the sums as certificates, functions on the
  sets of processes and of orders that are additive one element at a time; a step moves one
  element (`FundsMove`), and `TotalIsSum` identifies the certificate with the sum over the
  whole set.  `RestInv` gives what a reset may forget: it zeroes only over an empty book and
  nothing in flight.
* `ResetFreeze_proofs!ResetsTellTheTruth`: a reset that reports success left the seed and
  nothing else, since no request moves money from its reading of the registry on.
  Both assume what section 3 shows to be necessary: no matcher, no sweep, no refused write
  and no coins that mongo fails to tell (a lost reply is allowed).

* `DepthStream_proofs!CacheMatchesVenue`: any history of the venue, any levels, any bounds.
  The invariant adds to the types that an answered request names an update of the venue
  (`TypedFeed`).  The heart of it is a lemma on one event (`AppliedIsVenueBook`): an event
  that is no gap starts at most one update after the cached one, so a level it does not
  name has not changed since.
* `DepthStream_proofs!FeedTyped`, `NoPairStranded`, `ReconnectsStayAlone`.  `OneReconnect`
  joins the last two and adds that a socket or a timer belongs to a pair that is desired.

* `PaperLadder_proofs!FillsFromOwnLadder`, `AcceptedHasRows`, `LadderTypes`: one pair that
  the cron visits (`OneVisited`) and any number it has dropped, any number of syncs, refused
  commands and fills.  `LadderInv` says, stage by stage of a tick, what may lie on the book:
  rows of one generation only (`OneGenAt`), of this tick's once it reads (`ReadAt`), none of
  a ladder that is known to be gone (`GoneAt`) unless a purge was refused; and that a side
  the gate believes in has its row, was eaten, or is being replaced (`BackedAt`).  With two
  visited pairs it is false (section 3): the sweep of the second clears a book the first
  is writing.

* `AccountClosure_proofs!RefusedUnfrozen`, `HoldsStay`, `ClosureTypes`: any number of
  closures, overlapping or not, and any faults.  `ClosureInv` ties the two sides of a call together: `CallInv`
  says that walletapi is at work for a closure only while it waits, and in which mode;
  `HeldInv` that a closure that may undo a freeze found the wallet live; `FrozeInv` follows
  the freeze of one closure from its update to its undo, to an answer that was lost or to
  one that says only that the call failed.
* `AccountClosure_proofs!SweepsComeLast`, `ClosedAdmitsNobody`: while closures do not
  overlap.  `StageInv` gives each stage of a closure a state of the account and adds the
  fact both need, that a closed account has a frozen wallet.  It holds because the only
  unfreezing step belongs to a closure that has not closed the account, and is the only one.

* `AccountAccess_proofs!PasswordStays`: any number of handlers at once.  The only facts
  needed are types, and that nobody is at work on an account before it is registered
  (`AbsentInv`): `Saved` writes a password only where the handler has set one.  What is
  long is that every handler has to show it.
* `AccountAccess_proofs!BlockedInTime`, `OnlyNewestLink`: while handlers do not overlap.
  `LoneInv` adds that a handler's copy is then what the document says on the paths it looks
  at, that the document counts exactly the failures there were and is blocked at the third,
  and that no reset link was mailed after the ones in either link field.
* `AccountAccess_proofs!AccountTyped`: any number of handlers at once (the type of
  `percentage` is 0 or 1).  `BoundsInv` says of
  the document and of every copy a handler holds that the account has been counted
  confirmed at most once, and not at all before it is verified: two activations that both
  find it unverified save the same percentage, because each adds to its own copy.

* `BookDisplay_proofs!RequestsAreServed`, `TradableIsNewest`: any number of pairs, changes,
  switches, losses and snapshots.  `ScreenInv` says that the newest book drawn of a pair is
  the one its ordering guard remembers, and that what is drawn belongs to the pair whose
  payload came last; the guard then lets nothing older through.
* `BookDisplay_proofs!DisplayTyped`: `FramesInv` says that the build under way is of the
  pair shown, that a waiting frame has its timer and repeats the verdict already painted,
  and that the watchdog's resync is the only one under way.

Assumed of the constants, by name, in the module that declares them: that amounts are
naturals, bounds are numbers, and that names meant to differ do.  Every assumption a proof
cites is evaluated by TLC in a run of its module.

Only model-checked:

* everything about liveness (`LatchIsReleased`, `MarketOrdersLeave`, `AccountIsFreed`,
  `Recovers`, `OrphansAreSwept`, `ScreenSettles`), which TLAPS does not reach;
* `SpotMatcher` with several pairs, where `ClaimsAreExclusive` is false, and with an account
  closing.

## 5. Not modelled, and plan

Four fifths of the repository's lines are in no component a model would help with: pages
and styles of the frontend, generated gRPC code, documents created and listed, mail, KYC,
charts, formatting.  Of the sources of the components listed as modelled or partly
modelled, the map covers about a third; what is left of them is, for the most part:

* `spot.controller.js`: history, statistics and administration routes, `liqOrdCreation` (for
  pairs that are "off"), passbook rows and socket pushes;
* the gate's arithmetic (spread, deviation, minimum sizes, slippage) and the shape of the
  ladder (prices and quantities of its rows);
* `auth.controller.js`, `user.controller.js`: phone and address changes, the asset
  password, profile and KYC routes, the deletion of unverified accounts;
* `binanceWebSocket.js`: the trade tape, the mirror in redis, the liveness report;
* administrative wallet operations;
* the fill canary, a dry run that changes nothing the venue keeps.  It reads both sides of a
  ladder without regard to the tick, so it can look between the deletes and the writes of a
  sync: that is the `Syncing` case `AcceptedIsBacked` excepts.  Its verdicts also depend on
  the date of every row, which `PaperLadder` keeps only for the ladder as a whole.

To do, in this order:

1. What a process that stops between two commands of a placement, a cancel or a settlement
   leaves behind (nothing repairs it: the property would be which coins are missing).
2. Proofs: the money of the matcher beside a closing account.
3. The canary, with the age of each row; `roundOf` and the 24h window against reference definitions.
