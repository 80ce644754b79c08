------------------------ MODULE ResetFreeze_proofs ------------------------
(***************************************************************************)
(* What the freeze and the flights of ResetFreeze are worth, for any       *)
(* number of requests and resets: a reset writes alone, it writes over     *)
(* nothing that rests while the matcher does not run, a claim is paid once *)
(* unless a reply is lost, and the account never has more than it was      *)
(* given as long as the matcher and the closing sweep leave it alone.      *)
(***************************************************************************)
EXTENDS ResetFreeze, FiniteSetTheorems, WellFoundedInduction, TLAPS

\* Where a reset must still hold its freeze, and where it has seen no flight.
Quiet(s) == pc[s] \in {"collecting", "reading_buys", "reading_sells", "clearing", "zeroing"}
Holding(s) == pc[s] = "frozen" \/ Quiet(s)

\* The inductive form of ResetIsAlone: a request that moves money is registered, a
\* reset at work holds the freeze, and one past its reading sees no flight.
AloneInv ==
    /\ DOMAIN pc = Processes
    /\ \A r \in Requests : Moving(r) => r \in flights
    /\ \A s \in Resets : Holding(s) => freeze = s
    /\ \A s \in Resets : Quiet(s) => flights = {}

\* The steps of a process, as one set of cases.
LEMMA AloneRequest ==
    ASSUME AloneInv, NEW r \in Requests, RequestStep(r) \/ ExpireFlight(r)
    PROVE  AloneInv'
<1>0. r \in Processes /\ r \notin Resets /\ r \notin Closers /\ \A s \in Resets : s /= NoToken
  BY KindsDiffer DEF Processes, Requests
<1>1. CASE Track(r)
  <2>1. CASE freeze = NoToken /\ Goes(r, "new", "begun") /\ flights' = flights \cup {r}
    <3>1. \A s \in Resets : ~Quiet(s)
      BY <1>0, <2>1 DEF AloneInv, Holding, Quiet
    <3> QED BY <1>0, <1>1, <2>1, <3>1 DEF AloneInv, Moving, Holding, Quiet, Goes, Track, Processes
  <2>2. CASE Goes(r, "new", "done") /\ UNCHANGED flights
    BY <1>0, <1>1, <2>2 DEF AloneInv, Moving, Holding, Quiet, Goes, Track, Processes
  <2> QED BY <1>1, <2>1, <2>2 DEF Track
<1>2. CASE Finish(r)
  BY <1>0, <1>2 DEF AloneInv, Moving, Holding, Quiet, Goes, Finish, Processes
<1>3. CASE ExpireFlight(r)
  BY <1>0, <1>3 DEF AloneInv, Moving, Holding, Quiet, ExpireFlight, Processes
<1>4. ASSUME UNCHANGED <<freeze, flights>>, Moving(r),
             NEW to, pc' = [pc EXCEPT ![r] = to]
      PROVE  AloneInv'
  BY <1>0, <1>4 DEF AloneInv, Moving, Holding, Quiet, Processes
<1>5. CASE r \in Placements /\ (Debit(r) \/ Reserve(r) \/ List(r))
  BY <1>4, <1>5 DEF Debit, Reserve, List, Goes, Moving
<1>6. CASE r \in Cancels /\ (ClaimOrder(r) \/ PayBack(r) \/ ReadInOrder(r) \/ WriteInOrder(r))
  BY <1>0, <1>4, <1>6
  DEF ClaimOrder, Take, PayBack, ReadInOrder, WriteInOrder, Onward, Goes, Moving
<1>7. CASE r \in Claims /\ (TakeCooldown(r) \/ Credit(r) \/ CreditFails(r) \/ GiveBack(r))
  BY <1>4, <1>7 DEF TakeCooldown, Credit, CreditFails, GiveBack, Goes, Moving
<1> QED BY <1>1, <1>2, <1>3, <1>5, <1>6, <1>7 DEF RequestStep

LEMMA AloneReset ==
    ASSUME AloneInv, NEW s \in Resets, ResetStep(s) \/ ExpireFreeze(s)
    PROVE  AloneInv'
<1>0. s \in Processes /\ s \notin Requests /\ \A t \in Resets : t /= NoToken
  BY KindsDiffer DEF Processes, Requests
<1>1. CASE TakeFreeze(s)
  BY <1>0, <1>1 DEF AloneInv, Moving, Holding, Quiet, Goes, TakeFreeze, Processes
<1>2. CASE ReadFlights(s)
  BY <1>0, <1>2 DEF AloneInv, Moving, Holding, Quiet, Goes, ReadFlights, Processes
<1>3. CASE Leave(s)
  BY <1>0, <1>3 DEF AloneInv, Moving, Holding, Quiet, Leave, Processes
<1>4. CASE ExpireFreeze(s)
  BY <1>0, <1>4 DEF AloneInv, Moving, Holding, Quiet, ExpireFreeze, Processes
<1>5. ASSUME UNCHANGED <<freeze, flights>>, Quiet(s),
             NEW to, pc' = [pc EXCEPT ![s] = to]
      PROVE  AloneInv'
  BY <1>0, <1>5 DEF AloneInv, Moving, Holding, Quiet, Processes
<1>6. CASE UNCHANGED <<freeze, flights, pc>>
  BY <1>6 DEF AloneInv, Moving, Holding, Quiet
<1>7. CASE CollectCoins(s) \/ ReadBuys(s) \/ ReadSells(s) \/ Restore(s)
  BY <1>5, <1>7 DEF CollectCoins, ReadBuys, ReadSells, Restore, Goes, Quiet
<1>8. CASE \E c \in Coins : ClearInOrder(s, c) \/ ZeroFree(s, c)
  BY <1>5, <1>6, <1>8 DEF ClearInOrder, ZeroFree, Goes, Quiet
<1> QED BY <1>1, <1>2, <1>3, <1>4, <1>7, <1>8 DEF ResetStep

LEMMA AloneSweep ==
    ASSUME AloneInv, NEW k \in Closers, SweepStep(k)
    PROVE  AloneInv'
<1>0. k \in Processes /\ k \notin Requests /\ k \notin Resets
  BY KindsDiffer, SMTT(30) DEF Processes, Requests
<1>1. UNCHANGED <<freeze, flights>> /\ \E to : pc' = [pc EXCEPT ![k] = to]
  BY DEF SweepStep, ListForClosure, ClaimForClosure, PayBack, ReadInOrder, WriteInOrder,
         Onward, Goes
<1> QED BY <1>0, <1>1 DEF AloneInv, Moving, Holding, Quiet, Processes

\* The matcher looks at neither the freeze nor the flights.
Tick == StartTick \/ EndTick \/ Settle \/ \E o \in Placements : Match(o)

LEMMA TickLeavesRequests ==
    ASSUME Tick
    PROVE  UNCHANGED <<freeze, flights, cooldown, pc, work, paid>>
BY DEF Tick, StartTick, EndTick, Settle, Match, TickReadInOrder, TickWriteInOrder,
       TickRefund, TickHdel, TickHset, TickCredit, ghosts

LEMMA AloneNext ==
    ASSUME AloneInv, [Next]_vars
    PROVE  AloneInv'
<1>1. CASE \E r \in Requests : RequestStep(r) \/ ExpireFlight(r)
  BY <1>1, AloneRequest
<1>2. CASE \E s \in Resets : ResetStep(s) \/ ExpireFreeze(s)
  BY <1>2, AloneReset
<1>3. CASE \E k \in Closers : SweepStep(k)
  BY <1>3, AloneSweep
<1>4. CASE Tick
  BY <1>4, TickLeavesRequests DEF AloneInv, Moving, Holding, Quiet
<1>5. CASE Crash
  <2>1. DOMAIN pc' = Processes
    BY <1>5 DEF Crash, AloneInv
  <2>2. \A p \in Processes : pc'[p] \in {"new", "done", "dead"}
    BY <1>5 DEF Crash
  <2> QED BY <2>1, <2>2 DEF AloneInv, Moving, Holding, Quiet, Processes
<1>6. CASE UNCHANGED vars
  BY <1>6 DEF AloneInv, Moving, Holding, Quiet, vars
<1> QED BY <1>1, <1>2, <1>3, <1>4, <1>5, <1>6 DEF Next, Tick

\* The exclusion of value_flight.js: whatever the number of requests, resets, sweeps and
\* crashes, while a reset writes no request moves money and no other reset writes.
THEOREM ResetsStayAlone == Spec => []ResetIsAlone
<1>1. Init => AloneInv
  BY DEF Init, AloneInv, Moving, Holding, Quiet, Processes
<1>2. AloneInv /\ [Next]_vars => AloneInv'
  BY AloneNext
<1>3. AloneInv => ResetIsAlone
  BY DEF AloneInv, ResetIsAlone, Moving, Holding, Quiet, Writing
<1> QED BY <1>1, <1>2, <1>3, PTL DEF Spec

-----------------------------------------------------------------------------
\* With no matcher, what a reset has found empty stays empty: a row is only listed by a
\* request that is in flight.
NoRows(side) == \A o \in Placements : Side[o] = side => book[o] = NoRow

RestInv ==
    /\ tick.at = "idle"
    /\ DOMAIN book = Placements
    /\ \A s \in Resets :
          /\ pc[s] \in {"reading_sells", "clearing", "zeroing"} => NoRows("buy")
          /\ pc[s] \in {"clearing", "zeroing"} => NoRows("sell")

LEMMA RestKept ==
    ASSUME RestInv, tick' = tick, DOMAIN book' = Placements,
           \A o \in Placements : book[o] = NoRow => book'[o] = NoRow,
           \A s \in Resets : pc'[s] = pc[s] \/ pc'[s] \notin {"reading_sells", "clearing", "zeroing"}
                             \/ pc[s] \in {"clearing", "zeroing"}
    PROVE  RestInv'
BY DEF RestInv, NoRows

LEMMA RestRequest ==
    ASSUME AloneInv, RestInv, NEW r \in Requests, RequestStep(r) \/ ExpireFlight(r)
    PROVE  RestInv'
<1>0. r \notin Resets /\ r \in Processes /\ Resets \subseteq Processes
  BY KindsDiffer DEF Processes, Requests
<1>1. CASE r \in Placements /\ List(r)
  <2>1. \A s \in Resets : ~Quiet(s)
    BY <1>1 DEF AloneInv, List, Goes, Moving
  <2>2. \A s \in Resets : pc'[s] = pc[s]
    BY <1>0, <1>1 DEF List, Goes, AloneInv
  <2>3. tick' = tick /\ DOMAIN book' = Placements
    BY <1>1 DEF List, RestInv
  <2> QED BY <2>1, <2>2, <2>3 DEF RestInv, Quiet
<1>2. CASE r \in Cancels /\ ClaimOrder(r)
  <2>1. tick' = tick /\ \A s \in Resets : pc'[s] = pc[s]
    BY <1>0, <1>2 DEF ClaimOrder, Take, Goes, AloneInv
  <2>2. book' = book \/ book' = [book EXCEPT ![Target[r]] = NoRow]
    BY <1>2 DEF ClaimOrder, Take
  <2> QED BY <2>1, <2>2, RestKept DEF RestInv
<1>3. CASE /\ UNCHANGED <<tick, book>>
           /\ \A s \in Resets : pc'[s] = pc[s]
  BY <1>3, RestKept DEF RestInv
<1>4. CASE Track(r) \/ Finish(r) \/ ExpireFlight(r)
  BY <1>0, <1>3, <1>4 DEF Track, Finish, ExpireFlight, Goes, money, AloneInv
<1>5. CASE r \in Placements /\ (Debit(r) \/ Reserve(r))
  BY <1>0, <1>3, <1>5 DEF Debit, Reserve, Goes, AloneInv
<1>6. CASE r \in Cancels /\ (PayBack(r) \/ ReadInOrder(r) \/ WriteInOrder(r))
  BY <1>0, <1>3, <1>6 DEF PayBack, ReadInOrder, WriteInOrder, Goes, money, AloneInv
<1>7. CASE r \in Claims /\ (TakeCooldown(r) \/ Credit(r) \/ CreditFails(r) \/ GiveBack(r))
  BY <1>0, <1>3, <1>7 DEF TakeCooldown, Credit, CreditFails, GiveBack, Goes, money, AloneInv
<1> QED BY <1>1, <1>2, <1>4, <1>5, <1>6, <1>7 DEF RequestStep

LEMMA RestReset ==
    ASSUME AloneInv, RestInv, NEW s \in Resets, ResetStep(s) \/ ExpireFreeze(s)
    PROVE  RestInv'
<1>0. s \in Processes /\ Resets \subseteq Processes
  BY DEF Processes
<1>1. UNCHANGED <<tick, book>>
  BY DEF ResetStep, TakeFreeze, ReadFlights, CollectCoins, ReadBuys, ReadSells, ClearInOrder, ZeroFree,
         Restore, Leave, ExpireFreeze, money
<1>2. CASE ReadBuys(s)
  <2>1. pc'[s] = "reading_sells" => NoRows("buy")
    BY <1>0, <1>2 DEF ReadBuys, Goes, Resting, NoRows, AloneInv
  <2>2. pc'[s] \notin {"clearing", "zeroing"}
    BY <1>0, <1>2 DEF ReadBuys, Goes, AloneInv
  <2>3. \A t \in Resets \ {s} : pc'[t] = pc[t]
    BY <1>0, <1>2 DEF ReadBuys, Goes, AloneInv
  <2> QED BY <1>1, <2>1, <2>2, <2>3 DEF RestInv, NoRows
<1>3. CASE ReadSells(s)
  <2>1. pc[s] = "reading_sells" /\ (pc'[s] = "clearing" => NoRows("sell"))
    BY <1>0, <1>3 DEF ReadSells, Goes, Resting, NoRows, AloneInv
  <2>2. pc'[s] \in {"leaving", "clearing"}
    BY <1>0, <1>3 DEF ReadSells, Goes, AloneInv
  <2>3. \A t \in Resets \ {s} : pc'[t] = pc[t]
    BY <1>0, <1>3 DEF ReadSells, Goes, AloneInv
  <2> QED BY <1>1, <2>1, <2>2, <2>3 DEF RestInv, NoRows
<1>4. CASE \A t \in Resets : pc'[t] = pc[t] \/ pc[t] \in {"clearing", "zeroing"}
                             \/ pc'[t] \notin {"reading_sells", "clearing", "zeroing"}
  BY <1>1, <1>4, RestKept DEF RestInv
<1>5. CASE TakeFreeze(s) \/ ReadFlights(s) \/ CollectCoins(s) \/ Leave(s) \/ ExpireFreeze(s)
  BY <1>0, <1>4, <1>5
  DEF TakeFreeze, ReadFlights, CollectCoins, Leave, ExpireFreeze, Goes, AloneInv
<1>6. CASE Restore(s) \/ \E c \in Coins : ClearInOrder(s, c) \/ ZeroFree(s, c)
  BY <1>0, <1>4, <1>6 DEF Restore, ClearInOrder, ZeroFree, Goes, AloneInv
<1> QED BY <1>2, <1>3, <1>5, <1>6 DEF ResetStep

LEMMA RestSweep ==
    ASSUME AloneInv, RestInv, NEW k \in Closers, SweepStep(k)
    PROVE  RestInv'
<1>1. tick' = tick /\ \E to : pc' = [pc EXCEPT ![k] = to]
  BY DEF SweepStep, ListForClosure, ClaimForClosure, PayBack, ReadInOrder, WriteInOrder,
         Onward, Goes, money
<1>2. k \notin Resets
  BY KindsDiffer
<1>3. \A s \in Resets : pc'[s] = pc[s]
  BY <1>1, <1>2, SMTT(30) DEF AloneInv
<1>4. book' = book \/ \E o : book' = [book EXCEPT ![o] = NoRow]
  BY DEF SweepStep, ClaimForClosure, ListForClosure, PayBack, ReadInOrder, WriteInOrder, money
<1>5. DOMAIN book' = Placements /\ \A o \in Placements : book[o] = NoRow => book'[o] = NoRow
  BY <1>4 DEF RestInv
<1> QED BY <1>1, <1>3, <1>5, RestKept, SMTT(30)

LEMMA NeverTicks ==
    ASSUME RestInv, Matching = FALSE
    PROVE  ~Tick
BY DEF RestInv, Tick, StartTick, EndTick, Settle, Match, TickReadInOrder,
       TickWriteInOrder, TickRefund, TickHdel, TickHset, TickCredit

LEMMA RestNext ==
    ASSUME AloneInv, RestInv, Matching = FALSE, [Next]_vars
    PROVE  RestInv'
<1>1. CASE \E r \in Requests : RequestStep(r) \/ ExpireFlight(r)
  BY <1>1, RestRequest
<1>2. CASE \E s \in Resets : ResetStep(s) \/ ExpireFreeze(s)
  BY <1>2, RestReset
<1>3. CASE \E k \in Closers : SweepStep(k)
  BY <1>3, RestSweep
<1>4. ASSUME Tick PROVE FALSE
  BY <1>4, NeverTicks
<1>5. CASE Crash
  <2>1. \A s \in Resets : pc'[s] \in {"new", "done", "dead"}
    BY <1>5 DEF Crash, Processes
  <2>2. book' = book /\ tick'.at = "idle"
    BY <1>5 DEF Crash, money, NoTick
  <2> QED BY <2>1, <2>2 DEF RestInv
<1>6. CASE UNCHANGED vars
  BY <1>6 DEF RestInv, NoRows, vars, money
<1> QED BY <1>1, <1>2, <1>3, <1>4, <1>5, <1>6 DEF Next, Tick

\* As long as the matcher does not run, a reset that writes has nothing resting under it,
\* from its two reads of the books to its last command.
THEOREM NothingRests ==
    ASSUME Matching = FALSE
    PROVE  Spec => []NothingRestsAtReset
<1>1. Init => AloneInv /\ RestInv
  BY DEF Init, AloneInv, Moving, Holding, Quiet, Processes, RestInv, NoTick
<1>2. AloneInv /\ RestInv /\ [Next]_vars => AloneInv' /\ RestInv'
  BY AloneNext, RestNext
<1>3. RestInv => NothingRestsAtReset
  BY OrdersTyped DEF RestInv, NoRows, NothingRestsAtReset, Writing
<1> QED BY <1>1, <1>2, <1>3, PTL DEF Spec

-----------------------------------------------------------------------------
\* One claim at a time is past its cooldown, and none once one is paid.
Paying(k) == pc[k] \in {"cooling", "failing"}
ClaimInv ==
    /\ paid = 0 \/ paid = 1
    /\ paid = 1 => cooldown /\ \A k \in Claims : ~Paying(k)
    /\ \A k \in Claims : Paying(k) => cooldown
    /\ \A k, l \in Claims : Paying(k) /\ Paying(l) => k = l

LEMMA ClaimKept ==
    ASSUME ClaimInv, UNCHANGED <<cooldown, paid>>,
           \A k \in Claims : Paying(k)' => Paying(k)
    PROVE  ClaimInv'
BY DEF ClaimInv

LEMMA ClaimRequest ==
    ASSUME AloneInv, ClaimInv, "reply_lost" \notin Errors, NEW r \in Requests,
           RequestStep(r) \/ ExpireFlight(r)
    PROVE  ClaimInv'
<1>0. r \in Processes /\ Claims \subseteq Processes /\ (r \in Placements \cup Cancels => r \notin Claims)
  BY KindsDiffer DEF Processes, Requests
<1>1. CASE r \in Claims /\ TakeCooldown(r)
  BY <1>0, <1>1 DEF TakeCooldown, Goes, AloneInv, ClaimInv, Paying, ghosts
<1>2. CASE r \in Claims /\ Credit(r)
  <2>1. pc[r] = "cooling" /\ pc' = [pc EXCEPT ![r] = "responding"] /\ paid' = paid + 1
        /\ cooldown' = cooldown
    BY <1>2 DEF Credit, Goes
  <2>2. paid = 0 /\ cooldown
    BY <1>2, <2>1 DEF ClaimInv, Paying
  <2>3. paid' = 1
    BY <2>1, <2>2
  <2>4. \A k \in Claims : ~Paying(k)'
    BY <1>0, <1>2, <2>1 DEF AloneInv, ClaimInv, Paying
  <2> QED BY <2>1, <2>2, <2>3, <2>4 DEF ClaimInv
<1>3. CASE r \in Claims /\ CreditFails(r)
  BY <1>0, <1>3 DEF CreditFails, Goes, AloneInv, ClaimInv, Paying, ghosts
<1>4. CASE r \in Claims /\ GiveBack(r)
  BY <1>0, <1>4 DEF GiveBack, Goes, AloneInv, ClaimInv, Paying, ghosts
<1>5. CASE Track(r) \/ Finish(r) \/ ExpireFlight(r)
  BY <1>0, <1>5, ClaimKept DEF Track, Finish, ExpireFlight, Goes, AloneInv, Paying, ghosts
<1>6. CASE r \in Placements /\ (Debit(r) \/ Reserve(r) \/ List(r))
  BY <1>0, <1>6, ClaimKept DEF Debit, Reserve, List, Goes, AloneInv, Paying, ghosts
<1>7. CASE r \in Cancels /\ (ClaimOrder(r) \/ PayBack(r) \/ ReadInOrder(r) \/ WriteInOrder(r))
  BY <1>0, <1>7, ClaimKept
  DEF ClaimOrder, Take, PayBack, ReadInOrder, WriteInOrder, Goes, AloneInv, Paying, ghosts
<1> QED BY <1>1, <1>2, <1>3, <1>4, <1>5, <1>6, <1>7 DEF RequestStep

LEMMA ClaimReset ==
    ASSUME AloneInv, ClaimInv, NEW s \in Resets, ResetStep(s) \/ ExpireFreeze(s)
    PROVE  ClaimInv'
<1>0. s \notin Claims /\ Claims \subseteq Processes
  BY KindsDiffer DEF Requests, Processes
<1>1. UNCHANGED <<cooldown, paid>>
  BY DEF ResetStep, TakeFreeze, ReadFlights, CollectCoins, ReadBuys, ReadSells, ClearInOrder, ZeroFree,
         Restore, Leave, ExpireFreeze, ghosts
<1>2. \A k \in Claims : pc'[k] = pc[k]
  BY <1>0 DEF ResetStep, TakeFreeze, ReadFlights, CollectCoins, ReadBuys, ReadSells, ClearInOrder,
         ZeroFree, Restore, Leave, ExpireFreeze, Goes, AloneInv
<1> QED BY <1>1, <1>2, ClaimKept DEF Paying

LEMMA ClaimNext ==
    ASSUME AloneInv, ClaimInv, "reply_lost" \notin Errors, [Next]_vars
    PROVE  ClaimInv'
<1>1. CASE \E r \in Requests : RequestStep(r) \/ ExpireFlight(r)
  BY <1>1, ClaimRequest
<1>2. CASE \E s \in Resets : ResetStep(s) \/ ExpireFreeze(s)
  BY <1>2, ClaimReset
<1>3. ASSUME NEW k \in Closers, SweepStep(k) PROVE ClaimInv'
  <2>1. k \notin Claims /\ Claims \subseteq Processes
    BY KindsDiffer, SMTT(30) DEF Requests, Processes
  <2>2. UNCHANGED <<cooldown, paid>> /\ \E to : pc' = [pc EXCEPT ![k] = to]
    BY <1>3 DEF SweepStep, ListForClosure, ClaimForClosure, PayBack, ReadInOrder,
                WriteInOrder, Onward, Goes, ghosts
  <2> QED BY <2>1, <2>2, ClaimKept DEF Paying, AloneInv
<1>4. CASE Tick
  BY <1>4, TickLeavesRequests, ClaimKept DEF Paying
<1>5. CASE Crash
  BY <1>5, ClaimKept DEF Crash, Paying, ghosts, Processes, Requests
<1>6. CASE UNCHANGED vars
  BY <1>6, ClaimKept DEF vars, Paying
<1> QED BY <1>1, <1>2, <1>3, <1>4, <1>5, <1>6 DEF Next, Tick

\* However many claims run at once, fail, are retried or die, one cooldown pays one of
\* them, as long as redis never credits a claim and loses the reply.
THEOREM FaucetPaysOnce ==
    ASSUME "reply_lost" \notin Errors
    PROVE  Spec => []ClaimPaysOnce
<1>1. Init => AloneInv /\ ClaimInv
  <2> SUFFICES ASSUME Init PROVE AloneInv /\ ClaimInv
    OBVIOUS
  <2>1. AloneInv
    BY DEF Init, AloneInv, Moving, Holding, Quiet, Processes
  <2>2. \A k \in Claims : ~Paying(k)
    BY DEF Init, Paying, Processes, Requests
  <2>3. paid = 0
    BY DEF Init
  <2>4. ~(paid = 1)
    BY <2>3
  <2> QED BY <2>1, <2>2, <2>3, <2>4 DEF ClaimInv
<1>2. AloneInv /\ ClaimInv /\ [Next]_vars => AloneInv' /\ ClaimInv'
  BY AloneNext, ClaimNext
<1>3. ClaimInv => ClaimPaysOnce
  BY DEF ClaimInv, ClaimPaysOnce
<1> QED BY <1>1, <1>2, <1>3, PTL DEF Spec

-----------------------------------------------------------------------------
\* The types, with what a cancel, a sweep, a reset and the matcher carry from one
\* command to the next.
WorkRecord == [o : Placements \cup {NoToken}, due : Nat, applied : Nat,
               left : SUBSET (Coins \cup Placements)]
TickRecord ==
    [at : {"idle", "matching", "filled", "releasing", "refunding", "leaving",
           "relisting", "crediting"},
     snap : [Placements -> Row], o : Placements \cup {NoToken},
     q : Nat, rest : Nat, unspent : Nat, applied : Nat]

TypeInv ==
    /\ TypeOK
    /\ work \in [Processes -> WorkRecord]
    /\ \A k \in Closers : work[k].left \subseteq Placements
    /\ tick \in TickRecord
    /\ tick.at \notin {"idle", "matching"} => tick.o \in Placements

LEMMA CoinsOf == \A o : CostCoin(o) \in Coins /\ GainCoin(o) \in Coins
BY DEF CostCoin, GainCoin, Coins

\* Paying back and releasing, for a cancel and for a sweep.
LEMMA PayingTypes ==
    ASSUME TypeInv, NEW p \in Processes, PayBack(p) \/ ReadInOrder(p) \/ WriteInOrder(p)
    PROVE  TypeInv'
<1>0. work[p] \in WorkRecord /\ work[p].due \in Nat /\ work[p].applied \in Nat
  BY DEF TypeInv, WorkRecord
<1>1. CostCoin(work[p].o) \in Coins
  BY CoinsOf
<1>2. CASE PayBack(p)
  <2>1. free' \in [Coins -> Nat]
    BY <1>0, <1>1, <1>2 DEF PayBack, TypeInv, TypeOK
  <2> QED
    BY <1>2, <2>1 DEF PayBack, Goes, TypeInv, TypeOK
<1>3. CASE ReadInOrder(p)
  <2> DEFINE applied == AtMost(work[p].due, Positive(inOrder[CostCoin(work[p].o)]))
  <2>1. inOrder[CostCoin(work[p].o)] \in Int
    BY <1>1 DEF TypeInv, TypeOK
  <2>2. applied \in Nat
    BY <1>0, <2>1 DEF AtMost, Positive
  <2>3. work' = [work EXCEPT ![p].applied = applied]
    BY <1>3 DEF ReadInOrder
  <2> HIDE DEF applied
  <2>4. work' \in [Processes -> WorkRecord]
    BY <1>0, <2>2, <2>3 DEF TypeInv, WorkRecord
  <2> QED
    BY <1>3, <2>4 DEF ReadInOrder, Goes, money, TypeInv, TypeOK
<1>4. CASE WriteInOrder(p)
  <2>1. inOrder' \in [Coins -> Int]
    BY <1>0, <1>1, <1>4 DEF WriteInOrder, TypeInv, TypeOK
  <2> QED
    BY <1>4, <2>1 DEF WriteInOrder, Goes, TypeInv, TypeOK
<1> QED
  BY <1>2, <1>3, <1>4

LEMMA RequestTypes ==
    ASSUME TypeInv, NEW r \in Requests, RequestStep(r) \/ ExpireFlight(r)
    PROVE  TypeInv'
<1>0. r \in Processes /\ DOMAIN pc = Processes
  BY DEF Processes, TypeInv, TypeOK
<1>1. CASE Track(r) \/ Finish(r) \/ ExpireFlight(r)
  BY <1>1 DEF Track, Finish, ExpireFlight, Goes, money, TypeInv, TypeOK
<1>2. CASE r \in Placements /\ Debit(r)
  <2>1. CostCoin(r) \in Coins /\ Stake[r] \in Nat
    BY <1>2, CoinsOf, OrdersTyped
  <2>2. free' \in [Coins -> Nat]
    BY <1>2, <2>1 DEF Debit, TypeInv, TypeOK
  <2> QED
    BY <1>2, <2>2 DEF Debit, Goes, TypeInv, TypeOK
<1>3. CASE r \in Placements /\ Reserve(r)
  <2>1. CostCoin(r) \in Coins /\ Stake[r] \in Nat
    BY <1>3, CoinsOf, OrdersTyped
  <2>2. inOrder' \in [Coins -> Int]
    BY <1>3, <2>1 DEF Reserve, TypeInv, TypeOK
  <2> QED
    BY <1>3, <2>2 DEF Reserve, Goes, TypeInv, TypeOK
<1>4. CASE r \in Placements /\ List(r)
  <2>1. [qty |-> Stake[r], held |-> Stake[r]] \in Row
    BY <1>4, OrdersTyped DEF Row
  <2> QED
    BY <1>4, <2>1 DEF List, Goes, TypeInv, TypeOK
<1>5. CASE r \in Cancels /\ ClaimOrder(r)
  <2> DEFINE o == Target[r]
  <2>1. o \in Placements /\ book[o] \in Row /\ book[o].held \in Nat
    BY <1>5, OrdersTyped DEF TypeInv, TypeOK, Row
  <2>2. NoRow \in Row
    BY DEF NoRow, Row
  <2>3. CASE Take(r, o, "claimed")
    <3>1. work' \in [Processes -> WorkRecord] /\ book' \in [Placements -> Row]
      BY <1>0, <2>1, <2>2, <2>3 DEF Take, TypeInv, TypeOK, WorkRecord
    <3>2. \A k \in Closers : work'[k].left = work[k].left
      BY <1>0, <2>3 DEF Take, TypeInv, WorkRecord, Processes
    <3> QED
      BY <1>5, <2>3, <3>1, <3>2 DEF ClaimOrder, Take, TypeInv, TypeOK
  <2>4. CASE Goes(r, "begun", "responding") /\ UNCHANGED <<book, work>>
    BY <1>5, <2>4 DEF ClaimOrder, Goes, TypeInv, TypeOK
  <2> QED
    BY <1>5, <2>3, <2>4 DEF ClaimOrder
<1>6. CASE r \in Cancels /\ (PayBack(r) \/ ReadInOrder(r) \/ WriteInOrder(r))
  BY <1>0, <1>6, PayingTypes
<1>7. CASE r \in Claims /\ TakeCooldown(r)
  BY <1>7 DEF TakeCooldown, Goes, money, TypeInv, TypeOK
<1>8. CASE r \in Claims /\ Credit(r)
  <2>1. free' \in [Coins -> Nat]
    BY <1>8, AmountsTyped DEF Credit, FaucetCoin, Coins, TypeInv, TypeOK
  <2> QED
    BY <1>8, <2>1 DEF Credit, Goes, TypeInv, TypeOK
<1>9. CASE r \in Claims /\ (CreditFails(r) \/ GiveBack(r))
  BY <1>9 DEF CreditFails, GiveBack, Goes, money, TypeInv, TypeOK
<1> QED
  BY <1>1, <1>2, <1>3, <1>4, <1>5, <1>6, <1>7, <1>8, <1>9 DEF RequestStep

LEMMA ResetTypes ==
    ASSUME TypeInv, NEW s \in Resets, ResetStep(s) \/ ExpireFreeze(s)
    PROVE  TypeInv'
<1>0. s \in Processes /\ s \notin Closers /\ FaucetCoin \in Coins /\ "btc" \in Coins
  BY KindsDiffer DEF Processes, Coins, FaucetCoin
<1>1. CASE TakeFreeze(s) \/ ReadFlights(s) \/ ReadBuys(s) \/ ReadSells(s) \/ Leave(s)
             \/ ExpireFreeze(s)
  BY <1>1 DEF TakeFreeze, ReadFlights, ReadBuys, ReadSells, Leave, ExpireFreeze, Goes, money,
             TypeInv, TypeOK
<1>2. CASE CollectCoins(s)
  <2>1. work' \in [Processes -> WorkRecord]
    BY <1>0, <1>2 DEF CollectCoins, TypeInv, WorkRecord
  <2>2. \A k \in Closers : work'[k] = work[k]
    BY <1>0, <1>2 DEF CollectCoins, TypeInv, Processes
  <2> QED
    BY <1>2, <2>1, <2>2 DEF CollectCoins, Goes, money, TypeInv, TypeOK
<1>3. ASSUME NEW c \in Coins, ClearInOrder(s, c) PROVE TypeInv'
  <2>1. inOrder' \in [Coins -> Int]
    BY <1>3 DEF ClearInOrder, TypeInv, TypeOK
  <2>2. work' \in [Processes -> WorkRecord]
    BY <1>0, <1>3 DEF ClearInOrder, TypeInv, WorkRecord
  <2>3. DOMAIN pc' = Processes
    BY <1>3 DEF ClearInOrder, Goes, TypeInv, TypeOK
  <2>4. \A k \in Closers : work'[k] = work[k]
    BY <1>0, <1>3 DEF ClearInOrder, TypeInv, Processes
  <2> QED
    BY <1>3, <2>1, <2>2, <2>3, <2>4 DEF ClearInOrder, TypeInv, TypeOK
<1>4. ASSUME NEW c \in Coins, ZeroFree(s, c) PROVE TypeInv'
  <2>1. free' \in [Coins -> Nat]
    BY <1>4 DEF ZeroFree, TypeInv, TypeOK
  <2>2. work' \in [Processes -> WorkRecord]
    BY <1>0, <1>4 DEF ZeroFree, TypeInv, WorkRecord
  <2> QED
    BY <1>4, <2>1, <2>2 DEF ZeroFree, Goes, TypeInv, TypeOK
<1>5. CASE Restore(s)
  <2>1. free' \in [Coins -> Nat]
    BY <1>5, AmountsTyped DEF Restore, TypeInv, TypeOK
  <2> QED
    BY <1>5, <2>1 DEF Restore, Goes, TypeInv, TypeOK
<1> QED
  BY <1>1, <1>2, <1>3, <1>4, <1>5 DEF ResetStep

LEMMA SweepTypes ==
    ASSUME TypeInv, NEW k \in Closers, SweepStep(k)
    PROVE  TypeInv'
<1>0. k \in Processes /\ work[k] \in WorkRecord
  BY DEF Processes, TypeInv
<1>1. CASE PayBack(k) \/ ReadInOrder(k) \/ WriteInOrder(k)
  BY <1>0, <1>1, PayingTypes
<1>2. CASE ListForClosure(k)
  <2>1. work' \in [Processes -> WorkRecord]
    BY <1>0, <1>2 DEF ListForClosure, TypeInv, WorkRecord
  <2> QED
    BY <1>2, <2>1 DEF ListForClosure, Goes, money, TypeInv, TypeOK
<1>3. CASE ClaimForClosure(k)
  <2>1. PICK o \in work[k].left :
          /\ pc' = [pc EXCEPT ![k] = IF book[o] = NoRow THEN "listed" ELSE "claimed"]
          /\ work' = [work EXCEPT ![k].o = o, ![k].due = book[o].held,
                                  ![k].left = @ \ {o}]
          /\ book' = [book EXCEPT ![o] = NoRow]
    BY <1>3 DEF ClaimForClosure
  <2>2. o \in Placements /\ book[o] \in Row /\ book[o].held \in Nat
    BY <2>1 DEF TypeInv, TypeOK, Row
  <2>3. NoRow \in Row
    BY DEF NoRow, Row
  <2>4. /\ work' \in [Processes -> WorkRecord] /\ book' \in [Placements -> Row]
        /\ \A j \in Closers : work'[j].left \subseteq Placements
    BY <1>0, <2>1, <2>2, <2>3 DEF TypeInv, TypeOK, WorkRecord, Processes
  <2> QED
    BY <1>3, <2>1, <2>4 DEF ClaimForClosure, TypeInv, TypeOK
<1> QED
  BY <1>1, <1>2, <1>3 DEF SweepStep

\* The settlement of a match: what it takes of a row is never more than the row has.
LEMMA SettlementTypes ==
    ASSUME TypeInv, Settle \/ \E o \in Placements : Match(o)
    PROVE  TypeInv'
<1>0. /\ tick \in TickRecord /\ tick.snap \in [Placements -> Row]
      /\ tick.q \in Nat /\ tick.rest \in Nat /\ tick.unspent \in Nat /\ tick.applied \in Nat
  BY DEF TypeInv, TickRecord
<1>1. ASSUME NEW o \in Placements, Match(o) PROVE TypeInv'
  <2> DEFINE row == tick.snap[o]
  <2>1. row \in Row /\ row.qty \in Nat /\ row.held \in Nat
    BY <1>0 DEF Row
  <2>2. PICK q \in 1..row.qty :
           tick' = [tick EXCEPT
              !.at = "filled", !.o = o, !.q = q, !.snap[o].qty = row.qty - q,
              !.unspent = IF q = row.qty THEN Positive(row.held - q) ELSE 0,
              !.rest = IF q = row.qty THEN 0 ELSE row.held - AtMost(q, row.held)]
    BY <1>1 DEF Match
  <2> DEFINE unspent == IF q = row.qty THEN Positive(row.held - q) ELSE 0
             rest == IF q = row.qty THEN 0 ELSE row.held - AtMost(q, row.held)
             snap == [tick.snap EXCEPT ![o].qty = row.qty - q]
  <2>3. unspent \in Nat /\ rest \in Nat /\ row.qty - q \in Nat /\ q \in Nat
    BY <2>1 DEF Positive, AtMost
  <2>4. snap \in [Placements -> Row]
    BY <1>0, <2>1, <2>3 DEF Row
  <2>5. tick' = [tick EXCEPT !.at = "filled", !.o = o, !.q = q, !.snap = snap,
                             !.unspent = unspent, !.rest = rest]
    BY <1>0, <2>2 DEF TickRecord
  <2> HIDE DEF unspent, rest, snap, row
  <2>6. tick' \in TickRecord /\ tick'.o \in Placements
    BY <1>0, <2>3, <2>4, <2>5 DEF TickRecord
  <2> QED
    BY <1>1, <2>6 DEF Match, money, TypeInv, TypeOK
<1>2. CASE TickReadInOrder
  <2> DEFINE row == tick.snap[tick.o]
             final == row.qty = 0
             release == IF final THEN row.held ELSE AtMost(tick.q, row.held)
             applied == AtMost(release, Positive(inOrder[CostCoin(tick.o)]))
             rest == IF final THEN 0 ELSE row.held - applied
             snap == [tick.snap EXCEPT ![tick.o].held = rest]
             at == IF applied > 0 THEN "releasing" ELSE Released
  <2>1. tick.o \in Placements
    BY <1>2 DEF TickReadInOrder, TypeInv
  <2>2. row \in Row /\ row.qty \in Nat /\ row.held \in Nat
    BY <1>0, <2>1 DEF Row
  <2>3. inOrder[CostCoin(tick.o)] \in Int
    BY CoinsOf DEF TypeInv, TypeOK
  <2>4. applied \in Nat /\ rest \in Nat
    <3>1. release \in Nat /\ release <= row.held
      BY <1>0, <2>2 DEF AtMost
    <3> HIDE DEF release
    <3>2. applied \in Nat /\ applied <= row.held
      BY <2>2, <2>3, <3>1 DEF AtMost, Positive
    <3> HIDE DEF applied
    <3> QED
      BY <2>2, <3>2
  <2>5. at \in {"releasing", "refunding", "leaving"}
    BY DEF Released
  <2>6. snap \in [Placements -> Row]
    <3> HIDE DEF rest
    <3> QED
      BY <1>0, <2>1, <2>4 DEF Row
  <2>7. tick' = [tick EXCEPT !.at = at, !.applied = applied, !.rest = rest, !.snap = snap]
    BY <1>0, <1>2 DEF TickReadInOrder, TickRecord
  <2> HIDE DEF applied, rest, snap, at
  <2>8. tick' \in TickRecord /\ tick'.o \in Placements
    BY <1>0, <2>1, <2>4, <2>5, <2>6, <2>7 DEF TickRecord
  <2> QED
    BY <1>2, <2>8 DEF TickReadInOrder, money, TypeInv, TypeOK
<1>3. CASE TickWriteInOrder
  <2>1. tick.o \in Placements /\ Released \in {"refunding", "leaving"}
    BY <1>3 DEF TickWriteInOrder, Released, TypeInv
  <2>2. inOrder' \in [Coins -> Int]
    BY <1>0, <1>3, CoinsOf DEF TickWriteInOrder, TypeInv, TypeOK
  <2>3. tick' \in TickRecord /\ tick'.o \in Placements
    BY <1>0, <1>3, <2>1 DEF TickWriteInOrder, TickRecord
  <2> QED
    BY <1>3, <2>2, <2>3 DEF TickWriteInOrder, TypeInv, TypeOK
<1>4. CASE TickRefund
  <2>1. tick.o \in Placements
    BY <1>4 DEF TickRefund, TypeInv
  <2>2. free' \in [Coins -> Nat]
    BY <1>0, <1>4, CoinsOf DEF TickRefund, TypeInv, TypeOK
  <2>3. tick' \in TickRecord /\ tick'.o \in Placements
    BY <1>0, <1>4, <2>1 DEF TickRefund, TickRecord
  <2> QED
    BY <1>4, <2>2, <2>3 DEF TickRefund, TypeInv, TypeOK
<1>5. CASE TickHdel
  <2>1. tick.o \in Placements
    BY <1>5 DEF TickHdel, TypeInv
  <2>2. book' \in [Placements -> Row]
    BY <1>5 DEF TickHdel, TypeInv, TypeOK, NoRow, Row
  <2>3. tick' \in TickRecord /\ tick'.o \in Placements
    BY <1>0, <1>5, <2>1 DEF TickHdel, TickRecord
  <2> QED
    BY <1>5, <2>2, <2>3 DEF TickHdel, TypeInv, TypeOK
<1>6. CASE TickHset
  <2>1. tick.o \in Placements
    BY <1>6 DEF TickHset, TypeInv
  <2>2. book' \in [Placements -> Row]
    BY <1>0, <1>6, <2>1 DEF TickHset, TypeInv, TypeOK
  <2>3. tick' \in TickRecord /\ tick'.o \in Placements
    BY <1>0, <1>6, <2>1 DEF TickHset, TickRecord
  <2> QED
    BY <1>6, <2>2, <2>3 DEF TickHset, TypeInv, TypeOK
<1>7. CASE TickCredit
  <2>1. free' \in [Coins -> Nat]
    BY <1>0, <1>7, CoinsOf DEF TickCredit, TypeInv, TypeOK
  <2>2. tick' \in TickRecord /\ tick'.at = "matching"
    BY <1>0, <1>7 DEF TickCredit, NoTick, TickRecord
  <2> QED
    BY <1>7, <2>1, <2>2 DEF TickCredit, TypeInv, TypeOK
<1> QED
  BY <1>1, <1>2, <1>3, <1>4, <1>5, <1>6, <1>7 DEF Settle

LEMMA TypesNext ==
    ASSUME TypeInv, [Next]_vars
    PROVE  TypeInv'
<1>1. CASE \E r \in Requests : RequestStep(r) \/ ExpireFlight(r)
  BY <1>1, RequestTypes
<1>2. CASE \E s \in Resets : ResetStep(s) \/ ExpireFreeze(s)
  BY <1>2, ResetTypes
<1>3. CASE \E k \in Closers : SweepStep(k)
  BY <1>3, SweepTypes
<1>4. NoTick \in TickRecord /\ NoWork \in WorkRecord
  BY DEF NoTick, NoWork, TickRecord, WorkRecord, NoRow, Row
<1>5. CASE StartTick
  <2>1. tick' \in TickRecord /\ tick'.at = "matching"
    BY <1>5 DEF StartTick, NoTick, TickRecord, TypeInv, TypeOK
  <2> QED
    BY <1>5, <2>1 DEF StartTick, money, TypeInv, TypeOK
<1>6. CASE EndTick
  BY <1>4, <1>6 DEF EndTick, money, TypeInv, TypeOK, NoTick
<1>7. CASE Settle \/ \E o \in Placements : Match(o)
  BY <1>7, SettlementTypes
<1>8. CASE Crash
  <2>1. work' \in [Processes -> WorkRecord] /\ \A k \in Closers : work'[k].left = {}
    BY <1>4, <1>8 DEF Crash, NoWork, Processes
  <2>2. tick' \in TickRecord /\ tick'.at = "idle" /\ DOMAIN pc' = Processes
    BY <1>4, <1>8 DEF Crash, NoTick
  <2> QED
    BY <1>8, <2>1, <2>2 DEF Crash, money, TypeInv, TypeOK
<1>9. CASE UNCHANGED vars
  BY <1>9 DEF vars, TypeInv, TypeOK
<1> QED
  BY <1>1, <1>2, <1>3, <1>5, <1>6, <1>7, <1>8, <1>9 DEF Next

LEMMA TypesInitially == Init => TypeInv
<1> SUFFICES ASSUME Init PROVE TypeInv
  OBVIOUS
<1>1. TypeOK
  <2>1. free \in [Coins -> Nat] /\ inOrder \in [Coins -> Int]
    BY AmountsTyped DEF Init
  <2>2. book \in [Placements -> Row]
    BY DEF Init, NoRow, Row
  <2> QED
    BY <2>1, <2>2 DEF Init, TypeOK
<1>2. work \in [Processes -> WorkRecord] /\ \A k \in Closers : work[k].left = {}
  BY DEF Init, NoWork, WorkRecord, Processes
<1>3. tick \in TickRecord /\ tick.at = "idle"
  BY DEF Init, NoTick, TickRecord, NoRow, Row
<1> QED
  BY <1>1, <1>2, <1>3 DEF TypeInv

\* Whatever runs beside whatever, fails or dies, no balance is ever below zero and no
\* row holds less than nothing.
THEOREM BalancesTyped == Spec => []TypeOK
<1>1. TypeInv => TypeOK
  BY DEF TypeInv
<1> QED
  BY <1>1, TypesInitially, TypesNext, PTL DEF Spec

-----------------------------------------------------------------------------
\* A sum over every part of S, built up one element at a time.
Additive(m, v, S) ==
    /\ m \in [SUBSET S -> Nat] /\ m[{}] = 0
    /\ \A T \in SUBSET S : \A x \in T : m[T] = v[x] + m[T \ {x}]

LEMMA ZeroAdds ==
    ASSUME NEW S, NEW v, \A x \in S : v[x] = 0
    PROVE  Additive([T \in SUBSET S |-> 0], v, S)
BY DEF Additive

LEMMA MovedAdds ==
    ASSUME NEW S, NEW v, NEW m, Additive(m, v, S), NEW x \in S, v[x] \in Nat,
           NEW w, w[x] \in Nat, \A y \in S \ {x} : w[y] = v[y] /\ v[y] \in Nat
    PROVE  \E k : Additive(k, w, S) /\ k[S] = m[S] - v[x] + w[x]
<1> DEFINE k == [T \in SUBSET S |-> IF x \in T THEN w[x] + m[T \ {x}] ELSE m[T]]
<1>1. k \in [SUBSET S -> Nat] /\ k[{}] = 0
  BY DEF Additive
<1>2. ASSUME NEW T \in SUBSET S, NEW y \in T
      PROVE  k[T] = w[y] + k[T \ {y}]
  <2>1. CASE y = x
    BY <2>1
  <2>2. CASE y # x /\ x \in T
    <3>1. (T \ {x}) \ {y} = (T \ {y}) \ {x}
      OBVIOUS
    <3>2. m[T \ {x}] = v[y] + m[(T \ {y}) \ {x}]
      <4>1. m[T \ {x}] = v[y] + m[(T \ {x}) \ {y}]
        BY <2>2 DEF Additive
      <4> QED
        BY <3>1, <4>1
    <3>3. k[T] = w[x] + m[T \ {x}] /\ k[T \ {y}] = w[x] + m[(T \ {y}) \ {x}]
      BY <2>2
    <3>4. m[(T \ {y}) \ {x}] \in Nat /\ w[y] = v[y] /\ v[y] \in Nat
      BY <2>2 DEF Additive
    <3> HIDE DEF k
    <3> QED
      BY <3>2, <3>3, <3>4
  <2>3. CASE x \notin T
    BY <2>3 DEF Additive
  <2> QED
    BY <2>1, <2>2, <2>3
<1>3. k[S] = m[S] - v[x] + w[x]
  <2>1. m[S] = v[x] + m[S \ {x}] /\ m[S \ {x}] \in Nat
    BY DEF Additive
  <2>2. k[S] = w[x] + m[S \ {x}]
    OBVIOUS
  <2> HIDE DEF k
  <2> QED
    BY <2>1, <2>2
<1>4. Additive(k, w, S)
  <2> HIDE DEF k
  <2> QED
    BY <1>1, <1>2 DEF Additive
<1> HIDE DEF k
<1> QED
  BY <1>3, <1>4

LEMMA SameAdds ==
    ASSUME NEW S, NEW v, NEW m, Additive(m, v, S), NEW w, \A y \in S : w[y] = v[y]
    PROVE  Additive(m, w, S)
BY DEF Additive

LEMMA NatLess ==
    \E R : IsWellFoundedOn(R, Nat) /\ R = {ss \in Nat \X Nat : ss[1] < ss[2]}
BY NatLessThanWellFounded DEF OpToRel

LEMMA LeastNatural ==
    ASSUME NEW S, S \subseteq Nat, S /= {}
    PROVE  \E x \in S : \A y \in S : x <= y
<1>1. PICK R : IsWellFoundedOn(R, Nat) /\ R = {ss \in Nat \X Nat : ss[1] < ss[2]}
  BY NatLess
<1>2. PICK x \in S : \A y \in S : ~(<<y, x>> \in R)
  BY <1>1, WFMin
<1>3. ASSUME NEW y \in S
      PROVE  x <= y
  <2>1. x \in Nat /\ y \in Nat
    OBVIOUS
  <2>2. ASSUME y < x
        PROVE  FALSE
    <3> DEFINE z == <<y, x>>
    <3>1. z \in Nat \X Nat /\ z[1] < z[2]
      BY <2>1, <2>2
    <3>2. z \in R
      BY <1>1, <3>1
    <3>3. QED
      BY <1>2, <3>2
  <2>3. QED
    BY <2>1, <2>2
<1>4. QED
  BY <1>3

\* Total adds up what the certificate does.
LEMMA TotalIsSum ==
    ASSUME NEW S, IsFiniteSet(S), NEW v, NEW m, Additive(m, v, S)
    PROVE  Total(v, S) = m[S]
<1> DEFINE Pick(s) == CHOOSE x \in s : TRUE
           Eqn(h) == h = [s \in SUBSET S |->
                             IF s = {} THEN 0 ELSE v[Pick(s)] + h[s \ {Pick(s)}]]
           iter == CHOOSE h : Eqn(h)
<1>1. Total(v, S) = iter[S]
  BY DEF Total, MapThenSumSet, MapThenFoldSet
<1>2. \A s \in SUBSET S : s # {} => Pick(s) \in s
  OBVIOUS
<1>3. Eqn(m)
  <2> HIDE DEF Pick
  <2> QED
    BY <1>2 DEF Additive
<1>4. Eqn(iter)
  <2> HIDE DEF Eqn
  <2> QED
    BY <1>3
<1> HIDE DEF iter
<1> DEFINE Apart == {s \in SUBSET S : iter[s] # m[s]}
           Sizes == {Cardinality(s) : s \in Apart}
<1>5. \A s \in SUBSET S : IsFiniteSet(s) /\ Cardinality(s) \in Nat
  BY FS_Subset, FS_CardinalityType
<1>6. ASSUME Apart # {} PROVE FALSE
  <2>1. \E n \in Sizes : \A i \in Sizes : n <= i
    <3>1. Sizes \subseteq Nat /\ Sizes # {}
      BY <1>5, <1>6
    <3> HIDE DEF Sizes
    <3> QED
      BY <3>1, LeastNatural
  <2>2. PICK s \in Apart : \A t \in Apart : Cardinality(s) <= Cardinality(t)
    BY <2>1
  <2>3. s \in SUBSET S /\ s # {}
    BY <1>3, <1>4, <2>2
  <2> DEFINE r == s \ {Pick(s)}
  <2>4. Pick(s) \in s /\ r \in SUBSET S
    BY <1>2, <2>3
  <2>5. Cardinality(r) = Cardinality(s) - 1
    BY <1>5, <2>3, <2>4, FS_RemoveElement
  <2>6. r \notin Apart
    <3> HIDE DEF r, Apart
    <3>1. Cardinality(s) \in Nat /\ Cardinality(r) < Cardinality(s)
      BY <1>5, <2>3, <2>4, <2>5
    <3> QED
      BY <1>5, <2>2, <2>4, <3>1
  <2>7. iter[r] = m[r]
    BY <2>4, <2>6
  <2>8. iter[s] = m[s]
    <3>1. m[s] = v[Pick(s)] + m[r] /\ iter[s] = v[Pick(s)] + iter[r]
      BY <1>3, <1>4, <2>3
    <3> HIDE DEF r, Pick
    <3> QED
      BY <2>7, <3>1
  <2> QED
    BY <2>2, <2>8
<1> QED
  BY <1>1, <1>6

-----------------------------------------------------------------------------

\* What is owed and what rests, summed up, with the balances.
OwedOf == [p \in Processes |-> Owed(p)]
BackingOf == [o \in Placements |-> Backing(o)]
Covered(owed, rests) ==
    /\ Additive(owed, OwedOf, Processes)
    /\ Additive(rests, BackingOf, Placements)
    /\ free["usd"] + free["btc"] + owed[Processes] + rests[Placements] <= granted

\* Only a placement has been debited and only a request has claimed; a reset knows the
\* coin it has to clear, and one that has been through the coins has cleared it.
RolesInv ==
    /\ \A p \in Processes : pc[p] \in {"debited", "reserved"} => p \in Placements
    /\ \A p \in Processes : pc[p] = "claimed" => p \in Requests
    /\ \A s \in Resets :
          pc[s] \in {"reading_buys", "reading_sells"} => "btc" \in work[s].left
    /\ \A s \in Resets : (pc[s] = "clearing" /\ "btc" \notin work[s].left) => free["btc"] = 0

\* The sums are within what was granted.
FundsInv ==
    /\ granted \in Nat
    /\ \E owed, rests : Covered(owed, rests)

LEMMA OwedTyped ==
    ASSUME TypeInv, RolesInv, NEW p \in Processes
    PROVE  Owed(p) \in Nat /\ OwedOf[p] = Owed(p)
<1>1. pc[p] \in {"debited", "reserved"} => Stake[p] \in Nat
  BY OrdersTyped DEF RolesInv
<1>2. work[p].due \in Nat
  BY DEF TypeInv, WorkRecord
<1> QED
  BY <1>1, <1>2 DEF Owed, OwedOf

LEMMA BackingTyped ==
    ASSUME TypeInv, RestInv, NEW o \in Placements
    PROVE  Backing(o) = book[o].held /\ Backing(o) \in Nat /\ BackingOf[o] = book[o].held
<1>1. book[o].held \in Nat
  BY DEF TypeInv, TypeOK, Row
<1> QED
  BY <1>1 DEF Backing, BackingOf, RestInv

\* A step that moves what one process is owed and what one row holds.
LEMMA FundsMove ==
    ASSUME TypeInv, RestInv, RolesInv, FundsInv, TypeInv', RestInv',
           NEW p \in Processes, Owed(p)' \in Nat,
           \A q \in Processes \ {p} : Owed(q)' = Owed(q),
           NEW o \in Placements, \A x \in Placements \ {o} : book'[x] = book[x],
           granted' \in Nat,
           free'["usd"] + free'["btc"] + Owed(p)' + book'[o].held - granted'
             <= free["usd"] + free["btc"] + Owed(p) + book[o].held - granted
    PROVE  \E owed, rests : Covered(owed, rests)'
<1>1. PICK owed, rests : Covered(owed, rests)
  BY DEF FundsInv
<1>2. /\ OwedOf[p] \in Nat /\ OwedOf'[p] = Owed(p)' /\ OwedOf[p] = Owed(p)
      /\ \A q \in Processes \ {p} : OwedOf'[q] = OwedOf[q] /\ OwedOf[q] \in Nat
  BY OwedTyped DEF OwedOf
<1>3. PICK k : Additive(k, OwedOf', Processes)
               /\ k[Processes] = owed[Processes] - Owed(p) + Owed(p)'
  BY <1>1, <1>2, MovedAdds DEF Covered
<1>4. /\ BackingOf[o] = book[o].held /\ BackingOf[o] \in Nat
      /\ BackingOf'[o] = book'[o].held /\ BackingOf'[o] \in Nat
      /\ \A x \in Placements \ {o} : BackingOf'[x] = BackingOf[x] /\ BackingOf[x] \in Nat
  <2>1. \A x \in Placements : BackingOf[x] = book[x].held /\ BackingOf[x] \in Nat
    BY BackingTyped
  <2>2. \A x \in Placements : BackingOf'[x] = book'[x].held /\ book'[x].held \in Nat
    <3>1. \A x \in Placements : book'[x].held \in Nat
      BY DEF TypeInv, TypeOK, Row
    <3> QED
      BY <3>1 DEF BackingOf, Backing, RestInv
  <2> QED
    BY <2>1, <2>2
<1>5. PICK j : Additive(j, BackingOf', Placements)
               /\ j[Placements] = rests[Placements] - BackingOf[o] + BackingOf'[o]
  BY <1>1, <1>4, MovedAdds DEF Covered
<1>6. /\ owed[Processes] \in Nat /\ rests[Placements] \in Nat
      /\ free["usd"] \in Nat /\ free["btc"] \in Nat /\ granted \in Nat
      /\ free'["usd"] \in Nat /\ free'["btc"] \in Nat
      /\ book[o].held \in Nat /\ book'[o].held \in Nat /\ Owed(p) \in Nat
  BY <1>1, <1>2, <1>4 DEF Covered, Additive, FundsInv, TypeInv, TypeOK, Coins
<1>7. free["usd"] + free["btc"] + owed[Processes] + rests[Placements] <= granted
  BY <1>1 DEF Covered
<1>8. free'["usd"] + free'["btc"] + k[Processes] + j[Placements] <= granted'
  BY <1>3, <1>4, <1>5, <1>6, <1>7
<1> QED
  BY <1>3, <1>5, <1>8 DEF Covered

LEMMA OwedMoves ==
    ASSUME TypeInv, RestInv, RolesInv, FundsInv, TypeInv', RestInv',
           NEW p \in Processes, Owed(p)' \in Nat,
           \A q \in Processes \ {p} : Owed(q)' = Owed(q),
           book' = book, granted' \in Nat,
           free'["usd"] + free'["btc"] + Owed(p)' - granted'
             <= free["usd"] + free["btc"] + Owed(p) - granted
    PROVE  \E owed, rests : Covered(owed, rests)'
<1>1. PICK owed, rests : Covered(owed, rests)
  BY DEF FundsInv
<1>2. /\ OwedOf[p] \in Nat /\ OwedOf'[p] = Owed(p)' /\ OwedOf[p] = Owed(p)
      /\ \A q \in Processes \ {p} : OwedOf'[q] = OwedOf[q] /\ OwedOf[q] \in Nat
  BY OwedTyped DEF OwedOf
<1>3. PICK k : Additive(k, OwedOf', Processes)
               /\ k[Processes] = owed[Processes] - Owed(p) + Owed(p)'
  BY <1>1, <1>2, MovedAdds DEF Covered
<1>4. BackingOf' = BackingOf
  BY DEF BackingOf, Backing, RestInv
<1>5. Additive(rests, BackingOf', Placements)
  BY <1>1, <1>4 DEF Covered
<1>6. /\ owed[Processes] \in Nat /\ rests[Placements] \in Nat
      /\ free["usd"] \in Nat /\ free["btc"] \in Nat /\ granted \in Nat
      /\ free'["usd"] \in Nat /\ free'["btc"] \in Nat /\ Owed(p) \in Nat
  BY <1>1, <1>2 DEF Covered, Additive, FundsInv, TypeInv, TypeOK, Coins
<1>7. free["usd"] + free["btc"] + owed[Processes] + rests[Placements] <= granted
  BY <1>1 DEF Covered
<1>8. free'["usd"] + free'["btc"] + k[Processes] + rests[Placements] <= granted'
  BY <1>3, <1>6, <1>7
<1> QED
  BY <1>3, <1>5, <1>8 DEF Covered

\* A step that changes neither what is owed nor what rests, and does not add to the
\* balances.
LEMMA FundsKept ==
    ASSUME TypeInv, RestInv, FundsInv, TypeInv', RestInv',
           \A p \in Processes : Owed(p)' = Owed(p), book' = book, granted' = granted,
           free'["usd"] + free'["btc"] <= free["usd"] + free["btc"]
    PROVE  FundsInv'
<1>1. PICK owed, rests : Covered(owed, rests)
  BY DEF FundsInv
<1>2. OwedOf' = OwedOf
  BY DEF OwedOf
<1>3. BackingOf' = BackingOf
  BY DEF BackingOf, Backing, RestInv
<1>4. /\ owed[Processes] \in Nat /\ rests[Placements] \in Nat /\ granted \in Nat
      /\ free["usd"] \in Nat /\ free["btc"] \in Nat
      /\ free'["usd"] \in Nat /\ free'["btc"] \in Nat
  BY <1>1 DEF Covered, Additive, FundsInv, TypeInv, TypeOK, Coins
<1>5. free'["usd"] + free'["btc"] + owed[Processes] + rests[Placements] <= granted
  BY <1>1, <1>4 DEF Covered
<1> QED
  BY <1>1, <1>2, <1>3, <1>4, <1>5 DEF Covered, FundsInv

LEMMA FreeMoves ==
    ASSUME TypeInv, NEW c \in Coins, NEW n \in Int, free'[c] = free[c] + n,
           \A d \in Coins \ {c} : free'[d] = free[d]
    PROVE  free'["usd"] + free'["btc"] = free["usd"] + free["btc"] + n
<1>1. free["usd"] \in Nat /\ free["btc"] \in Nat
  BY DEF TypeInv, TypeOK, Coins
<1>2. CASE c = "usd"
  BY <1>1, <1>2 DEF Coins
<1>3. CASE c = "btc"
  BY <1>1, <1>3 DEF Coins
<1> QED
  BY <1>2, <1>3 DEF Coins

\* What the others are owed does not change when one process goes on.
LEMMA OthersOwed ==
    ASSUME TypeInv, NEW p \in Processes, NEW to, pc' = [pc EXCEPT ![p] = to],
           \A q \in Processes \ {p} : work'[q] = work[q]
    PROVE  /\ pc'[p] = to /\ \A q \in Processes \ {p} : pc'[q] = pc[q]
           /\ \A q \in Processes \ {p} : Owed(q)' = Owed(q)
<1>1. pc'[p] = to /\ \A q \in Processes \ {p} : pc'[q] = pc[q]
  BY DEF TypeInv, TypeOK
<1> QED
  BY <1>1 DEF Owed

\* While a request moves money no reset is past its reading of the flights.
LEMMA RolesRequest ==
    ASSUME TypeInv, AloneInv, RolesInv, NEW r \in Requests, RequestStep(r) \/ ExpireFlight(r)
    PROVE  RolesInv'
<1>0. /\ r \in Processes /\ r \notin Resets /\ r \notin Closers
      /\ Resets \subseteq Processes
  BY KindsDiffer DEF Processes, Requests
<1>1. ASSUME NEW to, pc' = [pc EXCEPT ![r] = to],
             to \in {"debited", "reserved"} => r \in Placements,
             \A q \in Processes \ {r} : work'[q] = work[q],
             free' = free \/ Moving(r)
      PROVE  RolesInv'
  <2>1. pc'[r] = to /\ \A q \in Processes \ {r} : pc'[q] = pc[q]
    BY <1>0, <1>1, OthersOwed
  <2>2. ASSUME NEW s \in Resets, pc'[s] = "clearing", "btc" \notin work'[s].left
        PROVE  free'["btc"] = 0
    <3>1. pc[s] = "clearing" /\ work'[s] = work[s]
      BY <1>0, <1>1, <2>1, <2>2
    <3>2. ~Moving(r)
      BY <3>1 DEF AloneInv, Quiet
    <3> QED
      BY <1>1, <2>2, <3>1, <3>2 DEF RolesInv
  <2>3. ASSUME NEW s \in Resets, pc'[s] \in {"reading_buys", "reading_sells"}
        PROVE  "btc" \in work'[s].left
    BY <1>0, <1>1, <2>1, <2>3 DEF RolesInv
  <2> QED
    BY <1>1, <2>1, <2>2, <2>3 DEF RolesInv
<1>2. CASE Track(r) \/ Finish(r)
  <2>1. CASE Track(r)
    BY <1>1, <2>1 DEF Track, Goes, money
  <2>2. CASE Finish(r)
    BY <1>1, <2>2 DEF Finish, Goes, money
  <2> QED
    BY <1>2, <2>1, <2>2
<1>3. CASE ExpireFlight(r)
  BY <1>3 DEF ExpireFlight, money, RolesInv
<1>4. CASE r \in Placements /\ (Debit(r) \/ Reserve(r) \/ List(r))
  BY <1>1, <1>4 DEF Debit, Reserve, List, Goes, Moving
<1>5. CASE ClaimOrder(r)
  <2>1. \A q \in Processes \ {r} : work'[q] = work[q]
    BY <1>0, <1>5 DEF ClaimOrder, Take, TypeInv
  <2> QED
    BY <1>1, <1>5, <2>1 DEF ClaimOrder, Take, Goes
<1>6. CASE PayBack(r) \/ WriteInOrder(r)
  BY <1>0, <1>1, <1>6 DEF PayBack, WriteInOrder, Onward, Goes, Moving
<1>7. CASE ReadInOrder(r)
  <2>1. \A q \in Processes \ {r} : work'[q] = work[q]
    BY <1>0, <1>7 DEF ReadInOrder, TypeInv
  <2> QED
    BY <1>0, <1>1, <1>7, <2>1 DEF ReadInOrder, Onward, Goes, money
<1>8. CASE TakeCooldown(r) \/ Credit(r) \/ CreditFails(r) \/ GiveBack(r)
  BY <1>1, <1>8 DEF TakeCooldown, Credit, CreditFails, GiveBack, Goes, Moving, money
<1> QED
  BY <1>2, <1>3, <1>4, <1>5, <1>6, <1>7, <1>8 DEF RequestStep

LEMMA RolesReset ==
    ASSUME TypeInv, AloneInv, RolesInv, Errors \cap {"write_refused", "coins_unread"} = {},
           NEW s \in Resets, ResetStep(s) \/ ExpireFreeze(s)
    PROVE  RolesInv'
<1>0. s \in Processes /\ "btc" \in Coins
  BY DEF Processes, Coins
<1>1. ASSUME NEW to, pc' = [pc EXCEPT ![s] = to],
             to \notin {"debited", "reserved", "claimed"},
             \A q \in Processes \ {s} : work'[q] = work[q],
             free' = free \/ Holding(s),
             to \in {"reading_buys", "reading_sells"} => "btc" \in work'[s].left,
             (to = "clearing" /\ "btc" \notin work'[s].left) => free'["btc"] = 0
      PROVE  RolesInv'
  <2>1. pc'[s] = to /\ \A q \in Processes \ {s} : pc'[q] = pc[q]
    BY <1>0, <1>1, OthersOwed
  <2>2. ASSUME NEW t \in Resets, pc'[t] = "clearing", "btc" \notin work'[t].left
        PROVE  free'["btc"] = 0
    <3>1. CASE t = s
      BY <1>1, <2>1, <2>2, <3>1
    <3>2. CASE t # s
      <4>1. pc[t] = "clearing" /\ work'[t] = work[t]
        BY <1>1, <2>1, <2>2, <3>2 DEF Processes
      <4>2. ~Holding(s)
        BY <3>2, <4>1 DEF AloneInv, Holding, Quiet
      <4> QED
        BY <1>1, <2>2, <4>1, <4>2 DEF RolesInv
    <3> QED
      BY <3>1, <3>2
  <2>3. \A p \in Processes : pc'[p] \in {"debited", "reserved"} => p \in Placements
    BY <1>1, <2>1 DEF RolesInv
  <2>4. \A p \in Processes : pc'[p] = "claimed" => p \in Requests
    BY <1>1, <2>1 DEF RolesInv
  <2>5. ASSUME NEW t \in Resets, pc'[t] \in {"reading_buys", "reading_sells"}
        PROVE  "btc" \in work'[t].left
    <3>1. CASE t = s
      BY <1>1, <2>1, <2>5, <3>1
    <3>2. CASE t # s
      BY <1>1, <2>1, <2>5, <3>2 DEF Processes, RolesInv
    <3> QED
      BY <3>1, <3>2
  <2> QED
    BY <2>2, <2>3, <2>4, <2>5 DEF RolesInv
<1>2. CASE TakeFreeze(s) \/ ReadFlights(s)
  BY <1>1, <1>2 DEF TakeFreeze, ReadFlights, Goes, money
<1>3. CASE Leave(s)
  BY <1>1, <1>3 DEF Leave, money
<1>4. CASE ExpireFreeze(s)
  BY <1>4 DEF ExpireFreeze, money, RolesInv
<1>5. CASE CollectCoins(s)
  <2>1. work'[s].left = Coins /\ \A q \in Processes \ {s} : work'[q] = work[q]
    BY <1>0, <1>5 DEF CollectCoins, TypeInv, WorkRecord
  <2> QED
    BY <1>0, <1>1, <1>5, <2>1 DEF CollectCoins, Goes, money
<1>9. CASE ReadBuys(s) \/ ReadSells(s)
  <2>1. "btc" \in work[s].left /\ work' = work
    BY <1>9 DEF ReadBuys, ReadSells, Goes, RolesInv
  <2> QED
    BY <1>1, <1>9, <2>1 DEF ReadBuys, ReadSells, Goes, money
<1>6. ASSUME NEW c \in Coins, ClearInOrder(s, c) PROVE RolesInv'
  <2>1. CASE c = FaucetCoin
    <3>1. work'[s].left = work[s].left \ {"usd"} /\ \A q \in Processes \ {s} : work'[q] = work[q]
      BY <1>0, <1>6, <2>1 DEF ClearInOrder, TypeInv, WorkRecord, FaucetCoin
    <3>2. pc' = pc /\ free' = free /\ pc[s] = "clearing"
      BY <1>6, <2>1 DEF ClearInOrder
    <3>3. \A t \in Resets : "btc" \notin work'[t].left => "btc" \notin work[t].left
      BY <3>1 DEF Processes
    <3> QED
      BY <3>2, <3>3 DEF RolesInv
  <2>2. CASE c # FaucetCoin
    BY <1>1, <1>6, <2>2 DEF ClearInOrder, Goes
  <2> QED
    BY <2>1, <2>2
<1>7. ASSUME NEW c \in Coins, ZeroFree(s, c) PROVE RolesInv'
  <2>1. c = "btc"
    BY <1>7 DEF ZeroFree, Coins, FaucetCoin
  <2>2. free'["btc"] = 0
    BY <1>0, <1>7, <2>1 DEF ZeroFree, TypeInv, TypeOK
  <2>3. \A q \in Processes \ {s} : work'[q] = work[q]
    BY <1>0, <1>7 DEF ZeroFree, TypeInv
  <2> QED
    BY <1>1, <1>7, <2>2, <2>3 DEF ZeroFree, Goes, Holding, Quiet
<1>8. CASE Restore(s)
  BY <1>1, <1>8 DEF Restore, Goes, Holding, Quiet
<1> QED
  BY <1>2, <1>3, <1>4, <1>5, <1>6, <1>7, <1>8, <1>9 DEF ResetStep

LEMMA FundsRequest ==
    ASSUME TypeInv, RestInv, RolesInv, FundsInv, TypeInv', RestInv', RolesInv',
           NEW r \in Requests, RequestStep(r) \/ ExpireFlight(r)
    PROVE  FundsInv'
<1>0. /\ r \in Processes /\ r \notin Closers /\ granted \in Nat
      /\ work[r] \in WorkRecord /\ work[r].due \in Nat
      /\ (r \in Cancels => r \notin Placements) /\ (r \in Claims => r \notin Placements)
  BY KindsDiffer DEF Processes, Requests, FundsInv, TypeInv, WorkRecord
<1>1. ASSUME NEW to, pc' = [pc EXCEPT ![r] = to], to \notin {"debited", "reserved", "claimed"},
             pc[r] \notin {"debited", "reserved", "claimed"},
             \A q \in Processes \ {r} : work'[q] = work[q],
             free' = free, book' = book, granted' = granted
      PROVE  FundsInv'
  <2>1. \A q \in Processes : Owed(q)' = Owed(q)
    BY <1>0, <1>1, OthersOwed DEF Owed
  <2>2. free'["usd"] + free'["btc"] <= free["usd"] + free["btc"]
    BY <1>1 DEF TypeInv, TypeOK, Coins
  <2> QED
    BY <1>1, <2>1, <2>2, FundsKept
<1>2. CASE Track(r)
  BY <1>1, <1>2 DEF Track, Goes, money, ghosts
<1>3. CASE Finish(r)
  BY <1>1, <1>3 DEF Finish, Goes, money, ghosts
<1>4. CASE ExpireFlight(r)
  <2>1. \A q \in Processes : Owed(q)' = Owed(q)
    BY <1>4 DEF ExpireFlight, Owed
  <2>2. free' = free /\ book' = book /\ granted' = granted
    BY <1>4 DEF ExpireFlight, money, ghosts
  <2>3. free'["usd"] + free'["btc"] <= free["usd"] + free["btc"]
    BY <2>2 DEF TypeInv, TypeOK, Coins
  <2> QED
    BY <2>1, <2>2, <2>3, FundsKept
<1>5. CASE r \in Placements /\ Debit(r)
  <2> DEFINE c == CostCoin(r)
  <2>0. c \in Coins /\ free[c] \in Nat /\ Stake[r] \in Nat
    BY <1>5, CoinsOf, OrdersTyped DEF TypeInv, TypeOK
  <2>1. CASE Goes(r, "begun", "responding") /\ free' = free
    BY <1>1, <1>5, <2>1 DEF Debit, Goes, money, ghosts
  <2>2. CASE Goes(r, "begun", "debited") /\ free' = [free EXCEPT ![c] = @ - Stake[r]]
    <3>1. \A q \in Processes \ {r} : work'[q] = work[q]
      BY <1>5 DEF Debit
    <3>2. /\ pc'[r] = "debited" /\ pc[r] = "begun"
          /\ \A q \in Processes \ {r} : Owed(q)' = Owed(q)
      BY <1>0, <2>2, <3>1, OthersOwed DEF Goes
    <3>3. Owed(r)' = Stake[r] /\ Owed(r) = 0
      BY <3>2 DEF Owed
    <3>4. free'[c] = free[c] + (-Stake[r]) /\ \A d \in Coins \ {c} : free'[d] = free[d]
      BY <2>0, <2>2 DEF TypeInv, TypeOK
    <3> HIDE DEF c
    <3>5. free'["usd"] + free'["btc"] = free["usd"] + free["btc"] + (-Stake[r])
      <4>1. -Stake[r] \in Int
        BY <2>0
      <4> QED
        BY <2>0, <3>4, <4>1, FreeMoves
    <3>6. book' = book /\ granted' = granted
      BY <1>5 DEF Debit, ghosts
    <3>7. \E owed, rests : Covered(owed, rests)'
      <4>1. free["usd"] \in Nat /\ free["btc"] \in Nat
        BY DEF TypeInv, TypeOK, Coins
      <4>2. free'["usd"] + free'["btc"] + Owed(r)' - granted'
               <= free["usd"] + free["btc"] + Owed(r) - granted
        BY <1>0, <2>0, <3>3, <3>5, <3>6, <4>1
      <4>3. Owed(r)' \in Nat /\ granted' \in Nat
        BY <1>0, <2>0, <3>3, <3>6
      <4> QED
        BY <1>0, <3>2, <3>6, <4>2, <4>3, OwedMoves
    <3> QED
      BY <1>0, <3>6, <3>7 DEF FundsInv
  <2> QED
    BY <1>5, <2>1, <2>2 DEF Debit
<1>6. CASE r \in Placements /\ Reserve(r)
  <2>1. \A q \in Processes \ {r} : Owed(q)' = Owed(q)
    BY <1>0, <1>6, OthersOwed DEF Reserve, Goes
  <2>2. Owed(r)' = Owed(r)
    BY <1>0, <1>6, OthersOwed DEF Reserve, Goes, Owed
  <2>3. free' = free /\ book' = book /\ granted' = granted
    BY <1>6 DEF Reserve, ghosts
  <2>4. free'["usd"] + free'["btc"] <= free["usd"] + free["btc"]
    BY <2>3 DEF TypeInv, TypeOK, Coins
  <2> QED
    BY <2>1, <2>2, <2>3, <2>4, FundsKept
<1>7. CASE r \in Placements /\ List(r)
  <2>0. Stake[r] \in Nat /\ book[r].held \in Nat /\ free["usd"] \in Nat /\ free["btc"] \in Nat
    BY <1>7, OrdersTyped DEF TypeInv, TypeOK, Row, Coins
  <2>1. /\ pc'[r] = "responding" /\ pc[r] = "reserved"
        /\ \A q \in Processes \ {r} : Owed(q)' = Owed(q)
    BY <1>0, <1>7, OthersOwed DEF List, Goes
  <2>2. Owed(r)' = 0 /\ Owed(r) = Stake[r]
    BY <2>1 DEF Owed
  <2>3. /\ book'[r].held = Stake[r] /\ \A x \in Placements \ {r} : book'[x] = book[x]
        /\ free' = free /\ granted' = granted
    BY <1>7 DEF List, TypeInv, TypeOK, ghosts
  <2>4. free'["usd"] + free'["btc"] + Owed(r)' + book'[r].held - granted'
           <= free["usd"] + free["btc"] + Owed(r) + book[r].held - granted
    BY <1>0, <2>0, <2>2, <2>3
  <2>5. Owed(r)' \in Nat /\ granted' \in Nat
    BY <1>0, <2>2, <2>3
  <2>6. \E owed, rests : Covered(owed, rests)'
    BY <1>0, <1>7, <2>1, <2>3, <2>4, <2>5, FundsMove
  <2> QED
    BY <2>5, <2>6 DEF FundsInv
<1>8. CASE r \in Cancels /\ ClaimOrder(r)
  <2> DEFINE o == Target[r]
  <2>0. /\ o \in Placements /\ book[o].held \in Nat
        /\ free["usd"] \in Nat /\ free["btc"] \in Nat
        /\ free' = free /\ granted' = granted
    BY <1>8, OrdersTyped DEF ClaimOrder, TypeInv, TypeOK, Row, Coins, ghosts
  <2>1. CASE Goes(r, "begun", "responding") /\ UNCHANGED <<book, work>>
    BY <1>1, <2>0, <2>1 DEF Goes
  <2>2. CASE pc[r] = "begun" /\ Take(r, o, "claimed")
    <3>1. work'[r].due = book[o].held /\ \A q \in Processes \ {r} : work'[q] = work[q]
      BY <1>0, <2>2 DEF Take, TypeInv, WorkRecord
    <3>2. pc'[r] = "claimed" /\ \A q \in Processes \ {r} : Owed(q)' = Owed(q)
      BY <1>0, <2>2, <3>1, OthersOwed DEF Take
    <3>3. Owed(r)' = book[o].held /\ Owed(r) = 0
      BY <2>2, <3>1, <3>2 DEF Owed
    <3>4. book'[o].held = 0 /\ \A x \in Placements \ {o} : book'[x] = book[x]
      BY <2>0, <2>2 DEF Take, NoRow, TypeInv, TypeOK
    <3>5. free'["usd"] + free'["btc"] + Owed(r)' + book'[o].held - granted'
             <= free["usd"] + free["btc"] + Owed(r) + book[o].held - granted
      BY <1>0, <2>0, <3>3, <3>4
    <3>6. Owed(r)' \in Nat /\ granted' \in Nat
      BY <1>0, <2>0, <3>3
    <3> HIDE DEF o
    <3>7. \E owed, rests : Covered(owed, rests)'
      BY <1>0, <2>0, <3>2, <3>4, <3>5, <3>6, FundsMove
    <3> QED
      BY <3>6, <3>7 DEF FundsInv
  <2> QED
    BY <1>8, <2>1, <2>2 DEF ClaimOrder
<1>9. CASE r \in Cancels /\ PayBack(r)
  <2> DEFINE c == CostCoin(work[r].o)
             due == work[r].due
  <2>0. /\ c \in Coins /\ due \in Nat /\ free["usd"] \in Nat /\ free["btc"] \in Nat
        /\ free' = [free EXCEPT ![c] = free[c] + due]
        /\ book' = book /\ granted' = granted /\ work' = work
    BY <1>0, <1>9, CoinsOf DEF PayBack, TypeInv, TypeOK, Coins, ghosts
  <2>1. /\ pc'[r] = "paid_back" /\ pc[r] = "claimed"
        /\ \A q \in Processes \ {r} : Owed(q)' = Owed(q)
    BY <1>0, <1>9, <2>0, OthersOwed DEF PayBack, Goes
  <2>2. Owed(r)' = 0 /\ Owed(r) = due
    BY <2>1 DEF Owed
  <2> HIDE DEF c, due
  <2>3. free'["usd"] + free'["btc"] = free["usd"] + free["btc"] + due
    <3>1. free'[c] = free[c] + due /\ \A d \in Coins \ {c} : free'[d] = free[d]
      BY <2>0 DEF TypeInv, TypeOK
    <3> QED
      BY <2>0, <3>1, FreeMoves
  <2>4. free'["usd"] + free'["btc"] + Owed(r)' - granted'
           <= free["usd"] + free["btc"] + Owed(r) - granted
    BY <1>0, <2>0, <2>2, <2>3
  <2>5. Owed(r)' \in Nat /\ granted' \in Nat
    BY <1>0, <2>0, <2>2
  <2>6. \E owed, rests : Covered(owed, rests)'
    BY <1>0, <2>0, <2>1, <2>4, <2>5, OwedMoves
  <2> QED
    BY <2>5, <2>6 DEF FundsInv
<1>10. CASE r \in Cancels /\ ReadInOrder(r)
  <2>1. \A q \in Processes \ {r} : work'[q] = work[q]
    BY <1>0, <1>10 DEF ReadInOrder, TypeInv
  <2> QED
    BY <1>0, <1>1, <1>10, <2>1 DEF ReadInOrder, Onward, Goes, money, ghosts
<1>11. CASE r \in Cancels /\ WriteInOrder(r)
  BY <1>0, <1>1, <1>11 DEF WriteInOrder, Onward, Goes, ghosts
<1>12. CASE r \in Claims /\ Credit(r)
  <2>0. /\ FaucetCoin \in Coins /\ Seed \in Nat /\ free["usd"] \in Nat /\ free["btc"] \in Nat
        /\ free' = [free EXCEPT ![FaucetCoin] = free[FaucetCoin] + Seed]
        /\ book' = book /\ granted' = granted + Seed /\ work' = work
    BY <1>12, AmountsTyped DEF Credit, TypeInv, TypeOK, Coins, FaucetCoin
  <2>1. /\ pc'[r] \in {"responding", "failing"} /\ pc[r] = "cooling"
        /\ \A q \in Processes \ {r} : Owed(q)' = Owed(q)
    <3>1. PICK to \in {"responding", "failing"} : Goes(r, "cooling", to)
      BY <1>12 DEF Credit
    <3> QED
      BY <1>0, <2>0, <3>1, OthersOwed DEF Goes
  <2>2. Owed(r)' = 0 /\ Owed(r) = 0
    BY <2>1 DEF Owed
  <2>3. free'["usd"] + free'["btc"] = free["usd"] + free["btc"] + Seed
    <3>1. /\ free'[FaucetCoin] = free[FaucetCoin] + Seed
          /\ \A d \in Coins \ {FaucetCoin} : free'[d] = free[d]
      BY <2>0 DEF TypeInv, TypeOK
    <3> QED
      BY <2>0, <3>1, FreeMoves
  <2>4. free'["usd"] + free'["btc"] + Owed(r)' - granted'
           <= free["usd"] + free["btc"] + Owed(r) - granted
    BY <1>0, <2>0, <2>2, <2>3
  <2>5. Owed(r)' \in Nat /\ granted' \in Nat
    BY <1>0, <2>0, <2>2
  <2>6. \E owed, rests : Covered(owed, rests)'
    BY <1>0, <2>0, <2>1, <2>4, <2>5, OwedMoves
  <2> QED
    BY <2>5, <2>6 DEF FundsInv
<1>13. CASE r \in Claims /\ (TakeCooldown(r) \/ CreditFails(r) \/ GiveBack(r))
  <2>1. CASE TakeCooldown(r)
    BY <1>1, <2>1 DEF TakeCooldown, Goes, money, ghosts
  <2>2. CASE CreditFails(r)
    BY <1>1, <2>2 DEF CreditFails, Goes, money, ghosts
  <2>3. CASE GiveBack(r)
    BY <1>1, <2>3 DEF GiveBack, Goes, money, ghosts
  <2> QED
    BY <1>13, <2>1, <2>2, <2>3
<1> QED
  BY <1>2, <1>3, <1>4, <1>5, <1>6, <1>7, <1>8, <1>9, <1>10, <1>11, <1>12, <1>13
  DEF RequestStep

LEMMA FundsReset ==
    ASSUME TypeInv, AloneInv, RestInv, RolesInv, FundsInv, TypeInv', RestInv', RolesInv',
           Errors \cap {"write_refused", "coins_unread"} = {}, Closers = {},
           NEW s \in Resets, ResetStep(s) \/ ExpireFreeze(s)
    PROVE  FundsInv'
<1>0. /\ s \in Processes /\ s \notin Requests /\ granted \in Nat
      /\ free["usd"] \in Nat /\ free["btc"] \in Nat
  BY KindsDiffer DEF Processes, Requests, FundsInv, TypeInv, TypeOK, Coins
<1>1. pc[s] \notin {"debited", "reserved", "claimed"}
  BY <1>0 DEF RolesInv, Requests
<1>2. ASSUME NEW to, pc' = [pc EXCEPT ![s] = to], to \notin {"debited", "reserved", "claimed"},
             \A q \in Processes \ {s} : work'[q] = work[q],
             free' = free \/ (free'["usd"] = free["usd"] /\ free'["btc"] = 0),
             book' = book, granted' = granted
      PROVE  FundsInv'
  <2>1. \A q \in Processes : Owed(q)' = Owed(q)
    BY <1>0, <1>1, <1>2, OthersOwed DEF Owed
  <2>2. free'["usd"] + free'["btc"] <= free["usd"] + free["btc"]
    BY <1>0, <1>2
  <2> QED
    BY <1>2, <2>1, <2>2, FundsKept
<1>3. CASE TakeFreeze(s) \/ ReadFlights(s) \/ ReadBuys(s) \/ ReadSells(s)
  <2>1. CASE TakeFreeze(s)
    BY <1>2, <2>1 DEF TakeFreeze, Goes, money, ghosts
  <2>2. CASE ReadFlights(s)
    BY <1>2, <2>2 DEF ReadFlights, Goes, money, ghosts
  <2>3. CASE ReadBuys(s)
    BY <1>2, <2>3 DEF ReadBuys, Goes, money, ghosts
  <2>4. CASE ReadSells(s)
    BY <1>2, <2>4 DEF ReadSells, Goes, money, ghosts
  <2> QED
    BY <1>3, <2>1, <2>2, <2>3, <2>4
<1>4. CASE Leave(s)
  BY <1>2, <1>4 DEF Leave, money, ghosts
<1>5. CASE CollectCoins(s)
  <2>1. \A q \in Processes \ {s} : work'[q] = work[q]
    BY <1>0, <1>5 DEF CollectCoins, TypeInv
  <2> QED
    BY <1>2, <1>5, <2>1 DEF CollectCoins, Goes, money, ghosts
<1>6. ASSUME pc' = pc, \A q \in Processes \ {s} : work'[q] = work[q],
             free' = free, book' = book, granted' = granted
      PROVE  FundsInv'
  <2>1. \A q \in Processes : Owed(q)' = Owed(q)
    BY <1>0, <1>1, <1>6 DEF Owed
  <2> QED
    BY <1>0, <1>6, <2>1, FundsKept
<1>7. CASE ExpireFreeze(s)
  BY <1>6, <1>7 DEF ExpireFreeze, money, ghosts
<1>8. ASSUME NEW c \in Coins, ClearInOrder(s, c) PROVE FundsInv'
  <2>1. free' = free /\ book' = book /\ granted' = granted
    BY <1>8 DEF ClearInOrder, ghosts
  <2>2. \A q \in Processes \ {s} : work'[q] = work[q]
    BY <1>0, <1>8 DEF ClearInOrder, TypeInv
  <2>3. CASE c = FaucetCoin
    BY <1>6, <1>8, <2>1, <2>2, <2>3 DEF ClearInOrder
  <2>4. CASE c # FaucetCoin
    BY <1>2, <1>8, <2>1, <2>2, <2>4 DEF ClearInOrder, Goes
  <2> QED
    BY <2>3, <2>4
<1>9. ASSUME NEW c \in Coins, ZeroFree(s, c) PROVE FundsInv'
  <2>1. c = "btc"
    BY <1>9 DEF ZeroFree, Coins, FaucetCoin
  <2>2. free'["btc"] = 0 /\ free'["usd"] = free["usd"]
    BY <1>9, <2>1 DEF ZeroFree, TypeInv, TypeOK, Coins
  <2>3. \A q \in Processes \ {s} : work'[q] = work[q]
    BY <1>0, <1>9 DEF ZeroFree, TypeInv
  <2> QED
    BY <1>2, <1>9, <2>2, <2>3 DEF ZeroFree, Goes, ghosts
<1>10. CASE Restore(s)
  <2>1. /\ pc[s] = "clearing" /\ "btc" \notin work[s].left /\ pc' = [pc EXCEPT ![s] = "restored"]
        /\ free' = [free EXCEPT !["usd"] = Seed] /\ granted' = Seed /\ book' = book /\ work' = work
    BY <1>10 DEF Restore, Goes, FaucetCoin
  <2>2. free'["usd"] = Seed /\ free'["btc"] = 0 /\ Seed \in Nat
    BY <2>1, AmountsTyped DEF RolesInv, TypeInv, TypeOK, Coins
  <2>3. ASSUME NEW p \in Processes PROVE Owed(p)' = 0
    <3>1. pc'[p] \notin {"debited", "reserved", "claimed"}
      <4>1. CASE p = s
        BY <2>1, <4>1 DEF TypeInv, TypeOK
      <4>2. CASE p # s /\ p \in Requests
        BY <1>0, <2>1, <4>2 DEF AloneInv, Quiet, Moving
      <4>3. CASE p # s /\ p \notin Requests
        BY <1>0, <2>1, <4>3 DEF RolesInv, Requests, AloneInv
      <4> QED
        BY <4>1, <4>2, <4>3
    <3> QED
      BY <3>1 DEF Owed
  <2>4. \A o \in Placements : book'[o] = NoRow
    BY <2>1, OrdersTyped DEF RestInv, NoRows
  <2> DEFINE owed == [T \in SUBSET Processes |-> 0]
             rests == [T \in SUBSET Placements |-> 0]
  <2>5. Additive(owed, OwedOf', Processes)
    <3>1. \A p \in Processes : OwedOf'[p] = 0
      BY <2>3 DEF OwedOf
    <3> QED
      BY <3>1, ZeroAdds
  <2>6. Additive(rests, BackingOf', Placements)
    <3>1. \A o \in Placements : BackingOf'[o] = 0
      BY <2>4 DEF BackingOf, Backing, RestInv, NoRow
    <3> QED
      BY <3>1, ZeroAdds
  <2>7. owed[Processes] = 0 /\ rests[Placements] = 0
    OBVIOUS
  <2> HIDE DEF owed, rests
  <2>8. Covered(owed, rests)'
    BY <2>1, <2>2, <2>5, <2>6, <2>7 DEF Covered
  <2> QED
    BY <2>1, <2>2, <2>8 DEF FundsInv
<1> QED
  BY <1>3, <1>4, <1>5, <1>7, <1>8, <1>9, <1>10 DEF ResetStep

\* Everything under way is forgotten: what was owed is lost with it.
LEMMA FundsCrash ==
    ASSUME TypeInv, RestInv, FundsInv, RestInv', Crash
    PROVE  FundsInv'
<1>1. \A p \in Processes : pc'[p] \in {"new", "done", "dead"}
  BY DEF Crash
<1>2. free' = free /\ book' = book /\ granted' = granted
  BY DEF Crash, money, ghosts
<1>4. PICK owed, rests : Covered(owed, rests)
  BY DEF FundsInv
<1>5. BackingOf' = BackingOf
  BY <1>2 DEF BackingOf, Backing, RestInv
<1> DEFINE none == [T \in SUBSET Processes |-> 0]
<1>6. Additive(none, OwedOf', Processes)
  <2>1. \A p \in Processes : OwedOf'[p] = 0
    BY <1>1 DEF OwedOf, Owed
  <2> QED
    BY <2>1, ZeroAdds
<1>7. none[Processes] = 0
  OBVIOUS
<1>8. /\ owed[Processes] \in Nat /\ rests[Placements] \in Nat /\ granted \in Nat
      /\ free["usd"] \in Nat /\ free["btc"] \in Nat
      /\ free["usd"] + free["btc"] + owed[Processes] + rests[Placements] <= granted
  BY <1>4 DEF Covered, Additive, FundsInv, TypeInv, TypeOK, Coins
<1> HIDE DEF none
<1>9. free'["usd"] + free'["btc"] + none[Processes] + rests[Placements] <= granted'
  BY <1>2, <1>7, <1>8
<1>10. Covered(none, rests)'
  BY <1>4, <1>5, <1>6, <1>9 DEF Covered
<1> QED
  BY <1>2, <1>8, <1>10 DEF FundsInv

LEMMA RolesNext ==
    ASSUME TypeInv, AloneInv, RolesInv, [Next]_vars, ~Tick, Closers = {},
           Errors \cap {"write_refused", "coins_unread"} = {}
    PROVE  RolesInv'
<1>1. CASE Crash
  <2>1. \A p \in Processes : pc'[p] \in {"new", "done", "dead"}
    BY <1>1 DEF Crash
  <2> QED
    BY <2>1, SMTT(30) DEF RolesInv, Processes
<1>2. CASE UNCHANGED vars
  BY <1>2 DEF RolesInv, vars
<1> QED
  BY <1>1, <1>2, RolesRequest, RolesReset DEF Next, Tick

LEMMA FundsNext ==
    ASSUME TypeInv, AloneInv, RestInv, RolesInv, FundsInv, [Next]_vars,
           Matching = FALSE, Closers = {}, Errors \cap {"write_refused", "coins_unread"} = {}
    PROVE  RolesInv' /\ FundsInv'
<1>0. ~Tick
  BY NeverTicks
<1>1. TypeInv' /\ RestInv' /\ RolesInv'
  BY <1>0, TypesNext, RestNext, RolesNext
<1>2. CASE \E r \in Requests : RequestStep(r) \/ ExpireFlight(r)
  BY <1>1, <1>2, FundsRequest
<1>3. CASE \E s \in Resets : ResetStep(s) \/ ExpireFreeze(s)
  BY <1>1, <1>3, FundsReset
<1>4. CASE Crash
  BY <1>1, <1>4, FundsCrash
<1>5. CASE UNCHANGED vars
  <2>1. \A p \in Processes : Owed(p)' = Owed(p)
    BY <1>5 DEF Owed, vars
  <2>2. free' = free /\ book' = book /\ granted' = granted
    BY <1>5 DEF vars
  <2>3. free'["usd"] + free'["btc"] <= free["usd"] + free["btc"]
    BY <2>2 DEF TypeInv, TypeOK, Coins
  <2> QED
    BY <1>1, <2>1, <2>2, <2>3, FundsKept
<1> QED
  BY <1>0, <1>1, <1>2, <1>3, <1>4, <1>5 DEF Next, Tick

LEMMA FundsInitially == Init => RolesInv /\ FundsInv
<1> SUFFICES ASSUME Init PROVE RolesInv /\ FundsInv
  OBVIOUS
<1>1. \A p \in Processes : pc[p] = "new"
  BY DEF Init
<1>2. RolesInv
  BY <1>1 DEF RolesInv, Processes
<1> DEFINE owed == [T \in SUBSET Processes |-> 0]
           rests == [T \in SUBSET Placements |-> 0]
<1>3. Additive(owed, OwedOf, Processes)
  <2>1. \A p \in Processes : OwedOf[p] = 0
    BY <1>1 DEF OwedOf, Owed
  <2> QED
    BY <2>1, ZeroAdds
<1>4. Additive(rests, BackingOf, Placements)
  <2>1. \A o \in Placements : BackingOf[o] = 0
    BY DEF Init, BackingOf, Backing, NoRow, NoTick
  <2> QED
    BY <2>1, ZeroAdds
<1>5. owed[Processes] = 0 /\ rests[Placements] = 0
  OBVIOUS
<1>6. free["usd"] = Seed /\ free["btc"] = Coin0 /\ granted = Seed + Coin0
  BY DEF Init, Coins, FaucetCoin
<1> HIDE DEF owed, rests
<1>7. Covered(owed, rests) /\ granted \in Nat
  BY <1>3, <1>4, <1>5, <1>6, AmountsTyped DEF Covered
<1> QED
  BY <1>2, <1>7 DEF FundsInv

\* The balances, added up coin by coin.
LEMMA TotalFree ==
    ASSUME TypeInv
    PROVE  Total(free, Coins) = free["usd"] + free["btc"]
<1>1. free["usd"] \in Nat /\ free["btc"] \in Nat
  BY DEF TypeInv, TypeOK, Coins
<1> DEFINE at(T, c) == IF c \in T THEN free[c] ELSE 0
           m == [T \in SUBSET Coins |-> at(T, "usd") + at(T, "btc")]
<1>2. m \in [SUBSET Coins -> Nat] /\ m[{}] = 0
  BY <1>1
<1>3. ASSUME NEW T \in SUBSET Coins, NEW c \in T
      PROVE  m[T] = free[c] + m[T \ {c}]
  <2>1. CASE c = "usd"
    BY <1>1, <2>1
  <2>2. CASE c = "btc"
    BY <1>1, <2>2
  <2> QED
    BY <2>1, <2>2 DEF Coins
<1>4. m[Coins] = free["usd"] + free["btc"]
  BY <1>1 DEF Coins
<1> HIDE DEF m
<1>5. Additive(m, free, Coins)
  BY <1>2, <1>3 DEF Additive
<1>6. IsFiniteSet(Coins)
  <2>1. Coins = {"usd"} \cup {"btc"} /\ IsFiniteSet({"usd"})
    BY FS_Singleton DEF Coins
  <2> QED
    BY <2>1, FS_AddElement
<1> QED
  BY <1>4, <1>5, <1>6, TotalIsSum

LEMMA FundsSuffice ==
    ASSUME TypeInv, FundsInv, IsFiniteSet(Processes)
    PROVE  NoMint
<1>1. PICK owed, rests : Covered(owed, rests)
  BY DEF FundsInv
<1>2. IsFiniteSet(Placements)
  <2>1. Placements \subseteq Processes
    BY DEF Processes, Requests
  <2> QED
    BY <2>1, FS_Subset
<1>3. Total(OwedOf, Processes) = owed[Processes]
  BY <1>1, TotalIsSum DEF Covered
<1>4. Total(BackingOf, Placements) = rests[Placements]
  BY <1>1, <1>2, TotalIsSum DEF Covered
<1> QED
  BY <1>1, <1>3, <1>4, TotalFree DEF Covered, NoMint, Worth, OwedOf, BackingOf

\* No order of placing, cancelling, claiming, resetting and dying leaves the account with
\* more than it was given, however many of them there are, as long as the matcher is not
\* running, no sweep closes the account, mongo tells a reset the coins of the account and
\* redis takes its writes.
THEOREM NothingMinted ==
    ASSUME Matching = FALSE, Closers = {}, Errors \cap {"write_refused", "coins_unread"} = {},
           IsFiniteSet(Processes)
    PROVE  Spec => []NoMint
<1> DEFINE Inv == TypeInv /\ AloneInv /\ RestInv /\ RolesInv /\ FundsInv
<1>1. Init => Inv
  <2>1. Init => AloneInv /\ RestInv
    BY DEF Init, AloneInv, Moving, Holding, Quiet, Processes, RestInv, NoTick
  <2> QED
    BY <2>1, TypesInitially, FundsInitially
<1>2. Inv /\ [Next]_vars => Inv'
  BY TypesNext, AloneNext, RestNext, FundsNext
<1>3. Inv => NoMint
  BY FundsSuffice
<1> QED
  BY <1>1, <1>2, <1>3, PTL DEF Spec

\* The one step that reports success.
LEMMA OnlyRestoreReports ==
    ASSUME TypeInv, Closers = {}, ~Tick, [Next]_vars,
           NEW s \in Resets, pc[s] = "clearing", pc'[s] = "restored"
    PROVE  Restore(s)
<1>0. s \in Processes /\ DOMAIN pc = Processes /\ pc'[s] # pc[s]
  BY DEF Processes, TypeInv, TypeOK
<1>1. ASSUME NEW r \in Requests, RequestStep(r) \/ ExpireFlight(r) PROVE FALSE
  <2>1. r # s
    BY KindsDiffer
  <2>2. pc' = pc \/ \E to : pc' = [pc EXCEPT ![r] = to]
    <3>1. CASE Track(r) \/ Finish(r) \/ ExpireFlight(r)
      BY <3>1 DEF Track, Finish, ExpireFlight, Goes
    <3>2. CASE r \in Placements /\ (Debit(r) \/ Reserve(r) \/ List(r))
      BY <3>2 DEF Debit, Reserve, List, Goes
    <3>3. CASE r \in Cancels /\ (ClaimOrder(r) \/ PayBack(r) \/ ReadInOrder(r) \/ WriteInOrder(r))
      BY <3>3 DEF ClaimOrder, Take, PayBack, ReadInOrder, WriteInOrder, Goes
    <3>4. CASE r \in Claims /\ (TakeCooldown(r) \/ Credit(r) \/ CreditFails(r) \/ GiveBack(r))
      BY <3>4 DEF TakeCooldown, Credit, CreditFails, GiveBack, Goes
    <3> QED
      BY <1>1, <3>1, <3>2, <3>3, <3>4 DEF RequestStep
  <2> QED
    BY <1>0, <2>1, <2>2
<1>2. ASSUME NEW t \in Resets, ResetStep(t) \/ ExpireFreeze(t), t # s PROVE FALSE
  <2>1. pc' = pc \/ \E to : pc' = [pc EXCEPT ![t] = to]
    BY <1>2 DEF ResetStep, TakeFreeze, ReadFlights, CollectCoins, ReadBuys, ReadSells, ClearInOrder, ZeroFree,
                Restore, Leave, ExpireFreeze, Goes
  <2> QED
    BY <1>0, <1>2, <2>1
<1>3. ASSUME ResetStep(s) \/ ExpireFreeze(s) PROVE Restore(s)
  <2>1. /\ ~TakeFreeze(s) /\ ~ReadFlights(s) /\ ~CollectCoins(s)
        /\ ~ReadBuys(s) /\ ~ReadSells(s) /\ ~Leave(s)
    BY <1>0 DEF TakeFreeze, ReadFlights, CollectCoins, ReadBuys, ReadSells, Leave, Goes
  <2>2. ~ExpireFreeze(s) /\ \A c \in Coins : ~ClearInOrder(s, c) /\ ~ZeroFree(s, c)
    BY <1>0 DEF ExpireFreeze, ClearInOrder, ZeroFree, Goes
  <2> QED
    BY <1>3, <2>1, <2>2 DEF ResetStep
<1>4. ~Crash /\ ~UNCHANGED vars
  BY <1>0 DEF Crash, vars
<1> QED
  BY <1>1, <1>2, <1>3, <1>4 DEF Next, Tick

\* A reset that reports success has left the seed in the faucet's coin and nothing in the
\* other, whatever ran before it and beside it, provided that mongo answered which coins
\* there are (its error is swallowed and clears none) and that redis took every write: no
\* reset then reports over a coin it has not cleared, or that a request has paid into since.
THEOREM ResetsTellTheTruth ==
    ASSUME Matching = FALSE, Closers = {}, Errors \cap {"write_refused", "coins_unread"} = {}
    PROVE  Spec => ResetTellsTruth
<1> DEFINE Inv == TypeInv /\ AloneInv /\ RestInv /\ RolesInv
           Truth == \A s \in Resets : pc[s] = "clearing" /\ pc'[s] = "restored" =>
                       free' = [c \in Coins |-> IF c = FaucetCoin THEN Seed ELSE 0]
<1>1. Init => Inv
  <2>1. Init => AloneInv /\ RestInv
    BY DEF Init, AloneInv, Moving, Holding, Quiet, Processes, RestInv, NoTick
  <2> QED
    BY <2>1, TypesInitially, FundsInitially
<1>2. RestInv => ~Tick
  BY NeverTicks
<1>3. Inv /\ [Next]_vars => Inv'
  BY <1>2, TypesNext, AloneNext, RestNext, RolesNext
<1>4. Inv /\ [Next]_vars => [Truth]_vars
  <2> SUFFICES ASSUME Inv, [Next]_vars, NEW s \in Resets, pc[s] = "clearing", pc'[s] = "restored"
               PROVE  free' = [c \in Coins |-> IF c = FaucetCoin THEN Seed ELSE 0]
    OBVIOUS
  <2>1. Restore(s)
    BY <1>2, OnlyRestoreReports
  <2>2. free["btc"] = 0 /\ free' = [free EXCEPT !["usd"] = Seed]
    BY <2>1 DEF Restore, RolesInv, FaucetCoin
  <2> QED
    BY <2>2 DEF TypeInv, TypeOK, Coins, FaucetCoin
<1> QED
  BY <1>1, <1>3, <1>4, PTL DEF Spec, ResetTellsTruth
=============================================================================
