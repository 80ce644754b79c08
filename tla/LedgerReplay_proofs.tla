------------------------- MODULE LedgerReplay_proofs -------------------------
(***************************************************************************)
(* The ledger of one balance field, for any amounts, targets and limits:   *)
(* the surviving entries form an unbroken chain that ends at the balance   *)
(* (SpotLedger), and, when the field is also lost, hydrated and rebuilt    *)
(* beside its writers (LedgerReplay), a replay of them says what the       *)
(* account is owed.                                                        *)
(***************************************************************************)
EXTENDS LedgerReplay, SequenceTheorems, WellFoundedInduction, TLAPS

\* The inductive invariant: the three facts about the stream hold together.
ChainInv == LedgerTypeOK /\ ChainIntact /\ LedgerMeetsBalance

\* Appending an entry that starts at the live balance, then dropping a prefix,
\* leaves an intact chain that ends where the appended entry ends.
LEMMA LoggedKeepsChain ==
    ASSUME ChainInv, NEW e \in Entry,
           e.before = bal, e.after = e.before + e.delta, Logged(e)
    PROVE  /\ stream' \in Seq(Entry)
           /\ Len(stream') <= MaxLen + TrimSlack
           /\ ChainIntact'
           /\ Len(stream') > 0
           /\ stream'[Len(stream')].after = e.after
<1> DEFINE grown == Append(stream, e)
<1>1. /\ stream \in Seq(Entry)
      /\ grown \in Seq(Entry)
      /\ Len(grown) = Len(stream) + 1
      /\ Len(stream) \in Nat
      /\ \A i \in 1..Len(stream) : grown[i] = stream[i]
      /\ grown[Len(grown)] = e
  BY DEF ChainInv, LedgerTypeOK
<1>2. PICK first \in 1..Len(grown) :
         /\ stream' = SubSeq(grown, first, Len(grown))
         /\ Len(grown) - first + 1 <= MaxLen + TrimSlack
  BY DEF Logged
<1> HIDE DEF grown
<1>3. /\ \A i \in 1..Len(grown) : grown[i].after = grown[i].before + grown[i].delta
      /\ \A i \in 1..(Len(grown) - 1) : grown[i].after = grown[i + 1].before
  <2>1. /\ ChainIntact
        /\ Len(stream) > 0 => stream[Len(stream)].after = e.before
    BY DEF ChainInv, LedgerMeetsBalance
  <2>2. ASSUME NEW i \in 1..Len(grown)
        PROVE  grown[i].after = grown[i].before + grown[i].delta
    <3>1. CASE i \in 1..Len(stream)
      BY <1>1, <2>1, <3>1 DEF ChainIntact
    <3>2. CASE i = Len(grown)
      BY <1>1, <3>2
    <3>3. QED
      BY <1>1, <3>1, <3>2
  <2>3. ASSUME NEW i \in 1..(Len(grown) - 1)
        PROVE  grown[i].after = grown[i + 1].before
    <3>1. CASE i \in 1..(Len(stream) - 1)
      BY <1>1, <2>1, <3>1 DEF ChainIntact
    <3>2. CASE i = Len(stream)
      BY <1>1, <2>1, <3>2
    <3>3. QED
      BY <1>1, <3>1, <3>2
  <2>4. QED
    BY <2>2, <2>3
<1>4. /\ stream' \in Seq(Entry)
      /\ Len(stream') = Len(grown) - first + 1
      /\ \A i \in 1..Len(stream') : stream'[i] = grown[first + i - 1]
  BY <1>1, <1>2, SubSeqProperties
<1>5. ChainIntact'
  <2>1. ASSUME NEW i \in 1..Len(stream')
        PROVE  stream'[i].after = stream'[i].before + stream'[i].delta
    <3>1. first + i - 1 \in 1..Len(grown)
      BY <1>1, <1>4
    <3>2. QED
      BY <1>3, <1>4, <3>1
  <2>2. ASSUME NEW i \in 1..(Len(stream') - 1)
        PROVE  stream'[i].after = stream'[i + 1].before
    <3>1. /\ first + i - 1 \in 1..(Len(grown) - 1)
          /\ i \in 1..Len(stream') /\ i + 1 \in 1..Len(stream')
          /\ first + (i + 1) - 1 = (first + i - 1) + 1
      BY <1>1, <1>4, SMTT(30)
    <3>2. /\ stream'[i] = grown[first + i - 1]
          /\ stream'[i + 1] = grown[(first + i - 1) + 1]
      BY <1>4, <3>1, SMTT(30)
    <3>3. QED
      BY <1>3, <3>1, <3>2
  <2>3. QED
    BY <2>1, <2>2 DEF ChainIntact
<1>6. QED
  BY <1>1, <1>2, <1>3, <1>4, <1>5

LEMMA MoveKeepsChain ==
    ASSUME ChainInv, NEW d \in Int, Move(d)
    PROVE  ChainInv'
<1> DEFINE e == [delta |-> d, before |-> bal, after |-> bal + d]
<1>1. e \in Entry /\ e.before = bal /\ e.after = e.before + e.delta /\ Logged(e)
  BY DEF ChainInv, LedgerTypeOK, Entry, Move
<1>2. e.after = bal'
  BY DEF Move
<1>3. bal' \in Int /\ present' = TRUE /\ truth' \in Int
  BY DEF Move, ChainInv, LedgerTypeOK
<1> HIDE DEF e
<1>4. QED
  BY <1>1, <1>2, <1>3, LoggedKeepsChain
     DEF ChainInv, LedgerTypeOK, LedgerMeetsBalance

LEMMA SetKeepsChain ==
    ASSUME ChainInv, NEW t \in Int, SetTo(t)
    PROVE  ChainInv'
<1> DEFINE e == [delta |-> t - bal, before |-> bal, after |-> t]
<1>1. bal' = t /\ bal' \in Int /\ present' = TRUE /\ truth' \in Int
  BY DEF SetTo
<1>2. CASE t = bal
  BY <1>1, <1>2 DEF SetTo, ChainInv, LedgerTypeOK, ChainIntact, LedgerMeetsBalance
<1>3. CASE t /= bal
  <2>1. /\ e \in Entry
        /\ e.before = bal
        /\ e.after = e.before + e.delta
        /\ Logged(e)
        /\ e.after = t
    BY <1>3 DEF ChainInv, LedgerTypeOK, Entry, SetTo
  <2> HIDE DEF e
  <2>2. QED
    BY <1>1, <2>1, LoggedKeepsChain
       DEF ChainInv, LedgerTypeOK, LedgerMeetsBalance
<1>4. QED
  BY <1>2, <1>3

LEMMA ChainInvInductive == ChainInv /\ [Scripts]_ledgerVars => ChainInv'
<1> SUFFICES ASSUME ChainInv, [Scripts]_ledgerVars
             PROVE  ChainInv'
  OBVIOUS
<1> USE AmountsAssumption, TargetsAssumption
<1>1. ASSUME NEW a \in Amounts, Credit(a) PROVE ChainInv'
  BY <1>1, MoveKeepsChain DEF Credit
<1>2. ASSUME NEW a \in Amounts, Debit(a) PROVE ChainInv'
  BY <1>2, MoveKeepsChain DEF Debit
<1>3. ASSUME NEW a \in Amounts, Apply(-a) PROVE ChainInv'
  BY <1>3, MoveKeepsChain DEF Apply
<1>4. ASSUME NEW t \in Targets, SetTo(t) PROVE ChainInv'
  BY <1>4, SetKeepsChain
<1>5. CASE UNCHANGED ledgerVars
  BY <1>5 DEF ChainInv, LedgerTypeOK, ChainIntact, LedgerMeetsBalance, ledgerVars
<1>6. QED
  BY <1>1, <1>2, <1>3, <1>4, <1>5 DEF Scripts

LEMMA ChainInvInitially == Init => ChainInv
BY TargetsAssumption, LimitsAssumption
   DEF Init, ChainInv, LedgerTypeOK, ChainIntact, LedgerMeetsBalance

\* Whatever sequence of credits, debits, signed moves, absolute sets and trims
\* the service runs, the surviving entries form an unbroken chain ...
THEOREM LedgerChain == Spec => []ChainIntact
<1>1. ChainInv => ChainIntact
  BY DEF ChainInv
<1>2. QED
  BY <1>1, ChainInvInitially, ChainInvInductive, PTL DEF Spec

\* ... and the chain ends at the live balance.
THEOREM LedgerEndsAtBalance == Spec => []LedgerMeetsBalance
<1>1. ChainInv => LedgerMeetsBalance
  BY DEF ChainInv
<1>2. QED
  BY <1>1, ChainInvInitially, ChainInvInductive, PTL DEF Spec

-----------------------------------------------------------------------------
\* Replaying.  A set of naturals has a least element: the arguments below about
\* the running figure of a replay look at the first entry where it goes wrong.
LEMMA NatLess == \E R : IsWellFoundedOn(R, Nat) /\ R = {ss \in Nat \X Nat : ss[1] < ss[2]}
<1> DEFINE R == OpToRel(<, Nat)
<1>1. R = {ss \in Nat \X Nat : ss[1] < ss[2]}
  BY Zenon DEF OpToRel
<1>2. IsWellFoundedOn(R, Nat)
  BY NatLessThanWellFounded
<1> HIDE DEF R
<1>3. QED
  BY <1>1, <1>2

LEMMA LeastNatural ==
    ASSUME NEW S, S \subseteq Nat, S /= {}
    PROVE  \E x \in S : \A y \in S : x <= y
<1>1. PICK R : IsWellFoundedOn(R, Nat) /\ R = {ss \in Nat \X Nat : ss[1] < ss[2]}
  BY NatLess
<1>2. PICK x \in S : \A y \in S : ~(<<y, x>> \in R)
  BY <1>1, WFMin
<1>3. ASSUME NEW y \in S
      PROVE  x <= y
  <2>1. x \in Nat /\ y \in Nat
    OBVIOUS
  <2>2. ASSUME y < x
        PROVE  FALSE
    <3> DEFINE z == <<y, x>>
    <3>1. z \in Nat \X Nat /\ z[1] < z[2]
      BY <2>1, <2>2
    <3>2. z \in R
      BY <1>1, <3>1
    <3>3. QED
      BY <1>2, <3>2
  <2>3. QED
    BY <2>1, <2>2
<1>4. QED
  BY <1>3

\* The running figure of a replay: its opening, then one movement after the other.
Opening(s) == IF s = <<>> THEN 0 ELSE s[1].before

IsReplay(s, f) ==
    /\ f \in [0..Len(s) -> Int]
    /\ f[0] = Opening(s)
    /\ \A i \in 1..Len(s) : f[i] = f[i - 1] + s[i].delta

Replayable(s) == \E f : IsReplay(s, f)

LEMMA EntryFields ==
    ASSUME NEW s \in Seq(Entry), NEW i \in 1..Len(s)
    PROVE  s[i].delta \in Int /\ s[i].before \in Int /\ s[i].after \in Int
<1>1. s[i] \in Entry
  BY ElementOfSeq
<1> HIDE DEF Entry
<1>2. ASSUME NEW e \in Entry PROVE e.delta \in Int /\ e.before \in Int /\ e.after \in Int
  BY DEF Entry
<1> QED
  BY <1>1, <1>2

\* replayBalance ends where the running figure does.
LEMMA ReplayIsSum ==
    ASSUME NEW s \in Seq(Entry), NEW f, IsReplay(s, f)
    PROVE  replayBalance(s) = f[Len(s)]
<1> DEFINE opening == IF s = <<>> THEN 0 ELSE s[1].before
           Eqn(h) == h = [i \in 0..Len(s) |->
                             IF i = 0 THEN opening ELSE h[i - 1] + s[i].delta]
           sum == CHOOSE h : Eqn(h)
<1>1. Len(s) \in Nat /\ \A i \in 1..Len(s) : s[i].delta \in Int
  BY EntryFields
<1>2. replayBalance(s) = sum[Len(s)]
  BY DEF replayBalance
<1>3. Eqn(f)
  BY <1>1 DEF IsReplay, Opening
<1>4. Eqn(sum)
  <2> HIDE DEF Eqn
  <2> QED
    BY <1>3
<1> HIDE DEF sum
<1>5. sum = f
  <2> DEFINE Apart == {i \in 0..Len(s) : f[i] /= sum[i]}
  <2>1. ASSUME Apart /= {} PROVE FALSE
    <3>1. \E i \in Apart : \A j \in Apart : i <= j
      <4>1. Apart \subseteq Nat
        BY <1>1
      <4> HIDE DEF Apart
      <4> QED
        BY <2>1, <4>1, LeastNatural
    <3>2. PICK i \in Apart : \A j \in Apart : i <= j
      BY <3>1
    <3>3. i /= 0
      BY <1>1, <1>3, <1>4, <3>2
    <3>4. i \in 1..Len(s) /\ i - 1 \in 0..Len(s) /\ i - 1 \notin Apart
      BY <1>1, <3>2, <3>3
    <3>5. f[i - 1] = sum[i - 1]
      BY <3>4
    <3>6. f[i] = sum[i]
      BY <1>3, <1>4, <3>4, <3>5
    <3> QED
      BY <3>2, <3>6
  <2> QED
    BY <1>3, <1>4, <2>1
<1> QED
  BY <1>2, <1>5

\* Entries that abut replay to where the last of them ended.
ChainOn(s) ==
    /\ \A i \in 1..Len(s) : s[i].after = s[i].before + s[i].delta
    /\ \A i \in 1..(Len(s) - 1) : s[i].after = s[i + 1].before

LEMMA ChainReplays ==
    ASSUME NEW s \in Seq(Entry), s /= <<>>, ChainOn(s)
    PROVE  replayBalance(s) = s[Len(s)].after
<1> DEFINE f == [i \in 0..Len(s) |-> IF i = 0 THEN s[1].before ELSE s[i].after]
<1>1. /\ Len(s) \in Nat \ {0}
      /\ \A i \in 1..Len(s) : s[i].before \in Int /\ s[i].after \in Int
  BY EntryFields, EmptySeq
<1>2. f \in [0..Len(s) -> Int] /\ f[0] = Opening(s)
  BY <1>1 DEF Opening
<1>3. ASSUME NEW i \in 1..Len(s)
      PROVE  f[i] = f[i - 1] + s[i].delta
  <2>1. f[i] = s[i].before + s[i].delta /\ i - 1 \in 0..Len(s)
    BY <1>1 DEF ChainOn
  <2>2. CASE i = 1
    BY <1>1, <2>1, <2>2
  <2>3. CASE i /= 1
    <3>1. i - 1 \in 1..(Len(s) - 1) /\ (i - 1) + 1 = i
      BY <1>1, <2>3
    <3>2. s[i - 1].after = s[i].before
      BY <3>1 DEF ChainOn
    <3> QED
      BY <1>1, <2>1, <3>1, <3>2
  <2> QED
    BY <2>2, <2>3
<1>4. f[Len(s)] = s[Len(s)].after
  BY <1>1
<1>5. IsReplay(s, f)
  BY <1>2, <1>3 DEF IsReplay
<1> HIDE DEF f
<1> QED
  BY <1>4, <1>5, ReplayIsSum

\* One more entry moves the replay by its delta; the first opens it.
LEMMA AppendReplays ==
    ASSUME NEW s \in Seq(Entry), NEW e \in Entry, Replayable(s)
    PROVE  /\ Replayable(Append(s, e))
           /\ replayBalance(Append(s, e)) =
                 (IF s = <<>> THEN e.before ELSE replayBalance(s)) + e.delta
<1> DEFINE t == Append(s, e)
           n == Len(s)
<1>1. /\ t \in Seq(Entry) /\ t /= <<>> /\ n \in Nat /\ Len(t) = n + 1
      /\ \A i \in 1..n : t[i] = s[i]
      /\ t[n + 1] = e
      /\ e.before \in Int /\ e.delta \in Int
  <2>1. /\ t \in Seq(Entry) /\ Len(t) = n + 1
        /\ \A i \in 1..n : t[i] = s[i]
        /\ t[n + 1] = e
    BY AppendProperties
  <2>2. n \in Nat /\ e.before \in Int /\ e.delta \in Int
    BY LenProperties DEF Entry
  <2> HIDE DEF t, n
  <2>3. t /= <<>>
    BY <2>1, <2>2, EmptySeq
  <2> QED
    BY <2>1, <2>2, <2>3
<1> HIDE DEF t, n
<1>2. PICK f : IsReplay(s, f)
  BY DEF Replayable
<1> DEFINE base == IF s = <<>> THEN e.before ELSE f[n]
           g == [i \in 0..Len(t) |-> IF i = n + 1 THEN base + e.delta
                                     ELSE IF i = n THEN base ELSE f[i]]
<1>3. f \in [0..n -> Int] /\ base \in Int
  BY <1>1, <1>2 DEF IsReplay, n
<1>4. s = <<>> <=> n = 0
  BY EmptySeq DEF n
<1>5. f[0] = Opening(s) /\ Opening(t) = t[1].before
  BY <1>1, <1>2 DEF IsReplay, Opening
<1> HIDE DEF base
<1>6. g \in [0..Len(t) -> Int]
  BY <1>1, <1>3
<1>7. g[0] = Opening(t)
  <2>1. CASE n = 0
    <3>1. g[0] = base /\ t[1] = e
      BY <1>1, <2>1
    <3> QED
      BY <1>4, <1>5, <2>1, <3>1 DEF base
  <2>2. CASE n /= 0
    <3>1. g[0] = f[0] /\ t[1] = s[1]
      BY <1>1, <2>2
    <3> QED
      BY <1>4, <1>5, <2>2, <3>1 DEF Opening
  <2> QED
    BY <2>1, <2>2
<1>8. ASSUME NEW i \in 1..Len(t)
      PROVE  g[i] = g[i - 1] + t[i].delta
  <2>1. CASE i = n + 1
    BY <1>1, <2>1
  <2>2. CASE i /= n + 1
    <3>1. i \in 1..n /\ i - 1 \in 0..n /\ i - 1 /= n /\ i - 1 /= n + 1 /\ t[i] = s[i]
      BY <1>1, <2>2
    <3>2. f[i] = f[i - 1] + s[i].delta
      BY <1>2, <3>1 DEF IsReplay, n
    <3>3. i = n => base = f[i]
      BY <1>1, <1>4, <3>1 DEF base
    <3>4. g[i] = f[i] /\ g[i - 1] = f[i - 1]
      BY <1>1, <3>1, <3>3
    <3> QED
      BY <3>1, <3>2, <3>4
  <2> QED
    BY <2>1, <2>2
<1>9. IsReplay(t, g)
  BY <1>6, <1>7, <1>8 DEF IsReplay
<1>10. g[Len(t)] = base + e.delta
  BY <1>1
<1> HIDE DEF g
<1>11. replayBalance(t) = base + e.delta /\ Replayable(t)
  BY <1>1, <1>9, <1>10, ReplayIsSum DEF Replayable
<1>12. replayBalance(s) = f[n]
  BY <1>2, ReplayIsSum DEF n
<1> QED
  BY <1>11, <1>12 DEF t, base

\* What a trim leaves can still be replayed, to whatever figure.
LEMMA TrimReplays ==
    ASSUME NEW s \in Seq(Entry), Replayable(s), NEW first \in 1..Len(s)
    PROVE  Replayable(SubSeq(s, first, Len(s)))
<1> DEFINE t == SubSeq(s, first, Len(s))
<1>1. PICK f : IsReplay(s, f)
  BY DEF Replayable
<1>2. /\ Len(s) \in Nat
      /\ \A i \in 1..Len(s) : s[i].before \in Int /\ s[i].delta \in Int
  BY EntryFields
<1>3. /\ Len(t) = Len(s) - first + 1
      /\ \A i \in 1..Len(t) : t[i] = s[first + i - 1]
  BY <1>2, SubSeqProperties
<1> HIDE DEF t
<1> DEFINE opening == s[first].before - f[first - 1]
           g == [i \in 0..Len(t) |-> f[first - 1 + i] + opening]
<1>4. f \in [0..Len(s) -> Int] /\ opening \in Int
  <2>1. first - 1 \in 0..Len(s) /\ first \in 1..Len(s)
    BY <1>2
  <2>2. f \in [0..Len(s) -> Int]
    BY <1>1 DEF IsReplay
  <2>3. f[first - 1] \in Int /\ s[first].before \in Int
    BY <1>2, <2>1, <2>2
  <2> QED
    BY <2>2, <2>3
<1>5. Opening(t) = s[first].before
  <2>1. 1 \in 1..Len(t) /\ first + 1 - 1 = first /\ Len(t) > 0
    BY <1>2, <1>3
  <2>2. t[1] = s[first] /\ t /= <<>>
    BY <1>3, <2>1, EmptySeq
  <2> QED
    BY <2>2 DEF Opening
<1>6. g[0] = Opening(t)
  <2>1. 0 \in 0..Len(t) /\ first - 1 + 0 = first - 1 /\ first - 1 \in 0..Len(s)
    BY <1>2, <1>3
  <2>2. f[first - 1] \in Int /\ s[first].before \in Int
    BY <1>2, <1>4, <2>1
  <2>3. g[0] = f[first - 1] + opening
    BY <2>1
  <2> QED
    BY <1>5, <2>2, <2>3
<1> HIDE DEF opening
<1>7. g \in [0..Len(t) -> Int]
  BY <1>2, <1>3, <1>4
<1>8. ASSUME NEW i \in 1..Len(t)
      PROVE  g[i] = g[i - 1] + t[i].delta
  <2> DEFINE k == first + i - 1
  <2>1. /\ k \in 1..Len(s) /\ k \in 0..Len(s) /\ k - 1 \in 0..Len(s)
        /\ first - 1 + i = k /\ first - 1 + (i - 1) = k - 1
        /\ i \in 0..Len(t) /\ i - 1 \in 0..Len(t)
    BY <1>2, <1>3
  <2>2. t[i] = s[k]
    BY <1>3
  <2> HIDE DEF k
  <2>3. f[k] = f[k - 1] + s[k].delta
    BY <1>1, <2>1 DEF IsReplay
  <2>4. g[i] = f[k] + opening /\ g[i - 1] = f[k - 1] + opening
    BY <2>1
  <2>5. f[k - 1] \in Int /\ s[k].delta \in Int
    BY <1>2, <1>4, <2>1
  <2> HIDE DEF g
  <2> QED
    BY <1>4, <2>2, <2>3, <2>4, <2>5
<1>9. IsReplay(t, g)
  BY <1>6, <1>7, <1>8 DEF IsReplay
<1> QED
  BY <1>9 DEF Replayable, t

-----------------------------------------------------------------------------
\* The invariant of LedgerReplay.  Nothing is known of the chain here: a lost or
\* stale field breaks it.  What survives is that the replay is what the account is
\* owed for as long as no figure started from a wrong balance, and that a reader
\* which nothing raced still holds today's debt.
MayHold == {<<>>} \cup {<<v>> : v \in Int}
Reader == [at : {"idle", "live", "counted", "replayed"},
           value : Int, owed : Int, raced : BOOLEAN]

StateInv ==
    /\ LedgerTypeOK
    /\ Replayable(stream)
    /\ mongo \in Int
    /\ backup \in MayHold /\ hydrating \in MayHold
    /\ reader \in Reader
    /\ tainted \in BOOLEAN

FigureInv == ~tainted /\ stream /= <<>> => replayBalance(stream) = truth

ReaderInv ==
    /\ reader.at \in {"counted", "replayed"} => stream /= <<>>
    /\ ~tainted /\ reader.at = "replayed" => reader.value = reader.owed
    /\ reader.at \in {"live", "replayed"} /\ ~reader.raced => reader.owed = truth

ReplayInv == StateInv /\ FigureInv /\ ReaderInv

\* Logging a movement moves the replay by it, if nothing is trimmed or what is
\* trimmed abuts what stays.
LEMMA LoggedReplays ==
    ASSUME StateInv, NEW e \in Entry,
           e.before = bal, e.after = e.before + e.delta, Logged(e)
    PROVE  /\ stream' \in Seq(Entry) /\ stream' /= <<>>
           /\ Len(stream') <= MaxLen + TrimSlack
           /\ Replayable(stream')
           /\ Len(stream') > Len(stream) \/ (ChainIntact /\ LedgerMeetsBalance)
                 => replayBalance(stream') =
                       (IF stream = <<>> THEN bal ELSE replayBalance(stream)) + e.delta
<1> DEFINE grown == Append(stream, e)
<1>1. /\ stream \in Seq(Entry) /\ Len(stream) \in Nat
      /\ grown \in Seq(Entry) /\ Len(grown) = Len(stream) + 1
      /\ Replayable(grown)
      /\ replayBalance(grown) =
            (IF stream = <<>> THEN bal ELSE replayBalance(stream)) + e.delta
  <2>1. stream \in Seq(Entry) /\ Replayable(stream)
    BY DEF StateInv, LedgerTypeOK
  <2> QED
    BY <2>1, AppendReplays, AppendProperties, LenProperties
<1>2. PICK first \in 1..Len(grown) :
         /\ stream' = SubSeq(grown, first, Len(grown))
         /\ Len(grown) - first + 1 <= MaxLen + TrimSlack
  BY DEF Logged
<1> HIDE DEF grown
<1>3. /\ stream' \in Seq(Entry) /\ Len(stream') = Len(grown) - first + 1
      /\ \A i \in 1..Len(stream') : stream'[i] = grown[first + i - 1]
  BY <1>1, <1>2, SubSeqProperties
<1>4. Len(stream') > 0 /\ stream' /= <<>> /\ Len(stream') <= MaxLen + TrimSlack
  <2>1. Len(stream') > 0 /\ Len(stream') <= MaxLen + TrimSlack
    BY <1>1, <1>2, <1>3
  <2>2. stream' /= <<>>
    BY <2>1
  <2> QED
    BY <2>1, <2>2
<1>5. Replayable(stream')
  BY <1>1, <1>2, TrimReplays
<1>6. CASE Len(stream') > Len(stream)
  <2>1. first = 1
    BY <1>1, <1>2, <1>3, <1>6
  <2>2. stream' = grown
    BY <1>1, <1>3, <2>1, SeqEqual
  <2> QED
    BY <1>1, <1>3, <1>4, <1>5, <2>2
<1>7. CASE ChainIntact /\ LedgerMeetsBalance
  <2>1. ChainIntact' /\ stream'[Len(stream')].after = e.after
    BY <1>7, LoggedKeepsChain DEF ChainInv, StateInv
  <2>2. replayBalance(stream') = bal + e.delta
    <3>1. ChainOn(stream')
      BY <2>1 DEF ChainIntact, ChainOn
    <3> QED
      BY <1>3, <1>4, <2>1, <3>1, ChainReplays
  <2>3. stream /= <<>> => replayBalance(stream) = bal
    <3>1. stream /= <<>> => Len(stream) > 0
      BY <1>1, EmptySeq
    <3>2. ChainOn(stream)
      BY <1>7 DEF ChainIntact, ChainOn
    <3> QED
      BY <1>1, <1>7, <3>1, <3>2, ChainReplays DEF LedgerMeetsBalance
  <2> QED
    BY <1>3, <1>4, <1>5, <2>2, <2>3
<1> QED
  BY <1>3, <1>4, <1>5, <1>6, <1>7

\* Whoever writes under a reader marks it.
LEMMA RacedReader ==
    ASSUME reader \in Reader, Raced
    PROVE  /\ reader' \in Reader /\ reader'.at = reader.at
           /\ reader'.value = reader.value /\ reader'.owed = reader.owed
           /\ reader'.at /= "idle" => reader'.raced
BY DEF Reader, Raced

LEMMA RacedKeeps ==
    ASSUME ReplayInv, Raced, stream /= <<>> => stream' /= <<>>, tainted => tainted',
           tainted' \in BOOLEAN
    PROVE  reader' \in Reader /\ ReaderInv'
<1>1. reader \in Reader
  BY DEF ReplayInv, StateInv
<1>2. /\ reader' \in Reader /\ reader'.at = reader.at
      /\ reader'.value = reader.value /\ reader'.owed = reader.owed
      /\ reader'.at /= "idle" => reader'.raced
  BY <1>1, RacedReader
<1> QED
  BY <1>2 DEF ReplayInv, ReaderInv

\* What a script adds to the ledger, seen from the replay.  A script that logs
\* leaves the state typed, and the figure right unless it was or is tainted.
LEMMA WriteKeeps ==
    ASSUME ReplayInv, NEW e \in Entry, NEW absolute \in BOOLEAN,
           e.before = bal, e.after = e.before + e.delta, Logged(e),
           bal' = e.after, present' = TRUE, truth' \in Int,
           absolute => truth' = e.after,
           ~absolute => truth' = truth + e.delta,
           tainted' = (tainted \/ Taints(absolute)), Raced, UNCHANGED durable
    PROVE  ReplayInv'
<1>1. StateInv /\ FigureInv /\ truth \in Int /\ bal \in Int /\ e.delta \in Int
  BY DEF ReplayInv, StateInv, LedgerTypeOK, Entry
<1>2. /\ stream' \in Seq(Entry) /\ stream' /= <<>>
      /\ Len(stream') <= MaxLen + TrimSlack
      /\ Replayable(stream')
      /\ Len(stream') > Len(stream) \/ (ChainIntact /\ LedgerMeetsBalance)
            => replayBalance(stream') =
                  (IF stream = <<>> THEN bal ELSE replayBalance(stream)) + e.delta
  BY <1>1, LoggedReplays
<1>3. tainted' \in BOOLEAN /\ (tainted => tainted')
  BY <1>1 DEF StateInv, Taints
<1>4. reader' \in Reader /\ ReaderInv'
  BY <1>2, <1>3, RacedKeeps
<1>5. LedgerTypeOK'
  BY <1>1, <1>2 DEF LedgerTypeOK, Entry
<1>6. StateInv'
  BY <1>1, <1>2, <1>3, <1>4, <1>5 DEF StateInv, durable
<1>7. FigureInv'
  <2>1. SUFFICES ASSUME ~tainted'
                 PROVE  replayBalance(stream') = truth'
    BY DEF FigureInv
  <2>2. ~tainted /\ ~Taints(absolute)
    BY <2>1
  <2> DEFINE chained == ChainIntact /\ LedgerMeetsBalance
             trimmed == Len(stream') <= Len(stream)
  <2>3. /\ absolute \/ stream = <<>> => bal = truth
        /\ trimmed => chained
    BY <2>2, Zenon DEF Taints
  <2>4. Len(stream') > Len(stream) \/ (ChainIntact /\ LedgerMeetsBalance)
    <3>1. Len(stream') \in Nat /\ Len(stream) \in Nat
      BY <1>1, <1>2 DEF StateInv, LedgerTypeOK
    <3>2. trimmed \/ Len(stream') > Len(stream)
      BY <3>1
    <3> QED
      BY <2>3, <3>2
  <2>5. (IF stream = <<>> THEN bal ELSE replayBalance(stream)) = truth
    BY <1>1, <2>2, <2>3 DEF FigureInv
  <2>6. truth' = truth + e.delta
    BY <1>1, <2>3
  <2> QED
    BY <1>2, <2>4, <2>5, <2>6
<1> QED
  BY <1>4, <1>6, <1>7 DEF ReplayInv

\* A relative write: the hash and the entry move together.
LEMMA RelativeKeeps == ASSUME ReplayInv, RelativeWrite PROVE ReplayInv'
<1> USE AmountsAssumption
<1>1. PICK d \in Int : Move(d)
  <2>1. PICK a \in Amounts : Credit(a) \/ Debit(a) \/ Apply(-a)
    BY DEF RelativeWrite
  <2>2. a \in Int /\ -a \in Int
    OBVIOUS
  <2> QED
    BY <2>1, <2>2 DEF Credit, Debit, Apply
<1> DEFINE e == [delta |-> d, before |-> bal, after |-> bal + d]
<1>2. bal \in Int /\ truth \in Int
  BY DEF ReplayInv, StateInv, LedgerTypeOK
<1>3. /\ e \in Entry /\ e.delta = d /\ e.before = bal /\ e.after = e.before + e.delta
      /\ Logged(e)
  BY <1>1, <1>2 DEF Move, Entry
<1>4. bal' = e.after /\ present' = TRUE /\ truth' = truth + e.delta /\ truth' \in Int
  BY <1>1, <1>2 DEF Move
<1> HIDE DEF e
<1>5. tainted' = (tainted \/ Taints(FALSE)) /\ Raced /\ UNCHANGED durable
  BY DEF RelativeWrite
<1> QED
  BY <1>3, <1>4, <1>5, WriteKeeps

\* An absolute write logs the delta it implies; none when there is none.
LEMMA AbsoluteKeeps == ASSUME ReplayInv, AbsoluteWrite PROVE ReplayInv'
<1> USE TargetsAssumption
<1>1. PICK t \in Targets : SetTo(t)
  BY DEF AbsoluteWrite
<1>2. bal \in Int /\ truth \in Int /\ t \in Int
  BY DEF ReplayInv, StateInv, LedgerTypeOK
<1>3. tainted' = (tainted \/ Taints(TRUE)) /\ Raced /\ UNCHANGED durable
  BY DEF AbsoluteWrite
<1>4. CASE t /= bal
  <2> DEFINE e == [delta |-> t - bal, before |-> bal, after |-> t]
  <2>1. /\ e \in Entry /\ e.before = bal /\ e.after = e.before + e.delta /\ Logged(e)
    BY <1>1, <1>2, <1>4 DEF SetTo, Entry
  <2>2. bal' = e.after /\ present' = TRUE /\ truth' = e.after /\ truth' \in Int
    BY <1>1, <1>2 DEF SetTo
  <2> HIDE DEF e
  <2> QED
    BY <1>3, <2>1, <2>2, WriteKeeps
<1>5. CASE t = bal
  <2>1. bal' = bal /\ stream' = stream /\ present' = TRUE /\ truth' = bal
    BY <1>1, <1>5 DEF SetTo
  <2>2. tainted' \in BOOLEAN /\ (tainted => tainted')
    BY <1>3 DEF ReplayInv, StateInv, Taints
  <2>3. reader' \in Reader /\ ReaderInv'
    BY <1>3, <2>1, <2>2, RacedKeeps
  <2>4. StateInv'
    BY <1>2, <1>3, <2>1, <2>2, <2>3 DEF ReplayInv, StateInv, LedgerTypeOK, durable
  <2>5. FigureInv'
    <3>1. ~tainted' => ~tainted /\ ~Taints(TRUE)
      BY <1>3
    <3>2. ~Taints(TRUE) => bal = truth
      BY DEF Taints
    <3> QED
      BY <2>1, <3>1, <3>2 DEF ReplayInv, FigureInv
  <2> QED
    BY <2>3, <2>4, <2>5 DEF ReplayInv
<1> QED
  BY <1>4, <1>5

\* A loss and a hydration change the hash alone, and race whoever reads.
LEMMA BalanceKeeps ==
    ASSUME ReplayInv, bal' \in Int, ~present' => bal' = 0, present' \in BOOLEAN,
           reader' \in Reader, ReaderInv', mongo' = mongo, backup' = backup,
           hydrating' \in MayHold, UNCHANGED <<stream, truth, tainted>>
    PROVE  ReplayInv'
BY DEF ReplayInv, StateInv, LedgerTypeOK, FigureInv

LEMMA LostKeeps == ASSUME ReplayInv, FieldLost PROVE ReplayInv'
<1>1. tainted' = tainted /\ stream' = stream /\ tainted \in BOOLEAN
  BY DEF FieldLost, ReplayInv, StateInv
<1>2. reader' \in Reader /\ ReaderInv'
  BY <1>1, RacedKeeps DEF FieldLost
<1>3. /\ bal' = 0 /\ present' = FALSE /\ mongo' = mongo /\ backup' = backup /\ hydrating' = hydrating
      /\ UNCHANGED <<stream, truth, tainted>>
  BY DEF FieldLost, durable
<1>4. bal' \in Int /\ (~present' => bal' = 0)
  BY <1>3
<1>5. present' \in BOOLEAN
  BY <1>3
<1>6. hydrating \in MayHold
  BY DEF ReplayInv, StateInv
<1> QED
  BY <1>2, <1>3, <1>4, <1>5, <1>6, BalanceKeeps

LEMMA Unwrapped == ASSUME NEW h \in MayHold, h /= <<>> PROVE h[1] \in Int
BY DEF MayHold

LEMMA HydrateKeeps == ASSUME ReplayInv, Hydrate PROVE ReplayInv'
<1>1. /\ hydrating[1] \in Int /\ <<>> \in MayHold
      /\ tainted' = tainted /\ stream' = stream /\ tainted \in BOOLEAN
      /\ present \in BOOLEAN /\ bal \in Int
  BY Unwrapped DEF Hydrate, ReplayInv, StateInv, LedgerTypeOK, MayHold
<1>2. CASE present
  <2>1. reader' = reader /\ reader' \in Reader
    BY <1>2 DEF Hydrate, ReplayInv, StateInv
  <2>2. ReaderInv'
    BY <1>2, <2>1 DEF Hydrate, ReplayInv, ReaderInv
  <2> QED
    BY <1>1, <1>2, <2>1, <2>2, BalanceKeeps DEF Hydrate
<1>3. CASE ~present
  <2>1. reader' \in Reader /\ ReaderInv'
    BY <1>1, <1>3, RacedKeeps DEF Hydrate
  <2> QED
    BY <1>1, <1>3, <2>1, BalanceKeeps DEF Hydrate
<1> QED
  BY <1>1, <1>2, <1>3

\* The paths between redis and mongo that leave the field alone.
LEMMA DurableKeeps ==
    ASSUME ReplayInv, BackupRead \/ BackupSave \/ FieldFoundMissing
    PROVE  ReplayInv'
<1>1. /\ mongo \in Int /\ backup \in MayHold /\ hydrating \in MayHold /\ bal \in Int
      /\ <<>> \in MayHold /\ \A v \in Int : <<v>> \in MayHold
  BY DEF ReplayInv, StateInv, LedgerTypeOK, MayHold
<1>2. mongo' \in Int /\ backup' \in MayHold /\ hydrating' \in MayHold
  BY <1>1, Unwrapped DEF BackupRead, BackupSave, FieldFoundMissing
<1>3. UNCHANGED <<present, bal, stream, truth, reader, tainted>>
  BY DEF BackupRead, BackupSave, FieldFoundMissing, ledgerVars
<1> QED
  BY <1>2, <1>3 DEF ReplayInv, StateInv, LedgerTypeOK, FigureInv, ReaderInv

\* A reader that only reads.
LEMMA ReaderKeeps ==
    ASSUME ReplayInv,
           \/ ReconcileReadLive \/ ReconcileReplay \/ RebuildCount \/ RebuildReplay
    PROVE  ReplayInv'
<1>1. /\ bal \in Int /\ truth \in Int /\ stream \in Seq(Entry) /\ Replayable(stream)
      /\ reader \in Reader
  BY DEF ReplayInv, StateInv, LedgerTypeOK
<1>2. UNCHANGED <<present, bal, stream, truth, mongo, backup, hydrating, tainted>>
  BY DEF ReconcileReadLive, ReconcileReplay, RebuildCount, RebuildReplay, ledgerVars,
         durable
<1>3. replayBalance(stream) \in Int
  <2>1. PICK f : IsReplay(stream, f)
    BY <1>1 DEF Replayable
  <2>2. Len(stream) \in 0..Len(stream)
    BY <1>1
  <2> QED
    BY <1>1, <2>1, <2>2, ReplayIsSum DEF IsReplay
<1>4. reader' \in Reader /\ ReaderInv'
  <2>1. CASE ReconcileReadLive
    BY <1>1, <1>2, <2>1 DEF ReconcileReadLive, Reading, Reader, ReaderInv
  <2>2. CASE ReconcileReplay
    BY <1>2, <2>2 DEF ReconcileReplay, Idle, Reader, ReaderInv
  <2>3. CASE RebuildCount
    BY <1>1, <1>2, <2>3 DEF RebuildCount, Reading, Reader, ReaderInv
  <2>4. CASE RebuildReplay
    <3>1. reader' = Reading("replayed", replayBalance(stream), truth)
          /\ stream /= <<>>
      BY <2>4 DEF RebuildReplay, ReplayInv, ReaderInv
    <3>2. ~tainted => replayBalance(stream) = truth
      BY <3>1 DEF ReplayInv, FigureInv
    <3> QED
      BY <1>1, <1>2, <1>3, <3>1, <3>2 DEF Reading, Reader, ReaderInv
  <2> QED
    BY <2>1, <2>2, <2>3, <2>4
<1> QED
  BY <1>2, <1>4 DEF ReplayInv, StateInv, LedgerTypeOK, FigureInv

LEMMA RebuildKeeps == ASSUME ReplayInv, RebuildWrite PROVE ReplayInv'
<1>1. reader.value \in Int /\ bal' = reader.value /\ present' = TRUE
  BY DEF RebuildWrite, ReplayInv, StateInv, Reader
<1>2. UNCHANGED <<stream, truth, mongo, backup, hydrating, tainted>>
  BY DEF RebuildWrite, durable
<1>3. reader' \in Reader /\ ReaderInv'
  BY <1>2 DEF RebuildWrite, Idle, Reader, ReaderInv
<1>4. hydrating' \in MayHold
  BY <1>2 DEF ReplayInv, StateInv
<1> QED
  BY <1>1, <1>2, <1>3, <1>4, BalanceKeeps

LEMMA ReplayInvInitially == ReplayInit => ReplayInv
<1> SUFFICES ASSUME ReplayInit PROVE ReplayInv
  OBVIOUS
<1>1. LedgerTypeOK
  BY ChainInvInitially DEF ReplayInit, ChainInv
<1>2. Replayable(stream)
  <2> DEFINE f == [i \in 0..0 |-> 0]
  <2>1. stream = <<>> /\ Len(stream) = 0
    BY DEF ReplayInit, Init
  <2>2. IsReplay(stream, f)
    BY <2>1 DEF IsReplay, Opening
  <2> QED
    BY <2>2 DEF Replayable
<1>3. stream = <<>> /\ reader = Idle
  BY DEF ReplayInit, Init
<1>4. reader.at = "idle" /\ reader \in Reader
  BY <1>3 DEF Idle, Reader
<1> QED
  BY <1>1, <1>2, <1>3, <1>4
     DEF ReplayInit, ReplayInv, StateInv, FigureInv, ReaderInv, LedgerTypeOK, MayHold

LEMMA ReplayInvInductive == ReplayInv /\ [ReplayNext]_vars => ReplayInv'
<1> SUFFICES ASSUME ReplayInv, [ReplayNext]_vars
             PROVE  ReplayInv'
  OBVIOUS
<1>1. CASE UNCHANGED vars
  BY <1>1 DEF vars, ReplayInv, StateInv, LedgerTypeOK, FigureInv, ReaderInv
<1>2. CASE ReplayNext
  BY <1>2, RelativeKeeps, AbsoluteKeeps, LostKeeps, HydrateKeeps, DurableKeeps,
     ReaderKeeps, RebuildKeeps DEF ReplayNext
<1> QED
  BY <1>1, <1>2

\* A verdict of the reconcile that nothing raced is right in both directions: for
\* whatever sequence of credits, debits, sets, trims, losses, backups, hydrations
\* and rebuilds came before it.
THEOREM VerdictsAreRight == ReplaySpec => VerdictIsRight
<1>1. ReplayInv /\ [ReplayNext]_vars =>
        [ReconcileReplay /\ ~reader.raced /\ ~tainted =>
            /\ Verdict = "drift" => reader.value /= reader.owed
            /\ Verdict = "ok" => reader.value = reader.owed]_vars
  <2> SUFFICES ASSUME ReplayInv, ReconcileReplay, ~reader.raced, ~tainted
               PROVE  /\ Verdict = "drift" => reader.value /= reader.owed
                      /\ Verdict = "ok" => reader.value = reader.owed
    OBVIOUS
  <2>1. reader.owed = truth
    BY DEF ReplayInv, ReaderInv, ReconcileReplay
  <2>2. stream /= <<>> => replayBalance(stream) = truth
    BY DEF ReplayInv, FigureInv
  <2> QED
    BY <2>1, <2>2 DEF Verdict
<1> QED
  BY <1>1, ReplayInvInitially, ReplayInvInductive, PTL DEF ReplaySpec, VerdictIsRight

\* A rebuild restores what the account was owed when it replayed, from any lost or
\* stale balance; and what it is owed now, if nothing was written meanwhile.
THEOREM RebuildsAreExact == ReplaySpec => RebuildIsExact
<1>1. ReplayInv /\ [ReplayNext]_vars =>
        [RebuildWrite /\ ~tainted => /\ bal' = reader.owed
                                     /\ ~reader.raced => bal' = truth]_vars
  <2> SUFFICES ASSUME ReplayInv, RebuildWrite, ~tainted
               PROVE  bal' = reader.owed /\ (~reader.raced => bal' = truth)
    OBVIOUS
  <2>1. reader.at = "replayed" /\ bal' = reader.value
    BY DEF RebuildWrite
  <2> QED
    BY <2>1 DEF ReplayInv, ReaderInv
<1> QED
  BY <1>1, ReplayInvInitially, ReplayInvInductive, PTL DEF ReplaySpec, RebuildIsExact
=============================================================================
