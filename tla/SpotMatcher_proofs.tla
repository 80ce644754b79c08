------------------------- MODULE SpotMatcher_proofs -------------------------
(***************************************************************************)
(* With one pair and no account closing, whatever the orders, their prices *)
(* and their schedule: a claimed order is never in the matcher's hands; no *)
(* order is paid out twice; its row backs what is left of its escrow; and  *)
(* the whole is an implementation of OrderEscrow; and no coin is made or   *)
(* lost.                                                                   *)
(*                                                                         *)
(* The first half is about who may touch an order (MatcherInv).  The       *)
(* second follows the money: MoneyInv says of every order what the         *)
(* commands still queued will do to it, and that its escrow holds what     *)
(* they, the cancel that claimed it or its row will pay back.  The last    *)
(* part adds up over all orders: BalanceInv says that what fills took of a *)
(* coin and not yet credited is what the queued commands still owe.        *)
(***************************************************************************)
EXTENDS SpotMatcher, SequenceTheorems, FiniteSetTheorems, TLAPS

-----------------------------------------------------------------------------
\* Sequences.

ListOf(s, X) == s \in Seq(X) /\ \A i, j \in 1..Len(s) : i /= j => s[i] /= s[j]

LEMMA ListOfWider ==
    ASSUME NEW X, NEW Y, NEW s, ListOf(s, X), X \subseteq Y
    PROVE  ListOf(s, Y)
BY SeqMonotonic DEF ListOf

LEMMA ListOfTail ==
    ASSUME NEW X, NEW s, ListOf(s, X), s /= <<>>
    PROVE  s[1] \in X /\ ListOf(Tail(s), X) /\ ListOf(Tail(s), X \ {s[1]})
<1> DEFINE t == Tail(s)
<1>1. /\ s \in Seq(X) /\ Len(s) \in Nat \ {0}
      /\ \A i \in 1..Len(s) : s[i] \in X
      /\ \A i, j \in 1..Len(s) : i /= j => s[i] /= s[j]
  BY EmptySeq, LenProperties, ElementOfSeq DEF ListOf
<1>2. /\ t \in Seq(X) /\ Len(t) = Len(s) - 1
      /\ \A i \in 1..Len(t) : t[i] = s[i + 1]
  BY <1>1, HeadTailProperties DEF ListOf
<1> HIDE DEF t
<1>3. \A i \in 1..Len(t) : t[i] \in X \ {s[1]}
  BY <1>1, <1>2
<1>4. \A i, j \in 1..Len(t) : i /= j => t[i] /= t[j]
  BY <1>1, <1>2
<1>5. t \in Seq(X \ {s[1]})
  BY <1>2, <1>3, LenProperties, SeqDef
<1>6. QED
  BY <1>1, <1>2, <1>4, <1>5 DEF ListOf, t

LEMMA ListOfFront ==
    ASSUME NEW X, NEW s, ListOf(s, X), s /= <<>>
    PROVE  ListOf(Front(s), X)
<1>1. PICK n \in Nat : n + 1 = Len(s)
  <2>1. Len(s) \in Nat \ {0}
    BY EmptySeq DEF ListOf
  <2>2. Len(s) - 1 \in Nat /\ (Len(s) - 1) + 1 = Len(s)
    BY <2>1
  <2>3. QED
    BY <2>2
<1>2. /\ \A i \in 1..n : s[i] \in X
      /\ \A i, j \in 1..n : i /= j => s[i] /= s[j]
  BY <1>1, ElementOfSeq DEF ListOf
<1> DEFINE f == SubSeq(s, 1, n)
<1>3. /\ f \in Seq(X)
      /\ Len(f) = IF 1 <= n THEN n - 1 + 1 ELSE 0
      /\ \A i \in 1..(n - 1 + 1) : f[i] = s[1 + i - 1]
  BY <1>2, SubSeqProperties
<1>4. Front(s) = f
  BY <1>1 DEF Front
<1> HIDE DEF f
<1>5. Len(f) = n /\ \A i \in 1..n : f[i] = s[i]
  BY <1>3
<1>6. QED
  BY <1>2, <1>3, <1>4, <1>5, SMTT(30) DEF ListOf

LEMMA ListOfRemoveAt ==
    ASSUME NEW X, NEW s, ListOf(s, X), NEW k \in 1..Len(s)
    PROVE  ListOf(RemoveAt(s, k), X)
<1> DEFINE a == SubSeq(s, 1, k - 1)
           b == SubSeq(s, k + 1, Len(s))
<1>1. /\ Len(s) \in Nat
      /\ \A i \in 1..Len(s) : s[i] \in X
      /\ \A i, j \in 1..Len(s) : i /= j => s[i] /= s[j]
  BY LenProperties, ElementOfSeq DEF ListOf
<1>2. /\ a \in Seq(X) /\ Len(a) = k - 1
      /\ \A i \in 1..(k - 1) : a[i] = s[i]
  <2>1. \A i \in 1..(k - 1) : s[i] \in X
    BY <1>1
  <2>2. /\ a \in Seq(X)
        /\ Len(a) = IF 1 <= k - 1 THEN k - 1 - 1 + 1 ELSE 0
        /\ \A i \in 1..(k - 1 - 1 + 1) : a[i] = s[1 + i - 1]
    BY <1>1, <2>1, SubSeqProperties
  <2> HIDE DEF a
  <2>3. QED
    BY <1>1, <2>2
<1>3. /\ b \in Seq(X) /\ Len(b) = Len(s) - k
      /\ \A i \in 1..(Len(s) - k) : b[i] = s[k + i]
  <2>1. \A i \in (k + 1)..Len(s) : s[i] \in X
    BY <1>1
  <2>2. /\ b \in Seq(X)
        /\ Len(b) = IF k + 1 <= Len(s) THEN Len(s) - (k + 1) + 1 ELSE 0
        /\ \A i \in 1..(Len(s) - (k + 1) + 1) : b[i] = s[k + 1 + i - 1]
    BY <1>1, <2>1, SubSeqProperties
  <2> HIDE DEF b
  <2>3. QED
    BY <1>1, <2>2
<1> HIDE DEF a, b
<1> DEFINE r == a \o b
<1>4. /\ r \in Seq(X) /\ Len(r) = Len(a) + Len(b)
      /\ \A i \in 1..(Len(a) + Len(b)) :
            r[i] = IF i <= Len(a) THEN a[i] ELSE b[i - Len(a)]
  BY <1>2, <1>3, ConcatProperties
<1> HIDE DEF r
<1>5. Len(r) = Len(s) - 1
  BY <1>1, <1>2, <1>3, <1>4
<1> DEFINE at(i) == IF i < k THEN i ELSE i + 1
<1>6. ASSUME NEW i \in 1..Len(r)
      PROVE  at(i) \in 1..Len(s) /\ r[i] = s[at(i)]
  <2>1. CASE i < k
    <3>1. i \in 1..(k - 1) /\ i <= Len(a) /\ i \in 1..(Len(a) + Len(b))
      BY <1>1, <1>2, <1>3, <1>5, <2>1
    <3>2. QED
      BY <1>1, <1>2, <1>4, <2>1, <3>1
  <2>2. CASE ~(i < k)
    <3>1. /\ i - Len(a) \in 1..(Len(s) - k)
          /\ k + (i - Len(a)) = i + 1
          /\ ~(i <= Len(a)) /\ i \in 1..(Len(a) + Len(b))
      BY <1>1, <1>2, <1>3, <1>5, <2>2
    <3>2. r[i] = b[i - Len(a)] /\ b[i - Len(a)] = s[k + (i - Len(a))]
      BY <1>3, <1>4, <3>1
    <3>3. QED
      BY <1>1, <1>5, <2>2, <3>1, <3>2
  <2>3. QED
    BY <2>1, <2>2
<1>7. ASSUME NEW i \in 1..Len(r), NEW j \in 1..Len(r), i /= j
      PROVE  r[i] /= r[j]
  <2>1. at(i) /= at(j)
    BY <1>1, <1>5, <1>7
  <2> HIDE DEF at
  <2>2. QED
    BY <1>1, <1>6, <2>1
<1>8. ListOf(r, X)
  BY <1>4, <1>7 DEF ListOf
<1>9. QED
  BY <1>8 DEF RemoveAt, r, a, b

\* The lists SetToSeqs makes of a finite set.
LEMMA SetToSeqsLists ==
    ASSUME NEW S, IsFiniteSet(S), NEW s \in SetToSeqs(S)
    PROVE  ListOf(s, S)
<1>1. Cardinality(S) \in Nat
  BY FS_CardinalityType
<1>2. /\ s \in [1..Cardinality(S) -> S]
      /\ \A i, j \in 1..Cardinality(S) : i /= j => s[i] /= s[j]
  BY DEF SetToSeqs
<1>3. s \in Seq(S) /\ Len(s) = Cardinality(S)
  BY <1>1, <1>2, SeqDef, LenProperties
<1>4. QED
  BY <1>2, <1>3 DEF ListOf

\* A set of naturals has a least element.
LEMMA NatLess == \E R : IsWellFoundedOn(R, Nat) /\ R = {ss \in Nat \X Nat : ss[1] < ss[2]}
<1> DEFINE R == OpToRel(<, Nat)
<1>1. R = {ss \in Nat \X Nat : ss[1] < ss[2]}
  BY Zenon DEF OpToRel
<1>2. IsWellFoundedOn(R, Nat)
  BY NatLessThanWellFounded
<1> HIDE DEF R
<1>3. QED
  BY <1>1, <1>2

LEMMA LeastNatural ==
    ASSUME NEW S, S \subseteq Nat, S /= {}
    PROVE  \E x \in S : \A y \in S : x <= y
<1>1. PICK R : IsWellFoundedOn(R, Nat) /\ R = {ss \in Nat \X Nat : ss[1] < ss[2]}
  BY NatLess
<1>2. PICK x \in S : \A y \in S : ~(<<y, x>> \in R)
  BY <1>1, WFMin
<1>3. ASSUME NEW y \in S
      PROVE  x <= y
  <2>1. x \in Nat /\ y \in Nat
    OBVIOUS
  <2>2. ASSUME y < x
        PROVE  FALSE
    <3> DEFINE z == <<y, x>>
    <3>1. z \in Nat \X Nat /\ z[1] < z[2]
      BY <2>1, <2>2
    <3>2. z \in R
      BY <1>1, <3>1
    <3>3. QED
      BY <1>2, <3>2
  <2>3. QED
    BY <2>1, <2>2
<1>4. QED
  BY <1>3

\* What FirstLimit finds is a place of the list.
LEMMA FirstLimitInList ==
    ASSUME NEW p, NEW list, Len(list) \in Nat, FirstLimit(p, list) /= 0
    PROVE  FirstLimit(p, list) \in 1..Len(list)
<1> DEFINE I == {i \in 1..Len(list) : RowOf(p, list[i]).price /= Market}
<1>1. FirstLimit(p, list) = IF I /= {} THEN Min(I) ELSE 0
  BY DEF FirstLimit, SelectInSeq
<1>2. I \subseteq Nat /\ I \subseteq 1..Len(list)
  OBVIOUS
<1> HIDE DEF I
<1>3. CASE I /= {}
  <2>1. \E x \in I : \A y \in I : x <= y
    BY <1>2, <1>3, LeastNatural
  <2>2. Min(I) \in I
    BY <2>1 DEF Min
  <2>3. QED
    BY <1>1, <1>2, <1>3, <2>2
<1>4. QED
  BY <1>1, <1>3

-----------------------------------------------------------------------------
\* What is left to settle concerns the orders of X, and a match a market order.

OpOver(r, X) ==
    /\ r.o \in X /\ r.with \in X
    /\ r.op = "match" => IsMarket(r.o)

OpsOver(s, X) == \E R : s \in Seq(R) /\ \A r \in R : OpOver(r, X)

LEMMA NoOps == ASSUME NEW X PROVE OpsOver(<<>>, X)
<1>1. PICK R : R = {}
  OBVIOUS
<1>2. <<>> \in Seq(R)
  BY EmptySeq
<1>3. QED
  BY <1>1, <1>2 DEF OpsOver

LEMMA OneOp ==
    ASSUME NEW X, NEW r, OpOver(r, X)
    PROVE  OpsOver(<<r>>, X)
<1>1. PICK R : R = {r}
  OBVIOUS
<1>2. <<r>> \in Seq(R) /\ \A x \in R : OpOver(x, X)
  BY <1>1
<1>3. QED
  BY <1>2 DEF OpsOver

LEMMA MoreOps ==
    ASSUME NEW X, NEW s, NEW t, OpsOver(s, X), OpsOver(t, X)
    PROVE  OpsOver(s \o t, X)
<1>1. PICK R : s \in Seq(R) /\ \A r \in R : OpOver(r, X)
  BY DEF OpsOver
<1>2. PICK Q : t \in Seq(Q) /\ \A r \in Q : OpOver(r, X)
  BY DEF OpsOver
<1>3. s \in Seq(R \cup Q) /\ t \in Seq(R \cup Q)
  BY <1>1, <1>2, SeqMonotonic
<1>4. s \o t \in Seq(R \cup Q)
  BY <1>3, ConcatProperties
<1>5. QED
  BY <1>1, <1>2, <1>4 DEF OpsOver

LEMMA FewerOps ==
    ASSUME NEW X, NEW s, OpsOver(s, X), s /= <<>>
    PROVE  OpOver(Head(s), X) /\ OpsOver(Tail(s), X)
<1>1. PICK R : s \in Seq(R) /\ \A r \in R : OpOver(r, X)
  BY DEF OpsOver
<1>2. Head(s) \in R /\ Tail(s) \in Seq(R)
  BY <1>1, HeadTailProperties
<1>3. QED
  BY <1>1, <1>2 DEF OpsOver

LEMMA OpsWider ==
    ASSUME NEW X, NEW Y, NEW s, OpsOver(s, X), X \subseteq Y
    PROVE  OpsOver(s, Y)
<1>1. PICK R : s \in Seq(R) /\ \A r \in R : OpOver(r, X)
  BY DEF OpsOver
<1>2. \A r \in R : OpOver(r, Y)
  BY <1>1 DEF OpOver
<1>3. QED
  BY <1>1, <1>2 DEF OpsOver

LEMMA SettlementOps ==
    ASSUME NEW X, NEW o \in X, NEW a
    PROVE  /\ OpsOver(Refund(o, a), X)
           /\ OpsOver(Release(o, a), X)
           /\ OpsOver(ReleaseAll(o), X)
           /\ OpsOver(Hdel(o), X)
           /\ OpsOver(Hset(o), X)
           /\ OpsOver(Break(o), X)
           /\ OpsOver(settlementCredit(o, a), X)
           /\ OpsOver(<<Op("write", o, a)>>, X)
           /\ OpsOver(<<Op("writeAll", o, a)>>, X)
<1>1. /\ OpOver(Op("refund", o, a), X)
      /\ OpOver(Op("release", o, a), X)
      /\ OpOver(Op("releaseAll", o, 0), X)
      /\ OpOver(Op("hdel", o, 0), X)
      /\ OpOver(Op("hset", o, 0), X)
      /\ OpOver(Op("break", o, 0), X)
      /\ OpOver(Op("credit", o, a), X)
      /\ OpOver(Op("write", o, a), X)
      /\ OpOver(Op("writeAll", o, a), X)
  BY DEF OpOver, Op
<1>2. QED
  BY <1>1, NoOps, OneOp
     DEF Refund, Release, ReleaseAll, Hdel, Hset, Break, settlementCredit

-----------------------------------------------------------------------------
\* A row of the book.

RowOver(V) == [qty : V, price : V, value : V, released : V]
HasFields(r) == \E V : r \in RowOver(V)
RowOK(o, r) == HasFields(r) /\ (r.price = Market => IsMarket(o))

LEMMA FieldsMake ==
    ASSUME NEW a, NEW b, NEW c, NEW d
    PROVE  HasFields([qty |-> a, price |-> b, value |-> c, released |-> d])
<1>1. PICK V : V = {a, b, c, d}
  OBVIOUS
<1>2. [qty |-> a, price |-> b, value |-> c, released |-> d] \in RowOver(V)
  BY <1>1 DEF RowOver
<1>3. QED
  BY <1>2 DEF HasFields

LEMMA NewRowOK ==
    ASSUME NEW o \in Orders
    PROVE  /\ RowOK(o, LimitRow(o))
           /\ IsMarket(o) => RowOK(o, MarketRow(o))
<1>1. Request[o].price \in Nat \ {0}
  BY RequestAssumption
<1>2. HasFields(LimitRow(o)) /\ HasFields(MarketRow(o))
  BY FieldsMake DEF LimitRow, MarketRow
<1>3. LimitRow(o).price /= Market
  BY <1>1 DEF LimitRow, Market
<1>4. QED
  BY <1>2, <1>3 DEF RowOK

\* A row keeps its fields when some of them are set, and its price unless that is.
LEMMA FieldsKept ==
    ASSUME NEW r, HasFields(r), NEW a, NEW b, NEW c
    PROVE  /\ HasFields([r EXCEPT !.qty = a])
           /\ [r EXCEPT !.qty = a].price = r.price
           /\ HasFields([r EXCEPT !.released = a])
           /\ [r EXCEPT !.released = a].price = r.price
           /\ HasFields([r EXCEPT !.price = a])
           /\ HasFields([r EXCEPT !.value = a])
<1>1. PICK U : r \in RowOver(U)
  BY DEF HasFields
<1>2. PICK V : V = U \cup {a}
  OBVIOUS
<1>3. /\ [r EXCEPT !.qty = a] \in RowOver(V)
      /\ [r EXCEPT !.released = a] \in RowOver(V)
      /\ [r EXCEPT !.price = a] \in RowOver(V)
      /\ [r EXCEPT !.value = a] \in RowOver(V)
      /\ [r EXCEPT !.qty = a].price = r.price
      /\ [r EXCEPT !.released = a].price = r.price
  BY <1>1, <1>2 DEF RowOver
<1>4. QED
  BY <1>3 DEF HasFields

LEMMA FieldsKeptTogether ==
    ASSUME NEW r, HasFields(r), NEW a, NEW b, NEW c
    PROVE  /\ HasFields([r EXCEPT !.qty = a, !.price = b])
           /\ HasFields([r EXCEPT !.qty = a, !.value = b, !.price = c])
<1>1. HasFields([r EXCEPT !.qty = a])
  BY FieldsKept
<1>2. HasFields([[r EXCEPT !.qty = a] EXCEPT !.price = b])
  BY <1>1, FieldsKept
<1>3. HasFields([[r EXCEPT !.qty = a] EXCEPT !.value = b])
  BY <1>1, FieldsKept
<1>4. HasFields([[[r EXCEPT !.qty = a] EXCEPT !.value = b] EXCEPT !.price = c])
  BY <1>3, FieldsKept
<1>5. QED
  BY <1>2, <1>4

-----------------------------------------------------------------------------
\* What a fill does to one side: the row it leaves is a row of that order, and
\* the commands it queues concern that order only.

LEMMA LimitSideOK ==
    ASSUME NEW X, NEW o \in X, NEW row, RowOK(o, row), NEW e, NEW price
    PROVE  /\ RowOK(o, LimitSide(o, row, e, price).row)
           /\ OpsOver(LimitSide(o, row, e, price).ops, X)
<1> DEFINE left == toFixedDown(row.qty - e)
           used == e * (IF IsBuy(o) THEN row.price ELSE 1)
           improved == IF IsBuy(o) THEN Refund(o, e * (row.price - price)) ELSE <<>>
           settled == IF left = 0
              THEN ReleaseAll(o)
                   \o Refund(o, unspentReservationOf(o, row, used)) \o Hdel(o)
              ELSE Release(o, used) \o Hdel(o) \o Hset(o)
<1>1. /\ LimitSide(o, row, e, price).row = [row EXCEPT !.qty = left]
      /\ LimitSide(o, row, e, price).ops = improved \o settled
  BY DEF LimitSide
<1>2. RowOK(o, [row EXCEPT !.qty = left])
  BY FieldsKept DEF RowOK
<1>3. OpsOver(improved, X)
  BY NoOps, SettlementOps
<1>4. OpsOver(settled, X)
  <2>1. OpsOver(ReleaseAll(o) \o Refund(o, unspentReservationOf(o, row, used))
                \o Hdel(o), X)
    BY MoreOps, SettlementOps
  <2>2. OpsOver(Release(o, used) \o Hdel(o) \o Hset(o), X)
    BY MoreOps, SettlementOps
  <2>3. QED
    BY <2>1, <2>2
<1> HIDE DEF left, used, improved, settled
<1>5. QED
  BY <1>1, <1>2, <1>3, <1>4, MoreOps

LEMMA LadderSideOK ==
    ASSUME NEW X, NEW o \in X, NEW row, RowOK(o, row), NEW e
    PROVE  /\ RowOK(o, LadderSide(o, row, e).row)
           /\ OpsOver(LadderSide(o, row, e).ops, X)
<1> DEFINE left == toFixedDown(row.qty - e)
<1>1. /\ LadderSide(o, row, e).row = [row EXCEPT !.qty = left]
      /\ LadderSide(o, row, e).ops = IF left = 0 THEN Hdel(o) ELSE Hdel(o) \o Hset(o)
  BY DEF LadderSide
<1>2. RowOK(o, [row EXCEPT !.qty = left])
  BY FieldsKept DEF RowOK
<1>3. OpsOver(Hdel(o), X) /\ OpsOver(Hdel(o) \o Hset(o), X)
  BY MoreOps, SettlementOps
<1> HIDE DEF left
<1>4. QED
  BY <1>1, <1>2, <1>3

LEMMA MarketBuySideOK ==
    ASSUME NEW X, NEW o \in X, NEW row, RowOK(o, row), IsMarket(o),
           NEW e, NEW price, NEW others
    PROVE  /\ RowOK(o, MarketBuySide(o, row, e, price, others).row)
           /\ OpsOver(MarketBuySide(o, row, e, price, others).ops, X)
<1> DEFINE value == row.value - e * price
           done == toFixedDown(row.qty - e) = 0
           stays == others \/ value = 0
           left == IF ~done /\ stays THEN Market ELSE price
<1>1. /\ MarketBuySide(o, row, e, price, others).row =
             [row EXCEPT !.qty = 0, !.value = value, !.price = left]
      /\ MarketBuySide(o, row, e, price, others).ops =
             IF ~done /\ stays THEN Hdel(o) \o Hset(o)
             ELSE Refund(o, value) \o Hdel(o)
  BY DEF MarketBuySide
<1>2. RowOK(o, [row EXCEPT !.qty = 0, !.value = value, !.price = left])
  BY FieldsKeptTogether DEF RowOK
<1>3. OpsOver(Hdel(o) \o Hset(o), X) /\ OpsOver(Refund(o, value) \o Hdel(o), X)
  BY MoreOps, SettlementOps
<1> HIDE DEF value, done, stays, left
<1>4. QED
  BY <1>1, <1>2, <1>3

LEMMA MarketSellSideOK ==
    ASSUME NEW X, NEW o \in X, NEW row, RowOK(o, row), IsMarket(o),
           NEW e, NEW others
    PROVE  /\ RowOK(o, MarketSellSide(o, row, e, others).row)
           /\ OpsOver(MarketSellSide(o, row, e, others).ops, X)
<1> DEFINE left == toFixedDown(row.qty - e)
<1>1. /\ MarketSellSide(o, row, e, others).row =
             IF left = 0 THEN [row EXCEPT !.qty = 0]
             ELSE [row EXCEPT !.qty = left, !.value = left, !.price = Market]
      /\ MarketSellSide(o, row, e, others).ops =
             IF left = 0 THEN Hdel(o)
             ELSE IF others THEN Hdel(o) \o Hset(o)
             ELSE Refund(o, row.qty - e) \o Hdel(o)
  BY DEF MarketSellSide
<1>2. /\ RowOK(o, [row EXCEPT !.qty = 0])
      /\ RowOK(o, [row EXCEPT !.qty = left, !.value = left, !.price = Market])
  BY FieldsKept, FieldsKeptTogether DEF RowOK
<1>3. /\ OpsOver(Hdel(o), X)
      /\ OpsOver(Hdel(o) \o Hset(o), X)
      /\ OpsOver(Refund(o, row.qty - e) \o Hdel(o), X)
  BY MoreOps, SettlementOps
<1> HIDE DEF left
<1>4. QED
  BY <1>1, <1>2, <1>3

LEMMA FillSideOK ==
    ASSUME NEW X, NEW o \in X, X \subseteq Orders, NEW row, RowOK(o, row),
           NEW e, NEW price, NEW others
    PROVE  /\ RowOK(o, FillSide(o, row, e, price, others).row)
           /\ OpsOver(FillSide(o, row, e, price, others).ops, X)
<1>1. CASE IsLadder(o)
  <2>1. ~IsLimit(o) /\ ~IsMarket(o)
    BY <1>1 DEF IsLadder, IsLimit, IsMarket
  <2>2. FillSide(o, row, e, price, others) = LadderSide(o, row, e)
    BY <1>1, <2>1 DEF FillSide
  <2>3. QED
    BY <2>2, LadderSideOK
<1>2. CASE IsLimit(o)
  <2>1. ~IsLadder(o) /\ ~IsMarket(o)
    BY <1>2 DEF IsLadder, IsLimit, IsMarket
  <2>2. FillSide(o, row, e, price, others) = LimitSide(o, row, e, price)
    BY <1>2, <2>1 DEF FillSide
  <2>3. QED
    BY <2>2, LimitSideOK
<1>3. CASE IsMarket(o)
  <2>1. ~IsLadder(o) /\ ~IsLimit(o)
    BY <1>3 DEF IsLadder, IsLimit, IsMarket
  <2>2. CASE IsBuy(o)
    <3>1. FillSide(o, row, e, price, others) = MarketBuySide(o, row, e, price, others)
      BY <1>3, <2>1, <2>2 DEF FillSide
    <3>2. QED
      BY <1>3, <3>1, MarketBuySideOK
  <2>3. CASE ~IsBuy(o)
    <3>1. FillSide(o, row, e, price, others) = MarketSellSide(o, row, e, others)
      BY <1>3, <2>1, <2>3 DEF FillSide
    <3>2. QED
      BY <1>3, <3>1, MarketSellSideOK
  <2>4. QED
    BY <2>2, <2>3
<1>4. IsLadder(o) \/ IsLimit(o) \/ IsMarket(o)
  BY RequestAssumption DEF IsLadder, IsLimit, IsMarket
<1>5. QED
  BY <1>1, <1>2, <1>3, <1>4

-----------------------------------------------------------------------------
\* The inductive invariant.

OnePair == \A p, q \in Pairs : p = q

\* The order has been written to the book at some time.
Listed(o) == place[o] = "resting" \/ IsLadder(o)

\* A claim has taken the row; what is in the book has been put there.
OrdersInv ==
    /\ book = [o \in Orders |-> book[o]]
    /\ place = [o \in Orders |-> place[o]]
    /\ claim = [o \in Orders |-> claim[o]]
    /\ \A o \in Orders :
          /\ book[o] /= NoRow => Listed(o) /\ RowOK(o, book[o])
          /\ claim[o] /= NoClaim =>
                book[o] = NoRow /\ place[o] = "resting" /\ ~IsLadder(o)

\* What a tick may hold: orders that are listed, unclaimed, and have a row in it.
Held(p) == {o \in Orders : /\ claim[o] = NoClaim /\ Listed(o)
                          /\ RowOK(o, tick[p].rows[o])}
Bids(p) == {o \in Held(p) : IsBuy(o)}
Asks(p) == {o \in Held(p) : ~IsBuy(o)}

TickShape(p) ==
    /\ tick[p] = [at |-> tick[p].at, buys |-> tick[p].buys, sells |-> tick[p].sells,
                  rows |-> tick[p].rows, todo |-> tick[p].todo]
    /\ tick[p].rows = [o \in Orders |-> tick[p].rows[o]]
    /\ tick[p].at \in {"idle", "fetching", "synced", "armed", "read", "matching",
                       "breaking", "spinning"}

\* The latch is the pair's for as long as the tick relies on what it has read.
LatchInv(p) ==
    tick[p].at \in {"armed", "read", "matching", "breaking"} => tradePair = p

IdleInv(p) ==
    /\ tick[p].at \in {"idle", "fetching", "synced"} =>
          \A o \in Orders : tick[p].rows[o] = NoRow
    /\ tick[p].at /= "matching" => tick[p].todo = <<>>

ReadInv(p) ==
    tick[p].at \in {"armed", "read"} =>
        \A o \in Orders : tick[p].rows[o] /= NoRow => o \in Held(p)

MatchInv(p) ==
    tick[p].at \in {"matching", "breaking"} =>
        /\ ListOf(tick[p].buys, Bids(p))
        /\ ListOf(tick[p].sells, Asks(p))
        /\ OpsOver(tick[p].todo, Held(p))

TickInv(p) == TickShape(p) /\ LatchInv(p) /\ IdleInv(p) /\ ReadInv(p) /\ MatchInv(p)

MatcherInv ==
    /\ OrdersInv
    /\ tick = [p \in Pairs |-> tick[p]]
    /\ \A p \in Pairs : TickInv(p)

LEMMA MatcherInvInitially == Init => MatcherInv
<1> SUFFICES ASSUME Init PROVE MatcherInv
  OBVIOUS
<1>1. OrdersInv
  BY DEF Init, OrdersInv
<1>2. tick = [p \in Pairs |-> tick[p]]
  BY DEF Init
<1>3. ASSUME NEW p \in Pairs PROVE TickInv(p)
  <2>1. tick[p] = IdleTick
    BY DEF Init
  <2>2. QED
    BY <2>1 DEF IdleTick, TickInv, TickShape, LatchInv, IdleInv, ReadInv, MatchInv
<1>4. QED
  BY <1>1, <1>2, <1>3 DEF MatcherInv

LEMMA ClaimsAreExclusiveHolds == MatcherInv => ClaimsAreExclusive
<1> SUFFICES ASSUME MatcherInv, NEW o \in Orders, claim[o] /= NoClaim
             PROVE  book[o] = NoRow /\ \A p \in Pairs : o \notin Handled(p)
  BY DEF ClaimsAreExclusive
<1>1. book[o] = NoRow
  BY DEF MatcherInv, OrdersInv
<1>2. ASSUME NEW p \in Pairs PROVE o \notin Handled(p)
  <2>1. TickInv(p) /\ o \notin Held(p)
    BY DEF MatcherInv, Held
  <2>2. CASE tick[p].at \in {"armed", "read"}
    BY <2>1, <2>2 DEF Handled, TickInv, ReadInv
  <2>3. CASE tick[p].at \in {"matching", "breaking"}
    <3>1. /\ tick[p].buys \in Seq(Held(p)) /\ tick[p].sells \in Seq(Held(p))
      BY <2>1, <2>3, SeqMonotonic DEF TickInv, MatchInv, ListOf, Bids, Asks
    <3>2. o \notin ToSet(tick[p].buys) /\ o \notin ToSet(tick[p].sells)
      BY <2>1, <3>1, ElementOfSeq, LenProperties DEF ToSet
    <3>3. PICK R : tick[p].todo \in Seq(R) /\ \A r \in R : OpOver(r, Held(p))
      BY <2>1, <2>3 DEF TickInv, MatchInv, OpsOver
    <3>4. \A op \in ToSet(tick[p].todo) : op.o /= o /\ op.with /= o
      BY <2>1, <3>3, ElementOfSeq, LenProperties DEF ToSet, OpOver
    <3>5. QED
      BY <2>3, <3>2, <3>4 DEF Handled
  <2>4. QED
    BY <2>2, <2>3 DEF Handled
<1>3. QED
  BY <1>1, <1>2

-----------------------------------------------------------------------------
\* What the steps have in common.

\* Steps that neither take a row, nor claim, nor touch the tick.
LEMMA TicksKept ==
    ASSUME MatcherInv, tick' = tick, tradePair' = tradePair,
           \A o \in Orders : claim[o] = NoClaim => claim'[o] = NoClaim,
           \A o \in Orders : Listed(o) => Listed(o)'
    PROVE  \A p \in Pairs : TickInv(p)'
<1> SUFFICES ASSUME NEW p \in Pairs PROVE TickInv(p)'
  OBVIOUS
<1>1. Held(p) \subseteq Held(p)' /\ Bids(p) \subseteq Bids(p)' /\ Asks(p) \subseteq Asks(p)'
  BY DEF Held, Bids, Asks
<1>2. TickInv(p)
  BY DEF MatcherInv
<1>3. TickShape(p)' /\ LatchInv(p)' /\ IdleInv(p)'
  BY <1>2 DEF TickInv, TickShape, LatchInv, IdleInv
<1>4. ReadInv(p)'
  BY <1>1, <1>2 DEF TickInv, ReadInv
<1>5. MatchInv(p)'
  BY <1>1, <1>2, ListOfWider, OpsWider DEF TickInv, MatchInv
<1>6. QED
  BY <1>3, <1>4, <1>5 DEF TickInv

\* Steps of a matching tick that claim nothing: what it held it still holds.
LEMMA StillMatching ==
    ASSUME NEW p \in Pairs, place' = place, claim' = claim,
           \A o \in Held(p) : RowOK(o, tick'[p].rows[o]),
           ListOf(tick'[p].buys, Bids(p)), ListOf(tick'[p].sells, Asks(p)),
           OpsOver(tick'[p].todo, Held(p))
    PROVE  MatchInv(p)'
<1>1. Held(p) \subseteq Held(p)' /\ Bids(p) \subseteq Bids(p)' /\ Asks(p) \subseteq Asks(p)'
  BY DEF Held, Bids, Asks, Listed
<1>2. QED
  BY <1>1, ListOfWider, OpsWider DEF MatchInv

LEMMA MatchingGoesOn ==
    ASSUME MatcherInv, OnePair, NEW p \in Pairs, tick[p].at = "matching",
           OrdersInv', place' = place, claim' = claim, tradePair' = tradePair,
           NEW buys, NEW sells, NEW rows, NEW todo,
           tick' = [q \in Pairs |-> tick'[q]],
           tick'[p] = [at |-> "matching", buys |-> buys, sells |-> sells,
                       rows |-> rows, todo |-> todo],
           rows = [o \in Orders |-> rows[o]],
           \A o \in Held(p) : RowOK(o, rows[o]),
           ListOf(buys, Bids(p)), ListOf(sells, Asks(p)), OpsOver(todo, Held(p))
    PROVE  MatcherInv'
<1>1. /\ tick'[p].at = "matching" /\ tick'[p].rows = rows /\ tick'[p].todo = todo
      /\ tick'[p].buys = buys /\ tick'[p].sells = sells
  OBVIOUS
<1>2. MatchInv(p)'
  <2>1. /\ \A o \in Held(p) : RowOK(o, tick'[p].rows[o])
        /\ ListOf(tick'[p].buys, Bids(p)) /\ ListOf(tick'[p].sells, Asks(p))
        /\ OpsOver(tick'[p].todo, Held(p))
    BY <1>1
  <2>2. QED
    BY <2>1, StillMatching
<1>3. TickShape(p)' /\ IdleInv(p)' /\ ReadInv(p)'
  BY <1>1 DEF TickShape, IdleInv, ReadInv
<1>4. LatchInv(p)'
  BY DEF MatcherInv, TickInv, LatchInv
<1>5. QED
  BY <1>2, <1>3, <1>4 DEF MatcherInv, TickInv, OnePair

\* A claim wins rows of listed orders only, and nobody holds the row after it.
LEMMA ClaimTakes ==
    ASSUME OrdersInv, NEW S, NEW by, Claim(S, by), place' = place,
           \A o \in S \cap Orders : ~IsLadder(o)
    PROVE  /\ OrdersInv'
           /\ \A o \in Orders \ S : claim'[o] = claim[o]
<1>1. /\ book' = [o \in Orders |-> book'[o]]
      /\ claim' = [o \in Orders |-> claim'[o]]
      /\ \A o \in Orders :
            /\ book'[o] = IF o \in S /\ book[o] /= NoRow THEN NoRow ELSE book[o]
            /\ ~(o \in S /\ book[o] /= NoRow) => claim'[o] = claim[o]
  BY DEF Claim
<1>2. ASSUME NEW o \in Orders
      PROVE  /\ book'[o] /= NoRow => Listed(o)' /\ RowOK(o, book'[o])
             /\ claim'[o] /= NoClaim =>
                   book'[o] = NoRow /\ place'[o] = "resting" /\ ~IsLadder(o)
  BY <1>1 DEF OrdersInv, Listed
<1>3. QED
  BY <1>1, <1>2 DEF OrdersInv

-----------------------------------------------------------------------------
\* Placing and cancelling.

LEMMA PlacingKeeps ==
    ASSUME MatcherInv, NEW o \in Orders,
           DebitLimit(o) \/ DebitMarket(o) \/ PlaceStep(o)
    PROVE  MatcherInv'
<1>1. tick' = tick /\ tradePair' = tradePair /\ claim' = claim
  BY DEF DebitLimit, DebitMarket, Debit, PlaceStep, Reserve, ListLimit, ListMarket,
         List, matcher
<1>2. place[o] /= "resting" /\ ~IsLadder(o)
  <2>1. place[o] \in {"new", "debited", "reserved"}
    BY DEF DebitLimit, DebitMarket, Debit, PlaceStep, Reserve, ListLimit, ListMarket,
           Placing
  <2>2. IsLimit(o) \/ IsMarket(o)
    BY DEF DebitLimit, DebitMarket, PlaceStep, Reserve, ListLimit, ListMarket
  <2>3. QED
    BY <2>1, <2>2 DEF IsLimit, IsMarket, IsLadder
<1>3. book[o] = NoRow /\ claim[o] = NoClaim
  BY <1>2 DEF MatcherInv, OrdersInv, Listed
<1>4. /\ place' = [q \in Orders |-> place'[q]]
      /\ \A q \in Orders : q /= o => place'[q] = place[q]
  BY DEF DebitLimit, DebitMarket, Debit, PlaceStep, Reserve, ListLimit, ListMarket,
         List, MatcherInv, OrdersInv
<1>5. \/ book' = book
      \/ /\ place'[o] = "resting"
         /\ \/ book' = [book EXCEPT ![o] = LimitRow(o)]
            \/ book' = [book EXCEPT ![o] = MarketRow(o)] /\ IsMarket(o)
  BY DEF DebitLimit, DebitMarket, Debit, PlaceStep, Reserve, ListLimit, ListMarket,
         List, MatcherInv, OrdersInv
<1>6. /\ book' = [q \in Orders |-> book'[q]]
      /\ \A q \in Orders : q /= o => book'[q] = book[q]
      /\ book'[o] /= NoRow => place'[o] = "resting" /\ RowOK(o, book'[o])
  BY <1>3, <1>5, NewRowOK DEF MatcherInv, OrdersInv
<1>7. OrdersInv'
  BY <1>1, <1>2, <1>3, <1>4, <1>6 DEF MatcherInv, OrdersInv, Listed
<1>8. \A p \in Pairs : TickInv(p)'
  BY <1>1, <1>2, <1>4, TicksKept DEF Listed
<1>9. QED
  BY <1>1, <1>7, <1>8 DEF MatcherInv

LEMMA ClaimStepKeeps ==
    ASSUME MatcherInv, NEW o \in Orders, ClaimStep(o)
    PROVE  MatcherInv'
<1>1. /\ tick' = tick /\ tradePair' = tradePair /\ book' = book /\ place' = place
      /\ claim' = [q \in Orders |-> claim'[q]]
      /\ \A q \in Orders : q /= o => claim'[q] = claim[q]
  BY DEF ClaimStep, ClaimRefund, ClaimReadInOrder, ClaimWriteInOrder, matcher,
         MatcherInv, OrdersInv
<1>2. claim[o] /= NoClaim
  BY DEF ClaimStep, ClaimRefund, ClaimReadInOrder, ClaimWriteInOrder, Claiming, NoClaim
<1>3. OrdersInv'
  BY <1>1, <1>2 DEF MatcherInv, OrdersInv, Listed
<1>4. \A p \in Pairs : TickInv(p)'
  BY <1>1, <1>2, TicksKept DEF Listed
<1>5. QED
  BY <1>1, <1>3, <1>4 DEF MatcherInv

\* The latch refuses the cancel while the tick of the pair holds what it has read.
LEMMA CancelOrderKeeps ==
    ASSUME MatcherInv, OnePair, NEW o \in Orders, CancelOrder(o)
    PROVE  MatcherInv'
<1>1. /\ tick' = tick /\ tradePair' = tradePair /\ place' = place
      /\ Claim({o}, "owner") /\ ~IsLadder(o) /\ tradePair /= pair(o)
  BY DEF CancelOrder, matcher
<1>2. OrdersInv'
  BY <1>1, ClaimTakes DEF MatcherInv
<1>3. ASSUME NEW p \in Pairs PROVE TickInv(p)'
  <2>1. p = pair(o)
    BY RequestAssumption DEF OnePair, pair
  <2>2. TickInv(p)
    BY DEF MatcherInv
  <2>3. tick[p].at \notin {"armed", "read", "matching", "breaking"}
    BY <1>1, <2>1, <2>2 DEF TickInv, LatchInv
  <2>4. QED
    BY <1>1, <2>2, <2>3
       DEF TickInv, TickShape, LatchInv, IdleInv, ReadInv, MatchInv
<1>4. QED
  BY <1>1, <1>2, <1>3 DEF MatcherInv

-----------------------------------------------------------------------------
\* A tick up to the matching loop, and its end.

LEMMA StartTickKeeps ==
    ASSUME MatcherInv, OnePair, NEW p \in Pairs, StartTick(p)
    PROVE  MatcherInv'
<1>1. TickInv(p) /\ tick = [q \in Pairs |-> tick[q]] /\ tick[p].at = "idle"
  BY DEF MatcherInv, StartTick, At
<1>2. /\ tick' = [q \in Pairs |-> tick'[q]]
      /\ tick'[p] = [at |-> "fetching", buys |-> tick[p].buys, sells |-> tick[p].sells,
                     rows |-> tick[p].rows, todo |-> tick[p].todo]
  BY <1>1 DEF StartTick, TickInv, TickShape
<1>3. OrdersInv'
  BY DEF StartTick, MatcherInv, OrdersInv, Listed
<1>4. TickInv(p)'
  BY <1>1, <1>2 DEF TickInv, TickShape, LatchInv, IdleInv, ReadInv, MatchInv
<1>5. QED
  BY <1>2, <1>3, <1>4 DEF MatcherInv, OnePair

LEMMA SyncLadderKeeps ==
    ASSUME MatcherInv, OnePair, NEW p \in Pairs, SyncLadder(p)
    PROVE  MatcherInv'
<1>1. TickInv(p) /\ tick = [q \in Pairs |-> tick[q]] /\ tick[p].at = "fetching"
  BY DEF MatcherInv, SyncLadder, At
<1>2. /\ tick' = [q \in Pairs |-> tick'[q]]
      /\ tick'[p] = [at |-> "synced", buys |-> tick[p].buys, sells |-> tick[p].sells,
                     rows |-> tick[p].rows, todo |-> tick[p].todo]
  BY <1>1 DEF SyncLadder, TickInv, TickShape
<1>3. OrdersInv'
  <2>1. /\ book' = [o \in Orders |-> book'[o]]
        /\ place' = place /\ claim' = claim
    BY DEF SyncLadder
  <2>2. ASSUME NEW o \in Orders
        PROVE  \/ book'[o] = book[o]
               \/ IsLadder(o) /\ book'[o] \in {LimitRow(o), NoRow}
    BY DEF SyncLadder
  <2>3. ASSUME NEW o \in Orders
        PROVE  /\ book'[o] /= NoRow => Listed(o)' /\ RowOK(o, book'[o])
               /\ claim'[o] /= NoClaim =>
                     book'[o] = NoRow /\ place'[o] = "resting" /\ ~IsLadder(o)
    BY <2>1, <2>2, NewRowOK DEF MatcherInv, OrdersInv, Listed
  <2>4. QED
    BY <2>1, <2>3 DEF MatcherInv, OrdersInv
<1>4. TickInv(p)'
  <2>1. tradePair' = tradePair
    BY DEF SyncLadder
  <2>2. QED
    BY <1>1, <1>2, <2>1 DEF TickInv, TickShape, LatchInv, IdleInv, ReadInv, MatchInv
<1>5. QED
  BY <1>2, <1>3, <1>4 DEF MatcherInv, OnePair

\* Arming the latch before the first read is what makes the snapshot safe.
LEMMA ReadingKeeps ==
    ASSUME MatcherInv, OnePair, NEW p \in Pairs,
           ArmAndReadBuys(p) \/ ReadSells(p)
    PROVE  MatcherInv'
<1>1. TickInv(p) /\ tick = [q \in Pairs |-> tick[q]] /\ OrdersInv
  BY DEF MatcherInv
<1>2. /\ book' = book /\ place' = place /\ claim' = claim
      /\ tradePair' = p
      /\ tick[p].at \in {"synced", "armed"}
  BY <1>1 DEF ArmAndReadBuys, ReadSells, At, TickInv, LatchInv
<1>3. PICK buying \in BOOLEAN, at \in {"armed", "read"} :
        /\ tick' = [q \in Pairs |-> tick'[q]]
        /\ tick'[p] = [at |-> at, buys |-> tick[p].buys, sells |-> tick[p].sells,
                       rows |-> Snapshot(p, buying), todo |-> tick[p].todo]
  BY <1>1, ZenonT(60) DEF ArmAndReadBuys, ReadSells, TickInv, TickShape
<1>4. \A o \in Orders : tick[p].rows[o] /= NoRow => o \in Held(p)
  BY <1>1, <1>2 DEF TickInv, IdleInv, ReadInv
<1>5. /\ Snapshot(p, buying) = [o \in Orders |-> Snapshot(p, buying)[o]]
      /\ \A o \in Orders : Snapshot(p, buying)[o] \in {book[o], tick[p].rows[o]}
  BY DEF Snapshot
<1>6. OrdersInv'
  BY <1>1, <1>2 DEF OrdersInv, Listed
<1>7. ReadInv(p)'
  <2> SUFFICES ASSUME NEW o \in Orders, tick'[p].rows[o] /= NoRow
               PROVE  o \in Held(p)'
    BY DEF ReadInv
  <2>1. tick'[p].rows[o] \in {book[o], tick[p].rows[o]}
    BY <1>3, <1>5
  <2>2. claim[o] = NoClaim /\ Listed(o) /\ RowOK(o, tick'[p].rows[o])
    BY <1>1, <1>4, <2>1 DEF OrdersInv, Held
  <2>3. QED
    BY <1>2, <2>2 DEF Held, Listed
<1>8. TickShape(p)' /\ LatchInv(p)' /\ IdleInv(p)' /\ MatchInv(p)'
  BY <1>1, <1>2, <1>3, <1>5 DEF TickInv, TickShape, LatchInv, IdleInv, MatchInv
<1>9. QED
  BY <1>3, <1>6, <1>7, <1>8 DEF MatcherInv, TickInv, OnePair

LEMMA EndTickKeeps ==
    ASSUME MatcherInv, OnePair, NEW p \in Pairs,
           NEW alone, alone \subseteq Held(p), EndTick(p, alone)
    PROVE  MatcherInv'
<1> DEFINE S == {o \in alone : tick[p].rows[o].price = Market}
<1>1. \A o \in S : ~IsLadder(o)
  BY DEF Held, RowOK, IsMarket, IsLadder
<1>2. Claim(S, "matcher") /\ place' = place
  BY DEF EndTick, CancelMarketOrders
<1> HIDE DEF S
<1>3. OrdersInv'
  BY <1>1, <1>2, ClaimTakes DEF MatcherInv
<1>4. tick' = [q \in Pairs |-> tick'[q]] /\ tick'[p] = IdleTick
  BY DEF EndTick, MatcherInv
<1>5. TickInv(p)'
  BY <1>4 DEF IdleTick, TickInv, TickShape, LatchInv, IdleInv, ReadInv, MatchInv
<1>6. QED
  BY <1>3, <1>4, <1>5 DEF MatcherInv, OnePair

LEMMA OneSidedKeeps ==
    ASSUME MatcherInv, OnePair, NEW p \in Pairs, OneSided(p)
    PROVE  MatcherInv'
<1>1. TickInv(p) /\ tick[p].at = "read"
  BY DEF MatcherInv, OneSided, At
<1>2. PICK alone : /\ alone \subseteq {o \in Orders : tick[p].rows[o] /= NoRow}
                  /\ EndTick(p, alone)
  BY DEF OneSided, Resting
<1>3. alone \subseteq Held(p)
  BY <1>1, <1>2 DEF TickInv, ReadInv
<1>4. QED
  BY <1>2, <1>3, EndTickKeeps

LEMMA BeginMatchingKeeps ==
    ASSUME MatcherInv, OnePair, IsFiniteSet(Orders), NEW p \in Pairs, BeginMatching(p)
    PROVE  MatcherInv'
<1>1. TickInv(p) /\ tick = [q \in Pairs |-> tick[q]] /\ tick[p].at = "read"
  BY DEF MatcherInv, BeginMatching, At
<1>2. book' = book /\ place' = place /\ claim' = claim
  BY DEF BeginMatching
<1>3. PICK buys \in Sorted(tick[p].rows, Resting(tick[p].rows, TRUE), TRUE),
           sells \in Sorted(tick[p].rows, Resting(tick[p].rows, FALSE), FALSE) :
         /\ tick' = [tick EXCEPT ![p].at = "matching",
                               ![p].buys = buys, ![p].sells = sells]
         /\ tradePair' \in {p, tradePair}
  BY DEF BeginMatching
<1>4. /\ tick' = [q \in Pairs |-> tick'[q]]
      /\ tick'[p] = [at |-> "matching", buys |-> buys, sells |-> sells,
                     rows |-> tick[p].rows, todo |-> tick[p].todo]
  BY <1>1, <1>3 DEF TickInv, TickShape
<1>5. /\ ListOf(buys, Resting(tick[p].rows, TRUE))
      /\ ListOf(sells, Resting(tick[p].rows, FALSE))
  <2>1. /\ IsFiniteSet(Resting(tick[p].rows, TRUE))
        /\ IsFiniteSet(Resting(tick[p].rows, FALSE))
    BY FS_Subset DEF Resting
  <2>2. /\ buys \in SetToSeqs(Resting(tick[p].rows, TRUE))
        /\ sells \in SetToSeqs(Resting(tick[p].rows, FALSE))
    BY DEF Sorted
  <2>3. QED
    BY <2>1, <2>2, SetToSeqsLists
<1>6. /\ Resting(tick[p].rows, TRUE) \subseteq Bids(p)
      /\ Resting(tick[p].rows, FALSE) \subseteq Asks(p)
  BY <1>1 DEF TickInv, ReadInv, Resting, Bids, Asks
<1>7. OrdersInv'
  BY <1>2 DEF MatcherInv, OrdersInv, Listed
<1>8. MatchInv(p)'
  <2>1. tick[p].todo = <<>>
    BY <1>1 DEF TickInv, IdleInv
  <2>2. \A o \in Held(p) : RowOK(o, tick'[p].rows[o])
    BY <1>4 DEF Held
  <2>3. tick'[p].buys = buys /\ tick'[p].sells = sells /\ tick'[p].todo = <<>>
    BY <1>4, <2>1
  <2>4. ListOf(buys, Bids(p)) /\ ListOf(sells, Asks(p)) /\ OpsOver(<<>>, Held(p))
    BY <1>5, <1>6, ListOfWider, NoOps
  <2>5. /\ ListOf(tick'[p].buys, Bids(p))
        /\ ListOf(tick'[p].sells, Asks(p))
        /\ OpsOver(tick'[p].todo, Held(p))
    BY <2>3, <2>4
  <2>6. QED
    BY <1>2, <2>2, <2>5, StillMatching
<1>9. TickShape(p)' /\ LatchInv(p)' /\ IdleInv(p)' /\ ReadInv(p)'
  BY <1>1, <1>3, <1>4 DEF TickInv, TickShape, LatchInv, IdleInv, ReadInv
<1>10. QED
  BY <1>4, <1>7, <1>8, <1>9 DEF MatcherInv, TickInv, OnePair

LEMMA FinishTickKeeps ==
    ASSUME MatcherInv, OnePair, NEW p \in Pairs, FinishTick(p)
    PROVE  MatcherInv'
<1>1. TickInv(p) /\ tick[p].at \in {"matching", "breaking"}
  BY DEF MatcherInv, FinishTick, At
<1>2. PICK alone : /\ alone \subseteq ToSet(tick[p].buys) \cup ToSet(tick[p].sells)
                  /\ EndTick(p, alone)
  BY DEF FinishTick
<1>3. tick[p].buys \in Seq(Held(p)) /\ tick[p].sells \in Seq(Held(p))
  BY <1>1, SeqMonotonic DEF TickInv, MatchInv, ListOf, Bids, Asks
<1>4. alone \subseteq Held(p)
  BY <1>2, <1>3, ElementOfSeq, LenProperties DEF ToSet
<1>5. QED
  BY <1>2, <1>4, EndTickKeeps

LEMMA SpinKeeps ==
    ASSUME MatcherInv, OnePair, NEW p \in Pairs, Spin(p)
    PROVE  MatcherInv'
<1>1. /\ TickInv(p) /\ tick = [q \in Pairs |-> tick[q]]
      /\ tick[p].at = "matching" /\ tick[p].todo = <<>>
  BY DEF MatcherInv, Spin, Turn, At
<1>2. book' = book /\ place' = place /\ claim' = claim /\ tradePair' = tradePair
  BY DEF Spin
<1>3. /\ tick' = [q \in Pairs |-> tick'[q]]
      /\ tick'[p] = [at |-> "spinning", buys |-> tick[p].buys, sells |-> tick[p].sells,
                     rows |-> tick[p].rows, todo |-> tick[p].todo]
  <2>1. tick' = [tick EXCEPT ![p].at = "spinning"]
    BY DEF Spin
  <2>2. QED
    BY <1>1, <2>1 DEF TickInv, TickShape
<1>4. OrdersInv'
  BY <1>2 DEF MatcherInv, OrdersInv, Listed
<1>5. TickInv(p)'
  BY <1>1, <1>2, <1>3 DEF TickInv, TickShape, LatchInv, IdleInv, ReadInv, MatchInv
<1>6. QED
  BY <1>3, <1>4, <1>5 DEF MatcherInv, OnePair

-----------------------------------------------------------------------------
\* The settlement of a trade.

\* What every step of a matching tick can use.
LEMMA MatchingFacts ==
    ASSUME MatcherInv, NEW p \in Pairs, tick[p].at = "matching"
    PROVE  /\ tick = [q \in Pairs |-> tick[q]]
           /\ TickShape(p)
           /\ ListOf(tick[p].buys, Bids(p)) /\ ListOf(tick[p].sells, Asks(p))
           /\ OpsOver(tick[p].todo, Held(p))
           /\ \A o \in Held(p) : /\ o \in Orders /\ claim[o] = NoClaim
                                 /\ Listed(o) /\ RowOK(o, tick[p].rows[o])
           /\ tick[p].todo /= <<>> =>
                 OpOver(Head(tick[p].todo), Held(p)) /\ OpsOver(Tail(tick[p].todo), Held(p))
<1>1. MatchInv(p) /\ TickShape(p) /\ tick = [q \in Pairs |-> tick[q]]
  BY DEF MatcherInv, TickInv
<1>2. \A o \in Held(p) : /\ o \in Orders /\ claim[o] = NoClaim
                        /\ Listed(o) /\ RowOK(o, tick[p].rows[o])
  BY DEF Held
<1>3. QED
  BY <1>1, <1>2, FewerOps DEF MatchInv

LEMMA SettlingMatches ==
    ASSUME MatcherInv, NEW p \in Pairs, NEW name, NextOp(p, name)
    PROVE  tick[p].at = "matching" /\ tick[p].todo /= <<>>
BY SMTT(30) DEF MatcherInv, TickInv, IdleInv, NextOp

\* Commands that move money, or only rows of the book, and leave the rest.
LEMMA MoneyOpKeeps ==
    ASSUME MatcherInv, OnePair, NEW p \in Pairs,
           TickRefund(p) \/ TickCredit(p) \/ TickHdel(p) \/ TickHset(p)
    PROVE  MatcherInv'
<1> DEFINE o == Head(tick[p].todo).o
<1>1. tick[p].at = "matching" /\ tick[p].todo /= <<>>
  BY SettlingMatches, SMTT(30) DEF TickRefund, TickCredit, TickHdel, TickHset
<1>2. /\ place' = place /\ claim' = claim /\ tradePair' = tradePair
      /\ tick' = [tick EXCEPT ![p].todo = Tail(@)]
      /\ \/ book' = book
         \/ book' = [book EXCEPT ![o] = NoRow]
         \/ book' = [book EXCEPT ![o] = tick[p].rows[o]]
  BY DEF TickRefund, TickCredit, TickHdel, TickHset, Done
<1>3. /\ tick' = [q \in Pairs |-> tick'[q]]
      /\ tick'[p] = [at |-> "matching", buys |-> tick[p].buys, sells |-> tick[p].sells,
                     rows |-> tick[p].rows, todo |-> Tail(tick[p].todo)]
  <2>1. TickShape(p) /\ tick = [q \in Pairs |-> tick[q]]
    BY <1>1, MatchingFacts
  <2>2. tick' = [tick EXCEPT ![p].todo = Tail(@)]
    BY <1>2
  <2>3. QED
    BY <1>1, <2>1, <2>2 DEF TickShape
<1>4. OrdersInv'
  <2>1. o \in Orders /\ claim[o] = NoClaim /\ Listed(o) /\ RowOK(o, tick[p].rows[o])
    BY <1>1, MatchingFacts DEF OpOver
  <2> HIDE DEF o
  <2>2. /\ book' = [q \in Orders |-> book'[q]]
        /\ \A q \in Orders : q /= o => book'[q] = book[q]
        /\ book'[o] \in {book[o], NoRow, tick[p].rows[o]}
    BY <1>2, <2>1 DEF MatcherInv, OrdersInv
  <2>3. ASSUME NEW q \in Orders
        PROVE  /\ book'[q] /= NoRow => Listed(q)' /\ RowOK(q, book'[q])
               /\ claim'[q] /= NoClaim =>
                     book'[q] = NoRow /\ place'[q] = "resting" /\ ~IsLadder(q)
    BY <1>2, <2>1, <2>2 DEF MatcherInv, OrdersInv, Listed
  <2>4. QED
    BY <1>2, <2>2, <2>3 DEF MatcherInv, OrdersInv
<1>5. QED
  <2>1. /\ tick[p].rows = [q \in Orders |-> tick[p].rows[q]]
        /\ \A q \in Held(p) : RowOK(q, tick[p].rows[q])
        /\ ListOf(tick[p].buys, Bids(p)) /\ ListOf(tick[p].sells, Asks(p))
        /\ OpsOver(Tail(tick[p].todo), Held(p))
    BY <1>1, MatchingFacts DEF TickShape
  <2>2. QED
    BY <1>1, <1>2, <1>3, <1>4, <2>1, MatchingGoesOn

\* Commands that also write to the row the tick keeps of the order.
LEMMA RowOpKeeps ==
    ASSUME MatcherInv, OnePair, NEW p \in Pairs,
           tick[p].at = "matching", tick[p].todo /= <<>>,
           book' = book, place' = place, claim' = claim, tradePair' = tradePair,
           NEW o \in Held(p), NEW r, RowOK(o, r), NEW first, OpsOver(first, Held(p)),
           tick' = [tick EXCEPT ![p].rows[o] = r, ![p].todo = first \o Tail(@)]
    PROVE  MatcherInv'
<1>1. /\ TickShape(p) /\ tick = [q \in Pairs |-> tick[q]] /\ o \in Orders
      /\ ListOf(tick[p].buys, Bids(p)) /\ ListOf(tick[p].sells, Asks(p))
      /\ \A q \in Held(p) : q \in Orders /\ RowOK(q, tick[p].rows[q])
      /\ OpsOver(Tail(tick[p].todo), Held(p))
  BY MatchingFacts
<1> DEFINE rows == [tick[p].rows EXCEPT ![o] = r]
           todo == first \o Tail(tick[p].todo)
<1>2. /\ tick' = [q \in Pairs |-> tick'[q]]
      /\ tick'[p] = [at |-> "matching", buys |-> tick[p].buys, sells |-> tick[p].sells,
                     rows |-> rows, todo |-> todo]
  BY <1>1 DEF TickShape
<1>3. /\ rows = [q \in Orders |-> rows[q]]
      /\ \A q \in Held(p) : RowOK(q, rows[q])
  BY <1>1 DEF TickShape
<1>4. OpsOver(todo, Held(p))
  BY <1>1, MoreOps
<1>5. OrdersInv'
  BY DEF MatcherInv, OrdersInv, Listed
<1> HIDE DEF rows, todo
<1>6. QED
  BY <1>1, <1>2, <1>3, <1>4, <1>5, MatchingGoesOn

LEMMA ReadInOrderKeeps ==
    ASSUME MatcherInv, OnePair, NEW p \in Pairs, TickReadInOrder(p)
    PROVE  MatcherInv'
<1> DEFINE op == Head(tick[p].todo)
           o == op.o
           row == tick[p].rows[o]
           final == op.op = "releaseAll"
           release == IF final THEN reservationRemaining(o, row)
                      ELSE AtMost(op.amount, reservationRemaining(o, row))
           applied == AtMost(release, Positive(inOrder[Field(o)]))
           write == Op(IF final THEN "writeAll" ELSE "write", o, applied)
           r == IF final /\ applied = 0 THEN Retired(o, row) ELSE row
           first == IF applied > 0 THEN <<write>> ELSE <<>>
<1>1. /\ tick[p].at = "matching" /\ tick[p].todo /= <<>>
      /\ o \in Held(p) /\ RowOK(o, row)
  BY SettlingMatches, MatchingFacts, ZenonT(60) DEF TickReadInOrder, OpOver
<1>2. /\ book' = book /\ place' = place /\ claim' = claim /\ tradePair' = tradePair
      /\ tick' = [tick EXCEPT ![p].rows[o] = r, ![p].todo = first \o Tail(@)]
  BY ZenonT(60) DEF TickReadInOrder
<1>3. RowOK(o, r)
  BY <1>1, FieldsKept DEF RowOK, Retired
<1>4. OpsOver(first, Held(p))
  BY <1>1, NoOps, SettlementOps
<1> HIDE DEF o, r, first
<1>5. QED
  BY <1>1, <1>2, <1>3, <1>4, RowOpKeeps, ZenonT(60)

LEMMA WriteInOrderKeeps ==
    ASSUME MatcherInv, OnePair, NEW p \in Pairs, TickWriteInOrder(p)
    PROVE  MatcherInv'
<1> DEFINE op == Head(tick[p].todo)
           o == op.o
           row == tick[p].rows[o]
           r == IF op.op = "writeAll" THEN Retired(o, row)
                ELSE [row EXCEPT !.released = @ + op.amount]
<1>1. /\ tick[p].at = "matching" /\ tick[p].todo /= <<>>
      /\ o \in Held(p) /\ RowOK(o, row)
      /\ OpsOver(Tail(tick[p].todo), Held(p))
  BY SettlingMatches, MatchingFacts DEF TickWriteInOrder, OpOver
<1>2. /\ book' = book /\ place' = place /\ claim' = claim /\ tradePair' = tradePair
      /\ tick' = [tick EXCEPT ![p].rows[o] = r, ![p].todo = Tail(@)]
  BY DEF TickWriteInOrder
<1>3. RowOK(o, r)
  BY <1>1, FieldsKept, ZenonT(60) DEF RowOK, Retired
<1>4. <<>> \o Tail(tick[p].todo) = Tail(tick[p].todo)
  BY <1>1, ConcatEmptySeq DEF OpsOver
<1> HIDE DEF o, r
<1>5. tick' = [tick EXCEPT ![p].rows[o] = r, ![p].todo = <<>> \o Tail(@)]
  BY <1>1, <1>2, <1>4, MatchingFacts DEF TickShape
<1>6. QED
  BY <1>1, <1>2, <1>3, <1>5, NoOps, RowOpKeeps, ZenonT(60)

LEMMA BreakKeeps ==
    ASSUME MatcherInv, OnePair, NEW p \in Pairs, TickBreak(p)
    PROVE  MatcherInv'
<1>1. tick[p].at = "matching"
  BY SettlingMatches DEF TickBreak
<1>2. /\ book' = book /\ place' = place /\ claim' = claim /\ tradePair' = tradePair
      /\ tick' = [tick EXCEPT ![p].at = "breaking", ![p].todo = <<>>]
  BY DEF TickBreak
<1>3. /\ tick' = [q \in Pairs |-> tick'[q]]
      /\ tick'[p] = [at |-> "breaking", buys |-> tick[p].buys, sells |-> tick[p].sells,
                     rows |-> tick[p].rows, todo |-> <<>>]
  <2>1. TickShape(p) /\ tick = [q \in Pairs |-> tick[q]]
    BY <1>1, MatchingFacts
  <2>2. QED
    BY <1>2, <2>1 DEF TickShape
<1>4. OrdersInv'
  BY <1>2 DEF MatcherInv, OrdersInv, Listed
<1>5. MatchInv(p)'
  <2>1. /\ tick'[p].buys = tick[p].buys /\ tick'[p].sells = tick[p].sells
        /\ tick'[p].rows = tick[p].rows /\ tick'[p].todo = <<>>
    BY <1>3
  <2>2. /\ \A o \in Held(p) : RowOK(o, tick[p].rows[o])
        /\ ListOf(tick[p].buys, Bids(p)) /\ ListOf(tick[p].sells, Asks(p))
        /\ OpsOver(<<>>, Held(p))
    BY <1>1, MatchingFacts, NoOps
  <2>3. /\ \A o \in Held(p) : RowOK(o, tick'[p].rows[o])
        /\ ListOf(tick'[p].buys, Bids(p)) /\ ListOf(tick'[p].sells, Asks(p))
        /\ OpsOver(tick'[p].todo, Held(p))
    BY <2>1, <2>2
  <2>4. QED
    BY <1>2, <2>3, StillMatching
<1>6. TickShape(p)' /\ LatchInv(p)' /\ IdleInv(p)' /\ ReadInv(p)'
  <2>1. TickShape(p) /\ tradePair = p
    BY <1>1 DEF MatcherInv, TickInv, LatchInv
  <2>2. TickShape(p)'
    BY <1>3, <2>1 DEF TickShape
  <2>3. LatchInv(p)' /\ IdleInv(p)' /\ ReadInv(p)'
    BY <1>2, <1>3, <2>1 DEF LatchInv, IdleInv, ReadInv
  <2>4. QED
    BY <2>2, <2>3
<1>7. QED
  BY <1>3, <1>4, <1>5, <1>6 DEF MatcherInv, TickInv, OnePair

-----------------------------------------------------------------------------
\* Trades.

LEMMA TradeKeeps ==
    ASSUME MatcherInv, OnePair, NEW p \in Pairs, tick[p].at = "matching",
           book' = book, place' = place, claim' = claim, tradePair' = tradePair,
           NEW rows, rows = [o \in Orders |-> rows[o]],
           \A o \in Held(p) : RowOK(o, rows[o]),
           NEW b \in Held(p), NEW s \in Held(p), NEW e, NEW price,
           NEW rest, OpsOver(rest, Held(p)),
           Trade(p, rows, b, s, e, price, rest)
    PROVE  MatcherInv'
<1> DEFINE buys == tick[p].buys
           sells == tick[p].sells
           buyer == FillSide(b, rows[b], e, price, \E i \in DOMAIN sells : sells[i] /= s)
           buysLeft == IF buyer.done /\ buys /= <<>> THEN Tail(buys) ELSE buys
           seller == FillSide(s, rows[s], e, price, buysLeft /= <<>>)
           sellsLeft == IF seller.done /\ sells /= <<>> THEN Tail(sells) ELSE sells
           after == [rows EXCEPT ![b] = buyer.row, ![s] = seller.row]
           todo == buyer.ops \o seller.ops \o settlementCredit(b, e)
                   \o settlementCredit(s, e * price) \o rest
<1>1. /\ TickShape(p) /\ tick = [q \in Pairs |-> tick[q]]
      /\ ListOf(buys, Bids(p)) /\ ListOf(sells, Asks(p))
      /\ Held(p) \subseteq Orders
  BY MatchingFacts, ZenonT(60) DEF Held
<1>2. tick' = [tick EXCEPT ![p].rows = after, ![p].buys = buysLeft,
                           ![p].sells = sellsLeft, ![p].todo = todo]
  BY ZenonT(60) DEF Trade
<1>3. /\ RowOK(b, buyer.row) /\ OpsOver(buyer.ops, Held(p))
      /\ RowOK(s, seller.row) /\ OpsOver(seller.ops, Held(p))
  <2>1. RowOK(b, rows[b]) /\ RowOK(s, rows[s])
    OBVIOUS
  <2>2. QED
    BY <1>1, <2>1, FillSideOK
<1>4. ListOf(buysLeft, Bids(p)) /\ ListOf(sellsLeft, Asks(p))
  <2>1. buys /= <<>> => ListOf(Tail(buys), Bids(p))
    BY <1>1, ListOfTail
  <2>2. sells /= <<>> => ListOf(Tail(sells), Asks(p))
    BY <1>1, ListOfTail
  <2>3. QED
    BY <1>1, <2>1, <2>2
<1> HIDE DEF buyer, seller, buysLeft, sellsLeft
<1>5. /\ after = [o \in Orders |-> after[o]]
      /\ \A o \in Held(p) : RowOK(o, after[o])
  BY <1>1, <1>3
<1>6. OpsOver(todo, Held(p))
  <2>1. /\ OpsOver(settlementCredit(b, e), Held(p))
        /\ OpsOver(settlementCredit(s, e * price), Held(p))
    BY SettlementOps
  <2>2. OpsOver(buyer.ops \o seller.ops, Held(p))
    BY <1>3, MoreOps
  <2>3. OpsOver(buyer.ops \o seller.ops \o settlementCredit(b, e), Held(p))
    BY <2>1, <2>2, MoreOps
  <2>4. OpsOver(buyer.ops \o seller.ops \o settlementCredit(b, e)
                \o settlementCredit(s, e * price), Held(p))
    BY <2>1, <2>3, MoreOps
  <2>5. QED
    BY <2>4, MoreOps
<1> HIDE DEF after, todo
<1>7. /\ tick' = [q \in Pairs |-> tick'[q]]
      /\ tick'[p] = [at |-> "matching", buys |-> buysLeft, sells |-> sellsLeft,
                     rows |-> after, todo |-> todo]
  BY <1>1, <1>2 DEF TickShape
<1>8. OrdersInv'
  BY DEF MatcherInv, OrdersInv, Listed
<1>9. QED
  BY <1>4, <1>5, <1>6, <1>7, <1>8, MatchingGoesOn

LEMMA MatchKeeps ==
    ASSUME MatcherInv, OnePair, NEW p \in Pairs, TickMatch(p)
    PROVE  MatcherInv'
<1> DEFINE op == Head(tick[p].todo)
           o == op.o
           price == tick[p].rows[op.with].price
           value == tick[p].rows[o].value
           afford == ((value \div price) \div op.amount) * op.amount
           qty == IF IsBuy(o) THEN afford ELSE value
           rows == [tick[p].rows EXCEPT ![o].price = price, ![o].qty = qty]
           b == IF IsBuy(o) THEN o ELSE op.with
           s == IF IsBuy(o) THEN op.with ELSE o
           e == Executed(rows[b], rows[s])
           rest == Tail(tick[p].todo)
<1>1. /\ tick[p].at = "matching" /\ tick[p].todo /= <<>> /\ op.op = "match"
      /\ MarketMatch(p)
  BY SettlingMatches DEF TickMatch, NextOp
<1>2. /\ TickShape(p) /\ tick = [q \in Pairs |-> tick[q]]
      /\ ListOf(tick[p].buys, Bids(p)) /\ ListOf(tick[p].sells, Asks(p))
      /\ \A x \in Held(p) : x \in Orders /\ RowOK(x, tick[p].rows[x])
      /\ o \in Held(p) /\ op.with \in Held(p) /\ IsMarket(o)
      /\ OpsOver(rest, Held(p))
  BY <1>1, MatchingFacts DEF OpOver
<1>3. /\ book' = book /\ place' = place /\ claim' = claim /\ tradePair' = tradePair
      /\ \/ Trade(p, rows, b, s, e, price, rest)
         \/ tick' = [tick EXCEPT ![p].rows = rows, ![p].todo = rest]
  BY <1>1, ZenonT(60) DEF MarketMatch
<1>4. b \in Held(p) /\ s \in Held(p)
  BY <1>2, SMTT(30)
<1>5. /\ rows = [x \in Orders |-> rows[x]]
      /\ \A x \in Held(p) : RowOK(x, rows[x])
  <2> DEFINE row == tick[p].rows[o]
  <2>1. HasFields([[row EXCEPT !.price = price] EXCEPT !.qty = qty])
    BY <1>2, FieldsKept, ZenonT(60) DEF RowOK
  <2>2. /\ rows = [x \in Orders |-> rows[x]]
        /\ rows[o] = [[row EXCEPT !.price = price] EXCEPT !.qty = qty]
        /\ \A x \in Orders : x /= o => rows[x] = tick[p].rows[x]
    BY <1>2, ZenonT(60) DEF TickShape
  <2> HIDE DEF rows, row
  <2>3. QED
    BY <1>2, <2>1, <2>2, ZenonT(60) DEF RowOK
<1> HIDE DEF rows, b, s, e, price, rest
<1>6. CASE Trade(p, rows, b, s, e, price, rest)
  BY <1>1, <1>2, <1>3, <1>4, <1>5, <1>6, TradeKeeps
<1>7. CASE tick' = [tick EXCEPT ![p].rows = rows, ![p].todo = rest]
  <2>1. /\ tick' = [q \in Pairs |-> tick'[q]]
        /\ tick'[p] = [at |-> "matching", buys |-> tick[p].buys, sells |-> tick[p].sells,
                       rows |-> rows, todo |-> rest]
    BY <1>1, <1>2, <1>7 DEF TickShape
  <2>2. OrdersInv'
    BY <1>3 DEF MatcherInv, OrdersInv, Listed
  <2>3. QED
    BY <1>1, <1>2, <1>3, <1>5, <2>1, <2>2, MatchingGoesOn
<1>8. QED
  BY <1>3, <1>6, <1>7

-----------------------------------------------------------------------------
\* The turns of the matching loop.

LEMMA TurnFacts ==
    ASSUME MatcherInv, NEW p \in Pairs, Turn(p)
    PROVE  /\ tick[p].at = "matching" /\ tick[p].todo = <<>>
           /\ TickShape(p) /\ tick = [q \in Pairs |-> tick[q]]
           /\ ListOf(tick[p].buys, Bids(p)) /\ tick[p].buys /= <<>>
           /\ ListOf(tick[p].sells, Asks(p)) /\ tick[p].sells /= <<>>
           /\ tick[p].buys[1] \in Bids(p) /\ tick[p].sells[1] \in Asks(p)
           /\ Bids(p) \subseteq Held(p) /\ Asks(p) \subseteq Held(p)
           /\ Held(p) \subseteq Orders
           /\ tick[p].rows = [o \in Orders |-> tick[p].rows[o]]
           /\ \A o \in Held(p) : RowOK(o, tick[p].rows[o])
<1>1. tick[p].at = "matching" /\ tick[p].todo = <<>>
  BY DEF Turn, At
<1>2. tick[p].buys /= <<>> /\ tick[p].sells /= <<>>
  BY DEF Turn
<1>3. Bids(p) \subseteq Held(p) /\ Asks(p) \subseteq Held(p) /\ Held(p) \subseteq Orders
  BY DEF Bids, Asks, Held
<1>4. QED
  BY <1>1, <1>2, <1>3, MatchingFacts, ListOfTail DEF TickShape

LEMMA DroppingKeeps ==
    ASSUME MatcherInv, OnePair, NEW p \in Pairs, Turn(p),
           book' = book, place' = place, claim' = claim, tradePair' = tradePair,
           NEW buys, NEW sells, Dropping(p, buys, sells),
           ListOf(buys, Bids(p)), ListOf(sells, Asks(p))
    PROVE  MatcherInv'
<1>1. /\ tick[p].at = "matching" /\ tick[p].todo = <<>> /\ TickShape(p)
      /\ tick = [q \in Pairs |-> tick[q]]
      /\ tick[p].rows = [o \in Orders |-> tick[p].rows[o]]
      /\ \A o \in Held(p) : RowOK(o, tick[p].rows[o])
  BY TurnFacts
<1>2. /\ tick' = [q \in Pairs |-> tick'[q]]
      /\ tick'[p] = [at |-> "matching", buys |-> buys, sells |-> sells,
                     rows |-> tick[p].rows, todo |-> <<>>]
  BY <1>1 DEF Dropping, TickShape
<1>3. OrdersInv'
  BY DEF MatcherInv, OrdersInv, Listed
<1>4. OpsOver(<<>>, Held(p))
  BY NoOps
<1>5. QED
  BY <1>1, <1>2, <1>3, <1>4, MatchingGoesOn

LEMMA QueueingKeeps ==
    ASSUME MatcherInv, OnePair, NEW p \in Pairs, Turn(p),
           book' = book, place' = place, claim' = claim, tradePair' = tradePair,
           NEW todo, tick' = [tick EXCEPT ![p].todo = todo], OpsOver(todo, Held(p))
    PROVE  MatcherInv'
<1>1. /\ tick[p].at = "matching" /\ TickShape(p)
      /\ tick = [q \in Pairs |-> tick[q]]
      /\ ListOf(tick[p].buys, Bids(p)) /\ ListOf(tick[p].sells, Asks(p))
      /\ tick[p].rows = [o \in Orders |-> tick[p].rows[o]]
      /\ \A o \in Held(p) : RowOK(o, tick[p].rows[o])
  BY TurnFacts
<1>2. /\ tick' = [q \in Pairs |-> tick'[q]]
      /\ tick'[p] = [at |-> "matching", buys |-> tick[p].buys, sells |-> tick[p].sells,
                     rows |-> tick[p].rows, todo |-> todo]
  BY <1>1 DEF TickShape
<1>3. OrdersInv'
  BY DEF MatcherInv, OrdersInv, Listed
<1>4. QED
  BY <1>1, <1>2, <1>3, MatchingGoesOn

\* A turn that cancels a market order has taken it off its list.
LEMMA CancellingKeeps ==
    ASSUME MatcherInv, OnePair, NEW p \in Pairs, Turn(p),
           place' = place, tradePair' = tradePair,
           NEW o \in Held(p), IsMarket(o), CancelMarketOrders({o}),
           NEW buys, NEW sells, Dropping(p, buys, sells),
           ListOf(buys, Bids(p) \ {o}), ListOf(sells, Asks(p) \ {o})
    PROVE  MatcherInv'
<1>1. /\ tick[p].at = "matching" /\ tick[p].todo = <<>> /\ TickShape(p)
      /\ tick = [q \in Pairs |-> tick[q]]
      /\ tick[p].rows = [q \in Orders |-> tick[p].rows[q]]
  BY TurnFacts
<1>2. /\ tick' = [q \in Pairs |-> tick'[q]]
      /\ tick'[p] = [at |-> "matching", buys |-> buys, sells |-> sells,
                     rows |-> tick[p].rows, todo |-> <<>>]
  BY <1>1 DEF Dropping, TickShape
<1>3. OrdersInv' /\ \A q \in Orders \ {o} : claim'[q] = claim[q]
  <2>1. ~IsLadder(o)
    BY DEF IsMarket, IsLadder
  <2>2. QED
    BY <2>1, ClaimTakes DEF MatcherInv, CancelMarketOrders
<1>4. /\ tick'[p].at = "matching" /\ tick'[p].rows = tick[p].rows
      /\ tick'[p].todo = <<>> /\ tick'[p].buys = buys /\ tick'[p].sells = sells
  BY <1>2
<1>5. MatchInv(p)'
  <2>1. Bids(p) \ {o} \subseteq Bids(p)' /\ Asks(p) \ {o} \subseteq Asks(p)'
    BY <1>3, <1>4 DEF Held, Bids, Asks, Listed
  <2>2. ListOf(buys, Bids(p)') /\ ListOf(sells, Asks(p)') /\ OpsOver(<<>>, Held(p)')
    BY <2>1, ListOfWider, NoOps
  <2>3. QED
    BY <1>4, <2>2 DEF MatchInv
<1>6. TickShape(p)' /\ IdleInv(p)' /\ ReadInv(p)'
  BY <1>1, <1>2, <1>4 DEF TickShape, IdleInv, ReadInv
<1>7. LatchInv(p)'
  BY <1>1 DEF MatcherInv, TickInv, LatchInv
<1>8. QED
  BY <1>2, <1>3, <1>5, <1>6, <1>7 DEF MatcherInv, TickInv, OnePair

LEMMA MatchOps ==
    ASSUME NEW X, NEW o \in X, NEW q \in X, IsMarket(o), NEW unit
    PROVE  OpsOver(Match(o, q, unit), X)
<1>1. OpOver([op |-> "match", o |-> o, amount |-> unit, with |-> q], X)
  BY SMTT(30) DEF OpOver
<1>2. QED
  BY <1>1, OneOp DEF Match

LEMMA TurnBothMarketKeeps ==
    ASSUME MatcherInv, OnePair, NEW p \in Pairs, TurnBothMarket(p)
    PROVE  MatcherInv'
<1> DEFINE buys == tick[p].buys
           sells == tick[p].sells
           b == buys[1]
           s == sells[1]
           i == FirstLimit(p, buys)
           j == FirstLimit(p, sells)
           todo == (IF j /= 0 THEN Match(b, sells[j], Lot) ELSE <<>>)
                   \o (IF i /= 0 THEN Match(s, buys[i], Lot) ELSE <<>>)
<1>1. /\ Turn(p) /\ RowOf(p, b).price = Market /\ RowOf(p, s).price = Market
      /\ book' = book /\ place' = place /\ claim' = claim /\ tradePair' = tradePair
      /\ \/ j /= 0 /\ Dropping(p, Tail(buys), RemoveAt(sells, j))
         \/ i /= 0 /\ Dropping(p, RemoveAt(buys, i), Tail(sells))
         \/ tick' = [tick EXCEPT ![p].todo = todo]
  BY DEF TurnBothMarket
<1>2. /\ ListOf(buys, Bids(p)) /\ buys /= <<>> /\ b \in Held(p)
      /\ ListOf(sells, Asks(p)) /\ sells /= <<>> /\ s \in Held(p)
      /\ Bids(p) \subseteq Held(p) /\ Asks(p) \subseteq Held(p)
      /\ IsMarket(b) /\ IsMarket(s)
  BY <1>1, TurnFacts DEF RowOf, RowOK
<1>3. /\ i /= 0 => i \in 1..Len(buys)
      /\ j /= 0 => j \in 1..Len(sells)
  BY <1>2, FirstLimitInList, LenProperties DEF ListOf
<1> HIDE DEF i, j
<1>4. CASE j /= 0 /\ Dropping(p, Tail(buys), RemoveAt(sells, j))
  <2>1. ListOf(Tail(buys), Bids(p)) /\ ListOf(RemoveAt(sells, j), Asks(p))
    BY <1>2, <1>3, <1>4, ListOfTail, ListOfRemoveAt
  <2>2. QED
    BY <1>1, <1>4, <2>1, DroppingKeeps
<1>5. CASE i /= 0 /\ Dropping(p, RemoveAt(buys, i), Tail(sells))
  <2>1. ListOf(RemoveAt(buys, i), Bids(p)) /\ ListOf(Tail(sells), Asks(p))
    BY <1>2, <1>3, <1>5, ListOfTail, ListOfRemoveAt
  <2>2. QED
    BY <1>1, <1>5, <2>1, DroppingKeeps
<1>6. CASE tick' = [tick EXCEPT ![p].todo = todo]
  <2>1. /\ i /= 0 => buys[i] \in Held(p)
        /\ j /= 0 => sells[j] \in Held(p)
    BY <1>2, <1>3, ElementOfSeq DEF ListOf
  <2>2. /\ OpsOver(IF j /= 0 THEN Match(b, sells[j], Lot) ELSE <<>>, Held(p))
        /\ OpsOver(IF i /= 0 THEN Match(s, buys[i], Lot) ELSE <<>>, Held(p))
    BY <1>2, <2>1, MatchOps, NoOps
  <2>3. OpsOver(todo, Held(p))
    BY <2>2, MoreOps
  <2> HIDE DEF todo
  <2>4. QED
    BY <1>1, <1>6, <2>3, QueueingKeeps
<1>7. QED
  BY <1>1, <1>4, <1>5, <1>6

LEMMA TurnMarketBuyKeeps ==
    ASSUME MatcherInv, OnePair, NEW p \in Pairs, TurnMarketBuy(p)
    PROVE  MatcherInv'
<1> DEFINE buys == tick[p].buys
           sells == tick[p].sells
           b == buys[1]
           s == sells[1]
<1>1. /\ Turn(p) /\ RowOf(p, b).price = Market
      /\ place' = place /\ tradePair' = tradePair
      /\ \/ Dropping(p, buys, Tail(sells)) /\ UNCHANGED <<book, claim>>
         \/ CancelMarketOrders({b}) /\ Dropping(p, Tail(buys), Front(sells))
         \/ CancelMarketOrders({b}) /\ Dropping(p, Tail(buys), sells)
         \/ /\ tick' = [tick EXCEPT ![p].todo = Match(b, s, 1)]
            /\ UNCHANGED <<book, claim>>
  BY DEF TurnMarketBuy
<1>2. /\ ListOf(buys, Bids(p)) /\ buys /= <<>> /\ b \in Bids(p) /\ b \in Held(p)
      /\ ListOf(sells, Asks(p)) /\ sells /= <<>> /\ s \in Held(p)
      /\ IsMarket(b)
  BY <1>1, TurnFacts DEF RowOf, RowOK
<1>3. /\ ListOf(Tail(buys), Bids(p) \ {b})
      /\ ListOf(Tail(sells), Asks(p)) /\ ListOf(Front(sells), Asks(p))
  BY <1>2, ListOfTail, ListOfFront
<1>4. Asks(p) \ {b} = Asks(p)
  BY <1>2 DEF Bids, Asks
<1>5. CASE Dropping(p, buys, Tail(sells)) /\ UNCHANGED <<book, claim>>
  BY <1>1, <1>2, <1>3, <1>5, DroppingKeeps
<1>6. CASE CancelMarketOrders({b}) /\ Dropping(p, Tail(buys), Front(sells))
  BY <1>1, <1>2, <1>3, <1>4, <1>6, CancellingKeeps
<1>7. CASE CancelMarketOrders({b}) /\ Dropping(p, Tail(buys), sells)
  BY <1>1, <1>2, <1>3, <1>4, <1>7, CancellingKeeps
<1>8. CASE /\ tick' = [tick EXCEPT ![p].todo = Match(b, s, 1)]
           /\ UNCHANGED <<book, claim>>
  BY <1>1, <1>2, <1>8, MatchOps, QueueingKeeps
<1>9. QED
  BY <1>1, <1>5, <1>6, <1>7, <1>8

LEMMA TurnMarketSellKeeps ==
    ASSUME MatcherInv, OnePair, NEW p \in Pairs, TurnMarketSell(p)
    PROVE  MatcherInv'
<1> DEFINE buys == tick[p].buys
           sells == tick[p].sells
           b == buys[1]
           s == sells[1]
<1>1. /\ Turn(p) /\ RowOf(p, s).price = Market
      /\ place' = place /\ tradePair' = tradePair
      /\ \/ Dropping(p, Tail(buys), sells) /\ UNCHANGED <<book, claim>>
         \/ CancelMarketOrders({s}) /\ Dropping(p, Front(buys), Tail(sells))
         \/ /\ tick' = [tick EXCEPT ![p].todo = Match(s, b, 1)]
            /\ UNCHANGED <<book, claim>>
  BY DEF TurnMarketSell
<1>2. /\ ListOf(buys, Bids(p)) /\ buys /= <<>> /\ b \in Held(p)
      /\ ListOf(sells, Asks(p)) /\ sells /= <<>> /\ s \in Asks(p) /\ s \in Held(p)
      /\ IsMarket(s)
  BY <1>1, TurnFacts DEF RowOf, RowOK
<1>3. /\ ListOf(Tail(sells), Asks(p) \ {s})
      /\ ListOf(Tail(buys), Bids(p)) /\ ListOf(Front(buys), Bids(p))
  BY <1>2, ListOfTail, ListOfFront
<1>4. Bids(p) \ {s} = Bids(p)
  BY <1>2 DEF Bids, Asks
<1>5. CASE Dropping(p, Tail(buys), sells) /\ UNCHANGED <<book, claim>>
  BY <1>1, <1>2, <1>3, <1>5, DroppingKeeps
<1>6. CASE CancelMarketOrders({s}) /\ Dropping(p, Front(buys), Tail(sells))
  BY <1>1, <1>2, <1>3, <1>4, <1>6, CancellingKeeps
<1>7. CASE /\ tick' = [tick EXCEPT ![p].todo = Match(s, b, 1)]
           /\ UNCHANGED <<book, claim>>
  BY <1>1, <1>2, <1>7, MatchOps, QueueingKeeps
<1>8. QED
  BY <1>1, <1>5, <1>6, <1>7

LEMMA TurnLimitKeeps ==
    ASSUME MatcherInv, OnePair, NEW p \in Pairs, TurnLimit(p)
    PROVE  MatcherInv'
<1> DEFINE buys == tick[p].buys
           sells == tick[p].sells
           b == buys[1]
           s == sells[1]
           rows == tick[p].rows
<1>1. /\ Turn(p)
      /\ book' = book /\ place' = place /\ claim' = claim /\ tradePair' = tradePair
      /\ \/ tick' = [tick EXCEPT ![p].at = "breaking"]
         \/ Dropping(p, Tail(buys), sells)
         \/ Dropping(p, buys, Tail(sells))
         \/ \E maker \in {b, s} :
               Trade(p, rows, b, s, Executed(rows[b], rows[s]),
                     rows[maker].price, Break(b))
  BY DEF TurnLimit
<1>2. /\ tick[p].at = "matching" /\ tick[p].todo = <<>> /\ TickShape(p)
      /\ tick = [q \in Pairs |-> tick[q]]
      /\ ListOf(buys, Bids(p)) /\ buys /= <<>> /\ b \in Held(p)
      /\ ListOf(sells, Asks(p)) /\ sells /= <<>> /\ s \in Held(p)
      /\ rows = [o \in Orders |-> rows[o]]
      /\ \A o \in Held(p) : RowOK(o, rows[o])
  BY <1>1, TurnFacts
<1>3. ListOf(Tail(buys), Bids(p)) /\ ListOf(Tail(sells), Asks(p))
  BY <1>2, ListOfTail
<1>4. CASE tick' = [tick EXCEPT ![p].at = "breaking"]
  <2>1. /\ tick' = [q \in Pairs |-> tick'[q]]
        /\ tick'[p] = [at |-> "breaking", buys |-> buys, sells |-> sells,
                       rows |-> rows, todo |-> <<>>]
    BY <1>2, <1>4 DEF TickShape
  <2>2. /\ tick'[p].at = "breaking" /\ tick'[p].rows = rows /\ tick'[p].todo = <<>>
        /\ tick'[p].buys = buys /\ tick'[p].sells = sells
    BY <2>1
  <2>3. OrdersInv'
    BY <1>1 DEF MatcherInv, OrdersInv, Listed
  <2>4. MatchInv(p)'
    <3>1. /\ \A o \in Held(p) : RowOK(o, tick'[p].rows[o])
          /\ ListOf(tick'[p].buys, Bids(p)) /\ ListOf(tick'[p].sells, Asks(p))
          /\ OpsOver(tick'[p].todo, Held(p))
      BY <1>2, <2>2, NoOps
    <3>2. QED
      BY <1>1, <3>1, StillMatching
  <2>5. TickShape(p)' /\ IdleInv(p)' /\ ReadInv(p)'
    BY <1>2, <2>1, <2>2 DEF TickShape, IdleInv, ReadInv
  <2>6. LatchInv(p)'
    BY <1>1, <1>2 DEF MatcherInv, TickInv, LatchInv
  <2>7. QED
    BY <2>1, <2>3, <2>4, <2>5, <2>6 DEF MatcherInv, TickInv, OnePair
<1>5. CASE Dropping(p, Tail(buys), sells)
  BY <1>1, <1>2, <1>3, <1>5, DroppingKeeps, SMTT(30)
<1>6. CASE Dropping(p, buys, Tail(sells))
  BY <1>1, <1>2, <1>3, <1>6, DroppingKeeps, SMTT(30)
<1>7. ASSUME NEW maker \in {b, s},
             Trade(p, rows, b, s, Executed(rows[b], rows[s]), rows[maker].price, Break(b))
      PROVE  MatcherInv'
  <2>1. OpsOver(Break(b), Held(p))
    BY <1>2, SettlementOps
  <2>2. QED
    BY <1>1, <1>2, <1>7, <2>1, TradeKeeps
<1>8. QED
  BY <1>1, <1>4, <1>5, <1>6, <1>7

-----------------------------------------------------------------------------
LEMMA TickStepKeeps ==
    ASSUME MatcherInv, OnePair, IsFiniteSet(Orders), NEW p \in Pairs, TickStep(p)
    PROVE  MatcherInv'
BY SyncLadderKeeps, ReadingKeeps, OneSidedKeeps, BeginMatchingKeeps,
   TurnBothMarketKeeps, TurnMarketBuyKeeps, TurnMarketSellKeeps, TurnLimitKeeps,
   MatchKeeps, MoneyOpKeeps, ReadInOrderKeeps, WriteInOrderKeeps, BreakKeeps,
   FinishTickKeeps
   DEF TickStep

LEMMA MatcherInvInductive ==
    ASSUME OnePair, Closers = {}, IsFiniteSet(Orders)
    PROVE  MatcherInv /\ [Next]_vars => MatcherInv'
<1> SUFFICES ASSUME MatcherInv, [Next]_vars PROVE MatcherInv'
  OBVIOUS
<1>1. ASSUME NEW o \in Orders, DebitLimit(o) \/ DebitMarket(o) \/ PlaceStep(o)
      PROVE  MatcherInv'
  BY <1>1, PlacingKeeps
<1>2. ASSUME NEW o \in Orders, CancelOrder(o) PROVE MatcherInv'
  BY <1>2, CancelOrderKeeps
<1>3. ASSUME NEW o \in Orders, ClaimStep(o) PROVE MatcherInv'
  BY <1>3, ClaimStepKeeps
<1>4. ASSUME NEW p \in Pairs, StartTick(p) PROVE MatcherInv'
  BY <1>4, StartTickKeeps
<1>5. ASSUME NEW p \in Pairs, TickStep(p) PROVE MatcherInv'
  BY <1>5, TickStepKeeps
<1>6. ASSUME NEW p \in Pairs, Spin(p) PROVE MatcherInv'
  BY <1>6, SpinKeeps
<1>7. CASE UNCHANGED vars
  <2>1. OrdersInv'
    BY <1>7 DEF vars, MatcherInv, OrdersInv, Listed
  <2>2. \A p \in Pairs : TickInv(p)'
    BY <1>7, TicksKept DEF vars, Listed
  <2>3. QED
    BY <1>7, <2>1, <2>2 DEF vars, MatcherInv
<1>8. QED
  BY <1>1, <1>2, <1>3, <1>4, <1>5, <1>6, <1>7 DEF Next

\* With one pair and no account closing, no fill, settlement or write-back ever
\* touches an order whose cancel has claimed it, for any orders at any prices and
\* however placing, cancelling and the tick interleave.
THEOREM ClaimsStayExclusive ==
    ASSUME OnePair, Closers = {}, IsFiniteSet(Orders)
    PROVE  Spec => []ClaimsAreExclusive
<1>1. QED
  BY ClaimsAreExclusiveHolds, MatcherInvInitially, MatcherInvInductive, PTL DEF Spec

\* Under the same assumptions the latch is the pair's from before the tick reads
\* the book until it has settled.
THEOREM LatchIsHeld ==
    ASSUME OnePair, Closers = {}, IsFiniteSet(Orders)
    PROVE  Spec => []LatchHeldThroughTick
<1>1. MatcherInv => LatchHeldThroughTick
  BY DEF MatcherInv, TickInv, LatchInv, LatchHeldThroughTick
<1>2. QED
  BY <1>1, MatcherInvInitially, MatcherInvInductive, PTL DEF Spec

-----------------------------------------------------------------------------
\* Arithmetic.

LEMMA ProductsGrow ==
    ASSUME NEW m \in Nat, NEW n \in Nat, NEW u \in Nat
    PROVE  /\ m * u \in Nat
           /\ m <= n => m * u <= n * u
           /\ (m + n) * u = m * u + n * u
           /\ n > 0 /\ u > 0 => n * u > 0
  OBVIOUS

LEMMA RoundedDown ==
    ASSUME NEW q \in Nat
    PROVE  toFixedDown(q) \in Nat /\ toFixedDown(q) <= q
<1>1. q \div Lot \in Nat /\ (q \div Lot) * Lot <= q
  BY LotAssumption
<1> QED
  BY <1>1, LotAssumption, ProductsGrow DEF toFixedDown

\* Without a smallest unit nothing is lost in the rounding.
LEMMA RoundedExactly ==
    ASSUME NEW q \in Nat, Lot = 1
    PROVE  toFixedDown(q) = q
  BY DEF toFixedDown

LEMMA WhatIsAfforded ==
    ASSUME NEW value \in Nat, NEW price \in Nat \ {0}, NEW u \in Nat \ {0}
    PROVE  LET n == ((value \div price) \div u) * u
           IN n \in Nat /\ n * price <= value
<1> DEFINE q == value \div price
           n == (q \div u) * u
<1>1. q \in Nat /\ q * price <= value
  OBVIOUS
<1> HIDE DEF q
<1>2. n \in Nat /\ n <= q
  BY <1>1
<1> HIDE DEF n
<1>3. n * price <= q * price /\ n * price \in Nat /\ q * price \in Nat
  BY <1>1, <1>2, ProductsGrow
<1>4. n * price <= value
  BY <1>1, <1>3
<1> QED
  BY <1>2, <1>4 DEF n, q

\* A fill takes no more than the row has, at a price no worse than its own.
LEMMA FillWithin ==
    ASSUME NEW qty \in Nat, NEW e \in Nat, e <= qty, NEW u \in Nat
    PROVE  /\ e * u \in Nat /\ (qty - e) * u \in Nat
           /\ (qty - e) * u = qty * u - e * u
<1> DEFINE r == qty - e
<1>1. r \in Nat /\ qty = e + r
  OBVIOUS
<1> HIDE DEF r
<1>2. /\ e * u \in Nat /\ r * u \in Nat
      /\ (e + r) * u = e * u + r * u
  BY <1>1, ProductsGrow
<1>3. qty * u = e * u + r * u
  BY <1>1, <1>2
<1>4. r * u = qty * u - e * u
  BY <1>2, <1>3
<1> QED
  BY <1>2, <1>4 DEF r

-----------------------------------------------------------------------------
\* What the commands of a tick still have to do, read from the last one back.  Of an
\* order: whether its row is to be written back ("set"), deleted and written back
\* ("keep") or deleted ("drop"), what is to be released of its reservation and what is to
\* be refunded; and the matches that come after all of it.

OpRecord == [op : OpNames, o : Orders, amount : Nat, with : Orders]
Plan == [mode : {"none", "set", "keep", "drop"}, rel : Nat,
         all : {"no", "read", "write"}, pay : Nat]
NoPlan == [mode |-> "none", rel |-> 0, all |-> "no", pay |-> 0]
Agenda == [plan : [Orders -> Plan], next : SUBSET OpRecord]
Nothing == [plan |-> [o \in Orders |-> NoPlan], next |-> {}]

\* A command before what is planned for its order.
Prepends(x, k, j) ==
    /\ x.op \in {"refund", "hset", "hdel", "release", "write", "releaseAll", "writeAll",
                 "credit"}
    /\ x.op = "credit" => k = j
    /\ x.op = "refund" => j.mode # "none" /\ k = [j EXCEPT !.pay = @ + x.amount]
    /\ x.op = "hset" => j = NoPlan /\ k = [NoPlan EXCEPT !.mode = "set"]
    /\ x.op = "hdel" =>
          \/ j = [NoPlan EXCEPT !.mode = "set"] /\ k = [NoPlan EXCEPT !.mode = "keep"]
          \/ j = NoPlan /\ k = [NoPlan EXCEPT !.mode = "drop"]
    /\ x.op \in {"release", "write"} =>
          /\ IsLimit(x.o) /\ j.mode = "keep" /\ j.rel = 0
          /\ k = [j EXCEPT !.rel = x.amount]
    /\ x.op = "releaseAll" =>
          /\ IsLimit(x.o) /\ j.mode = "drop" /\ j.all = "no"
          /\ k = [j EXCEPT !.all = "read"]
    /\ x.op = "writeAll" =>
          /\ IsLimit(x.o) /\ j.mode = "drop" /\ j.all = "no"
          /\ k = [j EXCEPT !.all = "write", !.rel = x.amount]

Parties(x) == {x.o, x.with}

\* A match comes when nothing is planned; of two, the buyer's is first, and they have
\* no order in common.
Queues(x, next) ==
    /\ x \notin next /\ x.amount > 0
    /\ IsMarket(x.o) /\ IsBuy(x.o) # IsBuy(x.with)
    /\ \A m \in next : /\ next = {m} /\ Parties(x) \cap Parties(m) = {}
                       /\ IsBuy(x.o) /\ ~IsBuy(m.o)

Leads(x, a, b) ==
    \/ /\ x.op = "match" /\ Queues(x, b.next) /\ b.plan = Nothing.plan
       /\ a = [b EXCEPT !.next = @ \cup {x}]
    \/ x.op = "break" /\ a = Nothing /\ b = Nothing
    \/ /\ x.op # "match" /\ x.op # "break"
       /\ a.next = b.next /\ \A m \in b.next : x.o \notin Parties(m)
       /\ \A o \in Orders : o # x.o => a.plan[o] = b.plan[o]
       /\ Prepends(x, a.plan[x.o], b.plan[x.o])

\* The commands t, before an agenda b, are the agenda a.
Settles(t, a, b) ==
    /\ t \in Seq(OpRecord) /\ a \in Agenda /\ b \in Agenda
    /\ \E g \in [1..(Len(t) + 1) -> Agenda] :
          /\ g[1] = a /\ g[Len(t) + 1] = b
          /\ \A i \in 1..Len(t) : Leads(t[i], g[i], g[i + 1])

LEMMA NothingIsAgenda == Nothing \in Agenda /\ NoPlan \in Plan
  BY DEF Nothing, Agenda, Plan, NoPlan

LEMMA SettlesNone ==
    ASSUME NEW a \in Agenda
    PROVE  /\ Settles(<<>>, a, a)
           /\ \A b : Settles(<<>>, a, b) => a = b
<1> DEFINE g == [i \in 1..1 |-> a]
<1>1. <<>> \in Seq(OpRecord) /\ Len(<<>>) = 0
  BY EmptySeq
<1>2. g \in [1..1 -> Agenda] /\ g[1] = a
  OBVIOUS
<1> HIDE DEF g
<1>3. 1..(Len(<<>>) + 1) = 1..1 /\ Len(<<>>) + 1 = 1 /\ 1..Len(<<>>) = {}
  BY <1>1
<1>4. Settles(<<>>, a, a)
  BY <1>1, <1>2, <1>3 DEF Settles
<1>5. ASSUME NEW b, Settles(<<>>, a, b) PROVE a = b
  BY <1>3, <1>5 DEF Settles
<1> QED
  BY <1>4, <1>5

LEMMA SettlesOne ==
    ASSUME NEW x \in OpRecord, NEW a \in Agenda, NEW b \in Agenda, Leads(x, a, b)
    PROVE  Settles(<<x>>, a, b)
<1> DEFINE t == <<x>>
           g == [i \in 1..2 |-> IF i = 1 THEN a ELSE b]
<1>1. t \in Seq(OpRecord) /\ Len(t) = 1 /\ t[1] = x
  OBVIOUS
<1>2. g \in [1..2 -> Agenda] /\ g[1] = a /\ g[2] = b
  OBVIOUS
<1> HIDE DEF g, t
<1>3. 1..(Len(t) + 1) = 1..2 /\ Len(t) + 1 = 2 /\ \A i \in 1..Len(t) : i = 1 /\ i + 1 = 2
  BY <1>1
<1>4. \A i \in 1..Len(t) : Leads(t[i], g[i], g[i + 1])
  BY <1>1, <1>2, <1>3
<1>5. Settles(t, a, b)
  BY <1>1, <1>2, <1>3, <1>4 DEF Settles
<1> QED
  BY <1>5 DEF t

LEMMA SettlesBoth ==
    ASSUME NEW s, NEW t, NEW a, NEW b, NEW c, Settles(s, a, b), Settles(t, b, c)
    PROVE  Settles(s \o t, a, c)
<1>1. PICK f \in [1..(Len(s) + 1) -> Agenda] :
        /\ f[1] = a /\ f[Len(s) + 1] = b
        /\ \A i \in 1..Len(s) : Leads(s[i], f[i], f[i + 1])
  BY DEF Settles
<1>2. PICK g \in [1..(Len(t) + 1) -> Agenda] :
        /\ g[1] = b /\ g[Len(t) + 1] = c
        /\ \A i \in 1..Len(t) : Leads(t[i], g[i], g[i + 1])
  BY DEF Settles
<1>3. s \in Seq(OpRecord) /\ t \in Seq(OpRecord) /\ a \in Agenda /\ c \in Agenda
  BY DEF Settles
<1> DEFINE u == s \o t
           m == Len(s)
           n == Len(t)
           h == [i \in 1..(m + n + 1) |-> IF i <= m THEN f[i] ELSE g[i - m]]
<1>4. m \in Nat /\ n \in Nat
  BY <1>3, LenProperties
<1>5. /\ u \in Seq(OpRecord) /\ Len(u) = m + n
      /\ \A i \in 1..(m + n) : u[i] = IF i <= m THEN s[i] ELSE t[i - m]
  BY <1>3, ConcatProperties
<1> HIDE DEF u
<1>6. h \in [1..(m + n + 1) -> Agenda]
  BY <1>4
<1>7. \A i \in 1..(m + 1) : h[i] = f[i]
  <2> SUFFICES ASSUME NEW i \in 1..(m + 1) PROVE h[i] = f[i]
    OBVIOUS
  <2>1. CASE i <= m
    BY <1>4, <2>1
  <2>2. CASE i = m + 1
    <3>1. h[i] = g[1]
      BY <1>4, <2>2
    <3> QED
      BY <1>1, <1>2, <2>2, <3>1
  <2> QED
    BY <1>4, <2>1, <2>2
<1>8. \A i \in 1..(n + 1) : h[m + i] = g[i]
  BY <1>4
<1> HIDE DEF h
<1>9. h[1] = a /\ h[m + n + 1] = c
  <2>1. 1 \in 1..(m + 1) /\ n + 1 \in 1..(n + 1) /\ m + (n + 1) = m + n + 1
    BY <1>4
  <2> HIDE DEF m, n
  <2>2. h[1] = f[1] /\ h[m + (n + 1)] = g[n + 1]
    BY <1>7, <1>8, <2>1
  <2> QED
    BY <1>1, <1>2, <2>1, <2>2 DEF m, n
<1>10. ASSUME NEW i \in 1..(m + n)
       PROVE  Leads(u[i], h[i], h[i + 1])
  <2>1. CASE i <= m
    <3>1. i \in 1..m /\ i \in 1..(m + 1) /\ i + 1 \in 1..(m + 1)
      BY <1>4, <2>1
    <3>2. u[i] = s[i] /\ h[i] = f[i] /\ h[i + 1] = f[i + 1]
      BY <1>5, <1>7, <2>1, <3>1
    <3> QED
      BY <1>1, <3>1, <3>2
  <2>2. CASE ~(i <= m)
    <3> DEFINE j == i - m
    <3>1. /\ j \in 1..n /\ j \in 1..(n + 1) /\ j + 1 \in 1..(n + 1)
          /\ i = m + j /\ i + 1 = m + (j + 1)
      BY <1>4, <2>2
    <3>2. u[i] = t[j]
      BY <1>5, <2>2
    <3> HIDE DEF j
    <3>3. h[i] = g[j] /\ h[i + 1] = g[j + 1]
      BY <1>8, <3>1
    <3> QED
      BY <1>2, <3>1, <3>2, <3>3
  <2> QED
    BY <2>1, <2>2
<1>11. Settles(u, a, c)
  BY <1>3, <1>4, <1>5, <1>6, <1>9, <1>10 DEF Settles
<1> QED
  BY <1>11 DEF u

LEMMA SettlesFirst ==
    ASSUME NEW t, t # <<>>, NEW a, NEW c, Settles(t, a, c)
    PROVE  /\ Head(t) \in OpRecord
           /\ \E b \in Agenda : Leads(Head(t), a, b) /\ Settles(Tail(t), b, c)
<1>1. PICK f \in [1..(Len(t) + 1) -> Agenda] :
        /\ f[1] = a /\ f[Len(t) + 1] = c
        /\ \A i \in 1..Len(t) : Leads(t[i], f[i], f[i + 1])
  BY DEF Settles
<1>2. t \in Seq(OpRecord) /\ c \in Agenda
  BY DEF Settles
<1> DEFINE r == Tail(t)
           n == Len(r)
           g == [i \in 1..(n + 1) |-> f[i + 1]]
<1>3. /\ Head(t) \in OpRecord /\ Head(t) = t[1] /\ Len(t) \in Nat
      /\ r \in Seq(OpRecord) /\ n = Len(t) - 1 /\ n \in Nat
      /\ \A i \in 1..n : r[i] = t[i + 1]
  BY <1>2, HeadTailProperties, LenProperties
<1> HIDE DEF r, n
<1>4. g \in [1..(n + 1) -> Agenda]
  BY <1>3
<1>5. g[1] = f[2] /\ f[2] \in Agenda /\ g[n + 1] = c
  BY <1>1, <1>3
<1>6. ASSUME NEW i \in 1..n PROVE Leads(r[i], g[i], g[i + 1])
  <2>1. i + 1 \in 1..Len(t) /\ g[i] = f[i + 1] /\ g[i + 1] = f[(i + 1) + 1] /\ r[i] = t[i + 1]
    BY <1>3
  <2> QED
    BY <1>1, <2>1
<1> HIDE DEF g
<1>7. Settles(r, f[2], c)
  BY <1>2, <1>3, <1>4, <1>5, <1>6 DEF Settles, n
<1>8. Leads(Head(t), a, f[2])
  BY <1>1, <1>3
<1> QED
  BY <1>3, <1>5, <1>7, <1>8 DEF r

-----------------------------------------------------------------------------
\* What the commands t do to the plan of one order, whatever else is on the agenda.
With(b, o, k) == [plan |-> [b.plan EXCEPT ![o] = k], next |-> b.next]

Steps(t, o, k, j) ==
    /\ k \in Plan /\ j \in Plan
    /\ \A b \in Agenda :
          b.plan[o] = j /\ (\A m \in b.next : o \notin Parties(m))
              => Settles(t, With(b, o, k), b)

LEMMA WithIsAgenda ==
    ASSUME NEW b \in Agenda, NEW o \in Orders, NEW k \in Plan
    PROVE  /\ With(b, o, k) \in Agenda
           /\ With(b, o, k).next = b.next
           /\ With(b, o, k).plan[o] = k
           /\ \A y \in Orders : y # o => With(b, o, k).plan[y] = b.plan[y]
           /\ b.plan[o] = k => With(b, o, k) = b
           /\ \A j : With(With(b, o, k), o, j) = With(b, o, j)
  BY DEF With, Agenda

LEMMA StepsNone ==
    ASSUME NEW o \in Orders, NEW k \in Plan
    PROVE  Steps(<<>>, o, k, k)
<1> SUFFICES ASSUME NEW b \in Agenda, b.plan[o] = k
             PROVE  Settles(<<>>, With(b, o, k), b)
  BY DEF Steps
<1> QED
  BY WithIsAgenda, SettlesNone

LEMMA StepsOne ==
    ASSUME NEW x \in OpRecord, NEW k \in Plan, NEW j \in Plan, Prepends(x, k, j)
    PROVE  Steps(<<x>>, x.o, k, j)
<1> SUFFICES ASSUME NEW b \in Agenda, b.plan[x.o] = j,
                    \A m \in b.next : x.o \notin Parties(m)
             PROVE  Settles(<<x>>, With(b, x.o, k), b)
  BY DEF Steps
<1>1. x.o \in Orders
  BY DEF OpRecord
<1>2. x.op # "match" /\ x.op # "break"
  BY DEF Prepends
<1>3. Leads(x, With(b, x.o, k), b)
  BY <1>1, <1>2, WithIsAgenda DEF Leads
<1> QED
  BY <1>1, <1>3, WithIsAgenda, SettlesOne

LEMMA StepsBoth ==
    ASSUME NEW o \in Orders, NEW s, NEW t, NEW k, NEW j, NEW i,
           Steps(s, o, k, j), Steps(t, o, j, i)
    PROVE  Steps(s \o t, o, k, i)
<1>1. k \in Plan /\ j \in Plan /\ i \in Plan
  BY DEF Steps
<1> SUFFICES ASSUME NEW b \in Agenda, b.plan[o] = i,
                    \A m \in b.next : o \notin Parties(m)
             PROVE  Settles(s \o t, With(b, o, k), b)
  BY <1>1 DEF Steps
<1> DEFINE c == With(b, o, j)
<1>2. Settles(t, c, b)
  BY DEF Steps
<1>3. /\ c \in Agenda /\ c.plan[o] = j /\ c.next = b.next
      /\ With(c, o, k) = With(b, o, k)
  BY <1>1, WithIsAgenda
<1> HIDE DEF c
<1>4. Settles(s, With(c, o, k), c)
  BY <1>3 DEF Steps
<1> QED
  BY <1>2, <1>3, <1>4, SettlesBoth

\* The plans a fill may leave.
SetBack == [mode |-> "set", rel |-> 0, all |-> "no", pay |-> 0]
Kept(n, m) == [mode |-> "keep", rel |-> n, all |-> "no", pay |-> m]
Dropped(all, m) == [mode |-> "drop", rel |-> 0, all |-> all, pay |-> m]

LEMMA PlansTyped ==
    ASSUME NEW n \in Nat, NEW m \in Nat, NEW all \in {"no", "read", "write"}
    PROVE  /\ SetBack \in Plan /\ Kept(n, m) \in Plan /\ Dropped(all, m) \in Plan
           /\ NoPlan \in Plan
  BY DEF Plan, SetBack, Kept, Dropped, NoPlan

LEMMA OpTyped ==
    ASSUME NEW name \in OpNames, NEW o \in Orders, NEW n \in Nat
    PROVE  /\ Op(name, o, n) \in OpRecord /\ Op(name, o, n).o = o
           /\ Op(name, o, n).op = name /\ Op(name, o, n).amount = n
  BY DEF Op, OpRecord

LEMMA HsetSteps == ASSUME NEW o \in Orders PROVE Steps(Hset(o), o, SetBack, NoPlan)
<1> DEFINE x == Op("hset", o, 0)
<1>1. x \in OpRecord /\ x.o = o /\ x.op = "hset"
  BY OpTyped DEF OpNames
<1>2. Prepends(x, SetBack, NoPlan)
  BY <1>1 DEF Prepends, SetBack, NoPlan
<1> HIDE DEF x
<1>3. Steps(<<x>>, o, SetBack, NoPlan)
  BY <1>1, <1>2, StepsOne, PlansTyped
<1> QED
  BY <1>3 DEF Hset, x

LEMMA HdelSteps ==
    ASSUME NEW o \in Orders
    PROVE  /\ Steps(Hdel(o), o, Kept(0, 0), SetBack)
           /\ Steps(Hdel(o), o, Dropped("no", 0), NoPlan)
<1> DEFINE x == Op("hdel", o, 0)
<1>1. x \in OpRecord /\ x.o = o /\ x.op = "hdel"
  BY OpTyped DEF OpNames
<1>2. Prepends(x, Kept(0, 0), SetBack) /\ Prepends(x, Dropped("no", 0), NoPlan)
  BY <1>1 DEF Prepends, SetBack, NoPlan, Kept, Dropped
<1>3. /\ Kept(0, 0) \in Plan /\ Dropped("no", 0) \in Plan
      /\ SetBack \in Plan /\ NoPlan \in Plan
  BY PlansTyped
<1> HIDE DEF x
<1>4. Steps(<<x>>, o, Kept(0, 0), SetBack) /\ Steps(<<x>>, o, Dropped("no", 0), NoPlan)
  BY <1>1, <1>2, <1>3, StepsOne
<1> QED
  BY <1>4 DEF Hdel, x

LEMMA RefundSteps ==
    ASSUME NEW o \in Orders, NEW a \in Nat, NEW n \in Nat, NEW m \in Nat,
           NEW all \in {"no", "read", "write"}
    PROVE  /\ Steps(Refund(o, a), o, Kept(n, m + a), Kept(n, m))
           /\ Steps(Refund(o, a), o, Dropped(all, m + a), Dropped(all, m))
<1> DEFINE x == Op("refund", o, a)
<1>1. x \in OpRecord /\ x.o = o /\ x.op = "refund" /\ x.amount = a
  BY OpTyped DEF OpNames
<1>2. /\ Prepends(x, Kept(n, m + a), Kept(n, m))
      /\ Prepends(x, Dropped(all, m + a), Dropped(all, m))
  BY <1>1 DEF Prepends, Kept, Dropped
<1>3. /\ Kept(n, m + a) \in Plan /\ Dropped(all, m + a) \in Plan
      /\ Kept(n, m) \in Plan /\ Dropped(all, m) \in Plan
  <2>1. m + a \in Nat
    OBVIOUS
  <2> QED
    BY <2>1, PlansTyped
<1> HIDE DEF x
<1>4. CASE a > 0
  <2>1. Refund(o, a) = <<x>>
    BY <1>4 DEF Refund, x
  <2>2. /\ Steps(<<x>>, o, Kept(n, m + a), Kept(n, m))
        /\ Steps(<<x>>, o, Dropped(all, m + a), Dropped(all, m))
    BY <1>1, <1>2, <1>3, StepsOne
  <2> QED
    BY <2>1, <2>2
<1>5. CASE a = 0
  <2>1. Refund(o, a) = <<>> /\ m + a = m
    BY <1>5 DEF Refund
  <2> QED
    BY <1>3, <2>1, StepsNone
<1> QED
  BY <1>4, <1>5

LEMMA ReleaseSteps ==
    ASSUME NEW o \in Orders, IsLimit(o), NEW a \in Nat, NEW m \in Nat
    PROVE  /\ Steps(Release(o, a), o, Kept(a, m), Kept(0, m))
           /\ Steps(ReleaseAll(o), o, Dropped("read", m), Dropped("no", m))
<1> DEFINE x == Op("release", o, a)
           y == Op("releaseAll", o, 0)
<1>1. /\ x \in OpRecord /\ x.o = o /\ x.op = "release" /\ x.amount = a
      /\ y \in OpRecord /\ y.o = o /\ y.op = "releaseAll"
  BY OpTyped DEF OpNames
<1>2. /\ Prepends(x, Kept(a, m), Kept(0, m))
      /\ Prepends(y, Dropped("read", m), Dropped("no", m))
  BY <1>1 DEF Prepends, Kept, Dropped
<1>3. /\ Kept(a, m) \in Plan /\ Kept(0, m) \in Plan
      /\ Dropped("read", m) \in Plan /\ Dropped("no", m) \in Plan
  BY PlansTyped
<1> HIDE DEF x, y
<1>4. /\ Steps(<<x>>, o, Kept(a, m), Kept(0, m))
      /\ Steps(<<y>>, o, Dropped("read", m), Dropped("no", m))
  BY <1>1, <1>2, <1>3, StepsOne
<1> QED
  BY <1>4 DEF Release, ReleaseAll, x, y

\* The sequences of commands a side of a trade issues.
LEMMA SideSteps ==
    ASSUME NEW o \in Orders, NEW a \in Nat, NEW n \in Nat
    PROVE  /\ Steps(Hdel(o) \o Hset(o), o, Kept(0, 0), NoPlan)
           /\ Steps(Hdel(o), o, Dropped("no", 0), NoPlan)
           /\ Steps(Refund(o, a) \o Hdel(o), o, Dropped("no", a), NoPlan)
           /\ IsLimit(o) =>
                /\ Steps(Release(o, a) \o Hdel(o) \o Hset(o), o, Kept(a, 0), NoPlan)
                /\ Steps(Refund(o, n) \o (Release(o, a) \o Hdel(o) \o Hset(o)),
                         o, Kept(a, n), NoPlan)
                /\ Steps(ReleaseAll(o) \o Refund(o, a) \o Hdel(o),
                         o, Dropped("read", a), NoPlan)
                /\ Steps(Refund(o, n) \o (ReleaseAll(o) \o Refund(o, a) \o Hdel(o)),
                         o, Dropped("read", a + n), NoPlan)
<1>1. Steps(Hdel(o) \o Hset(o), o, Kept(0, 0), NoPlan)
  BY HsetSteps, HdelSteps, StepsBoth
<1>2. Steps(Refund(o, a) \o Hdel(o), o, Dropped("no", a), NoPlan)
  <2>1. Steps(Refund(o, a), o, Dropped("no", 0 + a), Dropped("no", 0))
    BY RefundSteps
  <2> QED
    BY <2>1, HdelSteps, StepsBoth
<1>3. ASSUME IsLimit(o)
      PROVE  /\ Steps(Release(o, a) \o Hdel(o) \o Hset(o), o, Kept(a, 0), NoPlan)
             /\ Steps(Refund(o, n) \o (Release(o, a) \o Hdel(o) \o Hset(o)),
                      o, Kept(a, n), NoPlan)
  <2>1. Steps(Release(o, a), o, Kept(a, 0), Kept(0, 0))
    BY <1>3, ReleaseSteps
  <2>2. Steps(Release(o, a) \o Hdel(o), o, Kept(a, 0), SetBack)
    BY <2>1, HdelSteps, StepsBoth
  <2>3. Steps(Release(o, a) \o Hdel(o) \o Hset(o), o, Kept(a, 0), NoPlan)
    BY <2>2, HsetSteps, StepsBoth
  <2>4. Steps(Refund(o, n), o, Kept(a, 0 + n), Kept(a, 0))
    BY RefundSteps
  <2> QED
    BY <2>3, <2>4, StepsBoth
<1>4. ASSUME IsLimit(o)
      PROVE  /\ Steps(ReleaseAll(o) \o Refund(o, a) \o Hdel(o),
                      o, Dropped("read", a), NoPlan)
             /\ Steps(Refund(o, n) \o (ReleaseAll(o) \o Refund(o, a) \o Hdel(o)),
                      o, Dropped("read", a + n), NoPlan)
  <2>1. Steps(ReleaseAll(o), o, Dropped("read", a), Dropped("no", a))
    BY <1>4, ReleaseSteps
  <2>2. Steps(Refund(o, a), o, Dropped("no", 0 + a), Dropped("no", 0))
    BY RefundSteps
  <2>3. Steps(ReleaseAll(o) \o Refund(o, a), o, Dropped("read", a), Dropped("no", 0))
    BY <2>1, <2>2, StepsBoth
  <2>4. Steps(ReleaseAll(o) \o Refund(o, a) \o Hdel(o), o, Dropped("read", a), NoPlan)
    BY <2>3, HdelSteps, StepsBoth
  <2>5. Steps(Refund(o, n), o, Dropped("read", a + n), Dropped("read", a))
    BY RefundSteps
  <2> QED
    BY <2>4, <2>5, StepsBoth
<1> QED
  BY <1>1, <1>2, <1>3, <1>4, HdelSteps

-----------------------------------------------------------------------------
\* The money of one order.

unit(o) == IF IsBuy(o) THEN Request[o].price ELSE 1

\* A market sell may lose what is left of it below the lot.
Exact(o) == ~IsMarket(o) \/ IsBuy(o) \/ Lot = 1
Holds(o, esc, n) == esc >= n /\ (Exact(o) => esc = n)

\* A row of the book, when n of its reservation is still to be released.
Sound(o, r, n) ==
    /\ r \in Row
    /\ IsMarket(o) => r.price = Market /\ r.value > 0
    /\ ~IsMarket(o) => r.price = Request[o].price /\ r.qty > 0
    /\ IsLimit(o) => r.released + n + r.qty * unit(o) <= Cost(o)

\* The row of an order that is complete.
Over(o, r) ==
    /\ r \in Row /\ r.qty = 0 /\ r.price # Market
    /\ ~IsMarket(o) => r.price = Request[o].price

\* What the tick plans for an order agrees with the rows b in the book and r in the
\* tick; `gone` is a market sell whose opposite side has run out.
PlanFits(o, k, b, r, gone) ==
    /\ k.mode = "none" => k = NoPlan
    /\ k.mode \in {"keep", "set"} => Sound(o, r, k.rel) /\ k.all = "no"
    /\ k.mode = "set" => b = NoRow
    /\ k.mode = "drop" => r \in Row /\ (Over(o, r) \/ gone)
    /\ k.mode = "drop" /\ IsLimit(o) =>
          /\ r.released <= Cost(o)
          /\ k.all = "no" => r.released = Cost(o)
          /\ k.all = "write" => k.rel = Cost(o) - r.released
    /\ ~IsLimit(o) => k.rel = 0 /\ k.all = "no"

\* What the escrow of a listed order must hold, c being its claim.
Due(o, c, b, r, k) ==
    IF k.mode = "drop" THEN k.pay
    ELSE IF k.mode # "none" THEN Backing(o, r) - k.rel + k.pay
    ELSE IF c # NoClaim THEN (IF c.step = "refund" THEN Backing(o, c.row) ELSE 0)
    ELSE IF b # NoRow THEN Backing(o, b) ELSE 0

LEMMA OrderFacts ==
    ASSUME NEW o \in Orders
    PROVE  /\ unit(o) \in Nat \ {0} /\ Cost(o) \in Nat /\ Cost(o) > 0
           /\ Cost(o) = Request[o].qty * unit(o)
           /\ Request[o].qty \in Nat \ {0} /\ Request[o].price \in Nat \ {0}
           /\ IsLadder(o) \/ IsLimit(o) \/ IsMarket(o)
           /\ IsLimit(o) => ~IsMarket(o) /\ ~IsLadder(o)
           /\ IsMarket(o) => ~IsLimit(o) /\ ~IsLadder(o)
           /\ IsBuy(o) => unit(o) = Request[o].price
           /\ ~IsBuy(o) => unit(o) = 1
           /\ Field(o) \in Users \X Coins
<1>1. /\ Request[o].qty \in Nat \ {0} /\ Request[o].price \in Nat \ {0}
      /\ Request[o].kind \in {"limit", "market", "ladder"}
      /\ Request[o].user \in Users /\ Request[o].pair \in Pairs
  BY RequestAssumption
<1>2. unit(o) \in Nat \ {0}
  BY <1>1 DEF unit
<1>3. Cost(o) = Request[o].qty * unit(o) /\ Cost(o) \in Nat /\ Cost(o) > 0
  <2>1. Cost(o) = Request[o].qty * unit(o)
    BY DEF Cost, unit
  <2> QED
    BY <1>1, <1>2, <2>1, ProductsGrow
<1>4. Field(o) \in Users \X Coins
  BY <1>1 DEF Field, user, CostCoin, pair, Coins
<1> QED
  BY <1>1, <1>2, <1>3, <1>4 DEF IsLimit, IsMarket, IsLadder, unit

LEMMA RowTyped ==
    ASSUME NEW r \in Row, NEW a \in Nat
    PROVE  /\ r.qty \in Nat /\ r.price \in Nat /\ r.value \in Nat /\ r.released \in Nat
           /\ [r EXCEPT !.qty = a] \in Row
           /\ [r EXCEPT !.qty = a].qty = a /\ [r EXCEPT !.qty = a].price = r.price
           /\ [r EXCEPT !.qty = a].value = r.value
           /\ [r EXCEPT !.qty = a].released = r.released
           /\ [r EXCEPT !.released = a] \in Row
           /\ [r EXCEPT !.released = a].qty = r.qty
           /\ [r EXCEPT !.released = a].price = r.price
           /\ [r EXCEPT !.released = a].value = r.value
           /\ [r EXCEPT !.released = a].released = a
  BY DEF Row

\* A row that may be matched: a market order has been given a price and a quantity.
Matchable(o, r, price) ==
    /\ r \in Row
    /\ ~IsMarket(o) => r.price = Request[o].price
    /\ ~IsMarket(o) /\ IsBuy(o) => price <= r.price
    /\ IsLimit(o) => r.released + r.qty * unit(o) <= Cost(o)
    /\ IsMarket(o) => /\ r.price = price
                      /\ IF IsBuy(o) THEN r.qty * price <= r.value ELSE r.qty = r.value

Taken(o, e, price) == IF IsBuy(o) THEN e * price ELSE e

\* What a fill of e at price does to one side, with k planned for its order.
Settled(o, side, k, esc, gone) ==
    /\ k \in Plan /\ k.mode \in {"keep", "drop"}
    /\ Steps(side.ops, o, k, NoPlan)
    /\ side.row \in Row
    /\ \A b : PlanFits(o, k, b, side.row, gone)
    /\ ~IsLadder(o) => \A c, b : Holds(o, esc, Due(o, c, b, side.row, k))

LEMMA LimitSettles ==
    ASSUME NEW o \in Orders, IsLimit(o), NEW row, NEW price \in Nat \ {0},
           Matchable(o, row, price), NEW e \in Nat, e <= row.qty,
           NEW esc \in Int, Holds(o, esc, Cost(o) - row.released), NEW gone
    PROVE  /\ \E k : Settled(o, LimitSide(o, row, e, price), k, esc - Taken(o, e, price), gone)
           /\ LimitSide(o, row, e, price).row.released = row.released
<1> DEFINE left == toFixedDown(row.qty - e)
           used == e * (IF IsBuy(o) THEN row.price ELSE 1)
           improved == IF IsBuy(o) THEN Refund(o, e * (row.price - price)) ELSE <<>>
           better == IF IsBuy(o) THEN e * (row.price - price) ELSE 0
           rest == unspentReservationOf(o, row, used)
           r == [row EXCEPT !.qty = left]
           side == LimitSide(o, row, e, price)
           taken == Taken(o, e, price)
<1>1. /\ ~IsMarket(o) /\ ~IsLadder(o) /\ Cost(o) \in Nat /\ unit(o) \in Nat \ {0}
      /\ row \in Row /\ row.price = Request[o].price
      /\ row.released \in Nat /\ row.qty \in Nat /\ row.price \in Nat
      /\ row.released + row.qty * unit(o) <= Cost(o)
      /\ IsBuy(o) => price <= row.price
  BY OrderFacts, RowTyped DEF Matchable
<1>2. used = e * unit(o)
  BY <1>1 DEF unit
<1>3. left \in Nat /\ left <= row.qty - e
  <2>1. row.qty - e \in Nat
    BY <1>1
  <2> QED
    BY <2>1, RoundedDown
<1>4. used \in Nat /\ row.released + used + left * unit(o) <= Cost(o) /\ left * unit(o) \in Nat
  <2> HIDE DEF left, used
  <2> DEFINE m == row.qty - e
  <2>1. m \in Nat
    BY <1>1
  <2>2. e * unit(o) \in Nat /\ m * unit(o) = row.qty * unit(o) - e * unit(o)
    BY <1>1, FillWithin
  <2> HIDE DEF m
  <2>3. left * unit(o) <= m * unit(o) /\ left * unit(o) \in Nat /\ m * unit(o) \in Nat
    BY <1>1, <1>3, <2>1, ProductsGrow DEF m
  <2>4. row.qty * unit(o) \in Nat
    BY <1>1, ProductsGrow
  <2> DEFINE x == left * unit(o)
             y == m * unit(o)
             z == row.qty * unit(o)
  <2>5. /\ x \in Nat /\ y \in Nat /\ z \in Nat /\ used \in Nat
        /\ x <= y /\ y = z - used /\ row.released + z <= Cost(o)
    BY <1>1, <1>2, <2>2, <2>3, <2>4
  <2> HIDE DEF x, y, z
  <2>6. row.released + used + x <= Cost(o)
    BY <1>1, <2>5
  <2> QED
    BY <2>5, <2>6 DEF x
<1>5. better \in Nat /\ taken \in Nat /\ better = used - taken
  <2>1. CASE IsBuy(o)
    <3> DEFINE d == row.price - price
    <3>1. d \in Nat /\ row.price = price + d
      <4>1. price <= row.price /\ row.price \in Nat
        BY <1>1, <2>1
      <4> HIDE DEF better, used, taken
      <4> QED
        BY <4>1
    <3> HIDE DEF d
    <3>2. e * d \in Nat /\ e * price \in Nat /\ e * (price + d) = e * price + e * d
      BY <3>1
    <3>3. used = e * price + e * d
      BY <2>1, <3>1, <3>2
    <3>4. better = e * d /\ taken = e * price
      BY <2>1 DEF d, Taken
    <3> HIDE DEF better, taken, used
    <3> QED
      BY <3>2, <3>3, <3>4
  <2>2. CASE ~IsBuy(o)
    BY <2>2 DEF Taken
  <2> QED
    BY <2>1, <2>2
<1>6. rest = Cost(o) - row.released - used /\ rest \in Nat
  <2> DEFINE x == left * unit(o)
             y == Cost(o) - row.released
  <2>1. x \in Nat /\ used \in Nat /\ row.released + used + x <= Cost(o)
    BY <1>4
  <2> HIDE DEF used, x
  <2>2. y \in Nat /\ y - used \in Nat
    BY <1>1, <2>1
  <2>3. reservationRemaining(o, row) = y
    BY <2>2 DEF reservationRemaining, Positive
  <2>4. rest = y - used
    BY <2>2, <2>3 DEF unspentReservationOf, Positive
  <2> QED
    BY <2>2, <2>4
<1>7. /\ side.row = r
      /\ side.ops = improved \o
            (IF left = 0 THEN ReleaseAll(o) \o Refund(o, rest) \o Hdel(o)
             ELSE Release(o, used) \o Hdel(o) \o Hset(o))
  BY DEF LimitSide
<1>8. /\ r \in Row /\ r.qty = left /\ r.price = row.price /\ r.released = row.released
  BY <1>1, <1>3, RowTyped
<1>9. esc = Cost(o) - row.released
  BY <1>1 DEF Holds, Exact
<1>10. ASSUME NEW t, NEW k, Steps(t, o, k, NoPlan),
              Steps(Refund(o, better) \o t, o, [k EXCEPT !.pay = @ + better], NoPlan),
              k \in Plan
       PROVE  Steps(improved \o t, o, [k EXCEPT !.pay = @ + better], NoPlan)
  <2>1. CASE IsBuy(o)
    BY <1>10, <2>1
  <2>2. CASE ~IsBuy(o)
    <3>1. better = 0 /\ improved = <<>>
      BY <2>2
    <3>2. Refund(o, better) = <<>>
      BY <3>1 DEF Refund
    <3> QED
      BY <1>10, <3>1, <3>2
  <2> QED
    BY <2>1, <2>2
<1> HIDE DEF used, improved, better, rest, r, side, taken
<1>11. CASE left = 0
  <2> DEFINE k == Dropped("read", rest + better)
             t == ReleaseAll(o) \o Refund(o, rest) \o Hdel(o)
  <2>1. k \in Plan /\ k.mode = "drop" /\ k.all = "read" /\ k.pay = rest + better
    <3>1. rest + better \in Nat
      BY <1>5, <1>6
    <3> QED
      BY <3>1, PlansTyped DEF Dropped
  <2>2. Steps(side.ops, o, k, NoPlan)
    <3>1. /\ Steps(t, o, Dropped("read", rest), NoPlan)
          /\ Steps(Refund(o, better) \o t, o, k, NoPlan)
      BY <1>5, <1>6, SideSteps
    <3>2. Dropped("read", rest) \in Plan
      BY <1>6, PlansTyped
    <3>3. [Dropped("read", rest) EXCEPT !.pay = @ + better] = k
      BY DEF Dropped
    <3>4. side.ops = improved \o t
      BY <1>7, <1>11
    <3> HIDE DEF t, k
    <3> QED
      BY <1>10, <3>1, <3>2, <3>3, <3>4
  <2>3. \A b : PlanFits(o, k, b, r, gone)
    <3>1. Over(o, r)
      BY <1>1, <1>8, <1>11, OrderFacts DEF Over, Market
    <3>2. r.released <= Cost(o)
      BY <1>1, <1>4, <1>8
    <3> HIDE DEF k
    <3> QED
      BY <1>8, <2>1, <3>1, <3>2 DEF PlanFits
  <2>4. \A c, b : Holds(o, esc - taken, Due(o, c, b, r, k))
    <3>1. esc - taken = rest + better
      BY <1>1, <1>4, <1>5, <1>6, <1>9
    <3>2. \A c, b : Due(o, c, b, r, k) = rest + better
      BY <2>1 DEF Due
    <3> QED
      BY <1>5, <1>6, <3>1, <3>2 DEF Holds
  <2> HIDE DEF k
  <2>5. Settled(o, side, k, esc - taken, gone)
    BY <1>7, <1>8, <2>1, <2>2, <2>3, <2>4 DEF Settled
  <2> QED
    BY <1>7, <1>8, <2>5 DEF side, taken
<1>12. CASE left # 0
  <2> DEFINE k == Kept(used, better)
             t == Release(o, used) \o Hdel(o) \o Hset(o)
  <2>1. k \in Plan /\ k.mode = "keep" /\ k.all = "no" /\ k.pay = better /\ k.rel = used
    BY <1>4, <1>5, PlansTyped DEF Kept
  <2>2. Steps(side.ops, o, k, NoPlan)
    <3>1. /\ Steps(t, o, Kept(used, 0), NoPlan)
          /\ Steps(Refund(o, better) \o t, o, k, NoPlan)
      BY <1>4, <1>5, SideSteps
    <3>2. Kept(used, 0) \in Plan
      BY <1>4, PlansTyped
    <3>3. [Kept(used, 0) EXCEPT !.pay = @ + better] = k
      BY <1>5 DEF Kept
    <3>4. side.ops = improved \o t
      BY <1>7, <1>12
    <3> HIDE DEF t, k
    <3> QED
      BY <1>10, <3>1, <3>2, <3>3, <3>4
  <2>3. \A b : PlanFits(o, k, b, r, gone)
    <3>1. Sound(o, r, k.rel)
      BY <1>1, <1>3, <1>4, <1>8, <1>12, <2>1 DEF Sound
    <3> HIDE DEF k
    <3> QED
      BY <2>1, <3>1 DEF PlanFits
  <2>4. \A c, b : Holds(o, esc - taken, Due(o, c, b, r, k))
    <3>1. Backing(o, r) = Cost(o) - row.released
      BY <1>1, <1>4, <1>8 DEF Backing, reservationRemaining, Positive
    <3>2. esc - taken = Backing(o, r) - used + better
      BY <1>1, <1>4, <1>5, <1>9, <3>1
    <3>3. \A c, b : Due(o, c, b, r, k) = Backing(o, r) - used + better
      BY <2>1 DEF Due
    <3>4. esc - taken \in Int
      BY <1>5
    <3> QED
      BY <3>2, <3>3, <3>4 DEF Holds
  <2> HIDE DEF k
  <2>5. Settled(o, side, k, esc - taken, gone)
    BY <1>7, <1>8, <2>1, <2>2, <2>3, <2>4 DEF Settled
  <2> QED
    BY <1>7, <1>8, <2>5 DEF side, taken
<1> QED
  BY <1>11, <1>12

-----------------------------------------------------------------------------

LEMMA LadderSettles ==
    ASSUME NEW o \in Orders, IsLadder(o), NEW row, NEW price, Matchable(o, row, price),
           NEW e \in Nat, e <= row.qty, NEW esc, NEW gone
    PROVE  \E k : Settled(o, LadderSide(o, row, e), k, esc, gone)
<1> DEFINE left == toFixedDown(row.qty - e)
           r == [row EXCEPT !.qty = left]
           side == LadderSide(o, row, e)
<1>1. /\ ~IsMarket(o) /\ ~IsLimit(o) /\ row \in Row /\ row.price = Request[o].price
      /\ row.qty \in Nat /\ Request[o].price \in Nat \ {0}
  BY OrderFacts, RowTyped DEF Matchable
<1>2. left \in Nat
  <2>1. row.qty - e \in Nat
    BY <1>1
  <2> QED
    BY <2>1, RoundedDown
<1>3. side.row = r /\ side.ops = IF left = 0 THEN Hdel(o) ELSE Hdel(o) \o Hset(o)
  BY DEF LadderSide
<1>4. r \in Row /\ r.qty = left /\ r.price = row.price
  BY <1>1, <1>2, RowTyped
<1> HIDE DEF left, r, side
<1>5. CASE left = 0
  <2> DEFINE k == Dropped("no", 0)
  <2>1. k \in Plan /\ k.mode = "drop" /\ k.all = "no" /\ k.rel = 0
    BY PlansTyped DEF Dropped
  <2>2. Steps(side.ops, o, k, NoPlan)
    BY <1>3, <1>5, SideSteps
  <2>3. Over(o, r)
    BY <1>1, <1>4, <1>5 DEF Over, Market
  <2> HIDE DEF k
  <2>4. \A b : PlanFits(o, k, b, r, gone)
    BY <1>1, <1>4, <2>1, <2>3 DEF PlanFits
  <2>5. Settled(o, side, k, esc, gone)
    BY <1>3, <1>4, <2>1, <2>2, <2>4 DEF Settled
  <2> QED
    BY <2>5 DEF side
<1>6. CASE left # 0
  <2> DEFINE k == Kept(0, 0)
  <2>1. k \in Plan /\ k.mode = "keep" /\ k.all = "no" /\ k.rel = 0
    BY PlansTyped DEF Kept
  <2>2. Steps(side.ops, o, k, NoPlan)
    BY <1>3, <1>6, SideSteps
  <2>3. Sound(o, r, 0)
    BY <1>1, <1>2, <1>4, <1>6 DEF Sound
  <2> HIDE DEF k
  <2>4. \A b : PlanFits(o, k, b, r, gone)
    BY <1>1, <2>1, <2>3 DEF PlanFits
  <2>5. Settled(o, side, k, esc, gone)
    BY <1>3, <1>4, <2>1, <2>2, <2>4 DEF Settled
  <2> QED
    BY <2>5 DEF side
<1> QED
  BY <1>5, <1>6

LEMMA MarketBuySettles ==
    ASSUME NEW o \in Orders, IsMarket(o), IsBuy(o), NEW row, NEW price \in Nat \ {0},
           Matchable(o, row, price), NEW e \in Nat, e <= row.qty, NEW others,
           NEW esc \in Int, Holds(o, esc, row.value), NEW gone
    PROVE  \E k : Settled(o, MarketBuySide(o, row, e, price, others), k,
                          esc - Taken(o, e, price), gone)
<1> DEFINE taken == e * price
           value == row.value - e * price
           done == toFixedDown(row.qty - e) = 0
           stays == others \/ value = 0
           r == [row EXCEPT !.qty = 0, !.value = value,
                            !.price = IF ~done /\ stays THEN Market ELSE price]
           side == MarketBuySide(o, row, e, price, others)
<1>1. /\ ~IsLimit(o) /\ ~IsLadder(o) /\ row \in Row
      /\ row.qty \in Nat /\ row.value \in Nat /\ row.qty * price <= row.value
  BY OrderFacts, RowTyped DEF Matchable
<1>2. /\ value \in Nat /\ taken \in Nat /\ value = row.value - taken
      /\ (row.qty - e) * price <= value /\ row.qty - e \in Nat
  <2> DEFINE x == row.qty * price
             y == (row.qty - e) * price
  <2>1. /\ taken \in Nat /\ x \in Nat /\ y \in Nat /\ y = x - taken
        /\ row.qty - e \in Nat
    BY <1>1, FillWithin, ProductsGrow
  <2>2. x <= row.value
    BY <1>1
  <2> HIDE DEF x, y, taken
  <2>3. row.value - taken \in Nat /\ y <= row.value - taken
    BY <1>1, <2>1, <2>2
  <2> QED
    BY <2>1, <2>3 DEF taken, y
<1>3. ~done => value > 0
  <2> DEFINE m == row.qty - e
  <2> SUFFICES ASSUME ~done PROVE value > 0
    OBVIOUS
  <2>1. m \in Nat /\ toFixedDown(m) \in Nat /\ toFixedDown(m) <= m /\ toFixedDown(m) # 0
    BY <1>2, RoundedDown
  <2> HIDE DEF m
  <2>2. m > 0
    BY <2>1
  <2>3. m * price > 0 /\ m * price \in Nat
    BY <2>1, <2>2, ProductsGrow
  <2> HIDE DEF value
  <2> QED
    BY <1>2, <2>1, <2>3 DEF m
<1>4. /\ side.row = r
      /\ side.ops = IF ~done /\ stays THEN Hdel(o) \o Hset(o)
                    ELSE Refund(o, value) \o Hdel(o)
  BY DEF MarketBuySide
<1>5. /\ r \in Row /\ r.qty = 0 /\ r.value = value
      /\ r.price = IF ~done /\ stays THEN Market ELSE price
  <2> DEFINE c == IF ~done /\ stays THEN Market ELSE price
  <2>1. c \in Nat
    BY DEF Market
  <2> HIDE DEF c, value
  <2>2. r = [row EXCEPT !.qty = 0, !.value = value, !.price = c]
    BY DEF c
  <2>3. value \in Nat /\ 0 \in Nat /\ row \in Row
    BY <1>1, <1>2
  <2> HIDE DEF r
  <2>4. r \in Row /\ r.qty = 0 /\ r.value = value /\ r.price = c
    BY <2>1, <2>2, <2>3 DEF Row
  <2> QED
    BY <2>4 DEF c
<1>6. esc = row.value /\ Taken(o, e, price) = taken /\ esc - taken = value
  BY <1>1, <1>2 DEF Holds, Exact, Taken
<1> HIDE DEF value, done, stays, r, side, taken
<1>7. CASE ~done /\ stays
  <2> DEFINE k == Kept(0, 0)
  <2>1. k \in Plan /\ k.mode = "keep" /\ k.all = "no" /\ k.rel = 0 /\ k.pay = 0
    BY PlansTyped DEF Kept
  <2>2. Steps(side.ops, o, k, NoPlan)
    BY <1>4, <1>7, SideSteps
  <2> HIDE DEF k
  <2>3. Sound(o, r, 0)
    BY <1>1, <1>3, <1>5, <1>7 DEF Sound
  <2>4. \A b : PlanFits(o, k, b, r, gone)
    BY <1>1, <2>1, <2>3 DEF PlanFits
  <2>5. \A c, b : Holds(o, esc - taken, Due(o, c, b, r, k))
    <3>1. \A c, b : Due(o, c, b, r, k) = value - 0 + 0
      BY <1>1, <1>5, <2>1 DEF Due, Backing
    <3> QED
      BY <1>2, <1>6, <3>1 DEF Holds
  <2>6. Settled(o, side, k, esc - taken, gone)
    BY <1>4, <1>5, <2>1, <2>2, <2>4, <2>5 DEF Settled
  <2> QED
    BY <1>6, <2>6 DEF side
<1>8. CASE ~(~done /\ stays)
  <2> DEFINE k == Dropped("no", value)
  <2>1. k \in Plan /\ k.mode = "drop" /\ k.all = "no" /\ k.rel = 0 /\ k.pay = value
    BY <1>2, PlansTyped DEF Dropped
  <2>2. Steps(side.ops, o, k, NoPlan)
    BY <1>2, <1>4, <1>8, SideSteps
  <2> HIDE DEF k
  <2>3. Over(o, r)
    BY <1>5, <1>8 DEF Over, Market
  <2>4. \A b : PlanFits(o, k, b, r, gone)
    BY <1>1, <1>5, <2>1, <2>3 DEF PlanFits
  <2>5. \A c, b : Holds(o, esc - taken, Due(o, c, b, r, k))
    BY <1>2, <1>6, <2>1 DEF Due, Holds
  <2>6. Settled(o, side, k, esc - taken, gone)
    BY <1>4, <1>5, <2>1, <2>2, <2>4, <2>5 DEF Settled
  <2> QED
    BY <1>6, <2>6 DEF side
<1> QED
  BY <1>7, <1>8

LEMMA MarketSellSettles ==
    ASSUME NEW o \in Orders, IsMarket(o), ~IsBuy(o), NEW row, NEW price \in Nat \ {0},
           Matchable(o, row, price), NEW e \in Nat, e <= row.qty, NEW others,
           NEW esc \in Int, Holds(o, esc, row.value), NEW gone, ~others => gone
    PROVE  \E k : Settled(o, MarketSellSide(o, row, e, others), k,
                          esc - Taken(o, e, price), gone)
<1> DEFINE left == toFixedDown(row.qty - e)
           m == row.qty - e
           r == IF left = 0 THEN [row EXCEPT !.qty = 0]
                ELSE [row EXCEPT !.qty = left, !.value = left, !.price = Market]
           side == MarketSellSide(o, row, e, others)
<1>1. /\ ~IsLimit(o) /\ ~IsLadder(o) /\ row \in Row
      /\ row.qty \in Nat /\ row.qty = row.value /\ row.price = price
  BY OrderFacts, RowTyped DEF Matchable
<1>2. /\ m \in Nat /\ left \in Nat /\ left <= m /\ (Lot = 1 => left = m)
  <2>1. m \in Nat
    BY <1>1
  <2> HIDE DEF m
  <2> QED
    BY <2>1, RoundedDown, RoundedExactly DEF m
<1>3. esc >= row.qty /\ (Exact(o) => esc = row.qty) /\ (Exact(o) <=> Lot = 1)
  BY <1>1 DEF Holds, Exact
<1>4. /\ side.row = r
      /\ side.ops = IF left = 0 THEN Hdel(o)
                    ELSE IF others THEN Hdel(o) \o Hset(o)
                    ELSE Refund(o, m) \o Hdel(o)
  BY DEF MarketSellSide
<1>5. /\ r \in Row /\ r.qty = left
      /\ left = 0 => r.price = price
      /\ left # 0 => r.price = Market /\ r.value = left
  <2>1. CASE left = 0
    <3>1. r = [row EXCEPT !.qty = 0] /\ 0 \in Nat
      BY <2>1
    <3> HIDE DEF r, left
    <3>2. r \in Row /\ r.qty = 0 /\ r.price = row.price
      BY <1>1, <3>1, RowTyped
    <3> QED
      BY <1>1, <2>1, <3>2
  <2>2. CASE left # 0
    <3>1. r = [row EXCEPT !.qty = left, !.value = left, !.price = Market] /\ Market \in Nat
      BY <2>2 DEF Market
    <3>2. left \in Nat /\ row \in Row
      BY <1>1, <1>2
    <3> HIDE DEF r, left
    <3>3. r \in Row /\ r.qty = left /\ r.value = left /\ r.price = Market
      BY <3>1, <3>2 DEF Row
    <3> QED
      BY <2>2, <3>3
  <2> QED
    BY <2>1, <2>2
<1>6. Taken(o, e, price) = e /\ esc - e >= m /\ (Exact(o) => esc - e = m)
  BY <1>1, <1>3 DEF Taken
<1> HIDE DEF left, m, r, side
<1>7. CASE left = 0
  <2> DEFINE k == Dropped("no", 0)
  <2>1. k \in Plan /\ k.mode = "drop" /\ k.all = "no" /\ k.rel = 0 /\ k.pay = 0
    BY PlansTyped DEF Dropped
  <2>2. Steps(side.ops, o, k, NoPlan)
    BY <1>4, <1>7, SideSteps
  <2> HIDE DEF k
  <2>3. Over(o, r)
    BY <1>1, <1>5, <1>7 DEF Over, Market
  <2>4. \A b : PlanFits(o, k, b, r, gone)
    BY <1>1, <1>5, <2>1, <2>3 DEF PlanFits
  <2>5. \A c, b : Holds(o, esc - e, Due(o, c, b, r, k))
    BY <1>2, <1>3, <1>6, <1>7, <2>1 DEF Due, Holds
  <2>6. Settled(o, side, k, esc - e, gone)
    BY <1>4, <1>5, <2>1, <2>2, <2>4, <2>5 DEF Settled
  <2> QED
    BY <1>6, <2>6 DEF side
<1>8. CASE left # 0 /\ others
  <2> DEFINE k == Kept(0, 0)
  <2>1. k \in Plan /\ k.mode = "keep" /\ k.all = "no" /\ k.rel = 0 /\ k.pay = 0
    BY PlansTyped DEF Kept
  <2>2. Steps(side.ops, o, k, NoPlan)
    BY <1>4, <1>8, SideSteps
  <2> HIDE DEF k
  <2>3. Sound(o, r, 0)
    BY <1>1, <1>2, <1>5, <1>8 DEF Sound
  <2>4. \A b : PlanFits(o, k, b, r, gone)
    BY <1>1, <2>1, <2>3 DEF PlanFits
  <2>5. \A c, b : Holds(o, esc - e, Due(o, c, b, r, k))
    <3>1. \A c, b : Due(o, c, b, r, k) = left - 0 + 0
      BY <1>1, <1>5, <1>8, <2>1 DEF Due, Backing
    <3> QED
      BY <1>2, <1>3, <1>6, <3>1 DEF Holds
  <2>6. Settled(o, side, k, esc - e, gone)
    BY <1>4, <1>5, <2>1, <2>2, <2>4, <2>5 DEF Settled
  <2> QED
    BY <1>6, <2>6 DEF side
<1>9. CASE left # 0 /\ ~others
  <2> DEFINE k == Dropped("no", m)
  <2>1. k \in Plan /\ k.mode = "drop" /\ k.all = "no" /\ k.rel = 0 /\ k.pay = m
    BY <1>2, PlansTyped DEF Dropped
  <2>2. Steps(side.ops, o, k, NoPlan)
    BY <1>2, <1>4, <1>9, SideSteps
  <2> HIDE DEF k
  <2>3. \A b : PlanFits(o, k, b, r, gone)
    BY <1>1, <1>5, <1>9, <2>1 DEF PlanFits
  <2>4. \A c, b : Holds(o, esc - e, Due(o, c, b, r, k))
    BY <1>2, <1>6, <2>1 DEF Due, Holds
  <2>5. Settled(o, side, k, esc - e, gone)
    BY <1>4, <1>5, <2>1, <2>2, <2>3, <2>4 DEF Settled
  <2> QED
    BY <1>6, <2>5 DEF side
<1> QED
  BY <1>7, <1>8, <1>9

\* What a listed order's escrow must hold before it is matched.
Stock(o, row) == IF IsLimit(o) THEN Cost(o) - row.released ELSE row.value

LEMMA FillSettles ==
    ASSUME NEW o \in Orders, NEW row, NEW price \in Nat \ {0}, NEW e \in Nat, NEW others,
           NEW esc \in Int, NEW gone, Matchable(o, row, price), e <= row.qty,
           ~IsLadder(o) => Holds(o, esc, Stock(o, row)),
           IsMarket(o) /\ ~IsBuy(o) /\ ~others => gone
    PROVE  \E k : Settled(o, FillSide(o, row, e, price, others), k,
                          esc - Taken(o, e, price), gone)
<1>1. CASE IsLadder(o)
  <2>1. ~IsLimit(o) /\ FillSide(o, row, e, price, others) = LadderSide(o, row, e)
    BY <1>1, OrderFacts DEF FillSide
  <2> QED
    BY <1>1, <2>1, LadderSettles
<1>2. CASE IsLimit(o)
  <2>1. /\ ~IsLadder(o)
        /\ FillSide(o, row, e, price, others) = LimitSide(o, row, e, price)
        /\ Stock(o, row) = Cost(o) - row.released
    BY <1>2, OrderFacts DEF FillSide, Stock
  <2> QED
    BY <1>2, <2>1, LimitSettles
<1>3. CASE IsMarket(o)
  <2>1. ~IsLadder(o) /\ ~IsLimit(o) /\ Stock(o, row) = row.value
    BY <1>3, OrderFacts DEF Stock
  <2>2. CASE IsBuy(o)
    <3>1. FillSide(o, row, e, price, others) = MarketBuySide(o, row, e, price, others)
      BY <1>3, <2>1, <2>2 DEF FillSide
    <3> QED
      BY <1>3, <2>1, <2>2, <3>1, MarketBuySettles
  <2>3. CASE ~IsBuy(o)
    <3>1. FillSide(o, row, e, price, others) = MarketSellSide(o, row, e, others)
      BY <1>3, <2>1, <2>3 DEF FillSide
    <3> QED
      BY <1>3, <2>1, <2>3, <3>1, MarketSellSettles
  <2> QED
    BY <2>2, <2>3
<1> QED
  BY <1>1, <1>2, <1>3, OrderFacts

LEMMA FillKeepsReleased ==
    ASSUME NEW o \in Orders, NEW row, NEW price, NEW e, NEW others, row \in Row, IsLimit(o)
    PROVE  FillSide(o, row, e, price, others).row.released = row.released
<1>1. ~IsLadder(o) /\ ~IsMarket(o)
  BY OrderFacts
<1>2. FillSide(o, row, e, price, others) = LimitSide(o, row, e, price)
  BY <1>1, OrderFacts DEF FillSide
<1>3. LimitSide(o, row, e, price).row = [row EXCEPT !.qty = toFixedDown(row.qty - e)]
  BY DEF LimitSide
<1>4. [row EXCEPT !.qty = toFixedDown(row.qty - e)].released = row.released
  BY RowTyped
<1> QED
  BY <1>2, <1>3, <1>4

-----------------------------------------------------------------------------
\* The inductive invariant of the money, with `a` what is still to be settled.

\* What a list of the tick may hold of an order with nothing planned: the row of the
\* book, that of an order that is complete, or a market sell that has been paid back.
Fresh(o, b, r) ==
    /\ b # NoRow /\ r \in Row
    /\ ~IsMarket(o) => r = b
    /\ IsMarket(o) =>
          /\ r.value = b.value
          /\ r.price # Market =>
                IF IsBuy(o) THEN r.qty * r.price <= r.value ELSE r.qty = r.value

Finished(o, b, r) == b = NoRow /\ Over(o, r) /\ (IsLimit(o) => r.released = Cost(o))

Gone(p, o, next) == IsMarket(o) /\ ~IsBuy(o) /\ tick[p].buys = <<>> /\ next = {}

Ready(p, a) ==
    {o \in Orders :
        /\ Listed(o)
        /\ a.plan[o].mode = "none" =>
              \/ Fresh(o, book[o], tick[p].rows[o])
              \/ Finished(o, book[o], tick[p].rows[o])
              \/ Gone(p, o, a.next)}

ClaimFits(o) ==
    /\ claim[o] \in Claimed
    /\ claim[o] # NoClaim =>
          /\ Sound(o, claim[o].row, 0)
          /\ ~IsLimit(o) => claim[o].step = "refund"
          /\ claim[o].step = "write" => claim[o].applied = Cost(o) - claim[o].row.released

Accounted(p, o, k) ==
    IF place[o] = "resting"
      THEN Holds(o, Escrow(o), Due(o, claim[o], book[o], tick[p].rows[o], k))
      ELSE Escrow(o) = Debited(o)

OrderFits(p, o, a) ==
    /\ place[o] \in {"new", "debited", "reserved", "resting"}
    /\ IsMarket(o) => place[o] # "reserved"
    /\ IsLadder(o) => place[o] = "new"
    /\ ClaimFits(o)
    /\ book[o] # NoRow => Sound(o, book[o], 0)
    /\ PlanFits(o, a.plan[o], book[o], tick[p].rows[o], Gone(p, o, a.next))
    /\ a.plan[o].mode # "none" => Listed(o) /\ claim[o] = NoClaim
    /\ ~IsLadder(o) => Accounted(p, o, a.plan[o])

RowsTyped(p) ==
    /\ tick[p].buys \in Seq(Orders) /\ tick[p].sells \in Seq(Orders)
    /\ tick[p].rows \in [Orders -> Row \cup {NoRow}]

ListsFit(p, a) ==
    /\ tick[p].at \in {"armed", "read"} =>
          \A o \in Orders : tick[p].rows[o] # NoRow => tick[p].rows[o] = book[o]
    /\ tick[p].at = "matching" =>
          ListOf(tick[p].buys, Ready(p, a)) /\ ListOf(tick[p].sells, Ready(p, a))

\* The orders of a match to come, and if two are to come, the buyers there are.
MatchFits(p, a, m) ==
    LET rows == tick[p].rows
    IN /\ m.o \in Ready(p, a) /\ m.with \in Ready(p, a)
       /\ a.plan[m.o].mode = "none" /\ a.plan[m.with].mode = "none"
       /\ rows[m.o].price = Market /\ Fresh(m.o, book[m.o], rows[m.o])
       /\ rows[m.with].price # Market
       /\ \/ Fresh(m.with, book[m.with], rows[m.with])
          \/ Finished(m.with, book[m.with], rows[m.with])
       /\ \A n \in a.next : m # n => tick[p].buys # <<>> /\ Tail(tick[p].buys) # <<>>

\* What a limit order has reserved.
Outstanding(p, o, k) ==
    IF place[o] = "reserved" THEN Cost(o)
    ELSE IF place[o] # "resting" THEN 0
    ELSE IF claim[o] # NoClaim THEN Cost(o) - claim[o].row.released
    ELSE IF k.mode # "none" THEN Cost(o) - tick[p].rows[o].released
    ELSE IF book[o] # NoRow THEN Cost(o) - book[o].released
    ELSE 0

\* A sum over every part of S, built up one element at a time.
Additive(m, v, S) ==
    /\ m \in [SUBSET S -> Nat] /\ m[{}] = 0
    /\ \A T \in SUBSET S : \A x \in T : m[T] = v[x] + m[T \ {x}]

Mine(f) == {o \in Orders : IsLimit(o) /\ Field(o) = f}
OutstandingOf(p, a) == [o \in Orders |-> Outstanding(p, o, a.plan[o])]
ReservedOf(p, a, f) ==
    \E m : Additive(m, OutstandingOf(p, a), Mine(f)) /\ inOrder[f] = m[Mine(f)]
Reserved(p, a) == \A f \in Users \X Coins : ReservedOf(p, a, f)

MoneyTyped ==
    /\ inOrder \in [Users \X Coins -> Nat]
    /\ refunded \in [Orders -> Nat]
    /\ earned \in [Orders -> Nat]
    /\ spent \in [Orders -> Nat]

MoneyAt(p, a) ==
    /\ a \in Agenda
    /\ Settles(tick[p].todo, a, Nothing)
    /\ \A o \in Orders : OrderFits(p, o, a)
    /\ RowsTyped(p)
    /\ ListsFit(p, a)
    /\ \A m \in a.next : MatchFits(p, a, m)
    /\ Reserved(p, a)

MoneyInv == MoneyTyped /\ \A p \in Pairs : \E a : MoneyAt(p, a)

-----------------------------------------------------------------------------
\* What a step leaves alone.

LEMMA OrderKept ==
    ASSUME NEW p, NEW o \in Orders, NEW a, NEW b, OrderFits(p, o, a),
           b.plan[o] = a.plan[o], book'[o] = book[o], place'[o] = place[o],
           claim'[o] = claim[o],
           ~IsLadder(o) => refunded'[o] = refunded[o] /\ spent'[o] = spent[o],
           tick'[p].rows[o] = tick[p].rows[o],
           Gone(p, o, a.next) => Gone(p, o, b.next)'
    PROVE  OrderFits(p, o, b)'
<1>1. /\ Debited(o)' = Debited(o)
      /\ ~IsLadder(o) => Escrow(o)' = Escrow(o)
  BY DEF Debited, Escrow
<1>2. Listed(o)' = Listed(o)
  BY DEF Listed
<1>3. ClaimFits(o)'
  BY DEF ClaimFits, OrderFits
<1>4. ~IsLadder(o) => Accounted(p, o, b.plan[o])'
  BY <1>1 DEF OrderFits, Accounted
<1>5. PlanFits(o, b.plan[o], book'[o], tick'[p].rows[o], Gone(p, o, b.next)')
  BY DEF PlanFits, OrderFits
<1> QED
  BY <1>2, <1>3, <1>4, <1>5 DEF OrderFits

LEMMA ReadyKept ==
    ASSUME NEW p, NEW o \in Orders, NEW a, NEW b, o \in Ready(p, a),
           b.plan[o] = a.plan[o], book'[o] = book[o], Listed(o)',
           tick'[p].rows[o] = tick[p].rows[o],
           Gone(p, o, a.next) => Gone(p, o, b.next)'
    PROVE  o \in Ready(p, b)'
  BY DEF Ready

LEMMA MatchKept ==
    ASSUME NEW p, NEW a, NEW b, NEW m, MatchFits(p, a, m), b.next \subseteq a.next,
           b.plan[m.o] = a.plan[m.o], b.plan[m.with] = a.plan[m.with],
           book'[m.o] = book[m.o], book'[m.with] = book[m.with],
           tick'[p].rows[m.o] = tick[p].rows[m.o],
           tick'[p].rows[m.with] = tick[p].rows[m.with],
           tick'[p].buys = tick[p].buys \/ b.next = {m},
           m.o \in Ready(p, b)', m.with \in Ready(p, b)'
    PROVE  MatchFits(p, b, m)'
  BY DEF MatchFits

LEMMA GoneKept ==
    ASSUME NEW p, NEW o, NEW a, NEW b, b.next \subseteq a.next,
           tick[p].buys = <<>> => tick'[p].buys = <<>>
    PROVE  Gone(p, o, a.next) => Gone(p, o, b.next)'
  BY DEF Gone

-----------------------------------------------------------------------------
\* Reservations.

LEMMA OutstandingTyped ==
    ASSUME NEW p, NEW a \in Agenda, NEW o \in Orders, IsLimit(o), OrderFits(p, o, a)
    PROVE  Outstanding(p, o, a.plan[o]) \in Nat
<1>1. Cost(o) \in Nat /\ unit(o) \in Nat \ {0}
  BY OrderFacts
<1>2. ASSUME NEW r, NEW n \in Nat, Sound(o, r, n)
      PROVE  Cost(o) - r.released \in Nat
  <2>1. r.qty \in Nat /\ r.released \in Nat
    BY <1>2, RowTyped DEF Sound
  <2>2. r.qty * unit(o) \in Nat /\ r.released + n + r.qty * unit(o) <= Cost(o)
    BY <1>1, <1>2, <2>1, ProductsGrow DEF Sound
  <2> DEFINE x == r.qty * unit(o)
  <2> HIDE DEF x
  <2>3. x \in Nat /\ r.released + n + x <= Cost(o)
    BY <2>2 DEF x
  <2> QED
    BY <1>1, <2>1, <2>3
<1>3. claim[o] # NoClaim => Cost(o) - claim[o].row.released \in Nat
  BY <1>2 DEF OrderFits, ClaimFits
<1>4. book[o] # NoRow => Cost(o) - book[o].released \in Nat
  BY <1>2 DEF OrderFits
<1>5. ASSUME a.plan[o].mode \in {"keep", "set"}, a.plan[o].rel \in Nat
      PROVE  Cost(o) - tick[p].rows[o].released \in Nat
  BY <1>2, <1>5 DEF OrderFits, PlanFits
<1>6. a.plan[o].mode = "drop" => Cost(o) - tick[p].rows[o].released \in Nat
  <2> SUFFICES ASSUME a.plan[o].mode = "drop"
               PROVE  Cost(o) - tick[p].rows[o].released \in Nat
    OBVIOUS
  <2>1. tick[p].rows[o] \in Row /\ tick[p].rows[o].released <= Cost(o)
    BY DEF OrderFits, PlanFits
  <2>2. tick[p].rows[o].released \in Nat
    BY <2>1, RowTyped
  <2> QED
    BY <1>1, <2>1, <2>2
<1>7. a.plan[o].mode \in {"none", "set", "keep", "drop"} /\ a.plan[o].rel \in Nat
  BY DEF Agenda, Plan
<1>8. a.plan[o].mode # "none" => Cost(o) - tick[p].rows[o].released \in Nat
  BY <1>5, <1>6, <1>7
<1>9. 0 \in Nat
  OBVIOUS
<1> QED
  BY <1>1, <1>3, <1>4, <1>8, <1>9, Zenon DEF Outstanding

-----------------------------------------------------------------------------

LEMMA ZeroAdds ==
    ASSUME NEW S, NEW v, \A x \in S : v[x] = 0
    PROVE  Additive([T \in SUBSET S |-> 0], v, S)
BY DEF Additive

LEMMA MovedAdds ==
    ASSUME NEW S, NEW v, NEW m, Additive(m, v, S), NEW x \in S, v[x] \in Nat,
           NEW w, w[x] \in Nat, \A y \in S \ {x} : w[y] = v[y] /\ v[y] \in Nat
    PROVE  \E k : Additive(k, w, S) /\ k[S] = m[S] - v[x] + w[x]
<1> DEFINE k == [T \in SUBSET S |-> IF x \in T THEN w[x] + m[T \ {x}] ELSE m[T]]
<1>1. k \in [SUBSET S -> Nat] /\ k[{}] = 0
  BY DEF Additive
<1>2. ASSUME NEW T \in SUBSET S, NEW y \in T
      PROVE  k[T] = w[y] + k[T \ {y}]
  <2>1. CASE y = x
    BY <2>1
  <2>2. CASE y # x /\ x \in T
    <3>1. (T \ {x}) \ {y} = (T \ {y}) \ {x}
      OBVIOUS
    <3>2. m[T \ {x}] = v[y] + m[(T \ {y}) \ {x}]
      <4>1. m[T \ {x}] = v[y] + m[(T \ {x}) \ {y}]
        BY <2>2 DEF Additive
      <4> QED
        BY <3>1, <4>1
    <3>3. k[T] = w[x] + m[T \ {x}] /\ k[T \ {y}] = w[x] + m[(T \ {y}) \ {x}]
      BY <2>2
    <3>4. m[(T \ {y}) \ {x}] \in Nat /\ w[y] = v[y] /\ v[y] \in Nat
      BY <2>2 DEF Additive
    <3> HIDE DEF k
    <3> QED
      BY <3>2, <3>3, <3>4
  <2>3. CASE x \notin T
    BY <2>3 DEF Additive
  <2> QED
    BY <2>1, <2>2, <2>3
<1>3. k[S] = m[S] - v[x] + w[x]
  <2>1. m[S] = v[x] + m[S \ {x}] /\ m[S \ {x}] \in Nat
    BY DEF Additive
  <2>2. k[S] = w[x] + m[S \ {x}]
    OBVIOUS
  <2> HIDE DEF k
  <2> QED
    BY <2>1, <2>2
<1>4. Additive(k, w, S)
  <2> HIDE DEF k
  <2> QED
    BY <1>1, <1>2 DEF Additive
<1> HIDE DEF k
<1> QED
  BY <1>3, <1>4

LEMMA SameAdds ==
    ASSUME NEW S, NEW v, NEW m, Additive(m, v, S), NEW w, \A y \in S : w[y] = v[y]
    PROVE  Additive(m, w, S)
BY DEF Additive

LEMMA ReservedSame ==
    ASSUME NEW p, NEW a, NEW b, Reserved(p, a), inOrder' = inOrder,
           \A o \in Orders : IsLimit(o) =>
               Outstanding(p, o, b.plan[o])' = Outstanding(p, o, a.plan[o])
    PROVE  Reserved(p, b)'
<1> SUFFICES ASSUME NEW f \in Users \X Coins
             PROVE  ReservedOf(p, b, f)'
  BY DEF Reserved
<1> DEFINE v == OutstandingOf(p, a)
           w == OutstandingOf(p, b)'
           S == Mine(f)
<1>1. PICK m : Additive(m, v, S) /\ inOrder[f] = m[S]
  BY DEF Reserved, ReservedOf
<1>2. \A y \in S : w[y] = v[y]
  BY DEF Mine, OutstandingOf
<1> HIDE DEF v, w
<1>3. Additive(m, w, S)
  BY <1>1, <1>2, SameAdds
<1>4. S' = S
  BY DEF Mine
<1> QED
  BY <1>1, <1>3, <1>4 DEF ReservedOf, w

LEMMA ReservedMoved ==
    ASSUME NEW p, NEW a, NEW b, Reserved(p, a), NEW o \in Orders, IsLimit(o),
           \A q \in Orders : IsLimit(q) => Outstanding(p, q, a.plan[q]) \in Nat,
           Outstanding(p, o, b.plan[o])' \in Nat,
           inOrder'[Field(o)] = inOrder[Field(o)]
               - Outstanding(p, o, a.plan[o]) + Outstanding(p, o, b.plan[o])',
           \A f \in Users \X Coins : f # Field(o) => inOrder'[f] = inOrder[f],
           \A q \in Orders : IsLimit(q) /\ q # o =>
               Outstanding(p, q, b.plan[q])' = Outstanding(p, q, a.plan[q])
    PROVE  Reserved(p, b)'
<1> SUFFICES ASSUME NEW f \in Users \X Coins
             PROVE  ReservedOf(p, b, f)'
  BY DEF Reserved
<1> DEFINE v == OutstandingOf(p, a)
           w == OutstandingOf(p, b)'
           S == Mine(f)
<1>1. PICK m : Additive(m, v, S) /\ inOrder[f] = m[S]
  BY DEF Reserved, ReservedOf
<1>2. S' = S
  BY DEF Mine
<1>3. \A y \in S : y # o => w[y] = v[y] /\ v[y] \in Nat
  BY DEF Mine, OutstandingOf
<1>4. /\ v[o] = Outstanding(p, o, a.plan[o]) /\ w[o] = Outstanding(p, o, b.plan[o])'
      /\ v[o] \in Nat /\ w[o] \in Nat
  BY DEF OutstandingOf
<1>5. o \in S <=> f = Field(o)
  BY DEF Mine
<1>6. inOrder'[f] = IF f = Field(o) THEN m[S] - v[o] + w[o] ELSE m[S]
  BY <1>1, <1>4
<1> HIDE DEF v, w, S
<1>7. \E k : Additive(k, w, S) /\ inOrder'[f] = k[S]
  <2>1. CASE f = Field(o)
    <3>1. \A y \in S \ {o} : w[y] = v[y] /\ v[y] \in Nat
      BY <1>3
    <3>2. o \in S
      BY <1>5, <2>1
    <3>3. \E k : Additive(k, w, S) /\ k[S] = m[S] - v[o] + w[o]
      BY <1>1, <1>4, <3>1, <3>2, MovedAdds
    <3> QED
      BY <1>6, <2>1, <3>3
  <2>2. CASE f # Field(o)
    <3>1. \A y \in S : w[y] = v[y]
      BY <1>3, <1>5, <2>2
    <3> QED
      BY <1>1, <1>6, <2>2, <3>1, SameAdds
  <2> QED
    BY <2>1, <2>2
<1> QED
  BY <1>2, <1>7 DEF ReservedOf, w, S

\* No release is ever clamped: of each coin, at least what the order holds is reserved.
LEMMA OutstandingWithin ==
    ASSUME NEW p, NEW a, Reserved(p, a), NEW o \in Orders, IsLimit(o),
           Outstanding(p, o, a.plan[o]) \in Nat
    PROVE  /\ inOrder[Field(o)] \in Nat
           /\ Outstanding(p, o, a.plan[o]) <= inOrder[Field(o)]
<1> DEFINE v == OutstandingOf(p, a)
           f == Field(o)
           S == Mine(f)
<1>1. f \in Users \X Coins
  BY OrderFacts
<1>2. PICK m : Additive(m, v, S) /\ inOrder[f] = m[S]
  BY <1>1 DEF Reserved, ReservedOf
<1>3. o \in S /\ v[o] = Outstanding(p, o, a.plan[o])
  BY DEF Mine, OutstandingOf
<1> HIDE DEF v, S, f
<1>4. m[S] = v[o] + m[S \ {o}] /\ m[S \ {o}] \in Nat
  BY <1>2, <1>3 DEF Additive
<1>5. inOrder[f] \in Nat /\ v[o] <= inOrder[f]
  BY <1>2, <1>3, <1>4
<1> QED
  BY <1>3, <1>5 DEF f

-----------------------------------------------------------------------------
\* Steps that move one order and leave the lists of the tick.

LEMMA LimitsTyped ==
    ASSUME NEW p, NEW a, MoneyAt(p, a)
    PROVE  \A o \in Orders : IsLimit(o) => Outstanding(p, o, a.plan[o]) \in Nat
  BY OutstandingTyped DEF MoneyAt

LEMMA OneOrder ==
    ASSUME NEW p, NEW a, NEW b \in Agenda, MoneyAt(p, a), NEW o \in Orders,
           Settles(tick'[p].todo, b, Nothing), b.next = a.next,
           \A q \in Orders : q # o =>
              /\ b.plan[q] = a.plan[q] /\ book'[q] = book[q] /\ place'[q] = place[q]
              /\ claim'[q] = claim[q] /\ refunded'[q] = refunded[q]
              /\ spent'[q] = spent[q] /\ tick'[p].rows[q] = tick[p].rows[q],
           tick'[p].at = tick[p].at, tick'[p].buys = tick[p].buys,
           tick'[p].sells = tick[p].sells,
           tick'[p].rows \in [Orders -> Row \cup {NoRow}],
           OrderFits(p, o, b)',
           tick[p].at \in {"armed", "read"} /\ tick'[p].rows[o] # NoRow =>
              tick'[p].rows[o] = book'[o],
           tick[p].at = "matching" /\ o \in Ready(p, a) => o \in Ready(p, b)',
           \A m \in a.next : o \in Parties(m) =>
              /\ b.plan[o] = a.plan[o] /\ book'[o] = book[o]
              /\ tick'[p].rows[o] = tick[p].rows[o] /\ Listed(o)',
           Reserved(p, b)'
    PROVE  MoneyAt(p, b)'
<1>1. /\ a \in Agenda /\ \A q \in Orders : OrderFits(p, q, a)
      /\ RowsTyped(p) /\ ListsFit(p, a) /\ \A m \in a.next : MatchFits(p, a, m)
  BY DEF MoneyAt
<1>2. \A q \in Orders : Gone(p, q, a.next) => Gone(p, q, b.next)'
  BY DEF Gone
<1>3. \A q \in Orders : OrderFits(p, q, b)'
  <2> SUFFICES ASSUME NEW q \in Orders, q # o PROVE OrderFits(p, q, b)'
    OBVIOUS
  <2> QED
    BY <1>1, <1>2, OrderKept
<1>4. ASSUME NEW q \in Ready(p, a), q # o PROVE q \in Ready(p, b)'
  <2>1. q \in Orders /\ Listed(q)
    BY DEF Ready
  <2>2. Listed(q)'
    BY <1>4, <2>1 DEF Listed
  <2> QED
    BY <1>2, <1>4, <2>1, <2>2, ReadyKept
<1>5. RowsTyped(p)'
  BY <1>1 DEF RowsTyped
<1>6. ListsFit(p, b)'
  <2>1. CASE tick[p].at \in {"armed", "read"}
    BY <1>1, <2>1 DEF ListsFit
  <2>2. CASE tick[p].at = "matching"
    <3>1. Ready(p, a) \subseteq Ready(p, b)'
      BY <1>4, <2>2
    <3>2. ListOf(tick[p].buys, Ready(p, a)) /\ ListOf(tick[p].sells, Ready(p, a))
      BY <1>1, <2>2 DEF ListsFit
    <3>3. ListOf(tick[p].buys, Ready(p, b)') /\ ListOf(tick[p].sells, Ready(p, b)')
      BY <3>1, <3>2, ListOfWider
    <3> QED
      BY <2>2, <3>3 DEF ListsFit
  <2>3. CASE tick[p].at \notin {"armed", "read", "matching"}
    BY <2>3 DEF ListsFit
  <2> QED
    BY <2>1, <2>2, <2>3
<1>7. ASSUME NEW m \in b.next PROVE MatchFits(p, b, m)'
  <2>1. MatchFits(p, a, m) /\ m.o \in Ready(p, a) /\ m.with \in Ready(p, a)
    BY <1>1 DEF MatchFits
  <2>2. \A q \in Parties(m) :
           /\ q \in Orders /\ b.plan[q] = a.plan[q] /\ book'[q] = book[q]
           /\ tick'[p].rows[q] = tick[p].rows[q] /\ q \in Ready(p, b)'
    <3> SUFFICES ASSUME NEW q \in Parties(m)
                 PROVE  /\ q \in Orders /\ b.plan[q] = a.plan[q] /\ book'[q] = book[q]
                        /\ tick'[p].rows[q] = tick[p].rows[q] /\ q \in Ready(p, b)'
      OBVIOUS
    <3>1. q \in Ready(p, a) /\ q \in Orders
      BY <2>1 DEF Parties, Ready
    <3>2. CASE q # o
      BY <1>4, <3>1, <3>2
    <3>3. CASE q = o
      BY <1>2, <1>7, <3>1, <3>3, ReadyKept
    <3> QED
      BY <3>2, <3>3
  <2>3. m.o \in Parties(m) /\ m.with \in Parties(m)
    BY DEF Parties
  <2> QED
    BY <2>1, <2>2, <2>3, MatchKept
<1> QED
  BY <1>3, <1>5, <1>6, <1>7 DEF MoneyAt

\* An order the tick and the book do not hold yet.
LEMMA Unlisted ==
    ASSUME MatcherInv, NEW p \in Pairs, NEW a, MoneyAt(p, a), NEW o \in Orders, ~Listed(o)
    PROVE  /\ o \notin Ready(p, a) /\ a.plan[o] = NoPlan
           /\ \A m \in a.next : o \notin Parties(m)
           /\ book[o] = NoRow /\ claim[o] = NoClaim
           /\ tick[p].at \in {"armed", "read"} => tick[p].rows[o] = NoRow
<1>1. o \notin Ready(p, a)
  BY DEF Ready
<1>2. \A m \in a.next : o \notin Parties(m)
  BY <1>1 DEF MoneyAt, MatchFits, Parties
<1>3. OrderFits(p, o, a)
  BY DEF MoneyAt
<1>4. a.plan[o] = NoPlan
  BY <1>3 DEF OrderFits, PlanFits
<1>5. book[o] = NoRow /\ claim[o] = NoClaim
  BY DEF MatcherInv, OrdersInv, Listed
<1>6. tick[p].at \in {"armed", "read"} => tick[p].rows[o] = NoRow
  BY DEF MatcherInv, TickInv, ReadInv, Held
<1> QED
  BY <1>1, <1>2, <1>4, <1>5, <1>6

\* Placing an order.
LEMMA PlacingAccounts ==
    ASSUME MatcherInv, MoneyTyped, NEW p \in Pairs, NEW a, MoneyAt(p, a), NEW o \in Orders,
           DebitLimit(o) \/ DebitMarket(o) \/ PlaceStep(o)
    PROVE  MoneyAt(p, a)' /\ MoneyTyped'
<1>1. /\ tick' = tick /\ claim' = claim /\ UNCHANGED money
      /\ place = [q \in Orders |-> place[q]] /\ book = [q \in Orders |-> book[q]]
  BY DEF DebitLimit, DebitMarket, Debit, PlaceStep, Reserve, ListLimit, ListMarket,
         List, matcher, MatcherInv, OrdersInv
<1>2. ~Listed(o) /\ (IsLimit(o) \/ IsMarket(o)) /\ ~IsLadder(o)
  <2>1. place[o] \in {"new", "debited", "reserved"}
    BY DEF DebitLimit, DebitMarket, Debit, PlaceStep, Reserve, ListLimit, ListMarket,
           Placing
  <2>2. IsLimit(o) \/ IsMarket(o)
    BY DEF DebitLimit, DebitMarket, PlaceStep, Reserve, ListLimit, ListMarket
  <2> QED
    BY <2>1, <2>2, OrderFacts DEF Listed
<1>3. /\ o \notin Ready(p, a) /\ a.plan[o] = NoPlan
      /\ \A m \in a.next : o \notin Parties(m)
      /\ book[o] = NoRow /\ claim[o] = NoClaim
      /\ tick[p].at \in {"armed", "read"} => tick[p].rows[o] = NoRow
  BY <1>2, Unlisted
<1>4. /\ a \in Agenda /\ Settles(tick[p].todo, a, Nothing) /\ OrderFits(p, o, a)
      /\ tick[p].rows \in [Orders -> Row \cup {NoRow}] /\ Reserved(p, a)
  BY DEF MoneyAt, RowsTyped
<1>5. /\ Escrow(o) = Debited(o) /\ refunded[o] \in Nat /\ spent[o] \in Nat
      /\ Cost(o) \in Nat /\ Cost(o) > 0
      /\ NoPlan.mode = "none"
  BY <1>2, <1>4, OrderFacts DEF OrderFits, Accounted, Listed, MoneyTyped, NoPlan
<1>6. ASSUME NEW next, place' = [place EXCEPT ![o] = next],
             next \in {"debited", "reserved", "resting"},
             IsMarket(o) => next # "reserved",
             \A q \in Orders : q # o => book'[q] = book[q],
             book'[o] # NoRow => Sound(o, book'[o], 0),
             next # "resting" => Debited(o)' - refunded[o] - spent[o] = Debited(o)',
             next = "resting" => /\ book'[o] # NoRow
                                 /\ Debited(o)' - refunded[o] - spent[o] = Backing(o, book'[o]),
             Reserved(p, a)'
      PROVE  MoneyAt(p, a)'
  <2>1. place'[o] = next /\ \A q \in Orders : q # o => place'[q] = place[q]
    BY <1>1, <1>6
  <2>2. Escrow(o)' = Debited(o)' - refunded[o] - spent[o]
    BY <1>1 DEF Escrow, money
  <2>3. Accounted(p, o, a.plan[o])'
    <3>1. CASE next = "resting"
      <4>1. Due(o, claim'[o], book'[o], tick'[p].rows[o], a.plan[o]) = Backing(o, book'[o])
        BY <1>1, <1>3, <1>5, <1>6, <3>1 DEF Due
      <4>2. Escrow(o)' \in Int /\ Escrow(o)' = Backing(o, book'[o])
        <5>1. Debited(o)' \in Int
          BY <1>5 DEF Debited
        <5> QED
          BY <1>5, <1>6, <2>2, <3>1, <5>1
      <4> QED
        BY <2>1, <3>1, <4>1, <4>2 DEF Accounted, Holds
    <3>2. CASE next # "resting"
      BY <1>6, <2>1, <2>2, <3>2 DEF Accounted
    <3> QED
      BY <3>1, <3>2
  <2>4. OrderFits(p, o, a)'
    <3>1. ClaimFits(o)'
      BY <1>1, <1>3 DEF ClaimFits, NoClaim, Claimed, OrderFits, MoneyAt
    <3>2. PlanFits(o, a.plan[o], book'[o], tick'[p].rows[o], Gone(p, o, a.next)')
      BY <1>3 DEF PlanFits, NoPlan
    <3> QED
      BY <1>2, <1>3, <1>5, <1>6, <2>1, <2>3, <3>1, <3>2, <1>1 DEF OrderFits
  <2>5. \A q \in Orders : refunded'[q] = refunded[q] /\ spent'[q] = spent[q]
    BY <1>1 DEF money
  <2> QED
    BY <1>1, <1>3, <1>4, <1>6, <2>1, <2>4, <2>5, OneOrder
<1>7. \A q \in Orders : IsLimit(q) => Outstanding(p, q, a.plan[q]) \in Nat
  BY LimitsTyped
<1>8. MoneyTyped' /\ MoneyAt(p, a)'
  <2>1. CASE DebitLimit(o) \/ DebitMarket(o)
    <3>1. /\ place[o] = "new" /\ place' = [place EXCEPT ![o] = "debited"]
          /\ book' = book /\ inOrder' = inOrder
      BY <2>1 DEF DebitLimit, DebitMarket, Debit, Placing
    <3>2. MoneyTyped'
      BY <1>1, <3>1 DEF MoneyTyped, money
    <3>3. refunded[o] + spent[o] = 0
      BY <1>5, <3>1 DEF Escrow, Debited
    <3>4. Debited(o)' - refunded[o] - spent[o] = Debited(o)'
      <4>1. Debited(o)' \in Nat
        BY <1>5 DEF Debited
      <4> QED
        BY <1>5, <3>3, <4>1
    <3>5. Reserved(p, a)'
      <4>1. \A q \in Orders : Outstanding(p, q, a.plan[q])' = Outstanding(p, q, a.plan[q])
        BY <1>1, <3>1 DEF Outstanding
      <4> QED
        BY <1>4, <3>1, <4>1, ReservedSame
    <3> QED
      BY <1>3, <1>6, <3>1, <3>2, <3>4, <3>5
  <2>2. CASE Reserve(o)
    <3>1. /\ place[o] = "debited" /\ place' = [place EXCEPT ![o] = "reserved"]
          /\ book' = book /\ IsLimit(o)
          /\ inOrder' = [inOrder EXCEPT ![Field(o)] = @ + Cost(o)]
      BY <2>2 DEF Reserve, Placing
    <3>2. Field(o) \in Users \X Coins /\ inOrder[Field(o)] \in Nat
      BY OrderFacts DEF MoneyTyped
    <3>3. MoneyTyped'
      BY <1>1, <1>5, <3>1, <3>2 DEF MoneyTyped, money
    <3>4. Debited(o)' = Debited(o) /\ Debited(o) - refunded[o] - spent[o] = Debited(o)
      BY <1>1, <1>5, <3>1 DEF Debited, Escrow
    <3>5. Reserved(p, a)'
      <4>1. \A q \in Orders : IsLimit(q) /\ q # o =>
               Outstanding(p, q, a.plan[q])' = Outstanding(p, q, a.plan[q])
        BY <1>1, <3>1 DEF Outstanding
      <4>2. Outstanding(p, o, a.plan[o]) = 0 /\ Outstanding(p, o, a.plan[o])' = Cost(o)
        BY <1>1, <3>1 DEF Outstanding
      <4>3. /\ inOrder'[Field(o)] = inOrder[Field(o)]
                 - Outstanding(p, o, a.plan[o]) + Outstanding(p, o, a.plan[o])'
            /\ Outstanding(p, o, a.plan[o])' \in Nat
            /\ \A f \in Users \X Coins : f # Field(o) => inOrder'[f] = inOrder[f]
        BY <1>5, <3>1, <3>2, <4>2 DEF MoneyTyped
      <4> QED
        BY <1>4, <1>7, <3>1, <4>1, <4>3, ReservedMoved
    <3> QED
      BY <1>2, <1>3, <1>6, <3>1, <3>3, <3>4, <3>5, OrderFacts
  <2>3. CASE ListLimit(o) \/ ListMarket(o)
    <3>1. /\ place[o] # "new" /\ place' = [place EXCEPT ![o] = "resting"]
          /\ inOrder' = inOrder
          /\ \/ IsLimit(o) /\ place[o] = "reserved" /\ book' = [book EXCEPT ![o] = LimitRow(o)]
             \/ IsMarket(o) /\ book' = [book EXCEPT ![o] = MarketRow(o)]
      BY <2>3 DEF ListLimit, ListMarket, List, Placing
    <3>2. MoneyTyped'
      BY <1>1, <3>1 DEF MoneyTyped, money
    <3>3. /\ \A q \in Orders : q # o => book'[q] = book[q]
          /\ \/ IsLimit(o) /\ place[o] = "reserved" /\ book'[o] = LimitRow(o)
             \/ IsMarket(o) /\ book'[o] = MarketRow(o)
      BY <1>1, <3>1
    <3>4. /\ Sound(o, book'[o], 0) /\ Backing(o, book'[o]) = Cost(o)
          /\ IsLimit(o) => book'[o].released = 0
      <4>1. CASE IsLimit(o) /\ book'[o] = LimitRow(o)
        <5>1. LimitRow(o) \in Row /\ LimitRow(o).qty * unit(o) = Cost(o)
          BY OrderFacts DEF LimitRow, Row
        <5>2. ~IsMarket(o) /\ LimitRow(o).released = 0 /\ LimitRow(o).price = Request[o].price
                /\ LimitRow(o).qty > 0
          BY <4>1, OrderFacts DEF LimitRow
        <5>3. Sound(o, LimitRow(o), 0)
          BY <1>5, <5>1, <5>2 DEF Sound
        <5>4. Backing(o, LimitRow(o)) = Cost(o)
          BY <1>5, <4>1, <5>2 DEF Backing, reservationRemaining, Positive
        <5> QED
          BY <4>1, <5>2, <5>3, <5>4
      <4>2. CASE IsMarket(o) /\ book'[o] = MarketRow(o)
        <5>1. MarketRow(o) \in Row /\ ~IsLimit(o)
          BY <4>2, OrderFacts DEF MarketRow, Row, Market
        <5>2. MarketRow(o).value = Cost(o) /\ MarketRow(o).price = Market
          BY DEF MarketRow
        <5> QED
          BY <1>5, <4>2, <5>1, <5>2 DEF Sound, Backing
      <4> QED
        BY <3>3, <4>1, <4>2
    <3>5. book'[o] # NoRow
      BY <3>4, NoRowAssumption DEF Sound
    <3>6. Debited(o)' - refunded[o] - spent[o] = Backing(o, book'[o])
      <4>1. Debited(o)' = Cost(o) /\ Debited(o) = Cost(o)
        BY <1>1, <3>1 DEF Debited
      <4> QED
        BY <1>5, <3>4, <4>1 DEF Escrow
    <3>7. Reserved(p, a)'
      <4>1. \A q \in Orders : IsLimit(q) =>
               Outstanding(p, q, a.plan[q])' = Outstanding(p, q, a.plan[q])
        <5> SUFFICES ASSUME NEW q \in Orders, IsLimit(q)
                     PROVE  Outstanding(p, q, a.plan[q])' = Outstanding(p, q, a.plan[q])
          OBVIOUS
        <5>1. CASE q # o
          BY <1>1, <3>1, <3>3, <5>1 DEF Outstanding
        <5>2. CASE q = o
          <6>1. place'[o] = "resting" /\ place[o] = "reserved"
            BY <1>1, <3>1, <5>2, OrderFacts
          <6>2. Outstanding(p, o, a.plan[o])' = Cost(o) - 0
            BY <1>1, <1>3, <1>5, <3>4, <3>5, <5>2, <6>1 DEF Outstanding
          <6> QED
            BY <1>5, <5>2, <6>1, <6>2 DEF Outstanding
        <5> QED
          BY <5>1, <5>2
      <4> QED
        BY <1>4, <3>1, <4>1, ReservedSame
    <3> QED
      BY <1>3, <1>6, <3>1, <3>2, <3>3, <3>4, <3>5, <3>6, <3>7
  <2> QED
    BY <2>1, <2>2, <2>3 DEF PlaceStep
<1> QED
  BY <1>8

-----------------------------------------------------------------------------
\* Cancelling an order.

\* With nothing planned, what a claim takes with the row is what the row backed.
LEMMA ClaimAccounts ==
    ASSUME MatcherInv, NEW p, NEW a \in Agenda, NEW b \in Agenda, NEW o \in Orders,
           OrderFits(p, o, a), a.plan[o] = NoPlan, b.plan[o] = NoPlan,
           NEW S, NEW by \in {"owner", "closure", "matcher"}, Claim(S, by),
           o \in S => ~IsLadder(o), place' = place,
           refunded' = refunded, spent' = spent
    PROVE  /\ OrderFits(p, o, b)'
           /\ Outstanding(p, o, b.plan[o])' = Outstanding(p, o, a.plan[o])
<1>1. Debited(o)' = Debited(o) /\ Escrow(o)' = Escrow(o) /\ NoPlan.mode = "none"
  BY DEF Debited, Escrow, NoPlan
<1>2. PlanFits(o, b.plan[o], book'[o], tick'[p].rows[o], Gone(p, o, b.next)')
  BY DEF PlanFits, NoPlan
<1>3. CASE o \in S /\ book[o] # NoRow
  <2> DEFINE c == [step |-> "refund", by |-> by, row |-> book[o], applied |-> 0]
  <2>1. book'[o] = NoRow /\ claim'[o] = c
    BY <1>3 DEF Claim
  <2>2. claim[o] = NoClaim /\ place[o] = "resting"
    BY <1>3 DEF MatcherInv, OrdersInv, Listed
  <2>3. c.step = "refund" /\ c.row = book[o] /\ c # NoClaim
    BY DEF NoClaim
  <2>4. Sound(o, book[o], 0)
    BY <1>3 DEF OrderFits
  <2>5. ClaimFits(o)'
    <3>1. c \in Claimed
      BY <2>4 DEF Claimed, Sound
    <3> HIDE DEF c
    <3> QED
      BY <2>1, <2>3, <2>4, <3>1 DEF ClaimFits
  <2> HIDE DEF c
  <2>6. ~IsLadder(o) => Accounted(p, o, b.plan[o])'
    BY <1>1, <1>3, <2>1, <2>2, <2>3 DEF OrderFits, Accounted, Due
  <2>7. Outstanding(p, o, b.plan[o])' = Outstanding(p, o, a.plan[o])
    BY <1>1, <1>3, <2>1, <2>2, <2>3 DEF Outstanding
  <2> QED
    BY <1>1, <1>2, <2>1, <2>5, <2>6, <2>7 DEF OrderFits
<1>4. CASE ~(o \in S /\ book[o] # NoRow)
  <2>1. book'[o] = book[o] /\ claim'[o] = claim[o]
    BY <1>4 DEF Claim
  <2>2. ClaimFits(o)'
    BY <2>1 DEF ClaimFits, OrderFits
  <2>3. ~IsLadder(o) => Accounted(p, o, b.plan[o])'
    BY <1>1, <2>1 DEF OrderFits, Accounted, Due
  <2>4. Outstanding(p, o, b.plan[o])' = Outstanding(p, o, a.plan[o])
    BY <1>1, <2>1 DEF Outstanding
  <2> QED
    BY <1>1, <1>2, <2>1, <2>2, <2>3, <2>4 DEF OrderFits
<1> QED
  BY <1>3, <1>4

\* A tick with nothing to settle plans nothing.
LEMMA NothingPlanned ==
    ASSUME NEW p, NEW a, MoneyAt(p, a), tick[p].todo = <<>>
    PROVE  a = Nothing /\ \A o \in Orders : a.plan[o] = NoPlan
<1>1. a = Nothing
  BY SettlesNone DEF MoneyAt
<1> QED
  BY <1>1 DEF Nothing

LEMMA NothingToSettle ==
    /\ Settles(<<>>, Nothing, Nothing) /\ Nothing \in Agenda /\ Nothing.next = {}
    /\ \A o \in Orders : Nothing.plan[o] = NoPlan
  BY NothingIsAgenda, SettlesNone DEF Nothing

LEMMA CancelAccounts ==
    ASSUME MatcherInv, OnePair, MoneyTyped, NEW p \in Pairs, NEW a, MoneyAt(p, a),
           NEW o \in Orders, CancelOrder(o)
    PROVE  MoneyAt(p, a)' /\ MoneyTyped'
<1>1. /\ tick' = tick /\ tradePair' = tradePair /\ place' = place /\ inOrder' = inOrder
      /\ refunded' = refunded /\ earned' = earned /\ spent' = spent
      /\ Claim({o}, "owner") /\ ~IsLadder(o) /\ tradePair /= pair(o)
  BY DEF CancelOrder, matcher, money
<1>2. tick[p].at \notin {"armed", "read", "matching", "breaking"} /\ tick[p].todo = <<>>
  <2>1. p = pair(o)
    BY RequestAssumption DEF OnePair, pair
  <2> QED
    BY <1>1, <2>1, SMTT(30) DEF MatcherInv, TickInv, LatchInv, IdleInv
<1>3. a = Nothing /\ a.plan[o] = NoPlan /\ a.next = {}
  BY <1>2, NothingPlanned, NothingToSettle
<1>4. /\ a \in Agenda /\ \A q \in Orders : OrderFits(p, q, a)
      /\ Settles(tick[p].todo, a, Nothing) /\ Reserved(p, a)
      /\ tick[p].rows \in [Orders -> Row \cup {NoRow}]
  BY DEF MoneyAt, RowsTyped
<1>5. OrderFits(p, o, a)'
  BY <1>1, <1>3, <1>4, ClaimAccounts
<1>6. \A q \in Orders : Outstanding(p, q, a.plan[q])' = Outstanding(p, q, a.plan[q])
  <2> SUFFICES ASSUME NEW q \in Orders
               PROVE  Outstanding(p, q, a.plan[q])' = Outstanding(p, q, a.plan[q])
    OBVIOUS
  <2>1. a.plan[q] = NoPlan /\ (q \in {o} => ~IsLadder(q))
    BY <1>1, <1>3, NothingToSettle
  <2> QED
    BY <1>1, <1>4, <2>1, ClaimAccounts
<1>7. Reserved(p, a)'
  BY <1>1, <1>4, <1>6, ReservedSame
<1>8. \A q \in Orders : q # o => book'[q] = book[q] /\ claim'[q] = claim[q]
  BY <1>1 DEF Claim
<1>9. MoneyAt(p, a)'
  BY <1>1, <1>2, <1>3, <1>4, <1>5, <1>7, <1>8, OneOrder
<1> QED
  BY <1>1, <1>9 DEF MoneyTyped

LEMMA ClaimStepAccounts ==
    ASSUME MatcherInv, MoneyTyped, NEW p \in Pairs, NEW a, MoneyAt(p, a),
           NEW o \in Orders, ClaimStep(o)
    PROVE  MoneyAt(p, a)' /\ MoneyTyped'
<1> DEFINE row == claim[o].row
<1>1. /\ tick' = tick /\ book' = book /\ place' = place
      /\ earned' = earned /\ spent' = spent
      /\ claim = [q \in Orders |-> claim[q]]
      /\ claim[o].step \in {"refund", "release", "write"} /\ claim[o] # NoClaim
  BY DEF ClaimStep, ClaimRefund, ClaimReadInOrder, ClaimWriteInOrder, matcher, money,
         Claiming, NoClaim, MatcherInv, OrdersInv
<1>2. /\ a \in Agenda /\ Settles(tick[p].todo, a, Nothing) /\ OrderFits(p, o, a)
      /\ \A q \in Orders : OrderFits(p, q, a)
      /\ tick[p].rows \in [Orders -> Row \cup {NoRow}] /\ Reserved(p, a)
  BY DEF MoneyAt, RowsTyped
<1>3. /\ book[o] = NoRow /\ place[o] = "resting" /\ ~IsLadder(o)
      /\ a.plan[o] = NoPlan /\ NoPlan.mode = "none"
  BY <1>1, <1>2 DEF MatcherInv, OrdersInv, OrderFits, PlanFits, NoPlan
<1>4. /\ Sound(o, row, 0) /\ row \in Row /\ claim[o] \in Claimed
      /\ ~IsLimit(o) => claim[o].step = "refund"
      /\ claim[o].step = "write" => claim[o].applied = Cost(o) - row.released
      /\ IsLimit(o) => Outstanding(p, o, a.plan[o]) = Cost(o) - row.released
      /\ Holds(o, Escrow(o), IF claim[o].step = "refund" THEN Backing(o, row) ELSE 0)
  BY <1>1, <1>2, <1>3 DEF OrderFits, ClaimFits, Accounted, Due, Outstanding, Sound
<1>5. /\ Cost(o) \in Nat /\ refunded[o] \in Nat /\ spent[o] \in Nat
      /\ \A q \in Orders : IsLimit(q) => Outstanding(p, q, a.plan[q]) \in Nat
      /\ Debited(o) = Cost(o) /\ Debited(o)' = Cost(o)
  BY <1>1, <1>3, OrderFacts, LimitsTyped DEF MoneyTyped, Debited
<1> HIDE DEF row
<1>6. /\ Backing(o, row) \in Nat
      /\ IsLimit(o) => reservationRemaining(o, row) = Cost(o) - row.released
  <2>1. IsLimit(o) => Cost(o) - row.released \in Nat
    BY <1>4, <1>5
  <2>2. row.released \in Nat /\ row.value \in Nat
    BY <1>4, RowTyped
  <2>3. IsLimit(o) => reservationRemaining(o, row) = Cost(o) - row.released
    BY <1>5, <2>1, <2>2 DEF reservationRemaining, Positive
  <2> QED
    BY <2>1, <2>2, <2>3 DEF Backing
<1>7. ASSUME NEW c, claim' = [claim EXCEPT ![o] = c], c \in Claimed,
             c # NoClaim => /\ c.row = row
                            /\ ~IsLimit(o) => c.step = "refund"
                            /\ c.step = "write" => c.applied = Cost(o) - row.released,
             \A q \in Orders : q # o => refunded'[q] = refunded[q],
             Holds(o, Escrow(o)', Due(o, c, NoRow, tick[p].rows[o], NoPlan)),
             Reserved(p, a)'
      PROVE  MoneyAt(p, a)'
  <2>1. claim'[o] = c /\ \A q \in Orders : q # o => claim'[q] = claim[q]
    BY <1>1, <1>7
  <2>2. ClaimFits(o)'
    BY <1>4, <1>7, <2>1 DEF ClaimFits
  <2>3. Accounted(p, o, a.plan[o])'
    BY <1>1, <1>3, <1>7, <2>1 DEF Accounted
  <2>4. PlanFits(o, a.plan[o], book'[o], tick'[p].rows[o], Gone(p, o, a.next)')
    BY <1>3 DEF PlanFits, NoPlan
  <2>5. OrderFits(p, o, a)'
    BY <1>1, <1>2, <1>3, <2>2, <2>3, <2>4 DEF OrderFits
  <2>6. o \in Ready(p, a) => o \in Ready(p, a)'
    BY <1>1 DEF Ready, Listed, Gone
  <2>7. Listed(o)' /\ tick[p].at \in {"armed", "read"} => tick'[p].rows[o] = NoRow
    BY <1>1, <1>3 DEF MatcherInv, TickInv, ReadInv, Held
  <2>8. Listed(o)'
    BY <1>1, <1>3 DEF Listed
  <2> QED
    BY <1>1, <1>2, <1>7, <2>1, <2>5, <2>6, <2>7, <2>8, OneOrder
<1>8. CASE ClaimRefund(o)
  <2> DEFINE c == IF IsLimit(o) THEN [claim[o] EXCEPT !.step = "release"] ELSE NoClaim
  <2>1. /\ claim[o].step = "refund" /\ inOrder' = inOrder
        /\ refunded' = [refunded EXCEPT ![o] = @ + Backing(o, row)]
        /\ claim' = [claim EXCEPT ![o] = c]
    BY <1>1, <1>8 DEF ClaimRefund, Claiming, row
  <2>2. /\ c \in Claimed
        /\ IsLimit(o) => c.step = "release" /\ c.row = row /\ c # NoClaim
        /\ ~IsLimit(o) => c = NoClaim
    BY <1>4 DEF Claimed, NoClaim, row
  <2> HIDE DEF c
  <2>3. /\ refunded'[o] = refunded[o] + Backing(o, row)
        /\ \A q \in Orders : q # o => refunded'[q] = refunded[q]
        /\ MoneyTyped'
    BY <1>1, <1>5, <1>6, <2>1 DEF MoneyTyped
  <2>4. Due(o, c, NoRow, tick[p].rows[o], NoPlan) = 0
    BY <1>3, <2>2 DEF Due
  <2>5. Holds(o, Escrow(o)', 0)
    <3>1. Escrow(o)' = Escrow(o) - Backing(o, row) /\ Escrow(o) \in Int
      BY <1>1, <1>5, <1>6, <2>3 DEF Escrow
    <3> QED
      BY <1>4, <1>6, <2>1, <3>1 DEF Holds
  <2>6. Reserved(p, a)'
    <3>1. claim'[o] = c /\ \A q \in Orders : q # o => claim'[q] = claim[q]
      BY <1>1, <2>1
    <3>2. \A q \in Orders : IsLimit(q) =>
             Outstanding(p, q, a.plan[q])' = Outstanding(p, q, a.plan[q])
      <4> SUFFICES ASSUME NEW q \in Orders, IsLimit(q)
                   PROVE  Outstanding(p, q, a.plan[q])' = Outstanding(p, q, a.plan[q])
        OBVIOUS
      <4>1. CASE q # o
        BY <1>1, <3>1, <4>1 DEF Outstanding
      <4>2. CASE q = o
        BY <1>1, <1>3, <1>4, <2>2, <3>1, <4>2 DEF Outstanding
      <4> QED
        BY <4>1, <4>2
    <3> QED
      BY <1>2, <2>1, <3>2, ReservedSame
  <2>7. ~IsLimit(o) => c = NoClaim
    BY <2>2
  <2> QED
    BY <1>7, <2>1, <2>2, <2>3, <2>4, <2>5, <2>6
<1>9. CASE ClaimReadInOrder(o)
  <2> DEFINE applied == AtMost(reservationRemaining(o, row), Positive(inOrder[Field(o)]))
             c == IF applied > 0 THEN [claim[o] EXCEPT !.step = "write", !.applied = applied]
                  ELSE NoClaim
  <2>1. /\ claim[o].step = "release" /\ IsLimit(o)
        /\ inOrder' = inOrder /\ refunded' = refunded
        /\ claim' = [claim EXCEPT ![o] = c]
    BY <1>4, <1>9 DEF ClaimReadInOrder, Claiming, row, money
  <2>2. applied = Cost(o) - row.released /\ applied \in Nat
    <3>1. /\ inOrder[Field(o)] \in Nat /\ Cost(o) - row.released <= inOrder[Field(o)]
          /\ Cost(o) - row.released \in Nat
      BY <1>2, <1>4, <1>5, <2>1, OutstandingWithin
    <3> QED
      BY <1>6, <2>1, <3>1 DEF AtMost, Positive
  <2> HIDE DEF applied
  <2>3. /\ c \in Claimed
        /\ c # NoClaim => c.step = "write" /\ c.row = row /\ c.applied = applied
        /\ applied > 0 => c # NoClaim
        /\ applied = 0 => c = NoClaim
    <3>1. CASE applied > 0
      <4> DEFINE d == [claim[o] EXCEPT !.step = "write", !.applied = applied]
      <4>1. d \in Claimed /\ d.step = "write" /\ d.row = row /\ d.applied = applied
        BY <1>4, <2>2 DEF Claimed, row
      <4>2. d # NoClaim
        BY <4>1 DEF NoClaim
      <4> HIDE DEF d
      <4> QED
        BY <3>1, <4>1, <4>2 DEF d
    <3>2. CASE applied = 0
      <4>1. c = NoClaim
        BY <3>2
      <4>2. NoClaim \in Claimed
        BY DEF NoClaim, Claimed
      <4> QED
        BY <3>2, <4>1, <4>2
    <3> QED
      BY <2>2, <3>1, <3>2
  <2> HIDE DEF c
  <2>4. MoneyTyped'
    BY <1>1, <2>1 DEF MoneyTyped
  <2>5. Due(o, c, NoRow, tick[p].rows[o], NoPlan) = 0
    BY <1>3, <2>3 DEF Due
  <2>6. Holds(o, Escrow(o)', 0)
    BY <1>1, <1>4, <2>1 DEF Escrow, Debited
  <2>7. Reserved(p, a)'
    <3>1. claim'[o] = c /\ \A q \in Orders : q # o => claim'[q] = claim[q]
      BY <1>1, <2>1
    <3>2. \A q \in Orders : IsLimit(q) =>
             Outstanding(p, q, a.plan[q])' = Outstanding(p, q, a.plan[q])
      <4> SUFFICES ASSUME NEW q \in Orders, IsLimit(q)
                   PROVE  Outstanding(p, q, a.plan[q])' = Outstanding(p, q, a.plan[q])
        OBVIOUS
      <4>1. CASE q # o
        BY <1>1, <3>1, <4>1 DEF Outstanding
      <4>2. CASE q = o
        BY <1>1, <1>3, <1>4, <2>2, <2>3, <3>1, <4>2 DEF Outstanding
      <4> QED
        BY <4>1, <4>2
    <3> QED
      BY <1>2, <2>1, <3>2, ReservedSame
  <2>8. c # NoClaim => c.applied = Cost(o) - row.released
    BY <2>2, <2>3
  <2> QED
    BY <1>7, <2>1, <2>3, <2>4, <2>5, <2>6, <2>7, <2>8
<1>10. CASE ClaimWriteInOrder(o)
  <2>1. /\ claim[o].step = "write" /\ IsLimit(o) /\ refunded' = refunded
        /\ inOrder' = [inOrder EXCEPT ![Field(o)] = @ - claim[o].applied]
        /\ claim' = [claim EXCEPT ![o] = NoClaim]
    BY <1>4, <1>10 DEF ClaimWriteInOrder, Claiming, money
  <2>2. /\ claim[o].applied = Outstanding(p, o, a.plan[o])
        /\ Field(o) \in Users \X Coins /\ inOrder[Field(o)] \in Nat
        /\ Outstanding(p, o, a.plan[o]) \in Nat
        /\ Outstanding(p, o, a.plan[o]) <= inOrder[Field(o)]
    BY <1>2, <1>4, <1>5, <2>1, OrderFacts, OutstandingWithin
  <2>3. inOrder[Field(o)] - claim[o].applied \in Nat
    BY <2>2
  <2>4. MoneyTyped'
    BY <1>1, <2>1, <2>2, <2>3 DEF MoneyTyped
  <2>5. NoClaim \in Claimed /\ Due(o, NoClaim, NoRow, tick[p].rows[o], NoPlan) = 0
    BY <1>3 DEF NoClaim, Claimed, Due
  <2>6. Holds(o, Escrow(o)', 0)
    BY <1>1, <1>4, <2>1 DEF Escrow, Debited
  <2>7. Reserved(p, a)'
    <3>1. claim'[o] = NoClaim /\ \A q \in Orders : q # o => claim'[q] = claim[q]
      BY <1>1, <2>1
    <3>2. \A q \in Orders : IsLimit(q) /\ q # o =>
             Outstanding(p, q, a.plan[q])' = Outstanding(p, q, a.plan[q])
      BY <1>1, <3>1 DEF Outstanding
    <3>3. Outstanding(p, o, a.plan[o])' = 0
      BY <1>1, <1>3, <3>1 DEF Outstanding
    <3>4. /\ inOrder'[Field(o)] = inOrder[Field(o)]
               - Outstanding(p, o, a.plan[o]) + Outstanding(p, o, a.plan[o])'
          /\ Outstanding(p, o, a.plan[o])' \in Nat
          /\ \A f \in Users \X Coins : f # Field(o) => inOrder'[f] = inOrder[f]
      BY <2>1, <2>2, <3>3 DEF MoneyTyped
    <3> QED
      BY <1>2, <1>5, <2>1, <3>2, <3>4, ReservedMoved
  <2> QED
    BY <1>7, <2>1, <2>4, <2>5, <2>6, <2>7
<1> QED
  BY <1>8, <1>9, <1>10 DEF ClaimStep

-----------------------------------------------------------------------------
\* The steps of a tick that has nothing to settle.

\* What such a step can use.
LEMMA QuietFacts ==
    ASSUME MatcherInv, NEW p \in Pairs, NEW a, MoneyAt(p, a), tick[p].todo = <<>>
    PROVE  /\ MoneyAt(p, Nothing) /\ TickInv(p) /\ TickShape(p)
           /\ tick = [q \in Pairs |-> tick[q]]
           /\ \A o \in Orders : OrderFits(p, o, Nothing)
           /\ tick[p].rows \in [Orders -> Row \cup {NoRow}]
           /\ tick[p].buys \in Seq(Orders) /\ tick[p].sells \in Seq(Orders)
           /\ ListsFit(p, Nothing) /\ Reserved(p, Nothing)
<1>1. a = Nothing
  BY NothingPlanned
<1> QED
  BY <1>1 DEF MoneyAt, RowsTyped, MatcherInv, TickInv

LEMMA QuietAgain ==
    ASSUME NEW p, tick'[p].todo = <<>>, \A o \in Orders : OrderFits(p, o, Nothing)',
           tick'[p].buys \in Seq(Orders), tick'[p].sells \in Seq(Orders),
           tick'[p].rows \in [Orders -> Row \cup {NoRow}],
           ListsFit(p, Nothing)', Reserved(p, Nothing)'
    PROVE  MoneyAt(p, Nothing)'
<1>1. RowsTyped(p)'
  BY DEF RowsTyped
<1>2. Settles(tick'[p].todo, Nothing, Nothing)
  BY NothingToSettle
<1>3. \A m \in Nothing.next : MatchFits(p, Nothing, m)'
  BY NothingToSettle
<1> QED
  BY <1>1, <1>2, <1>3, NothingToSettle DEF MoneyAt

\* What the tick has read and listed does not matter to an order it plans nothing for.
LEMMA QuietOrder ==
    ASSUME NEW p, NEW o \in Orders, OrderFits(p, o, Nothing), place' = place,
           claim' = claim, refunded' = refunded, spent' = spent,
           book'[o] = book[o] \/ (IsLadder(o) /\ (book'[o] # NoRow => Sound(o, book'[o], 0)))
    PROVE  /\ OrderFits(p, o, Nothing)'
           /\ IsLimit(o) => Outstanding(p, o, Nothing.plan[o])'
                            = Outstanding(p, o, Nothing.plan[o])
<1>1. Nothing.plan[o] = NoPlan /\ NoPlan.mode = "none"
  BY NothingToSettle DEF NoPlan
<1>2. PlanFits(o, Nothing.plan[o], book'[o], tick'[p].rows[o], Gone(p, o, Nothing.next)')
  BY <1>1 DEF PlanFits, NoPlan
<1>3. ClaimFits(o)' /\ Escrow(o)' = Escrow(o) /\ Debited(o)' = Debited(o)
  BY DEF OrderFits, ClaimFits, Escrow, Debited
<1>4. ~IsLadder(o) => Accounted(p, o, Nothing.plan[o])'
  BY <1>1, <1>3 DEF OrderFits, Accounted, Due
<1>5. IsLimit(o) => book'[o] = book[o]
  BY OrderFacts
<1> QED
  BY <1>1, <1>2, <1>3, <1>4, <1>5 DEF OrderFits, Outstanding

\* A step that changes no order, whatever becomes of the tick.
LEMMA QuietStep ==
    ASSUME MoneyTyped, NEW p, MoneyAt(p, Nothing), place' = place, claim' = claim,
           refunded' = refunded, spent' = spent, earned' = earned, inOrder' = inOrder,
           \A o \in Orders : \/ book'[o] = book[o]
                             \/ IsLadder(o) /\ (book'[o] # NoRow => Sound(o, book'[o], 0)),
           tick'[p].todo = <<>>,
           tick'[p].buys \in Seq(Orders), tick'[p].sells \in Seq(Orders),
           tick'[p].rows \in [Orders -> Row \cup {NoRow}], ListsFit(p, Nothing)'
    PROVE  MoneyAt(p, Nothing)' /\ MoneyTyped'
<1>1. \A o \in Orders : OrderFits(p, o, Nothing) /\ Reserved(p, Nothing)
  BY DEF MoneyAt
<1>2. \A o \in Orders :
         /\ OrderFits(p, o, Nothing)'
         /\ IsLimit(o) => Outstanding(p, o, Nothing.plan[o])'
                          = Outstanding(p, o, Nothing.plan[o])
  <2> SUFFICES ASSUME NEW o \in Orders
               PROVE  /\ OrderFits(p, o, Nothing)'
                      /\ IsLimit(o) => Outstanding(p, o, Nothing.plan[o])'
                                       = Outstanding(p, o, Nothing.plan[o])
    OBVIOUS
  <2>1. book'[o] = book[o] \/ (IsLadder(o) /\ (book'[o] # NoRow => Sound(o, book'[o], 0)))
    OBVIOUS
  <2> QED
    BY <1>1, <2>1, QuietOrder
<1>3. Reserved(p, Nothing)'
  <2>1. Reserved(p, Nothing)
    BY DEF MoneyAt
  <2> QED
    BY <1>2, <2>1, ReservedSame
<1>4. MoneyTyped'
  BY DEF MoneyTyped
<1> QED
  BY <1>2, <1>3, <1>4, QuietAgain

LEMMA StartTickAccounts ==
    ASSUME MatcherInv, MoneyTyped, NEW p \in Pairs, NEW a, MoneyAt(p, a), StartTick(p)
    PROVE  MoneyAt(p, Nothing)' /\ MoneyTyped'
<1>1. tick[p].todo = <<>> /\ tick[p].at = "idle"
  BY DEF StartTick, At, MatcherInv, TickInv, IdleInv
<1>2. /\ MoneyAt(p, Nothing) /\ TickShape(p) /\ tick = [q \in Pairs |-> tick[q]]
      /\ tick[p].rows \in [Orders -> Row \cup {NoRow}]
      /\ tick[p].buys \in Seq(Orders) /\ tick[p].sells \in Seq(Orders)
  BY <1>1, QuietFacts
<1>3. /\ tick'[p].at = "fetching" /\ tick'[p].todo = <<>> /\ tick'[p].rows = tick[p].rows
      /\ tick'[p].buys = tick[p].buys /\ tick'[p].sells = tick[p].sells
  BY <1>1, <1>2 DEF StartTick, TickShape
<1>4. ListsFit(p, Nothing)'
  BY <1>3 DEF ListsFit
<1>5. /\ place' = place /\ claim' = claim /\ refunded' = refunded /\ spent' = spent
      /\ earned' = earned /\ inOrder' = inOrder /\ book' = book
  BY DEF StartTick, money
<1> QED
  BY <1>2, <1>3, <1>4, <1>5, QuietStep

LEMMA SyncLadderAccounts ==
    ASSUME MatcherInv, MoneyTyped, NEW p \in Pairs, NEW a, MoneyAt(p, a), SyncLadder(p)
    PROVE  MoneyAt(p, Nothing)' /\ MoneyTyped'
<1>1. tick[p].todo = <<>> /\ tick[p].at = "fetching"
  BY DEF SyncLadder, At, MatcherInv, TickInv, IdleInv
<1>2. /\ MoneyAt(p, Nothing) /\ TickShape(p) /\ tick = [q \in Pairs |-> tick[q]]
      /\ tick[p].rows \in [Orders -> Row \cup {NoRow}]
      /\ tick[p].buys \in Seq(Orders) /\ tick[p].sells \in Seq(Orders)
  BY <1>1, QuietFacts
<1>3. /\ tick'[p].at = "synced" /\ tick'[p].todo = <<>> /\ tick'[p].rows = tick[p].rows
      /\ tick'[p].buys = tick[p].buys /\ tick'[p].sells = tick[p].sells
  <2>1. tick' = [tick EXCEPT ![p].at = "synced"]
    BY DEF SyncLadder
  <2> QED
    BY <1>1, <1>2, <2>1 DEF TickShape
<1>4. ListsFit(p, Nothing)'
  BY <1>3 DEF ListsFit
<1>5. /\ place' = place /\ claim' = claim /\ refunded' = refunded /\ spent' = spent
      /\ earned' = earned /\ inOrder' = inOrder
  BY DEF SyncLadder, money
<1>6. ASSUME NEW o \in Orders
      PROVE  \/ book'[o] = book[o]
             \/ IsLadder(o) /\ (book'[o] # NoRow => Sound(o, book'[o], 0))
  <2>1. book'[o] = book[o] \/ (IsLadder(o) /\ book'[o] \in {LimitRow(o), NoRow})
    BY DEF SyncLadder
  <2>2. IsLadder(o) => Sound(o, LimitRow(o), 0)
    <3> SUFFICES ASSUME IsLadder(o) PROVE Sound(o, LimitRow(o), 0)
      OBVIOUS
    <3>1. LimitRow(o) \in Row /\ LimitRow(o).price = Request[o].price /\ LimitRow(o).qty > 0
      BY OrderFacts DEF LimitRow, Row
    <3>2. ~IsMarket(o) /\ ~IsLimit(o)
      BY OrderFacts
    <3> QED
      BY <3>1, <3>2 DEF Sound
  <2> QED
    BY <2>1, <2>2
<1> QED
  BY <1>2, <1>3, <1>4, <1>5, <1>6, QuietStep

LEMMA ReadingAccounts ==
    ASSUME MatcherInv, MoneyTyped, NEW p \in Pairs, NEW a, MoneyAt(p, a),
           ArmAndReadBuys(p) \/ ReadSells(p)
    PROVE  MoneyAt(p, Nothing)' /\ MoneyTyped'
<1>1. tick[p].todo = <<>> /\ tick[p].at \in {"synced", "armed"}
  BY DEF ArmAndReadBuys, ReadSells, At, MatcherInv, TickInv, IdleInv
<1>2. /\ MoneyAt(p, Nothing) /\ TickShape(p) /\ tick = [q \in Pairs |-> tick[q]]
      /\ tick[p].rows \in [Orders -> Row \cup {NoRow}]
      /\ tick[p].buys \in Seq(Orders) /\ tick[p].sells \in Seq(Orders)
      /\ \A o \in Orders : OrderFits(p, o, Nothing)
      /\ ListsFit(p, Nothing) /\ TickInv(p)
  BY <1>1, QuietFacts
<1>3. PICK buying \in BOOLEAN, at \in {"armed", "read"} :
        tick' = [tick EXCEPT ![p].at = at, ![p].rows = Snapshot(p, buying)]
  BY Zenon DEF ArmAndReadBuys, ReadSells
<1>4. /\ tick'[p].at = at /\ tick'[p].todo = <<>> /\ tick'[p].rows = Snapshot(p, buying)
      /\ tick'[p].buys = tick[p].buys /\ tick'[p].sells = tick[p].sells
  <2> DEFINE rows == Snapshot(p, buying)
  <2>1. tick' = [tick EXCEPT ![p].at = at, ![p].rows = rows]
    BY <1>3
  <2> HIDE DEF rows
  <2>2. tick'[p] = [at |-> at, buys |-> tick[p].buys, sells |-> tick[p].sells,
                    rows |-> rows, todo |-> tick[p].todo]
    BY <1>2, <2>1 DEF TickShape
  <2> QED
    BY <1>1, <2>2 DEF rows
<1>5. /\ place' = place /\ claim' = claim /\ refunded' = refunded /\ spent' = spent
      /\ earned' = earned /\ inOrder' = inOrder /\ book' = book
  BY DEF ArmAndReadBuys, ReadSells, money
<1>6. \A o \in Orders : tick[p].rows[o] # NoRow => tick[p].rows[o] = book[o]
  BY <1>1, <1>2 DEF TickInv, IdleInv, ListsFit
<1>7. \A o \in Orders : book[o] \in Row \cup {NoRow}
  BY <1>2 DEF OrderFits, Sound
<1>8. /\ Snapshot(p, buying) \in [Orders -> Row \cup {NoRow}]
      /\ \A o \in Orders : Snapshot(p, buying)[o] \in {book[o], tick[p].rows[o]}
  BY <1>2, <1>7 DEF Snapshot
<1>9. ListsFit(p, Nothing)'
  BY <1>4, <1>5, <1>6, <1>8 DEF ListsFit
<1> QED
  BY <1>2, <1>4, <1>5, <1>8, <1>9, QuietStep

LEMMA BeginMatchingAccounts ==
    ASSUME MatcherInv, MoneyTyped, IsFiniteSet(Orders), NEW p \in Pairs,
           NEW a, MoneyAt(p, a), BeginMatching(p)
    PROVE  MoneyAt(p, Nothing)' /\ MoneyTyped'
<1>1. tick[p].todo = <<>> /\ tick[p].at = "read"
  BY DEF BeginMatching, At, MatcherInv, TickInv, IdleInv
<1>2. /\ MoneyAt(p, Nothing) /\ TickShape(p) /\ tick = [q \in Pairs |-> tick[q]]
      /\ tick[p].rows \in [Orders -> Row \cup {NoRow}]
      /\ \A o \in Orders : OrderFits(p, o, Nothing)
      /\ ListsFit(p, Nothing) /\ TickInv(p)
  BY <1>1, QuietFacts
<1>3. PICK buys \in Sorted(tick[p].rows, Resting(tick[p].rows, TRUE), TRUE),
           sells \in Sorted(tick[p].rows, Resting(tick[p].rows, FALSE), FALSE) :
         tick' = [tick EXCEPT ![p].at = "matching",
                              ![p].buys = buys, ![p].sells = sells]
  BY DEF BeginMatching
<1>4. /\ tick'[p].at = "matching" /\ tick'[p].todo = <<>> /\ tick'[p].rows = tick[p].rows
      /\ tick'[p].buys = buys /\ tick'[p].sells = sells
  <2>1. tick'[p] = [at |-> "matching", buys |-> buys, sells |-> sells,
                    rows |-> tick[p].rows, todo |-> tick[p].todo]
    BY <1>2, <1>3 DEF TickShape
  <2> QED
    BY <1>1, <2>1
<1>5. /\ ListOf(buys, Resting(tick[p].rows, TRUE))
      /\ ListOf(sells, Resting(tick[p].rows, FALSE))
  <2>1. /\ IsFiniteSet(Resting(tick[p].rows, TRUE))
        /\ IsFiniteSet(Resting(tick[p].rows, FALSE))
    BY FS_Subset DEF Resting
  <2>2. /\ buys \in SetToSeqs(Resting(tick[p].rows, TRUE))
        /\ sells \in SetToSeqs(Resting(tick[p].rows, FALSE))
    BY DEF Sorted
  <2> QED
    BY <2>1, <2>2, SetToSeqsLists
<1>6. /\ place' = place /\ claim' = claim /\ refunded' = refunded /\ spent' = spent
      /\ earned' = earned /\ inOrder' = inOrder /\ book' = book
  BY DEF BeginMatching, money
<1>7. ASSUME NEW o \in Orders, tick[p].rows[o] # NoRow
      PROVE  o \in Ready(p, Nothing)'
  <2>1. tick[p].rows[o] = book[o] /\ Listed(o)
    BY <1>1, <1>2, <1>7 DEF ListsFit, TickInv, ReadInv, Held
  <2>2. Sound(o, book[o], 0) /\ book[o] # NoRow
    BY <1>2, <1>7, <2>1 DEF OrderFits
  <2>3. Fresh(o, book[o], tick[p].rows[o])
    BY <2>1, <2>2 DEF Fresh, Sound
  <2> QED
    BY <1>4, <1>6, <2>1, <2>3 DEF Ready, Listed
<1>8. \A buying \in BOOLEAN : Resting(tick[p].rows, buying) \subseteq Ready(p, Nothing)'
  BY <1>7 DEF Resting
<1>9. ListOf(buys, Ready(p, Nothing)') /\ ListOf(sells, Ready(p, Nothing)')
  BY <1>5, <1>8, ListOfWider
<1>10. ListsFit(p, Nothing)'
  BY <1>4, <1>9 DEF ListsFit
<1>11. Resting(tick[p].rows, TRUE) \subseteq Orders /\ Resting(tick[p].rows, FALSE) \subseteq Orders
  BY DEF Resting
<1>12. buys \in Seq(Orders) /\ sells \in Seq(Orders)
  BY <1>5, <1>11, ListOfWider DEF ListOf
<1> QED
  BY <1>2, <1>4, <1>6, <1>10, <1>12, QuietStep

LEMMA EndTickAccounts ==
    ASSUME MatcherInv, MoneyTyped, NEW p \in Pairs, NEW a, MoneyAt(p, a),
           tick[p].todo = <<>>, NEW alone, alone \subseteq Held(p), EndTick(p, alone)
    PROVE  MoneyAt(p, Nothing)' /\ MoneyTyped'
<1> DEFINE S == {o \in alone : tick[p].rows[o].price = Market}
<1>1. \A o \in S : ~IsLadder(o)
  BY DEF Held, RowOK, IsMarket, IsLadder
<1>2. /\ Claim(S, "matcher") /\ place' = place /\ inOrder' = inOrder
      /\ refunded' = refunded /\ spent' = spent /\ earned' = earned
  BY DEF EndTick, CancelMarketOrders, money
<1> HIDE DEF S
<1>3. tick'[p] = IdleTick
  BY DEF EndTick, MatcherInv
<1>4. /\ tick'[p].at = "idle" /\ tick'[p].todo = <<>>
      /\ tick'[p].buys = <<>> /\ tick'[p].sells = <<>>
      /\ tick'[p].rows = [o \in Orders |-> NoRow]
  BY <1>3 DEF IdleTick
<1>5. \A o \in Orders : OrderFits(p, o, Nothing) /\ Reserved(p, Nothing)
  BY QuietFacts
<1>6. \A o \in Orders :
         /\ OrderFits(p, o, Nothing)'
         /\ Outstanding(p, o, Nothing.plan[o])' = Outstanding(p, o, Nothing.plan[o])
  <2> SUFFICES ASSUME NEW o \in Orders
               PROVE  /\ OrderFits(p, o, Nothing)'
                      /\ Outstanding(p, o, Nothing.plan[o])'
                            = Outstanding(p, o, Nothing.plan[o])
    OBVIOUS
  <2>1. Nothing \in Agenda /\ Nothing.plan[o] = NoPlan /\ (o \in S => ~IsLadder(o))
    BY <1>1, NothingToSettle
  <2> QED
    BY <1>2, <1>5, <2>1, ClaimAccounts
<1>7. Reserved(p, Nothing)'
  <2>1. Reserved(p, Nothing)
    BY QuietFacts
  <2> QED
    BY <1>2, <1>6, <2>1, ReservedSame
<1>8. ListsFit(p, Nothing)'
  BY <1>4 DEF ListsFit
<1>9. <<>> \in Seq(Orders) /\ [o \in Orders |-> NoRow] \in [Orders -> Row \cup {NoRow}]
  BY EmptySeq
<1>10. MoneyTyped'
  BY <1>2 DEF MoneyTyped
<1> QED
  BY <1>4, <1>6, <1>7, <1>8, <1>9, <1>10, QuietAgain

LEMMA OneSidedAccounts ==
    ASSUME MatcherInv, MoneyTyped, NEW p \in Pairs, NEW a, MoneyAt(p, a), OneSided(p)
    PROVE  MoneyAt(p, Nothing)' /\ MoneyTyped'
<1>1. TickInv(p) /\ tick[p].at = "read" /\ tick[p].todo = <<>>
  BY DEF MatcherInv, OneSided, At, TickInv, IdleInv
<1>2. PICK alone : /\ alone \subseteq {o \in Orders : tick[p].rows[o] /= NoRow}
                  /\ EndTick(p, alone)
  BY DEF OneSided, Resting
<1>3. alone \subseteq Held(p)
  BY <1>1, <1>2 DEF TickInv, ReadInv
<1> QED
  BY <1>1, <1>2, <1>3, EndTickAccounts

LEMMA FinishTickAccounts ==
    ASSUME MatcherInv, MoneyTyped, NEW p \in Pairs, NEW a, MoneyAt(p, a), FinishTick(p)
    PROVE  MoneyAt(p, Nothing)' /\ MoneyTyped'
<1>1. TickInv(p) /\ tick[p].at \in {"matching", "breaking"} /\ tick[p].todo = <<>>
  BY DEF MatcherInv, FinishTick, At
<1>2. PICK alone : /\ alone \subseteq ToSet(tick[p].buys) \cup ToSet(tick[p].sells)
                  /\ EndTick(p, alone)
  BY DEF FinishTick
<1>3. tick[p].buys \in Seq(Held(p)) /\ tick[p].sells \in Seq(Held(p))
  BY <1>1, SeqMonotonic DEF TickInv, MatchInv, ListOf, Bids, Asks
<1>4. alone \subseteq Held(p)
  BY <1>2, <1>3, ElementOfSeq, LenProperties DEF ToSet
<1> QED
  BY <1>1, <1>2, <1>4, EndTickAccounts

LEMMA SpinAccounts ==
    ASSUME MatcherInv, MoneyTyped, NEW p \in Pairs, NEW a, MoneyAt(p, a), Spin(p)
    PROVE  MoneyAt(p, Nothing)' /\ MoneyTyped'
<1>1. tick[p].todo = <<>>
  BY DEF Spin, Turn
<1>2. /\ MoneyAt(p, Nothing) /\ TickShape(p) /\ tick = [q \in Pairs |-> tick[q]]
      /\ tick[p].rows \in [Orders -> Row \cup {NoRow}]
      /\ tick[p].buys \in Seq(Orders) /\ tick[p].sells \in Seq(Orders)
  BY <1>1, QuietFacts
<1>3. /\ tick'[p].at = "spinning" /\ tick'[p].todo = <<>> /\ tick'[p].rows = tick[p].rows
      /\ tick'[p].buys = tick[p].buys /\ tick'[p].sells = tick[p].sells
  <2>1. tick' = [tick EXCEPT ![p].at = "spinning"]
    BY DEF Spin
  <2> QED
    BY <1>1, <1>2, <2>1 DEF TickShape
<1>4. ListsFit(p, Nothing)'
  BY <1>3 DEF ListsFit
<1>5. /\ place' = place /\ claim' = claim /\ refunded' = refunded /\ spent' = spent
      /\ earned' = earned /\ inOrder' = inOrder /\ book' = book
  BY DEF Spin, money
<1> QED
  BY <1>2, <1>3, <1>4, <1>5, QuietStep

-----------------------------------------------------------------------------
\* The turns of the matching loop that settle nothing.

LEMMA TurnHas ==
    ASSUME MatcherInv, NEW p \in Pairs, NEW a, MoneyAt(p, a), Turn(p)
    PROVE  /\ tick[p].at = "matching" /\ tick[p].todo = <<>>
           /\ TickShape(p) /\ tick = [q \in Pairs |-> tick[q]]
           /\ MoneyAt(p, Nothing)
           /\ ListOf(tick[p].buys, Ready(p, Nothing)) /\ tick[p].buys # <<>>
           /\ ListOf(tick[p].sells, Ready(p, Nothing)) /\ tick[p].sells # <<>>
           /\ ListOf(tick[p].buys, Bids(p)) /\ ListOf(tick[p].sells, Asks(p))
           /\ tick[p].buys[1] \in Bids(p) /\ tick[p].sells[1] \in Asks(p)
           /\ Held(p) \subseteq Orders
           /\ tick[p].rows \in [Orders -> Row \cup {NoRow}]
           /\ \A o \in Held(p) : RowOK(o, tick[p].rows[o])
           /\ \A o \in Ready(p, Nothing) :
                 /\ o \in Orders
                 /\ \/ Fresh(o, book[o], tick[p].rows[o])
                    \/ Finished(o, book[o], tick[p].rows[o])
<1>1. tick[p].at = "matching" /\ tick[p].todo = <<>>
  BY DEF Turn, At
<1>2. tick[p].buys # <<>> /\ tick[p].sells # <<>>
  BY DEF Turn
<1>3. /\ MoneyAt(p, Nothing) /\ TickShape(p) /\ tick = [q \in Pairs |-> tick[q]]
      /\ tick[p].rows \in [Orders -> Row \cup {NoRow}] /\ ListsFit(p, Nothing)
  BY <1>1, QuietFacts
<1>4. ListOf(tick[p].buys, Ready(p, Nothing)) /\ ListOf(tick[p].sells, Ready(p, Nothing))
  BY <1>1, <1>3 DEF ListsFit
<1>5. ASSUME NEW o \in Ready(p, Nothing)
      PROVE  /\ o \in Orders
             /\ \/ Fresh(o, book[o], tick[p].rows[o])
                \/ Finished(o, book[o], tick[p].rows[o])
  <2>1. o \in Orders /\ Nothing.plan[o].mode = "none" /\ ~Gone(p, o, Nothing.next)
    BY <1>2, NothingToSettle DEF Ready, NoPlan, Gone
  <2> QED
    BY <2>1 DEF Ready
<1> QED
  BY <1>1, <1>2, <1>3, <1>4, <1>5, TurnFacts

\* What stays ready when lists shrink and nothing is planned.
LEMMA StaysReady ==
    ASSUME MatcherInv, NEW p \in Pairs, NEW a, MoneyAt(p, a), Turn(p), NEW b,
           NEW o \in Ready(p, Nothing), b.plan[o] = NoPlan,
           place' = place, book'[o] = book[o], tick'[p].rows[o] = tick[p].rows[o]
    PROVE  o \in Ready(p, b)'
<1>1. /\ o \in Orders
      /\ \/ Fresh(o, book[o], tick[p].rows[o])
         \/ Finished(o, book[o], tick[p].rows[o])
  BY TurnHas
<1>2. Listed(o)'
  BY DEF Ready, Listed
<1> QED
  BY <1>1, <1>2 DEF Ready

LEMMA DroppingAccounts ==
    ASSUME MatcherInv, MoneyTyped, NEW p \in Pairs, NEW a, MoneyAt(p, a), Turn(p),
           NEW buys, NEW sells, Dropping(p, buys, sells),
           ListOf(buys, Ready(p, Nothing)), ListOf(sells, Ready(p, Nothing)),
           UNCHANGED <<book, claim, place, inOrder, money>>
    PROVE  MoneyAt(p, Nothing)' /\ MoneyTyped'
<1>1. /\ tick[p].at = "matching" /\ tick[p].todo = <<>> /\ MoneyAt(p, Nothing)
      /\ TickShape(p) /\ tick = [q \in Pairs |-> tick[q]]
      /\ tick[p].rows \in [Orders -> Row \cup {NoRow}]
  BY TurnHas
<1>2. /\ tick'[p].at = "matching" /\ tick'[p].todo = <<>> /\ tick'[p].rows = tick[p].rows
      /\ tick'[p].buys = buys /\ tick'[p].sells = sells
  <2>1. tick'[p] = [at |-> "matching", buys |-> buys, sells |-> sells,
                    rows |-> tick[p].rows, todo |-> <<>>]
    BY <1>1 DEF Dropping, TickShape
  <2> QED
    BY <2>1
<1>3. Ready(p, Nothing) \subseteq Ready(p, Nothing)' /\ Ready(p, Nothing) \subseteq Orders
  <2>1. ASSUME NEW o \in Ready(p, Nothing) PROVE o \in Ready(p, Nothing)' /\ o \in Orders
    <3>1. o \in Orders /\ Nothing.plan[o] = NoPlan
      BY NothingToSettle DEF Ready
    <3> QED
      BY <1>2, <3>1, StaysReady
  <2> QED
    BY <2>1
<1>4. /\ ListOf(buys, Ready(p, Nothing)') /\ ListOf(sells, Ready(p, Nothing)')
      /\ buys \in Seq(Orders) /\ sells \in Seq(Orders)
  BY <1>3, ListOfWider DEF ListOf
<1>5. ListsFit(p, Nothing)'
  BY <1>2, <1>4 DEF ListsFit
<1> QED
  BY <1>1, <1>2, <1>4, <1>5, QuietStep DEF money

LEMMA CancellingAccounts ==
    ASSUME MatcherInv, MoneyTyped, NEW p \in Pairs, NEW a, MoneyAt(p, a), Turn(p),
           NEW o \in Orders, IsMarket(o), CancelMarketOrders({o}),
           NEW buys, NEW sells, Dropping(p, buys, sells),
           ListOf(buys, Ready(p, Nothing) \ {o}), ListOf(sells, Ready(p, Nothing) \ {o}),
           UNCHANGED <<place, inOrder, money>>
    PROVE  MoneyAt(p, Nothing)' /\ MoneyTyped'
<1>1. /\ tick[p].at = "matching" /\ tick[p].todo = <<>> /\ MoneyAt(p, Nothing)
      /\ TickShape(p) /\ tick = [q \in Pairs |-> tick[q]]
      /\ tick[p].rows \in [Orders -> Row \cup {NoRow}]
  BY TurnHas
<1>2. /\ tick'[p].at = "matching" /\ tick'[p].todo = <<>> /\ tick'[p].rows = tick[p].rows
      /\ tick'[p].buys = buys /\ tick'[p].sells = sells
  <2>1. tick'[p] = [at |-> "matching", buys |-> buys, sells |-> sells,
                    rows |-> tick[p].rows, todo |-> <<>>]
    BY <1>1 DEF Dropping, TickShape
  <2> QED
    BY <2>1
<1>3. /\ Claim({o}, "matcher") /\ ~IsLadder(o)
      /\ place' = place /\ inOrder' = inOrder
      /\ refunded' = refunded /\ earned' = earned /\ spent' = spent
  BY OrderFacts DEF CancelMarketOrders, money
<1>4. Ready(p, Nothing) \ {o} \subseteq Ready(p, Nothing)' /\ Ready(p, Nothing) \subseteq Orders
  <2>1. Ready(p, Nothing) \subseteq Orders
    BY DEF Ready
  <2>2. ASSUME NEW q \in Ready(p, Nothing), q # o PROVE q \in Ready(p, Nothing)'
    <3>1. q \in Orders /\ Nothing.plan[q] = NoPlan /\ book'[q] = book[q]
      BY <1>3, <2>1, <2>2, NothingToSettle DEF Claim
    <3> QED
      BY <1>2, <1>3, <3>1, StaysReady
  <2> QED
    BY <2>1, <2>2
<1>5. /\ ListOf(buys, Ready(p, Nothing)') /\ ListOf(sells, Ready(p, Nothing)')
      /\ buys \in Seq(Orders) /\ sells \in Seq(Orders)
  <2>1. Ready(p, Nothing) \ {o} \subseteq Orders
    BY <1>4
  <2> QED
    BY <1>4, <2>1, ListOfWider DEF ListOf
<1>6. ListsFit(p, Nothing)'
  BY <1>2, <1>5 DEF ListsFit
<1>7. \A q \in Orders :
         /\ OrderFits(p, q, Nothing)'
         /\ Outstanding(p, q, Nothing.plan[q])' = Outstanding(p, q, Nothing.plan[q])
  <2> SUFFICES ASSUME NEW q \in Orders
               PROVE  /\ OrderFits(p, q, Nothing)'
                      /\ Outstanding(p, q, Nothing.plan[q])'
                            = Outstanding(p, q, Nothing.plan[q])
    OBVIOUS
  <2>1. /\ Nothing \in Agenda /\ Nothing.plan[q] = NoPlan /\ (q \in {o} => ~IsLadder(q))
        /\ OrderFits(p, q, Nothing)
    BY <1>1, <1>3, NothingToSettle DEF MoneyAt
  <2> QED
    BY <1>3, <2>1, ClaimAccounts
<1>8. Reserved(p, Nothing)'
  <2>1. Reserved(p, Nothing)
    BY <1>1 DEF MoneyAt
  <2> QED
    BY <1>3, <1>7, <2>1, ReservedSame
<1>9. MoneyTyped'
  BY <1>3 DEF MoneyTyped
<1> QED
  BY <1>1, <1>2, <1>5, <1>6, <1>7, <1>8, <1>9, QuietAgain

\* Matches of a market order, that does not say a price, with one that does.
LEMMA QueueingAccounts ==
    ASSUME MatcherInv, MoneyTyped, NEW p \in Pairs, NEW a, MoneyAt(p, a), Turn(p),
           NEW todo, tick' = [tick EXCEPT ![p].todo = todo],
           NEW b \in Agenda, Settles(todo, b, Nothing), b.plan = Nothing.plan,
           \A m \in b.next :
              /\ m.o \in Ready(p, Nothing) /\ m.with \in Ready(p, Nothing)
              /\ tick[p].rows[m.o].price = Market /\ tick[p].rows[m.with].price # Market
              /\ \A n \in b.next : m # n => Tail(tick[p].buys) # <<>>,
           UNCHANGED <<book, claim, place, inOrder, money>>
    PROVE  MoneyAt(p, b)' /\ MoneyTyped'
<1>1. /\ tick[p].at = "matching" /\ tick[p].todo = <<>> /\ MoneyAt(p, Nothing)
      /\ TickShape(p) /\ tick = [q \in Pairs |-> tick[q]]
      /\ tick[p].rows \in [Orders -> Row \cup {NoRow}]
      /\ tick[p].buys # <<>>
      /\ ListOf(tick[p].buys, Ready(p, Nothing)) /\ ListOf(tick[p].sells, Ready(p, Nothing))
      /\ \A o \in Ready(p, Nothing) :
            /\ o \in Orders
            /\ \/ Fresh(o, book[o], tick[p].rows[o])
               \/ Finished(o, book[o], tick[p].rows[o])
  BY TurnHas
<1>2. /\ tick'[p].at = "matching" /\ tick'[p].todo = todo /\ tick'[p].rows = tick[p].rows
      /\ tick'[p].buys = tick[p].buys /\ tick'[p].sells = tick[p].sells
  <2>1. tick'[p] = [at |-> "matching", buys |-> tick[p].buys, sells |-> tick[p].sells,
                    rows |-> tick[p].rows, todo |-> todo]
    BY <1>1 DEF TickShape
  <2> QED
    BY <2>1
<1>3. /\ \A o \in Orders : b.plan[o] = NoPlan /\ Nothing.plan[o] = NoPlan
      /\ NoPlan.mode = "none"
  BY NothingToSettle DEF NoPlan
<1>4. /\ place' = place /\ claim' = claim /\ refunded' = refunded /\ spent' = spent
      /\ earned' = earned /\ inOrder' = inOrder /\ book' = book
  BY DEF money
<1>5. ASSUME NEW o \in Ready(p, Nothing) PROVE o \in Ready(p, b)'
  BY <1>1, <1>2, <1>3, <1>4, StaysReady
<1>6. \A o \in Orders : OrderFits(p, o, b)'
  <2> SUFFICES ASSUME NEW o \in Orders PROVE OrderFits(p, o, b)'
    OBVIOUS
  <2>1. ~Gone(p, o, Nothing.next)
    BY <1>1 DEF Gone
  <2>2. OrderFits(p, o, Nothing) /\ b.plan[o] = Nothing.plan[o]
    BY <1>1, <1>3 DEF MoneyAt
  <2> QED
    BY <1>2, <1>4, <2>1, <2>2, OrderKept
<1>7. ASSUME NEW m \in b.next PROVE MatchFits(p, b, m)'
  <2>1. m.o \in Orders /\ m.with \in Orders /\ m.o \in Ready(p, b)' /\ m.with \in Ready(p, b)'
    BY <1>1, <1>5
  <2>2. /\ Fresh(m.o, book[m.o], tick[p].rows[m.o])
        /\ \/ Fresh(m.with, book[m.with], tick[p].rows[m.with])
           \/ Finished(m.with, book[m.with], tick[p].rows[m.with])
    BY <1>1 DEF Finished, Over
  <2> QED
    BY <1>1, <1>2, <1>3, <1>4, <2>1, <2>2 DEF MatchFits
<1>8. Reserved(p, b)'
  <2>1. Reserved(p, Nothing)
    BY <1>1 DEF MoneyAt
  <2>2. \A o \in Orders : IsLimit(o) =>
           Outstanding(p, o, b.plan[o])' = Outstanding(p, o, Nothing.plan[o])
    BY <1>3, <1>4 DEF Outstanding
  <2> QED
    BY <1>4, <2>1, <2>2, ReservedSame
<1>9. ListsFit(p, b)' /\ RowsTyped(p)'
  <2>1. Ready(p, Nothing) \subseteq Ready(p, b)' /\ Ready(p, Nothing) \subseteq Orders
    BY <1>1, <1>5
  <2>2. /\ ListOf(tick[p].buys, Ready(p, b)') /\ ListOf(tick[p].sells, Ready(p, b)')
        /\ tick[p].buys \in Seq(Orders) /\ tick[p].sells \in Seq(Orders)
    BY <1>1, <2>1, ListOfWider DEF ListOf
  <2> QED
    BY <1>1, <1>2, <2>2 DEF ListsFit, RowsTyped
<1>10. MoneyTyped'
  BY <1>4 DEF MoneyTyped
<1> QED
  BY <1>2, <1>6, <1>7, <1>8, <1>9, <1>10 DEF MoneyAt

-----------------------------------------------------------------------------

LEMMA ListOfBoth ==
    ASSUME NEW X, NEW Y, NEW s, ListOf(s, X), ListOf(s, Y)
    PROVE  ListOf(s, X \cap Y)
<1>1. s \in Seq(X) /\ s \in Seq(Y)
  BY DEF ListOf
<1>2. \A i \in 1..Len(s) : s[i] \in X \cap Y
  BY <1>1, ElementOfSeq
<1>3. s \in Seq(X \cap Y)
  BY <1>1, <1>2, LenProperties, SeqDef
<1> QED
  BY <1>3 DEF ListOf

LEMMA QueuesOne ==
    ASSUME NEW x \in OpRecord, x.op = "match", x.amount > 0, IsMarket(x.o),
           IsBuy(x.o) # IsBuy(x.with)
    PROVE  \E b \in Agenda : /\ Settles(<<x>>, b, Nothing) /\ b.plan = Nothing.plan
                             /\ b.next = {x}
<1> DEFINE b == [Nothing EXCEPT !.next = {x}]
<1>1. b \in Agenda /\ b.plan = Nothing.plan /\ b.next = {x}
  BY NothingIsAgenda DEF Agenda
<1>2. Nothing.next = {} /\ b = [Nothing EXCEPT !.next = @ \cup {x}]
  BY NothingToSettle
<1> HIDE DEF b
<1>3. Queues(x, Nothing.next)
  BY <1>2 DEF Queues
<1>4. Leads(x, b, Nothing)
  BY <1>2, <1>3 DEF Leads
<1> QED
  BY <1>1, <1>4, NothingToSettle, SettlesOne

LEMMA QueuesTwo ==
    ASSUME NEW x \in OpRecord, x.op = "match", x.amount > 0, IsMarket(x.o),
           IsBuy(x.o), ~IsBuy(x.with),
           NEW y \in OpRecord, y.op = "match", y.amount > 0, IsMarket(y.o),
           ~IsBuy(y.o), IsBuy(y.with), x.o # y.with, x.with # y.o
    PROVE  \E b \in Agenda : /\ Settles(<<x>> \o <<y>>, b, Nothing)
                             /\ b.plan = Nothing.plan /\ b.next = {x, y}
<1>1. IsBuy(y.o) # IsBuy(y.with)
  OBVIOUS
<1>2. PICK c \in Agenda : /\ Settles(<<y>>, c, Nothing) /\ c.plan = Nothing.plan
                          /\ c.next = {y}
  BY <1>1, QueuesOne
<1> DEFINE b == [c EXCEPT !.next = {x, y}]
<1>3. b \in Agenda /\ b.plan = Nothing.plan /\ b.next = {x, y}
  BY <1>2 DEF Agenda
<1>4. b = [c EXCEPT !.next = @ \cup {x}]
  BY <1>2
<1> HIDE DEF b
<1>5. Queues(x, c.next)
  BY <1>2 DEF Queues, Parties
<1>6. Leads(x, b, c)
  BY <1>2, <1>4, <1>5 DEF Leads
<1> QED
  BY <1>2, <1>3, <1>6, SettlesOne, SettlesBoth

MatchOf(taker, other, u) == [op |-> "match", o |-> taker, amount |-> u, with |-> other]

LEMMA MatchOfTyped ==
    ASSUME NEW o \in Orders, NEW q \in Orders, NEW u \in Nat
    PROVE  /\ Match(o, q, u) = <<MatchOf(o, q, u)>> /\ MatchOf(o, q, u) \in OpRecord
           /\ MatchOf(o, q, u).o = o /\ MatchOf(o, q, u).with = q
           /\ MatchOf(o, q, u).op = "match" /\ MatchOf(o, q, u).amount = u
  BY DEF Match, MatchOf, OpRecord, OpNames

\* The one match a turn of a market order queues.
LEMMA MatchQueued ==
    ASSUME MatcherInv, MoneyTyped, NEW p \in Pairs, NEW a, MoneyAt(p, a), Turn(p),
           NEW o \in Ready(p, Nothing), NEW q \in Ready(p, Nothing), NEW u \in Nat \ {0},
           IsBuy(o) # IsBuy(q), IsMarket(o),
           tick[p].rows[o].price = Market, tick[p].rows[q].price # Market,
           tick' = [tick EXCEPT ![p].todo = Match(o, q, u)],
           UNCHANGED <<book, claim, place, inOrder, money>>
    PROVE  (\E b : MoneyAt(p, b)') /\ MoneyTyped'
<1> DEFINE x == MatchOf(o, q, u)
<1>1. o \in Orders /\ q \in Orders
  BY DEF Ready
<1>2. /\ Match(o, q, u) = <<x>> /\ x \in OpRecord /\ x.o = o /\ x.with = q
      /\ x.op = "match" /\ x.amount = u
  BY <1>1, MatchOfTyped
<1> HIDE DEF x
<1>3. PICK b \in Agenda : /\ Settles(<<x>>, b, Nothing) /\ b.plan = Nothing.plan
                          /\ b.next = {x}
  BY <1>2, QueuesOne
<1>4. \A m \in b.next :
         /\ m.o \in Ready(p, Nothing) /\ m.with \in Ready(p, Nothing)
         /\ tick[p].rows[m.o].price = Market /\ tick[p].rows[m.with].price # Market
         /\ \A n \in b.next : m # n => Tail(tick[p].buys) # <<>>
  BY <1>2, <1>3
<1>5. tick' = [tick EXCEPT ![p].todo = <<x>>]
  BY <1>2
<1> QED
  BY <1>3, <1>4, <1>5, QueueingAccounts

\* The first order of a list that says a price.
LEMMA FirstLimitSaysPrice ==
    ASSUME NEW p, NEW list, Len(list) \in Nat, FirstLimit(p, list) /= 0
    PROVE  RowOf(p, list[FirstLimit(p, list)]).price # Market
<1> DEFINE I == {i \in 1..Len(list) : RowOf(p, list[i]).price /= Market}
<1>1. FirstLimit(p, list) = IF I /= {} THEN Min(I) ELSE 0
  BY DEF FirstLimit, SelectInSeq
<1>2. I \subseteq Nat /\ \A i \in I : RowOf(p, list[i]).price /= Market
  OBVIOUS
<1> HIDE DEF I
<1>3. I # {}
  BY <1>1
<1>4. \E x \in I : \A y \in I : x <= y
  BY <1>2, <1>3, LeastNatural
<1>5. Min(I) \in I
  BY <1>4 DEF Min
<1> QED
  BY <1>1, <1>2, <1>3, <1>5

LEMMA TurnBothMarketAccounts ==
    ASSUME MatcherInv, MoneyTyped, NEW p \in Pairs, NEW a, MoneyAt(p, a),
           TurnBothMarket(p)
    PROVE  (\E b : MoneyAt(p, b)') /\ MoneyTyped'
<1> DEFINE buys == tick[p].buys
           sells == tick[p].sells
           b == buys[1]
           s == sells[1]
           i == FirstLimit(p, buys)
           j == FirstLimit(p, sells)
           x == MatchOf(b, sells[j], Lot)
           y == MatchOf(s, buys[i], Lot)
           todo == (IF j /= 0 THEN Match(b, sells[j], Lot) ELSE <<>>)
                   \o (IF i /= 0 THEN Match(s, buys[i], Lot) ELSE <<>>)
<1>1. /\ Turn(p) /\ RowOf(p, b).price = Market /\ RowOf(p, s).price = Market
      /\ UNCHANGED <<book, claim, place, inOrder, money>>
      /\ i /= 0 \/ j /= 0
      /\ \/ j /= 0 /\ Dropping(p, Tail(buys), RemoveAt(sells, j))
         \/ i /= 0 /\ Dropping(p, RemoveAt(buys, i), Tail(sells))
         \/ tick' = [tick EXCEPT ![p].todo = todo]
  BY DEF TurnBothMarket
<1>2. /\ ListOf(buys, Ready(p, Nothing)) /\ buys /= <<>> /\ b \in Held(p)
      /\ ListOf(sells, Ready(p, Nothing)) /\ sells /= <<>> /\ s \in Held(p)
      /\ ListOf(buys, Bids(p)) /\ ListOf(sells, Asks(p))
      /\ \A o \in Held(p) : RowOK(o, tick[p].rows[o])
      /\ Ready(p, Nothing) \subseteq Orders
  BY <1>1, TurnHas DEF Bids, Asks
<1>3. /\ i /= 0 => i \in 1..Len(buys)
      /\ j /= 0 => j \in 1..Len(sells)
      /\ i /= 0 => RowOf(p, buys[i]).price # Market
      /\ j /= 0 => RowOf(p, sells[j]).price # Market
      /\ Len(buys) \in Nat \ {0} /\ Len(sells) \in Nat \ {0}
  <2>1. Len(buys) \in Nat \ {0} /\ Len(sells) \in Nat \ {0}
    BY <1>2, LenProperties, EmptySeq DEF ListOf
  <2> QED
    BY <2>1, FirstLimitInList, FirstLimitSaysPrice
<1>4. IsMarket(b) /\ IsMarket(s)
  BY <1>1, <1>2 DEF RowOf, RowOK
<1> HIDE DEF i, j
<1>5. CASE j /= 0 /\ Dropping(p, Tail(buys), RemoveAt(sells, j))
  <2>1. ListOf(Tail(buys), Ready(p, Nothing)) /\ ListOf(RemoveAt(sells, j), Ready(p, Nothing))
    BY <1>2, <1>3, <1>5, ListOfTail, ListOfRemoveAt
  <2> QED
    BY <1>1, <1>5, <2>1, DroppingAccounts
<1>6. CASE i /= 0 /\ Dropping(p, RemoveAt(buys, i), Tail(sells))
  <2>1. ListOf(RemoveAt(buys, i), Ready(p, Nothing)) /\ ListOf(Tail(sells), Ready(p, Nothing))
    BY <1>2, <1>3, <1>6, ListOfTail, ListOfRemoveAt
  <2> QED
    BY <1>1, <1>6, <2>1, DroppingAccounts
<1>7. CASE tick' = [tick EXCEPT ![p].todo = todo]
  <2>1. /\ b \in Ready(p, Nothing) /\ IsBuy(b)
        /\ s \in Ready(p, Nothing) /\ ~IsBuy(s)
        /\ i /= 0 => buys[i] \in Ready(p, Nothing) /\ IsBuy(buys[i])
        /\ j /= 0 => sells[j] \in Ready(p, Nothing) /\ ~IsBuy(sells[j])
    <3>1. /\ \A n \in 1..Len(buys) : buys[n] \in Ready(p, Nothing) /\ buys[n] \in Bids(p)
          /\ \A n \in 1..Len(sells) : sells[n] \in Ready(p, Nothing) /\ sells[n] \in Asks(p)
      BY <1>2, ElementOfSeq DEF ListOf
    <3>2. 1 \in 1..Len(buys) /\ 1 \in 1..Len(sells)
      BY <1>3
    <3> QED
      BY <1>3, <3>1, <3>2 DEF Bids, Asks
  <2>2. Lot \in Nat /\ Lot > 0
    BY LotAssumption
  <2>3. j /= 0 => /\ Match(b, sells[j], Lot) = <<x>> /\ x \in OpRecord
                  /\ x.o = b /\ x.with = sells[j] /\ x.op = "match" /\ x.amount = Lot
    BY <1>2, <2>1, <2>2, MatchOfTyped
  <2>4. i /= 0 => /\ Match(s, buys[i], Lot) = <<y>> /\ y \in OpRecord
                  /\ y.o = s /\ y.with = buys[i] /\ y.op = "match" /\ y.amount = Lot
    BY <1>2, <2>1, <2>2, MatchOfTyped
  <2>5. CASE i = 0
    <3>1. j # 0 /\ todo = Match(b, sells[j], Lot)
      <4>1. j # 0
        BY <1>1, <2>5
      <4>2. <<x>> \in Seq(OpRecord)
        BY <2>3, <4>1
      <4> QED
        BY <2>3, <2>5, <4>1, <4>2, ConcatEmptySeq
    <3> HIDE DEF todo
    <3>2. IsBuy(b) # IsBuy(sells[j])
      BY <2>1, <3>1
    <3>3. b \in Ready(p, Nothing) /\ sells[j] \in Ready(p, Nothing)
      BY <2>1, <3>1
    <3>4. tick[p].rows[b].price = Market /\ tick[p].rows[sells[j]].price # Market
      BY <1>1, <1>3, <3>1 DEF RowOf
    <3>5. tick' = [tick EXCEPT ![p].todo = Match(b, sells[j], Lot)]
      BY <1>7, <3>1
    <3>6. Turn(p) /\ IsMarket(b) /\ UNCHANGED <<book, claim, place, inOrder, money>>
      BY <1>1, <1>4
    <3>7. Lot \in Nat \ {0}
      BY LotAssumption
    <3> HIDE DEF b, s, buys, sells
    <3> QED
      BY <3>2, <3>3, <3>4, <3>5, <3>6, <3>7, MatchQueued
  <2>6. CASE j = 0
    <3>1. i # 0 /\ todo = Match(s, buys[i], Lot)
      <4>1. i # 0
        BY <1>1, <2>6
      <4>2. <<y>> \in Seq(OpRecord)
        BY <2>4, <4>1
      <4> QED
        BY <2>4, <2>6, <4>1, <4>2, ConcatEmptySeq
    <3> HIDE DEF todo
    <3>2. IsBuy(s) # IsBuy(buys[i])
      BY <2>1, <3>1
    <3>3. s \in Ready(p, Nothing) /\ buys[i] \in Ready(p, Nothing)
      BY <2>1, <3>1
    <3>4. tick[p].rows[s].price = Market /\ tick[p].rows[buys[i]].price # Market
      BY <1>1, <1>3, <3>1 DEF RowOf
    <3>5. tick' = [tick EXCEPT ![p].todo = Match(s, buys[i], Lot)]
      BY <1>7, <3>1
    <3>6. Turn(p) /\ IsMarket(s) /\ UNCHANGED <<book, claim, place, inOrder, money>>
      BY <1>1, <1>4
    <3>7. Lot \in Nat \ {0}
      BY LotAssumption
    <3> HIDE DEF b, s, buys, sells
    <3> QED
      BY <3>2, <3>3, <3>4, <3>5, <3>6, <3>7, MatchQueued
  <2>7. CASE i # 0 /\ j # 0
    <3>1. todo = <<x>> \o <<y>>
      BY <2>3, <2>4, <2>7
    <3> HIDE DEF todo, x, y
    <3>2. x.o # y.with /\ x.with # y.o
      BY <1>1, <1>3, <2>3, <2>4, <2>7
    <3>3. PICK c \in Agenda : /\ Settles(todo, c, Nothing)
                              /\ c.plan = Nothing.plan /\ c.next = {x, y}
      BY <1>4, <2>1, <2>2, <2>3, <2>4, <2>7, <3>1, <3>2, QueuesTwo
    <3>4. Tail(buys) # <<>>
      <4> DEFINE n == Len(buys)
      <4>1. Len(Tail(buys)) = n - 1 /\ Len(<<>>) = 0
        BY <1>2, HeadTailProperties, EmptySeq DEF ListOf
      <4>2. i # 1
        BY <1>1, <1>3, <2>7
      <4>3. i \in 1..n /\ n \in Nat
        BY <1>3, <2>7
      <4> HIDE DEF n
      <4>4. n - 1 # 0
        BY <4>2, <4>3
      <4> QED
        BY <4>1, <4>4
    <3>5. ASSUME NEW m \in c.next
          PROVE  /\ m.o \in Ready(p, Nothing) /\ m.with \in Ready(p, Nothing)
                 /\ tick[p].rows[m.o].price = Market /\ tick[p].rows[m.with].price # Market
                 /\ \A n \in c.next : m # n => Tail(tick[p].buys) # <<>>
      BY <1>1, <1>3, <2>1, <2>3, <2>4, <2>7, <3>3, <3>4 DEF RowOf
    <3> QED
      BY <1>1, <1>7, <3>3, <3>5, QueueingAccounts
  <2> QED
    BY <2>5, <2>6, <2>7
<1> QED
  BY <1>1, <1>5, <1>6, <1>7

LEMMA TurnMarketBuyAccounts ==
    ASSUME MatcherInv, MoneyTyped, NEW p \in Pairs, NEW a, MoneyAt(p, a),
           TurnMarketBuy(p)
    PROVE  (\E b : MoneyAt(p, b)') /\ MoneyTyped'
<1> DEFINE buys == tick[p].buys
           sells == tick[p].sells
           b == buys[1]
           s == sells[1]
<1>1. /\ Turn(p) /\ RowOf(p, b).price = Market /\ RowOf(p, s).price # Market
      /\ UNCHANGED <<place, inOrder, money>>
      /\ \/ Dropping(p, buys, Tail(sells)) /\ UNCHANGED <<book, claim>>
         \/ CancelMarketOrders({b}) /\ Dropping(p, Tail(buys), Front(sells))
         \/ CancelMarketOrders({b}) /\ Dropping(p, Tail(buys), sells)
         \/ /\ tick' = [tick EXCEPT ![p].todo = Match(b, s, 1)]
            /\ UNCHANGED <<book, claim>>
  BY DEF TurnMarketBuy
<1>2. /\ ListOf(buys, Ready(p, Nothing)) /\ buys /= <<>> /\ b \in Bids(p)
      /\ ListOf(sells, Ready(p, Nothing)) /\ sells /= <<>> /\ s \in Asks(p)
      /\ ListOf(buys, Bids(p)) /\ ListOf(sells, Asks(p))
      /\ \A o \in Held(p) : RowOK(o, tick[p].rows[o])
  BY <1>1, TurnHas
<1>3. /\ IsMarket(b) /\ b \in Orders /\ b \in Ready(p, Nothing) /\ IsBuy(b)
      /\ s \in Ready(p, Nothing) /\ ~IsBuy(s)
  BY <1>1, <1>2, ListOfTail DEF RowOf, RowOK, Bids, Asks, Held
<1>4. /\ ListOf(Tail(buys), Ready(p, Nothing) \ {b})
      /\ ListOf(Tail(sells), Ready(p, Nothing))
      /\ ListOf(sells, Ready(p, Nothing) \ {b})
      /\ ListOf(Front(sells), Ready(p, Nothing) \ {b})
  <2>1. ListOf(sells, Ready(p, Nothing) \cap Asks(p))
    BY <1>2, ListOfBoth
  <2>2. Ready(p, Nothing) \cap Asks(p) \subseteq Ready(p, Nothing) \ {b}
    BY <1>3 DEF Asks
  <2>3. ListOf(sells, Ready(p, Nothing) \ {b})
    BY <2>1, <2>2, ListOfWider
  <2> QED
    BY <1>2, <2>3, ListOfTail, ListOfFront
<1>5. CASE Dropping(p, buys, Tail(sells)) /\ UNCHANGED <<book, claim>>
  BY <1>1, <1>2, <1>4, <1>5, DroppingAccounts
<1>6. CASE CancelMarketOrders({b}) /\ Dropping(p, Tail(buys), Front(sells))
  BY <1>1, <1>3, <1>4, <1>6, CancellingAccounts
<1>7. CASE CancelMarketOrders({b}) /\ Dropping(p, Tail(buys), sells)
  BY <1>1, <1>3, <1>4, <1>7, CancellingAccounts
<1>8. CASE tick' = [tick EXCEPT ![p].todo = Match(b, s, 1)] /\ UNCHANGED <<book, claim>>
  <2>1. IsBuy(b) # IsBuy(s)
    BY <1>3
  <2>2. 1 \in Nat \ {0}
    OBVIOUS
  <2> QED
    BY <1>1, <1>3, <1>8, <2>1, <2>2, MatchQueued DEF RowOf
<1> QED
  BY <1>1, <1>5, <1>6, <1>7, <1>8

LEMMA TurnMarketSellAccounts ==
    ASSUME MatcherInv, MoneyTyped, NEW p \in Pairs, NEW a, MoneyAt(p, a),
           TurnMarketSell(p)
    PROVE  (\E b : MoneyAt(p, b)') /\ MoneyTyped'
<1> DEFINE buys == tick[p].buys
           sells == tick[p].sells
           b == buys[1]
           s == sells[1]
<1>1. /\ Turn(p) /\ RowOf(p, b).price # Market /\ RowOf(p, s).price = Market
      /\ UNCHANGED <<place, inOrder, money>>
      /\ \/ Dropping(p, Tail(buys), sells) /\ UNCHANGED <<book, claim>>
         \/ CancelMarketOrders({s}) /\ Dropping(p, Front(buys), Tail(sells))
         \/ /\ tick' = [tick EXCEPT ![p].todo = Match(s, b, 1)]
            /\ UNCHANGED <<book, claim>>
  BY DEF TurnMarketSell
<1>2. /\ ListOf(buys, Ready(p, Nothing)) /\ buys /= <<>> /\ b \in Bids(p)
      /\ ListOf(sells, Ready(p, Nothing)) /\ sells /= <<>> /\ s \in Asks(p)
      /\ ListOf(buys, Bids(p)) /\ ListOf(sells, Asks(p))
      /\ \A o \in Held(p) : RowOK(o, tick[p].rows[o])
  BY <1>1, TurnHas
<1>3. /\ IsMarket(s) /\ s \in Orders /\ s \in Ready(p, Nothing) /\ ~IsBuy(s)
      /\ b \in Ready(p, Nothing) /\ IsBuy(b)
  BY <1>1, <1>2, ListOfTail DEF RowOf, RowOK, Bids, Asks, Held
<1>4. /\ ListOf(Tail(sells), Ready(p, Nothing) \ {s})
      /\ ListOf(Tail(buys), Ready(p, Nothing))
      /\ ListOf(Front(buys), Ready(p, Nothing) \ {s})
  <2>1. ListOf(buys, Ready(p, Nothing) \cap Bids(p))
    BY <1>2, ListOfBoth
  <2>2. Ready(p, Nothing) \cap Bids(p) \subseteq Ready(p, Nothing) \ {s}
    BY <1>3 DEF Bids
  <2>3. ListOf(buys, Ready(p, Nothing) \ {s})
    BY <2>1, <2>2, ListOfWider
  <2> QED
    BY <1>2, <2>3, ListOfTail, ListOfFront
<1>5. CASE Dropping(p, Tail(buys), sells) /\ UNCHANGED <<book, claim>>
  BY <1>1, <1>2, <1>4, <1>5, DroppingAccounts
<1>6. CASE CancelMarketOrders({s}) /\ Dropping(p, Front(buys), Tail(sells))
  BY <1>1, <1>3, <1>4, <1>6, CancellingAccounts
<1>7. CASE tick' = [tick EXCEPT ![p].todo = Match(s, b, 1)] /\ UNCHANGED <<book, claim>>
  <2>1. IsBuy(s) # IsBuy(b)
    BY <1>3
  <2>2. 1 \in Nat \ {0}
    OBVIOUS
  <2> QED
    BY <1>1, <1>3, <1>7, <2>1, <2>2, MatchQueued DEF RowOf
<1> QED
  BY <1>1, <1>5, <1>6, <1>7

-----------------------------------------------------------------------------
\* The settlement, one command at a time.

Carried == {"refund", "hset", "hdel", "release", "write", "releaseAll", "writeAll", "credit"}

\* What a command to settle finds: the agenda before it, and the agenda after it.
OpHas(p, a, o, x, b) ==
    /\ x = Head(tick[p].todo) /\ x \in OpRecord /\ x.o = o /\ o \in Orders /\ x.amount \in Nat
    /\ b \in Agenda /\ Settles(Tail(tick[p].todo), b, Nothing)
    /\ b.next = a.next /\ \A m \in a.next : o \notin Parties(m)
    /\ \A q \in Orders : q # o => b.plan[q] = a.plan[q]
    /\ Prepends(x, a.plan[o], b.plan[o])
    /\ a \in Agenda /\ a.plan[o] \in Plan /\ b.plan[o] \in Plan

LEMMA OpFacts ==
    ASSUME MatcherInv, NEW p \in Pairs, NEW a, MoneyAt(p, a),
           NEW name \in Carried, NextOp(p, name)
    PROVE  /\ \E o, x, b : OpHas(p, a, o, x, b) /\ x.op = name
           /\ tick[p].at = "matching" /\ tick[p].todo # <<>>
           /\ TickShape(p) /\ tick = [q \in Pairs |-> tick[q]]
           /\ RowsTyped(p) /\ Reserved(p, a)
           /\ \A o \in Orders : OrderFits(p, o, a)
<1>1. tick[p].at = "matching" /\ tick[p].todo # <<>> /\ Head(tick[p].todo).op = name
  BY SettlingMatches DEF NextOp
<1>2. TickShape(p) /\ tick = [q \in Pairs |-> tick[q]]
  BY <1>1, MatchingFacts
<1>3. /\ a \in Agenda /\ Settles(tick[p].todo, a, Nothing)
      /\ RowsTyped(p) /\ Reserved(p, a) /\ \A o \in Orders : OrderFits(p, o, a)
  BY DEF MoneyAt
<1> DEFINE x == Head(tick[p].todo)
<1>4. /\ x \in OpRecord
      /\ \E b \in Agenda : Leads(x, a, b) /\ Settles(Tail(tick[p].todo), b, Nothing)
  BY <1>1, <1>3, SettlesFirst
<1>5. x.op = name /\ x.op # "match" /\ x.op # "break"
  BY <1>1 DEF Carried
<1> HIDE DEF x
<1>6. x.o \in Orders /\ x.amount \in Nat
  BY <1>4 DEF OpRecord
<1>7. PICK b \in Agenda : Leads(x, a, b) /\ Settles(Tail(tick[p].todo), b, Nothing)
  BY <1>4
<1>8. a.plan[x.o] \in Plan /\ b.plan[x.o] \in Plan
  BY <1>3, <1>6, <1>7 DEF Agenda
<1>9. OpHas(p, a, x.o, x, b)
  <2>1. /\ b.next = a.next /\ \A m \in a.next : x.o \notin Parties(m)
        /\ \A q \in Orders : q # x.o => b.plan[q] = a.plan[q]
        /\ Prepends(x, a.plan[x.o], b.plan[x.o])
    BY <1>5, <1>7 DEF Leads
  <2> QED
    BY <1>3, <1>4, <1>6, <1>7, <1>8, <2>1 DEF OpHas, x
<1> QED
  BY <1>1, <1>2, <1>3, <1>5, <1>9

\* A command leaves the tick but for the row of its order and the commands to come.
OpLeaves(p, o, r, t) ==
    /\ tick'[p].at = tick[p].at /\ tick'[p].buys = tick[p].buys
    /\ tick'[p].sells = tick[p].sells /\ tick'[p].todo = t
    /\ tick'[p].rows \in [Orders -> Row \cup {NoRow}] /\ tick'[p].rows[o] = r
    /\ \A q \in Orders : q # o => tick'[p].rows[q] = tick[p].rows[q]

LEMMA OpShape ==
    ASSUME NEW p \in Pairs, TickShape(p), tick = [q \in Pairs |-> tick[q]], RowsTyped(p),
           NEW o \in Orders, NEW r \in Row \cup {NoRow}, NEW t,
           tick' = [tick EXCEPT ![p].rows[o] = r, ![p].todo = t]
    PROVE  OpLeaves(p, o, r, t)
<1>1. tick[p].rows \in [Orders -> Row \cup {NoRow}]
  BY DEF RowsTyped
<1>2. tick'[p] = [at |-> tick[p].at, buys |-> tick[p].buys, sells |-> tick[p].sells,
                  rows |-> [tick[p].rows EXCEPT ![o] = r], todo |-> t]
  BY DEF TickShape
<1>3. /\ tick'[p].at = tick[p].at /\ tick'[p].buys = tick[p].buys
      /\ tick'[p].sells = tick[p].sells /\ tick'[p].todo = t
      /\ tick'[p].rows = [tick[p].rows EXCEPT ![o] = r]
  BY <1>2
<1> QED
  BY <1>1, <1>3 DEF OpLeaves

LEMMA DoneShape ==
    ASSUME NEW p \in Pairs, TickShape(p), tick = [q \in Pairs |-> tick[q]], RowsTyped(p),
           NEW o \in Orders, Done(p)
    PROVE  OpLeaves(p, o, tick[p].rows[o], Tail(tick[p].todo))
<1>1. tick' = [tick EXCEPT ![p].todo = Tail(tick[p].todo)]
  BY DEF Done
<1>2. tick'[p] = [at |-> tick[p].at, buys |-> tick[p].buys, sells |-> tick[p].sells,
                  rows |-> tick[p].rows, todo |-> Tail(tick[p].todo)]
  BY <1>1 DEF TickShape
<1> QED
  BY <1>2 DEF OpLeaves, RowsTyped

\* A command that changes the row of its order or what is planned for it.
LEMMA OpAccounts ==
    ASSUME NEW p \in Pairs, NEW a, MoneyAt(p, a), NEW o, NEW x, NEW c,
           OpHas(p, a, o, x, c), tick[p].at = "matching",
           NEW r, NEW t, OpLeaves(p, o, r, t),
           NEW b \in Agenda, Settles(t, b, Nothing), b.next = a.next,
           \A q \in Orders : q # o => b.plan[q] = a.plan[q],
           \A q \in Orders : q # o => book'[q] = book[q] /\ refunded'[q] = refunded[q],
           place' = place, claim' = claim, spent' = spent,
           OrderFits(p, o, b)', (o \in Ready(p, b))', Reserved(p, b)'
    PROVE  MoneyAt(p, b)'
<1>1. o \in Orders /\ \A m \in a.next : o \notin Parties(m)
  BY DEF OpHas
<1>2. /\ tick'[p].at = tick[p].at /\ tick'[p].buys = tick[p].buys
      /\ tick'[p].sells = tick[p].sells /\ tick'[p].todo = t
      /\ tick'[p].rows \in [Orders -> Row \cup {NoRow}]
      /\ \A q \in Orders : q # o => tick'[p].rows[q] = tick[p].rows[q]
  BY DEF OpLeaves
<1>3. ~(tick[p].at \in {"armed", "read"})
  OBVIOUS
<1>4. Settles(tick'[p].todo, b, Nothing)
  BY <1>2
<1>5. \A q \in Orders : q # o =>
        /\ b.plan[q] = a.plan[q] /\ book'[q] = book[q] /\ place'[q] = place[q]
        /\ claim'[q] = claim[q] /\ refunded'[q] = refunded[q]
        /\ spent'[q] = spent[q] /\ tick'[p].rows[q] = tick[p].rows[q]
  BY <1>2
<1> QED
  BY <1>1, <1>2, <1>3, <1>4, <1>5, OneOrder

\* Reading a plan's fields off what a command does to it.
LEMMA PlannedFor ==
    ASSUME NEW p, NEW o \in Orders, NEW a, OrderFits(p, o, a), a.plan[o].mode # "none"
    PROVE  /\ Listed(o) /\ claim[o] = NoClaim
           /\ PlanFits(o, a.plan[o], book[o], tick[p].rows[o], Gone(p, o, a.next))
           /\ ~IsLadder(o) =>
                 /\ place[o] = "resting"
                 /\ Holds(o, Escrow(o), Due(o, NoClaim, book[o], tick[p].rows[o], a.plan[o]))
           /\ IsLimit(o) => place[o] = "resting"
<1>1. IsLimit(o) => ~IsLadder(o)
  BY OrderFacts
<1> QED
  BY <1>1 DEF OrderFits, Listed, Accounted

\* An order with something planned for it is accounted for.
LEMMA PlannedFits ==
    ASSUME NEW p, NEW o \in Orders, NEW a, OrderFits(p, o, a), a.plan[o].mode # "none",
           NEW b, b.plan[o].mode # "none", place' = place, claim' = claim,
           book'[o] # NoRow => Sound(o, book'[o], 0),
           PlanFits(o, b.plan[o], book'[o], tick'[p].rows[o], Gone(p, o, b.next)'),
           ~IsLadder(o) => Holds(o, Escrow(o)', Due(o, NoClaim, book'[o], tick'[p].rows[o], b.plan[o]))
    PROVE  OrderFits(p, o, b)' /\ (o \in Ready(p, b))'
<1>1. Listed(o)' /\ claim'[o] = NoClaim
  BY PlannedFor DEF Listed
<1>2. ClaimFits(o)'
  BY <1>1 DEF ClaimFits, OrderFits
<1>3. ~IsLadder(o) => Accounted(p, o, b.plan[o])'
  BY <1>1, PlannedFor DEF Accounted
<1>4. (o \in Ready(p, b))'
  BY <1>1 DEF Ready
<1> QED
  BY <1>1, <1>2, <1>3, <1>4 DEF OrderFits

-----------------------------------------------------------------------------

LEMMA EscrowTyped ==
    ASSUME MoneyTyped, NEW o \in Orders
    PROVE  /\ Debited(o) \in Nat /\ Escrow(o) \in Int
           /\ refunded[o] \in Nat /\ spent[o] \in Nat
<1>1. Debited(o) \in Nat
  BY OrderFacts DEF Debited
<1> QED
  BY <1>1 DEF MoneyTyped, Escrow

LEMMA HoldsMoves ==
    ASSUME NEW o, NEW esc \in Int, NEW n \in Int, Holds(o, esc, n), NEW m \in Int
    PROVE  Holds(o, esc - m, n - m)
  BY DEF Holds

\* What a plan says its order's escrow must hold.
LEMMA PlannedDue ==
    ASSUME NEW o \in Orders, NEW k \in Plan, k.mode # "none", NEW r, NEW b, NEW gone,
           PlanFits(o, k, b, r, gone)
    PROVE  /\ r \in Row /\ k.rel \in Nat /\ k.pay \in Nat
           /\ k.mode \in {"keep", "set", "drop"} /\ k.all \in {"no", "read", "write"}
           /\ Backing(o, r) \in Nat
           /\ \A c, q : Due(o, c, q, r, k) =
                 IF k.mode = "drop" THEN k.pay ELSE Backing(o, r) - k.rel + k.pay
           /\ \A c, q : Due(o, c, q, r, k) \in Int
           /\ IsLimit(o) =>
                 /\ r.released \in Nat /\ Backing(o, r) = Cost(o) - r.released
                 /\ reservationRemaining(o, r) = Cost(o) - r.released
                 /\ r.released <= Cost(o)
                 /\ k.mode # "drop" => r.released + k.rel <= Cost(o)
<1>1. /\ k.rel \in Nat /\ k.pay \in Nat /\ k.mode \in {"keep", "set", "drop"}
      /\ k.all \in {"no", "read", "write"}
  BY DEF Plan
<1>2. r \in Row
  BY <1>1 DEF PlanFits, Sound
<1>3. r.qty \in Nat /\ r.released \in Nat /\ r.value \in Nat
  BY <1>2, RowTyped
<1>4. Cost(o) \in Nat /\ unit(o) \in Nat \ {0}
  BY OrderFacts
<1>5. ASSUME IsLimit(o)
      PROVE  r.released <= Cost(o) /\ (k.mode # "drop" => r.released + k.rel <= Cost(o))
  <2>1. CASE k.mode = "drop"
    BY <1>5, <2>1 DEF PlanFits
  <2>2. CASE k.mode # "drop"
    <3>1. r.released + k.rel + r.qty * unit(o) <= Cost(o)
      BY <1>1, <1>5, <2>2 DEF PlanFits, Sound
    <3>2. r.qty * unit(o) \in Nat
      BY <1>3, <1>4, ProductsGrow
    <3> DEFINE x == r.qty * unit(o)
    <3>3. x \in Nat /\ r.released + k.rel + x <= Cost(o)
      BY <3>1, <3>2
    <3> HIDE DEF x
    <3> QED
      BY <1>1, <1>3, <1>4, <3>3
  <2> QED
    BY <2>1, <2>2
<1>6. IsLimit(o) => /\ Backing(o, r) = Cost(o) - r.released
                    /\ reservationRemaining(o, r) = Cost(o) - r.released
  BY <1>3, <1>4, <1>5 DEF Backing, reservationRemaining, Positive
<1>7. Backing(o, r) \in Nat
  BY <1>3, <1>4, <1>5, <1>6 DEF Backing
<1>8. \A c, q : Due(o, c, q, r, k) =
         IF k.mode = "drop" THEN k.pay ELSE Backing(o, r) - k.rel + k.pay
  BY DEF Due
<1>9. \A c, q : Due(o, c, q, r, k) \in Int
  BY <1>1, <1>7, <1>8
<1> QED
  BY <1>1, <1>2, <1>3, <1>5, <1>6, <1>7, <1>8, <1>9

\* What a command to settle says of its order, if something is planned for it.
LEMMA OpPlanned ==
    ASSUME MoneyTyped, NEW p, NEW a, NEW o, NEW x, NEW b, OpHas(p, a, o, x, b),
           OrderFits(p, o, a), a.plan[o].mode # "none"
    PROVE  LET k == a.plan[o]  r == tick[p].rows[o]
           IN /\ k \in Plan /\ b.plan[o] \in Plan /\ o \in Orders
              /\ Listed(o) /\ claim[o] = NoClaim
              /\ ~IsLadder(o) => place[o] = "resting" /\ Holds(o, Escrow(o), Due(o, NoClaim, book[o], r, k))
              /\ Escrow(o) \in Int /\ Due(o, NoClaim, book[o], r, k) \in Int
              /\ PlanFits(o, k, book[o], r, Gone(p, o, a.next))
              /\ book[o] # NoRow => Sound(o, book[o], 0)
<1>1. o \in Orders /\ a.plan[o] \in Plan /\ b.plan[o] \in Plan
  BY DEF OpHas
<1>2. Escrow(o) \in Int
  BY <1>1, EscrowTyped
<1>3. /\ Listed(o) /\ claim[o] = NoClaim
      /\ PlanFits(o, a.plan[o], book[o], tick[p].rows[o], Gone(p, o, a.next))
      /\ ~IsLadder(o) =>
            /\ place[o] = "resting"
            /\ Holds(o, Escrow(o), Due(o, NoClaim, book[o], tick[p].rows[o], a.plan[o]))
  BY <1>1, PlannedFor
<1>4. Due(o, NoClaim, book[o], tick[p].rows[o], a.plan[o]) \in Int
  BY <1>1, <1>3, PlannedDue
<1>5. book[o] # NoRow => Sound(o, book[o], 0)
  BY DEF OrderFits
<1> QED
  BY <1>1, <1>2, <1>3, <1>4, <1>5

LEMMA GoneStays ==
    ASSUME NEW p, NEW o, NEW r, NEW t, OpLeaves(p, o, r, t), NEW a, NEW b, b.next = a.next
    PROVE  \A q : Gone(p, q, a.next) => Gone(p, q, b.next)'
  BY DEF OpLeaves, Gone

LEMMA TickRefundAccounts ==
    ASSUME MatcherInv, MoneyTyped, NEW p \in Pairs, NEW a, MoneyAt(p, a), TickRefund(p)
    PROVE  (\E b : MoneyAt(p, b)') /\ MoneyTyped'
<1>1. NextOp(p, "refund") /\ "refund" \in Carried
  BY DEF TickRefund, Carried
<1>2. /\ tick[p].at = "matching" /\ TickShape(p) /\ tick = [q \in Pairs |-> tick[q]]
      /\ RowsTyped(p) /\ Reserved(p, a) /\ \A o \in Orders : OrderFits(p, o, a)
      /\ \E o, x, b : OpHas(p, a, o, x, b) /\ x.op = "refund"
  BY <1>1, OpFacts
<1>3. PICK o, x, b : OpHas(p, a, o, x, b) /\ x.op = "refund"
  BY <1>2
<1> DEFINE n == x.amount
           k == a.plan[o]
           j == b.plan[o]
           r == tick[p].rows[o]
<1>4. /\ o \in Orders /\ n \in Nat /\ Head(tick[p].todo).o = o
      /\ Head(tick[p].todo).amount = n /\ b \in Agenda /\ b.next = a.next
      /\ Settles(Tail(tick[p].todo), b, Nothing)
      /\ \A q \in Orders : q # o => b.plan[q] = a.plan[q]
  BY <1>3 DEF OpHas
<1>5. j \in Plan /\ j.mode # "none" /\ k = [j EXCEPT !.pay = @ + n]
  BY <1>3 DEF OpHas, Prepends
<1>6. /\ k.mode = j.mode /\ k.rel = j.rel /\ k.all = j.all /\ k.pay = j.pay + n
      /\ k.mode # "none" /\ k \in Plan
  BY <1>3, <1>5 DEF Plan, OpHas
<1>7. /\ refunded' = [refunded EXCEPT ![o] = @ + n] /\ Done(p)
      /\ book' = book /\ inOrder' = inOrder /\ place' = place /\ claim' = claim
      /\ earned' = earned /\ spent' = spent
  BY <1>4 DEF TickRefund
<1>8. MoneyTyped'
  BY <1>4, <1>7 DEF MoneyTyped
<1>9. OpLeaves(p, o, r, Tail(tick[p].todo))
  BY <1>2, <1>4, <1>7, DoneShape
<1>10. \A q \in Orders : q # o => refunded'[q] = refunded[q]
  BY <1>4, <1>7 DEF MoneyTyped
<1> HIDE DEF n, j, k, r
<1>11. /\ Holds(o, Escrow(o), Due(o, NoClaim, book[o], r, k)) \/ IsLadder(o)
       /\ Escrow(o) \in Int /\ PlanFits(o, k, book[o], r, Gone(p, o, a.next))
       /\ book[o] # NoRow => Sound(o, book[o], 0)
  BY <1>2, <1>3, <1>4, <1>6, OpPlanned DEF k, r
<1>12. PlanFits(o, j, book[o], r, Gone(p, o, b.next)')
  <2>1. Gone(p, o, a.next) => Gone(p, o, b.next)'
    BY <1>4, <1>9, GoneStays
  <2> QED
    BY <1>5, <1>6, <1>11, <2>1 DEF PlanFits
<1>13. ~IsLadder(o) => Holds(o, Escrow(o)', Due(o, NoClaim, book[o], r, j))
  <2> SUFFICES ASSUME ~IsLadder(o)
               PROVE  Holds(o, Escrow(o)', Due(o, NoClaim, book[o], r, j))
    OBVIOUS
  <2>1. Escrow(o)' = Escrow(o) - n
    <3>1. refunded'[o] = refunded[o] + n /\ refunded[o] \in Nat /\ spent[o] \in Nat
      BY <1>4, <1>7 DEF MoneyTyped
    <3>2. Debited(o)' = Debited(o) /\ Debited(o) \in Nat
      BY <1>4, <1>7, EscrowTyped DEF Debited
    <3> QED
      BY <1>4, <1>7, <3>1, <3>2 DEF Escrow
  <2> DEFINE d == Due(o, NoClaim, book[o], r, k)
  <2>2. d \in Int /\ Due(o, NoClaim, book[o], r, j) = d - n
    <3>1. /\ Backing(o, r) \in Nat /\ d \in Int
          /\ d = IF k.mode = "drop" THEN k.pay ELSE Backing(o, r) - k.rel + k.pay
          /\ k.rel \in Nat /\ k.pay \in Nat
      BY <1>4, <1>6, <1>11, PlannedDue
    <3>2. Due(o, NoClaim, book[o], r, j) =
             IF j.mode = "drop" THEN j.pay ELSE Backing(o, r) - j.rel + j.pay
      BY <1>4, <1>5, <1>12, PlannedDue
    <3>3. j.pay \in Nat
      BY <1>5 DEF Plan
    <3> HIDE DEF d
    <3> QED
      BY <1>4, <1>6, <3>1, <3>2, <3>3
  <2>3. Holds(o, Escrow(o) - n, d - n)
    BY <1>4, <1>11, <2>2, HoldsMoves
  <2> QED
    BY <2>1, <2>2, <2>3
<1>14. book'[o] = book[o] /\ tick'[p].rows[o] = r
  BY <1>7, <1>9 DEF OpLeaves
<1>15. OrderFits(p, o, b)' /\ (o \in Ready(p, b))'
  BY <1>2, <1>4, <1>5, <1>6, <1>7, <1>11, <1>12, <1>13, <1>14, PlannedFits DEF j, k
<1>16. Reserved(p, b)'
  <2>1. ASSUME NEW q \in Orders
        PROVE  Outstanding(p, q, b.plan[q])' = Outstanding(p, q, a.plan[q])
    <3>1. tick'[p].rows[q] = tick[p].rows[q] /\ b.plan[q].mode = a.plan[q].mode
      BY <1>4, <1>6, <1>9 DEF OpLeaves, r, j, k
    <3> QED
      BY <1>7, <3>1 DEF Outstanding
  <2> QED
    BY <1>2, <1>7, <2>1, ReservedSame
<1>17. MoneyAt(p, b)'
  BY <1>2, <1>3, <1>4, <1>7, <1>9, <1>10, <1>15, <1>16, OpAccounts
<1> QED
  BY <1>8, <1>17

-----------------------------------------------------------------------------

LEMMA TickCreditAccounts ==
    ASSUME MatcherInv, MoneyTyped, NEW p \in Pairs, NEW a, MoneyAt(p, a), TickCredit(p)
    PROVE  (\E b : MoneyAt(p, b)') /\ MoneyTyped'
<1>1. NextOp(p, "credit") /\ "credit" \in Carried
  BY DEF TickCredit, Carried
<1>2. /\ tick[p].at = "matching" /\ TickShape(p) /\ tick = [q \in Pairs |-> tick[q]]
      /\ RowsTyped(p) /\ Reserved(p, a) /\ \A o \in Orders : OrderFits(p, o, a)
      /\ \E o, x, b : OpHas(p, a, o, x, b) /\ x.op = "credit"
  BY <1>1, OpFacts
<1>3. PICK o, x, b : OpHas(p, a, o, x, b) /\ x.op = "credit"
  BY <1>2
<1>4. /\ o \in Orders /\ Head(tick[p].todo).o = o /\ Head(tick[p].todo).amount = x.amount
      /\ b \in Agenda /\ b.next = a.next /\ x.amount \in Nat
      /\ Settles(Tail(tick[p].todo), b, Nothing)
      /\ \A q \in Orders : q # o => b.plan[q] = a.plan[q]
  BY <1>3 DEF OpHas
<1>5. b.plan[o] = a.plan[o]
  BY <1>3 DEF OpHas, Prepends
<1>6. /\ earned' = [earned EXCEPT ![o] = @ + x.amount] /\ Done(p)
      /\ book' = book /\ inOrder' = inOrder /\ place' = place /\ claim' = claim
      /\ refunded' = refunded /\ spent' = spent
  BY <1>4 DEF TickCredit
<1>7. MoneyTyped'
  BY <1>4, <1>6 DEF MoneyTyped
<1>8. OpLeaves(p, o, tick[p].rows[o], Tail(tick[p].todo))
  BY <1>2, <1>4, <1>6, DoneShape
<1>9. \A q \in Orders : /\ tick'[p].rows[q] = tick[p].rows[q] /\ b.plan[q] = a.plan[q]
                        /\ book'[q] = book[q] /\ place'[q] = place[q]
                        /\ claim'[q] = claim[q] /\ refunded'[q] = refunded[q]
                        /\ spent'[q] = spent[q]
  BY <1>4, <1>5, <1>6, <1>8 DEF OpLeaves
<1>10. Gone(p, o, a.next) => Gone(p, o, b.next)'
  BY <1>4, <1>8, GoneStays
<1>11. OrderFits(p, o, b)'
  BY <1>2, <1>4, <1>9, <1>10, OrderKept
<1>12. ASSUME o \in Ready(p, a) PROVE (o \in Ready(p, b))'
  <2>1. Listed(o)'
    BY <1>6, <1>12 DEF Ready, Listed
  <2> QED
    BY <1>4, <1>9, <1>10, <1>12, <2>1, ReadyKept
<1>13. Reserved(p, b)'
  <2>1. ASSUME NEW q \in Orders
        PROVE  Outstanding(p, q, b.plan[q])' = Outstanding(p, q, a.plan[q])
    BY <1>6, <1>9 DEF Outstanding
  <2> QED
    BY <1>2, <1>6, <2>1, ReservedSame
<1>14. MoneyAt(p, b)'
  <2>1. \A m \in a.next : o \notin Parties(m)
    BY <1>3 DEF OpHas
  <2>2. /\ tick'[p].at = tick[p].at /\ tick'[p].buys = tick[p].buys
        /\ tick'[p].sells = tick[p].sells /\ Settles(tick'[p].todo, b, Nothing)
        /\ tick'[p].rows \in [Orders -> Row \cup {NoRow}]
    BY <1>4, <1>8 DEF OpLeaves
  <2>3. ~(tick[p].at \in {"armed", "read"})
    BY <1>2
  <2> QED
    BY <1>4, <1>9, <1>11, <1>12, <1>13, <2>1, <2>2, <2>3, OneOrder
<1> QED
  BY <1>7, <1>14

\* The row goes: for good, or to be written back.
LEMMA TickHdelAccounts ==
    ASSUME MatcherInv, MoneyTyped, NEW p \in Pairs, NEW a, MoneyAt(p, a), TickHdel(p)
    PROVE  (\E b : MoneyAt(p, b)') /\ MoneyTyped'
<1>1. NextOp(p, "hdel") /\ "hdel" \in Carried
  BY DEF TickHdel, Carried
<1>2. /\ tick[p].at = "matching" /\ TickShape(p) /\ tick = [q \in Pairs |-> tick[q]]
      /\ RowsTyped(p) /\ Reserved(p, a) /\ \A o \in Orders : OrderFits(p, o, a)
      /\ \E o, x, b : OpHas(p, a, o, x, b) /\ x.op = "hdel"
  BY <1>1, OpFacts
<1>3. PICK o, x, b : OpHas(p, a, o, x, b) /\ x.op = "hdel"
  BY <1>2
<1> DEFINE k == a.plan[o]
           j == b.plan[o]
           r == tick[p].rows[o]
<1>4. /\ o \in Orders /\ Head(tick[p].todo).o = o /\ b \in Agenda /\ b.next = a.next
      /\ Settles(Tail(tick[p].todo), b, Nothing)
      /\ \A q \in Orders : q # o => b.plan[q] = a.plan[q]
  BY <1>3 DEF OpHas
<1>5. \/ j = [NoPlan EXCEPT !.mode = "set"] /\ k = [NoPlan EXCEPT !.mode = "keep"]
      \/ j = NoPlan /\ k = [NoPlan EXCEPT !.mode = "drop"]
  BY <1>3 DEF OpHas, Prepends
<1>6. /\ k.rel = 0 /\ k.all = "no" /\ k.pay = 0 /\ k.mode \in {"keep", "drop"}
      /\ j.rel = 0 /\ j.all = "no" /\ j.pay = 0
      /\ k.mode = "keep" => j.mode = "set"
      /\ k.mode = "drop" => j.mode = "none" /\ j = NoPlan
  BY <1>5 DEF NoPlan
<1>7. /\ book' = [book EXCEPT ![o] = NoRow] /\ Done(p)
      /\ inOrder' = inOrder /\ place' = place /\ claim' = claim
      /\ earned' = earned /\ refunded' = refunded /\ spent' = spent
  BY <1>4 DEF TickHdel, money
<1>8. MoneyTyped'
  BY <1>7 DEF MoneyTyped
<1>9. book = [q \in Orders |-> book[q]]
  BY DEF MatcherInv, OrdersInv
<1>10. book'[o] = NoRow /\ \A q \in Orders : q # o => book'[q] = book[q]
  BY <1>4, <1>7, <1>9
<1>11. OpLeaves(p, o, r, Tail(tick[p].todo))
  BY <1>2, <1>4, <1>7, DoneShape
<1> HIDE DEF j, k, r
<1>12. /\ Listed(o) /\ claim[o] = NoClaim
       /\ ~IsLadder(o) => /\ place[o] = "resting"
                          /\ Holds(o, Escrow(o), Due(o, NoClaim, book[o], r, k))
       /\ k \in Plan /\ j \in Plan /\ PlanFits(o, k, book[o], r, Gone(p, o, a.next))
  <2>1. a.plan[o].mode # "none" /\ OrderFits(p, o, a)
    BY <1>2, <1>4, <1>6 DEF k
  <2> QED
    BY <1>3, <2>1, OpPlanned DEF k, r, j
<1>13. r \in Row /\ IsLimit(o) => r.released \in Nat /\ Backing(o, r) = Cost(o) - r.released
  BY <1>4, <1>6, <1>12, PlannedDue
<1>14. Escrow(o)' = Escrow(o) /\ Listed(o)' /\ claim'[o] = NoClaim /\ tick'[p].rows[o] = r
  BY <1>7, <1>11, <1>12 DEF Escrow, Debited, Listed, OpLeaves
<1>15. Gone(p, o, a.next) => Gone(p, o, b.next)'
  BY <1>4, <1>11, GoneStays
<1>16. OrderFits(p, o, b)' /\ (o \in Ready(p, b))'
  <2>1. CASE k.mode = "keep"
    <3>1. j.mode = "set" /\ j.mode # "none" /\ k.mode # "none"
      BY <1>6, <2>1
    <3>2. PlanFits(o, j, book'[o], tick'[p].rows[o], Gone(p, o, b.next)')
      BY <1>6, <1>10, <1>12, <1>14, <2>1, <3>1 DEF PlanFits
    <3>3. Due(o, NoClaim, book'[o], tick'[p].rows[o], j) = Due(o, NoClaim, book[o], r, k)
      BY <1>6, <1>14, <2>1, <3>1 DEF Due
    <3>4. ~IsLadder(o) => Holds(o, Escrow(o)', Due(o, NoClaim, book'[o], tick'[p].rows[o], j))
      BY <1>12, <1>14, <3>3
    <3> QED
      BY <1>2, <1>4, <1>7, <1>10, <3>1, <3>2, <3>4, PlannedFits DEF j, k
  <2>2. CASE k.mode = "drop"
    <3>1. j.mode = "none" /\ j = NoPlan
      BY <1>6, <2>2
    <3>2. (o \in Ready(p, b))'
      <4>1. Over(o, r) \/ Gone(p, o, a.next)
        BY <1>12, <2>2 DEF PlanFits
      <4>2. IsLimit(o) => r.released = Cost(o)
        BY <1>6, <1>12, <2>2 DEF PlanFits
      <4>3. Finished(o, book'[o], r) \/ Gone(p, o, b.next)'
        BY <1>10, <1>15, <4>1, <4>2 DEF Finished
      <4> QED
        BY <1>4, <1>14, <4>3 DEF Ready
    <3>3. PlanFits(o, j, book'[o], tick'[p].rows[o], Gone(p, o, b.next)')
      BY <1>6, <3>1 DEF PlanFits
    <3>4. ~IsLadder(o) => Accounted(p, o, j)'
      <4>1. Due(o, NoClaim, book'[o], tick'[p].rows[o], j) = 0
        BY <1>10, <3>1 DEF Due
      <4>2. Due(o, NoClaim, book[o], r, k) = 0
        BY <1>6, <2>2 DEF Due
      <4> QED
        BY <1>7, <1>12, <1>14, <4>1, <4>2 DEF Accounted
    <3>5. ClaimFits(o)'
      BY <1>2, <1>4, <1>14, <1>12 DEF ClaimFits, OrderFits
    <3> QED
      BY <1>2, <1>4, <1>7, <1>10, <1>14, <3>1, <3>2, <3>3, <3>4, <3>5 DEF OrderFits, j
  <2> QED
    BY <1>6, <2>1, <2>2
<1>17. Reserved(p, b)'
  <2>1. ASSUME NEW q \in Orders, IsLimit(q)
        PROVE  Outstanding(p, q, b.plan[q])' = Outstanding(p, q, a.plan[q])
    <3>1. CASE q # o
      <4>1. tick'[p].rows[q] = tick[p].rows[q] /\ b.plan[q] = a.plan[q] /\ book'[q] = book[q]
        BY <1>4, <1>10, <1>11, <3>1 DEF OpLeaves
      <4> QED
        BY <1>7, <4>1 DEF Outstanding
    <3>2. CASE q = o
      <4>1. place[o] = "resting"
        BY <1>12, <2>1, <3>2, OrderFacts
      <4>2. Outstanding(p, o, k) = Cost(o) - r.released
        BY <1>6, <1>12, <4>1 DEF Outstanding, r
      <4>3. CASE k.mode = "keep"
        BY <1>6, <1>7, <1>14, <3>2, <4>1, <4>2, <4>3 DEF Outstanding, j, k
      <4>4. CASE k.mode = "drop"
        <5>1. r.released = Cost(o) /\ Cost(o) \in Nat
          BY <1>4, <1>6, <1>12, <2>1, <3>2, <4>4, OrderFacts DEF PlanFits
        <5>2. Outstanding(p, o, j)' = 0
          BY <1>6, <1>7, <1>10, <1>14, <4>1, <4>4 DEF Outstanding
        <5> QED
          BY <3>2, <4>2, <5>1, <5>2 DEF j, k
      <4> QED
        BY <1>6, <4>3, <4>4
    <3> QED
      BY <3>1, <3>2
  <2> QED
    BY <1>2, <1>7, <2>1, ReservedSame
<1>18. MoneyAt(p, b)'
  BY <1>2, <1>3, <1>4, <1>7, <1>10, <1>11, <1>16, <1>17, OpAccounts
<1> QED
  BY <1>8, <1>18

\* The row comes back, as the tick has it.
LEMMA TickHsetAccounts ==
    ASSUME MatcherInv, MoneyTyped, NEW p \in Pairs, NEW a, MoneyAt(p, a), TickHset(p)
    PROVE  (\E b : MoneyAt(p, b)') /\ MoneyTyped'
<1>1. NextOp(p, "hset") /\ "hset" \in Carried
  BY DEF TickHset, Carried
<1>2. /\ tick[p].at = "matching" /\ TickShape(p) /\ tick = [q \in Pairs |-> tick[q]]
      /\ RowsTyped(p) /\ Reserved(p, a) /\ \A o \in Orders : OrderFits(p, o, a)
      /\ \E o, x, b : OpHas(p, a, o, x, b) /\ x.op = "hset"
  BY <1>1, OpFacts
<1>3. PICK o, x, b : OpHas(p, a, o, x, b) /\ x.op = "hset"
  BY <1>2
<1> DEFINE k == a.plan[o]
           j == b.plan[o]
           r == tick[p].rows[o]
<1>4. /\ o \in Orders /\ Head(tick[p].todo).o = o /\ b \in Agenda /\ b.next = a.next
      /\ Settles(Tail(tick[p].todo), b, Nothing)
      /\ \A q \in Orders : q # o => b.plan[q] = a.plan[q]
  BY <1>3 DEF OpHas
<1>5. j = NoPlan /\ k = [NoPlan EXCEPT !.mode = "set"]
  BY <1>3 DEF OpHas, Prepends
<1>6. /\ k.rel = 0 /\ k.all = "no" /\ k.pay = 0 /\ k.mode = "set"
      /\ j.rel = 0 /\ j.all = "no" /\ j.pay = 0 /\ j.mode = "none"
  BY <1>5 DEF NoPlan
<1>7. /\ book' = [book EXCEPT ![o] = r] /\ Done(p)
      /\ inOrder' = inOrder /\ place' = place /\ claim' = claim
      /\ earned' = earned /\ refunded' = refunded /\ spent' = spent
  BY <1>4 DEF TickHset, money
<1>8. MoneyTyped'
  BY <1>7 DEF MoneyTyped
<1>9. book = [q \in Orders |-> book[q]]
  BY DEF MatcherInv, OrdersInv
<1>10. book'[o] = r /\ \A q \in Orders : q # o => book'[q] = book[q]
  BY <1>4, <1>7, <1>9
<1>11. OpLeaves(p, o, r, Tail(tick[p].todo))
  BY <1>2, <1>4, <1>7, DoneShape
<1> HIDE DEF j, k, r
<1>12. /\ Listed(o) /\ claim[o] = NoClaim
       /\ ~IsLadder(o) => /\ place[o] = "resting"
                          /\ Holds(o, Escrow(o), Due(o, NoClaim, book[o], r, k))
       /\ k \in Plan /\ j \in Plan /\ PlanFits(o, k, book[o], r, Gone(p, o, a.next))
  <2>1. a.plan[o].mode # "none" /\ OrderFits(p, o, a)
    BY <1>2, <1>4, <1>6 DEF k
  <2> QED
    BY <1>3, <2>1, OpPlanned DEF k, r, j
<1>13. Sound(o, r, 0) /\ r \in Row /\ r # NoRow /\ Backing(o, r) \in Nat
  <2>1. Sound(o, r, 0)
    BY <1>6, <1>12 DEF PlanFits
  <2>2. Backing(o, r) \in Nat
    BY <1>4, <1>6, <1>12, PlannedDue
  <2> QED
    BY <2>1, <2>2, NoRowAssumption DEF Sound
<1>14. Escrow(o)' = Escrow(o) /\ Listed(o)' /\ claim'[o] = NoClaim /\ tick'[p].rows[o] = r
  BY <1>7, <1>11, <1>12 DEF Escrow, Debited, Listed, OpLeaves
<1>15. OrderFits(p, o, b)' /\ (o \in Ready(p, b))'
  <2>1. (o \in Ready(p, b))'
    <3>1. Fresh(o, r, r)
      BY <1>13 DEF Fresh, Sound
    <3> QED
      BY <1>4, <1>10, <1>14, <3>1 DEF Ready
  <2>2. PlanFits(o, j, book'[o], tick'[p].rows[o], Gone(p, o, b.next)')
    BY <1>5, <1>6 DEF PlanFits
  <2>3. ~IsLadder(o) => Accounted(p, o, j)'
    <3>1. Due(o, NoClaim, book'[o], tick'[p].rows[o], j) = Backing(o, r)
      BY <1>6, <1>10, <1>13 DEF Due
    <3>2. Due(o, NoClaim, book[o], r, k) = Backing(o, r)
      BY <1>6, <1>13 DEF Due
    <3> QED
      BY <1>7, <1>12, <1>14, <3>1, <3>2 DEF Accounted
  <2>4. ClaimFits(o)'
    BY <1>2, <1>4, <1>14, <1>12 DEF ClaimFits, OrderFits
  <2> QED
    BY <1>2, <1>4, <1>5, <1>6, <1>7, <1>10, <1>13, <1>14, <2>1, <2>2, <2>3, <2>4 DEF OrderFits, j
<1>16. Reserved(p, b)'
  <2>1. ASSUME NEW q \in Orders, IsLimit(q)
        PROVE  Outstanding(p, q, b.plan[q])' = Outstanding(p, q, a.plan[q])
    <3>1. CASE q # o
      <4>1. tick'[p].rows[q] = tick[p].rows[q] /\ b.plan[q] = a.plan[q] /\ book'[q] = book[q]
        BY <1>4, <1>10, <1>11, <3>1 DEF OpLeaves
      <4> QED
        BY <1>7, <4>1 DEF Outstanding
    <3>2. CASE q = o
      <4>1. place[o] = "resting"
        BY <1>12, <2>1, <3>2, OrderFacts
      <4>2. Outstanding(p, o, k) = Cost(o) - r.released
        BY <1>6, <1>12, <4>1 DEF Outstanding, r
      <4>3. Outstanding(p, o, j)' = Cost(o) - r.released
        BY <1>6, <1>7, <1>10, <1>13, <1>14, <4>1 DEF Outstanding
      <4> QED
        BY <3>2, <4>2, <4>3 DEF j, k
    <3> QED
      BY <3>1, <3>2
  <2> QED
    BY <1>2, <1>7, <2>1, ReservedSame
<1>17. MoneyAt(p, b)'
  BY <1>2, <1>3, <1>4, <1>7, <1>10, <1>11, <1>15, <1>16, OpAccounts
<1> QED
  BY <1>8, <1>17

-----------------------------------------------------------------------------

\* A command that takes d off the reservation of its order.
LEMMA ReleasingAccounts ==
    ASSUME NEW p \in Pairs, NEW a, NEW o, NEW x, NEW b, NEW r, NEW t, NEW c \in Agenda,
           NEW d \in Nat, MatcherInv, MoneyTyped, MoneyAt(p, a), OpHas(p, a, o, x, b),
           tick[p].at = "matching", IsLimit(o), a.plan[o].mode # "none",
           OpLeaves(p, o, r, t), Settles(t, c, Nothing), c.next = a.next,
           \A q \in Orders : q # o => c.plan[q] = a.plan[q], c.plan[o].mode # "none",
           PlanFits(o, c.plan[o], book[o], r, Gone(p, o, a.next)),
           Due(o, NoClaim, book[o], r, c.plan[o])
             = Due(o, NoClaim, book[o], tick[p].rows[o], a.plan[o]),
           r.released = tick[p].rows[o].released + d,
           inOrder' = [inOrder EXCEPT ![Field(o)] = @ - d],
           UNCHANGED <<book, place, claim, money>>
    PROVE  MoneyAt(p, c)' /\ MoneyTyped'
<1> DEFINE k == a.plan[o]
           j == c.plan[o]
           v == tick[p].rows[o]
<1>1. /\ o \in Orders /\ k \in Plan /\ j \in Plan
      /\ \A q \in Orders : OrderFits(p, q, a)
      /\ Reserved(p, a)
  BY DEF OpHas, Agenda, MoneyAt
<1>2. /\ ~IsLadder(o) /\ ~IsMarket(o) /\ Cost(o) \in Nat /\ Field(o) \in Users \X Coins
  BY <1>1, OrderFacts
<1>3. /\ place[o] = "resting" /\ claim[o] = NoClaim
      /\ Holds(o, Escrow(o), Due(o, NoClaim, book[o], v, k))
      /\ PlanFits(o, k, book[o], v, Gone(p, o, a.next))
      /\ book[o] # NoRow => Sound(o, book[o], 0)
  <2>1. OrderFits(p, o, a)
    BY <1>1
  <2> QED
    BY <1>2, <2>1, OpPlanned
<1>4. /\ book' = book /\ place' = place /\ claim' = claim
      /\ refunded' = refunded /\ earned' = earned /\ spent' = spent
  BY DEF money
<1>5. tick'[p].rows[o] = r /\ \A q \in Orders : q # o => tick'[p].rows[q] = tick[p].rows[q]
  BY DEF OpLeaves
<1>6. /\ v.released \in Nat /\ v.released <= Cost(o)
      /\ r.released \in Nat /\ r.released <= Cost(o)
  BY <1>1, <1>2, <1>3, PlannedDue
<1> HIDE DEF k, j, v
<1>7. OrderFits(p, o, c)' /\ (o \in Ready(p, c))'
  <2>1. Gone(p, o, a.next) => Gone(p, o, c.next)'
    BY GoneStays
  <2>2. PlanFits(o, j, book'[o], tick'[p].rows[o], Gone(p, o, c.next)')
    BY <1>4, <1>5, <2>1 DEF PlanFits, j
  <2>3. Escrow(o)' = Escrow(o)
    BY <1>4 DEF Escrow, Debited
  <2>4. ~IsLadder(o) => Holds(o, Escrow(o)', Due(o, NoClaim, book'[o], tick'[p].rows[o], j))
    BY <1>3, <1>4, <1>5, <2>3 DEF j, k, v
  <2>5. book'[o] # NoRow => Sound(o, book'[o], 0)
    BY <1>3, <1>4
  <2> QED
    BY <1>1, <1>4, <2>2, <2>4, <2>5, PlannedFits DEF j
<1>8. Outstanding(p, o, k) = Cost(o) - v.released /\ Outstanding(p, o, j)' = Cost(o) - r.released
  BY <1>3, <1>4, <1>5 DEF Outstanding, v, k, j
<1>9. MoneyTyped'
  <2>1. Cost(o) - v.released <= inOrder[Field(o)] /\ inOrder[Field(o)] \in Nat
    <3>1. Outstanding(p, o, a.plan[o]) \in Nat
      BY <1>2, <1>6, <1>8 DEF k
    <3> QED
      BY <1>1, <1>8, <3>1, OutstandingWithin DEF k
  <2>2. d <= Cost(o) - v.released
    BY <1>2, <1>6 DEF v
  <2>3. inOrder[Field(o)] - d \in Nat
    BY <1>2, <1>6, <2>1, <2>2
  <2>4. inOrder' \in [Users \X Coins -> Nat]
    BY <2>3 DEF MoneyTyped
  <2> QED
    BY <1>4, <2>4 DEF MoneyTyped
<1>10. Reserved(p, c)'
  <2>1. \A q \in Orders : IsLimit(q) => Outstanding(p, q, a.plan[q]) \in Nat
    BY LimitsTyped
  <2>2. Outstanding(p, o, c.plan[o])' \in Nat
    BY <1>2, <1>6, <1>8 DEF j
  <2>3. inOrder'[Field(o)] = inOrder[Field(o)] - d /\ inOrder[Field(o)] \in Nat
    BY <1>2 DEF MoneyTyped
  <2>4. \A f \in Users \X Coins : f # Field(o) => inOrder'[f] = inOrder[f]
    BY <1>2 DEF MoneyTyped
  <2>5. inOrder'[Field(o)] = inOrder[Field(o)]
           - Outstanding(p, o, a.plan[o]) + Outstanding(p, o, c.plan[o])'
    BY <1>2, <1>6, <1>8, <2>3 DEF j, k, v
  <2>6. ASSUME NEW q \in Orders, IsLimit(q), q # o
        PROVE  Outstanding(p, q, c.plan[q])' = Outstanding(p, q, a.plan[q])
    BY <1>4, <1>5, <2>6 DEF Outstanding
  <2> QED
    BY <1>1, <2>1, <2>2, <2>4, <2>5, <2>6, ReservedMoved
<1>11. MoneyAt(p, c)'
  BY <1>4, <1>7, <1>10, OpAccounts
<1> QED
  BY <1>9, <1>11

LEMMA TickReadInOrderAccounts ==
    ASSUME MatcherInv, MoneyTyped, NEW p \in Pairs, NEW a, MoneyAt(p, a),
           TickReadInOrder(p)
    PROVE  (\E b : MoneyAt(p, b)') /\ MoneyTyped'
<1>1. PICK name \in {"release", "releaseAll"} : NextOp(p, name)
  BY DEF TickReadInOrder
<1>2. /\ tick[p].at = "matching" /\ TickShape(p) /\ tick = [q \in Pairs |-> tick[q]]
      /\ RowsTyped(p) /\ Reserved(p, a) /\ \A o \in Orders : OrderFits(p, o, a)
      /\ \E o, x, b : OpHas(p, a, o, x, b) /\ x.op = name
  BY <1>1, OpFacts DEF Carried
<1>3. PICK o, x, b : OpHas(p, a, o, x, b) /\ x.op = name
  BY <1>2
<1> DEFINE k == a.plan[o]
           j == b.plan[o]
           n == x.amount
           r == tick[p].rows[o]
           rest == Tail(tick[p].todo)
           left == reservationRemaining(o, r)
           final == name = "releaseAll"
           release == IF final THEN left ELSE AtMost(n, left)
           applied == AtMost(release, Positive(inOrder[Field(o)]))
           write == Op(IF final THEN "writeAll" ELSE "write", o, applied)
           row == IF final /\ applied = 0 THEN Retired(o, r) ELSE r
           t == (IF applied > 0 THEN <<write>> ELSE <<>>) \o rest
<1>4. /\ o \in Orders /\ Head(tick[p].todo) = x /\ x.o = o /\ n \in Nat
      /\ b \in Agenda /\ a \in Agenda /\ b.next = a.next
      /\ Settles(rest, b, Nothing) /\ rest \in Seq(OpRecord)
      /\ \A q \in Orders : q # o => b.plan[q] = a.plan[q]
      /\ \A m \in a.next : o \notin Parties(m)
      /\ j \in Plan /\ k \in Plan
  BY <1>3 DEF OpHas, Settles
<1>5. /\ IsLimit(o)
      /\ name = "release" => j.mode = "keep" /\ j.rel = 0 /\ k = [j EXCEPT !.rel = n]
      /\ name = "releaseAll" => j.mode = "drop" /\ j.all = "no" /\ k = [j EXCEPT !.all = "read"]
  BY <1>1, <1>3 DEF OpHas, Prepends
<1>6. /\ name = "release" => k.mode = "keep" /\ k.rel = n /\ k.all = j.all /\ k.pay = j.pay
      /\ name = "releaseAll" =>
            k.mode = "drop" /\ k.rel = j.rel /\ k.all = "read" /\ k.pay = j.pay
  BY <1>4, <1>5 DEF Plan
<1>7. k.mode # "none"
  BY <1>1, <1>6
<1>8. /\ tick' = [tick EXCEPT ![p].rows[o] = row, ![p].todo = t]
      /\ book' = book /\ inOrder' = inOrder /\ place' = place /\ claim' = claim
      /\ UNCHANGED money
  BY <1>3, <1>4 DEF TickReadInOrder
<1> HIDE DEF k, j, n, r, rest, final
<1>9. /\ place[o] = "resting" /\ claim[o] = NoClaim
      /\ PlanFits(o, k, book[o], r, Gone(p, o, a.next))
  <2>1. OrderFits(p, o, a)
    BY <1>2, <1>4
  <2>2. ~IsLadder(o)
    BY <1>4, <1>5, OrderFacts
  <2> QED
    BY <1>3, <1>7, <2>1, <2>2, OpPlanned DEF k, r
<1>10. /\ r \in Row /\ r.released \in Nat /\ r.released <= Cost(o) /\ Cost(o) \in Nat
       /\ left = Cost(o) - r.released /\ left \in Nat
       /\ name = "release" => n <= left
  <2>1. /\ r \in Row /\ r.released \in Nat /\ r.released <= Cost(o)
        /\ left = Cost(o) - r.released
        /\ k.mode # "drop" => r.released + k.rel <= Cost(o)
    BY <1>4, <1>5, <1>7, <1>9, PlannedDue
  <2>2. Cost(o) \in Nat
    BY <1>4, OrderFacts
  <2> QED
    BY <1>4, <1>6, <2>1, <2>2
<1>11. inOrder[Field(o)] \in Nat /\ left <= inOrder[Field(o)]
  <2>1. Outstanding(p, o, k) = left
    BY <1>7, <1>9, <1>10 DEF Outstanding, r
  <2> QED
    BY <1>2, <1>4, <1>5, <1>10, <2>1, OutstandingWithin DEF k
<1> HIDE DEF left
<1>12. applied = (IF name = "releaseAll" THEN left ELSE n) /\ applied \in Nat
  BY <1>1, <1>4, <1>10, <1>11 DEF AtMost, Positive, final
<1>13. name = "release" \/ name = "releaseAll"
  BY <1>1
<1>14. row \in Row /\ row.qty = r.qty /\ row.price = r.price /\ row.value = r.value
       /\ row.released = r.released
  <2>1. CASE final /\ applied = 0
    <3>1. row = [r EXCEPT !.released = Cost(o)]
      BY <2>1 DEF Retired
    <3>2. r.released = Cost(o)
      BY <1>10, <1>12, <2>1 DEF final
    <3> HIDE DEF row
    <3> QED
      BY <1>10, <3>1, <3>2, RowTyped
  <2>2. CASE ~(final /\ applied = 0)
    BY <1>10, <2>2
  <2> QED
    BY <2>1, <2>2
<1>15. write \in OpRecord /\ write.o = o /\ write.amount = applied
       /\ write.op = IF final THEN "writeAll" ELSE "write"
  BY <1>4, <1>12, OpTyped DEF OpNames
<1> HIDE DEF row, applied, write
<1>16. ASSUME NEW i \in Plan, Prepends(write, i, j), applied > 0
       PROVE  /\ Settles(t, With(b, o, i), Nothing) /\ With(b, o, i) \in Agenda
              /\ With(b, o, i).next = a.next /\ With(b, o, i).plan[o] = i
              /\ \A q \in Orders : q # o => With(b, o, i).plan[q] = a.plan[q]
  <2> DEFINE c == With(b, o, i)
  <2>1. /\ c \in Agenda /\ c.next = b.next /\ c.plan[o] = i
        /\ \A q \in Orders : q # o => c.plan[q] = b.plan[q]
    BY <1>4, <1>16, WithIsAgenda
  <2> HIDE DEF c
  <2>2. write.op # "match" /\ write.op # "break"
    BY <1>15
  <2>3. Leads(write, c, b)
    BY <1>4, <1>15, <1>16, <2>1, <2>2 DEF Leads, j
  <2>4. Settles(<<write>>, c, b)
    BY <1>4, <1>15, <2>1, <2>3, SettlesOne
  <2>5. t = <<write>> \o rest
    BY <1>16
  <2>6. Settles(t, c, Nothing)
    BY <1>4, <2>4, <2>5, SettlesBoth
  <2> QED
    BY <1>4, <2>1, <2>6 DEF c
<1>17. applied = 0 => Settles(t, b, Nothing)
  <2>1. applied = 0 => t = <<>> \o rest
    OBVIOUS
  <2>2. <<>> \o rest = rest
    BY <1>4, ConcatEmptySeq
  <2> QED
    BY <1>4, <2>1, <2>2
<1> HIDE DEF t
<1>18. OpLeaves(p, o, row, t)
  BY <1>2, <1>4, <1>8, <1>14, OpShape
<1>19. PICK d \in Nat : /\ inOrder' = [inOrder EXCEPT ![Field(o)] = @ - d]
                        /\ row.released = r.released + d
  <2>1. inOrder' = [inOrder EXCEPT ![Field(o)] = @ - 0] /\ row.released = r.released + 0
    BY <1>8, <1>10, <1>11, <1>14 DEF MoneyTyped
  <2> QED
    BY <2>1
<1>20. Backing(o, row) = Backing(o, r)
  BY <1>14 DEF Backing, reservationRemaining
<1>21. ASSUME NEW c \in Agenda, Settles(t, c, Nothing), c.next = a.next,
              \A q \in Orders : q # o => c.plan[q] = a.plan[q],
              NEW i, c.plan[o] = i, i.mode = k.mode, i.pay = k.pay, i.mode # "drop" => i.rel = k.rel,
              PlanFits(o, i, book[o], row, Gone(p, o, a.next))
       PROVE  MoneyAt(p, c)' /\ MoneyTyped'
  <2>1. Due(o, NoClaim, book[o], row, i) = Due(o, NoClaim, book[o], r, k)
    BY <1>7, <1>20, <1>21 DEF Due
  <2>2. c.plan[o].mode # "none" /\ a.plan[o].mode # "none"
    BY <1>7, <1>21 DEF k
  <2>3. row.released = tick[p].rows[o].released + d
    BY <1>19 DEF r
  <2>4. /\ PlanFits(o, c.plan[o], book[o], row, Gone(p, o, a.next))
        /\ Due(o, NoClaim, book[o], row, c.plan[o])
             = Due(o, NoClaim, book[o], tick[p].rows[o], a.plan[o])
    BY <1>21, <2>1 DEF r, k
  <2>5. UNCHANGED <<book, place, claim, money>>
    BY <1>8
  <2>6. /\ OpHas(p, a, o, x, b) /\ tick[p].at = "matching" /\ IsLimit(o)
        /\ OpLeaves(p, o, row, t) /\ inOrder' = [inOrder EXCEPT ![Field(o)] = @ - d]
    BY <1>2, <1>3, <1>5, <1>18, <1>19
  <2>7. /\ c \in Agenda /\ Settles(t, c, Nothing) /\ c.next = a.next /\ d \in Nat
        /\ \A q \in Orders : q # o => c.plan[q] = a.plan[q]
    BY <1>21
  <2> QED
    BY <2>2, <2>3, <2>4, <2>5, <2>6, <2>7, ReleasingAccounts
<1>22. Over(o, r) => Over(o, row)
  BY <1>14 DEF Over
<1>23. CASE name = "release"
  <2>1. PlanFits(o, k, book[o], row, Gone(p, o, a.next))
    <3>1. Sound(o, row, k.rel)
      BY <1>6, <1>9, <1>14, <1>23 DEF PlanFits, Sound
    <3> QED
      BY <1>6, <1>7, <1>9, <1>23, <3>1, <1>5 DEF PlanFits
  <2>2. CASE applied > 0
    <3>1. Prepends(write, k, j)
      BY <1>5, <1>12, <1>15, <1>23 DEF Prepends, final
    <3> QED
      BY <1>4, <1>16, <1>21, <2>1, <2>2, <3>1
  <2>3. CASE applied = 0
    <3>1. n = 0 /\ k = j
      <4>1. n = 0
        BY <1>12, <1>23, <2>3
      <4> QED
        BY <1>4, <1>5, <1>23, <4>1 DEF Plan
    <3> QED
      BY <1>4, <1>17, <1>21, <2>1, <2>3, <3>1 DEF j
  <2> QED
    BY <1>12, <2>2, <2>3
<1>24. CASE name = "releaseAll"
  <2>1. CASE applied > 0
    <3> DEFINE i == [j EXCEPT !.all = "write", !.rel = applied]
    <3>1. i \in Plan /\ i.mode = "drop" /\ i.all = "write" /\ i.rel = applied /\ i.pay = k.pay
      BY <1>4, <1>5, <1>6, <1>12, <1>24 DEF Plan
    <3>2. Prepends(write, i, j)
      BY <1>5, <1>15, <1>24 DEF Prepends, final
    <3> HIDE DEF i
    <3>3. PlanFits(o, i, book[o], row, Gone(p, o, a.next))
      BY <1>5, <1>6, <1>9, <1>10, <1>12, <1>14, <1>22, <1>24, <3>1 DEF PlanFits
    <3>4. i.mode = k.mode /\ i.pay = k.pay /\ (i.mode # "drop" => i.rel = k.rel)
      BY <1>6, <1>24, <3>1
    <3> QED
      BY <1>16, <1>21, <2>1, <3>1, <3>2, <3>3, <3>4
  <2>2. CASE applied = 0
    <3>1. row.released = Cost(o)
      BY <1>10, <1>12, <1>14, <1>24, <2>2
    <3>2. PlanFits(o, j, book[o], row, Gone(p, o, a.next))
      BY <1>5, <1>6, <1>9, <1>10, <1>14, <1>22, <1>24, <3>1 DEF PlanFits
    <3>3. j.mode = k.mode /\ j.pay = k.pay /\ (j.mode # "drop" => j.rel = k.rel)
      BY <1>5, <1>6, <1>24
    <3> QED
      BY <1>4, <1>17, <1>21, <2>2, <3>2, <3>3 DEF j
  <2> QED
    BY <1>12, <2>1, <2>2
<1> QED
  BY <1>13, <1>23, <1>24

-----------------------------------------------------------------------------

LEMMA TickWriteInOrderAccounts ==
    ASSUME MatcherInv, MoneyTyped, NEW p \in Pairs, NEW a, MoneyAt(p, a),
           TickWriteInOrder(p)
    PROVE  (\E b : MoneyAt(p, b)') /\ MoneyTyped'
<1>1. PICK name \in {"write", "writeAll"} : NextOp(p, name)
  BY DEF TickWriteInOrder
<1>2. /\ tick[p].at = "matching" /\ TickShape(p) /\ tick = [q \in Pairs |-> tick[q]]
      /\ RowsTyped(p) /\ Reserved(p, a) /\ \A o \in Orders : OrderFits(p, o, a)
      /\ \E o, x, b : OpHas(p, a, o, x, b) /\ x.op = name
  BY <1>1, OpFacts DEF Carried
<1>3. PICK o, x, b : OpHas(p, a, o, x, b) /\ x.op = name
  BY <1>2
<1> DEFINE k == a.plan[o]
           j == b.plan[o]
           n == x.amount
           r == tick[p].rows[o]
           t == Tail(tick[p].todo)
           row == IF name = "writeAll" THEN Retired(o, r)
                  ELSE [r EXCEPT !.released = @ + n]
<1>4. /\ o \in Orders /\ Head(tick[p].todo) = x /\ x.o = o /\ n \in Nat
      /\ b \in Agenda /\ b.next = a.next /\ Settles(t, b, Nothing)
      /\ \A q \in Orders : q # o => b.plan[q] = a.plan[q]
      /\ j \in Plan /\ k \in Plan
  BY <1>3 DEF OpHas
<1>5. /\ IsLimit(o)
      /\ name = "write" => j.mode = "keep" /\ j.rel = 0 /\ k = [j EXCEPT !.rel = n]
      /\ name = "writeAll" =>
            /\ j.mode = "drop" /\ j.all = "no"
            /\ k = [j EXCEPT !.all = "write", !.rel = n]
  BY <1>1, <1>3 DEF OpHas, Prepends
<1>6. /\ name = "write" => k.mode = "keep" /\ k.rel = n /\ k.all = j.all /\ k.pay = j.pay
      /\ name = "writeAll" =>
            k.mode = "drop" /\ k.rel = n /\ k.all = "write" /\ k.pay = j.pay
  BY <1>4, <1>5 DEF Plan
<1>7. k.mode # "none" /\ j.mode # "none"
  BY <1>1, <1>5, <1>6
<1>8. /\ tick' = [tick EXCEPT ![p].rows[o] = row, ![p].todo = t]
      /\ inOrder' = [inOrder EXCEPT ![Field(o)] = @ - n]
      /\ UNCHANGED <<book, place, claim, money>>
  BY <1>3, <1>4 DEF TickWriteInOrder
<1> HIDE DEF k, j, n, r, t
<1>9. PlanFits(o, k, book[o], r, Gone(p, o, a.next))
  <2>1. OrderFits(p, o, a)
    BY <1>2, <1>4
  <2> QED
    BY <1>3, <1>7, <2>1, OpPlanned DEF k, r
<1>10. /\ r \in Row /\ r.released \in Nat /\ r.released <= Cost(o) /\ Cost(o) \in Nat
       /\ Backing(o, r) = Cost(o) - r.released
       /\ name = "write" => r.released + n <= Cost(o)
       /\ name = "writeAll" => n = Cost(o) - r.released
  <2>1. /\ r \in Row /\ r.released \in Nat /\ r.released <= Cost(o)
        /\ Backing(o, r) = Cost(o) - r.released
        /\ k.mode # "drop" => r.released + k.rel <= Cost(o)
    BY <1>4, <1>5, <1>7, <1>9, PlannedDue
  <2>2. Cost(o) \in Nat
    BY <1>4, OrderFacts
  <2>3. name = "writeAll" => n = Cost(o) - r.released
    BY <1>5, <1>6, <1>9 DEF PlanFits
  <2> QED
    BY <1>6, <2>1, <2>2, <2>3
<1>11. name = "write" \/ name = "writeAll"
  BY <1>1
<1>12. /\ row \in Row /\ row.qty = r.qty /\ row.price = r.price /\ row.value = r.value
       /\ row.released = r.released + n
  <2>1. CASE name = "writeAll"
    <3>1. row = [r EXCEPT !.released = Cost(o)] /\ Cost(o) = r.released + n
      BY <1>4, <1>10, <2>1 DEF Retired
    <3> HIDE DEF row
    <3> QED
      BY <1>10, <3>1, RowTyped
  <2>2. CASE name = "write"
    <3>1. row = [r EXCEPT !.released = r.released + n] /\ r.released + n \in Nat
      BY <1>4, <1>10, <2>2
    <3> HIDE DEF row
    <3> QED
      BY <1>10, <3>1, RowTyped
  <2> QED
    BY <1>11, <2>1, <2>2
<1> HIDE DEF row
<1>13. OpLeaves(p, o, row, t)
  BY <1>2, <1>4, <1>8, <1>12, OpShape
<1>14. PlanFits(o, j, book[o], row, Gone(p, o, a.next))
  <2>1. CASE name = "write"
    <3>1. Sound(o, r, n) /\ j.all = "no"
      BY <1>6, <1>9, <2>1 DEF PlanFits
    <3>2. row.released + 0 = r.released + n
      BY <1>4, <1>10, <1>12
    <3>3. Sound(o, row, 0)
      BY <1>12, <3>1, <3>2 DEF Sound
    <3> QED
      BY <1>5, <2>1, <3>1, <3>3 DEF PlanFits
  <2>2. CASE name = "writeAll"
    <3>1. Over(o, r) \/ Gone(p, o, a.next)
      BY <1>6, <1>9, <2>2 DEF PlanFits
    <3>2. Over(o, r) => Over(o, row)
      BY <1>12 DEF Over
    <3>3. row.released = Cost(o)
      BY <1>10, <1>12, <2>2
    <3> QED
      BY <1>5, <1>10, <1>12, <2>2, <3>1, <3>2, <3>3 DEF PlanFits
  <2> QED
    BY <1>11, <2>1, <2>2
<1>15. Due(o, NoClaim, book[o], row, j) = Due(o, NoClaim, book[o], r, k)
  <2>1. /\ \A c, q : Due(o, c, q, row, j) =
              IF j.mode = "drop" THEN j.pay ELSE Backing(o, row) - j.rel + j.pay
        /\ Backing(o, row) = Cost(o) - row.released /\ j.pay \in Nat
    BY <1>4, <1>5, <1>7, <1>14, PlannedDue
  <2>2. \A c, q : Due(o, c, q, r, k) =
            IF k.mode = "drop" THEN k.pay ELSE Backing(o, r) - k.rel + k.pay
    BY <1>4, <1>5, <1>7, <1>9, PlannedDue
  <2>3. CASE name = "write"
    <3>1. Backing(o, row) - j.rel + j.pay = Backing(o, r) - k.rel + k.pay
      BY <1>4, <1>5, <1>6, <1>10, <1>12, <2>1, <2>3
    <3> QED
      BY <1>5, <1>6, <2>1, <2>2, <2>3, <3>1
  <2>4. CASE name = "writeAll"
    BY <1>5, <1>6, <2>1, <2>2, <2>4
  <2> QED
    BY <1>11, <2>3, <2>4
<1>16. MoneyAt(p, b)' /\ MoneyTyped'
  <2>1. /\ PlanFits(o, b.plan[o], book[o], row, Gone(p, o, a.next))
        /\ Due(o, NoClaim, book[o], row, b.plan[o])
             = Due(o, NoClaim, book[o], tick[p].rows[o], a.plan[o])
        /\ row.released = tick[p].rows[o].released + n
        /\ a.plan[o].mode # "none" /\ b.plan[o].mode # "none"
    BY <1>7, <1>12, <1>14, <1>15 DEF r, k, j
  <2> QED
    BY <1>2, <1>3, <1>4, <1>5, <1>8, <1>13, <2>1, ReleasingAccounts
<1> QED
  BY <1>16

LEMMA TickBreakAccounts ==
    ASSUME MatcherInv, MoneyTyped, NEW p \in Pairs, NEW a, MoneyAt(p, a), TickBreak(p)
    PROVE  (\E b : MoneyAt(p, b)') /\ MoneyTyped'
<1>1. /\ NextOp(p, "break")
      /\ tick' = [tick EXCEPT ![p].at = "breaking", ![p].todo = <<>>]
      /\ book' = book /\ inOrder' = inOrder /\ place' = place /\ claim' = claim
      /\ refunded' = refunded /\ earned' = earned /\ spent' = spent
  BY DEF TickBreak, money
<1>2. /\ tick[p].at = "matching" /\ tick[p].todo # <<>>
      /\ Head(tick[p].todo).op = "break"
  BY <1>1, SettlingMatches DEF NextOp
<1>3. TickShape(p) /\ tick = [q \in Pairs |-> tick[q]]
  BY <1>2, MatchingFacts
<1>4. Settles(tick[p].todo, a, Nothing) /\ RowsTyped(p)
  BY DEF MoneyAt
<1>5. PICK b \in Agenda : Leads(Head(tick[p].todo), a, b)
  BY <1>2, <1>4, SettlesFirst
<1>6. a = Nothing
  BY <1>2, <1>5 DEF Leads
<1>7. tick'[p] = [at |-> "breaking", buys |-> tick[p].buys, sells |-> tick[p].sells,
                  rows |-> tick[p].rows, todo |-> <<>>]
  BY <1>1, <1>3 DEF TickShape
<1>8. ListsFit(p, Nothing)'
  BY <1>7 DEF ListsFit
<1>9. MoneyAt(p, Nothing)' /\ MoneyTyped'
  <2>1. MoneyAt(p, Nothing)
    BY <1>6
  <2>2. /\ tick'[p].todo = <<>>
        /\ tick'[p].buys \in Seq(Orders) /\ tick'[p].sells \in Seq(Orders)
        /\ tick'[p].rows \in [Orders -> Row \cup {NoRow}]
    BY <1>4, <1>7 DEF RowsTyped
  <2>3. \A o \in Orders : book'[o] = book[o]
    BY <1>1
  <2>4. /\ place' = place /\ claim' = claim /\ refunded' = refunded
        /\ spent' = spent /\ earned' = earned /\ inOrder' = inOrder
    BY <1>1
  <2> QED
    BY <1>8, <2>1, <2>2, <2>3, <2>4, QuietStep
<1> QED
  BY <1>9

-----------------------------------------------------------------------------
\* A trade.

\* What an order with nothing planned brings to a trade.
LEMMA StockHeld ==
    ASSUME NEW p, NEW a, NEW o \in Orders, MoneyTyped, OrderFits(p, o, a),
           a.plan[o] = NoPlan, claim[o] = NoClaim, Listed(o),
           \/ Fresh(o, book[o], tick[p].rows[o])
           \/ ~IsMarket(o) /\ Finished(o, book[o], tick[p].rows[o])
    PROVE  /\ Escrow(o) \in Int /\ tick[p].rows[o] \in Row
           /\ ~IsLadder(o) => Holds(o, Escrow(o), Stock(o, tick[p].rows[o]))
           /\ IsLimit(o) => Outstanding(p, o, a.plan[o]) = Cost(o) - tick[p].rows[o].released
           /\ IsLimit(o) =>
                 tick[p].rows[o].released + tick[p].rows[o].qty * unit(o) <= Cost(o)
           /\ ~IsMarket(o) => tick[p].rows[o].price = Request[o].price
<1> DEFINE r == tick[p].rows[o]
           v == book[o]
<1>1. Escrow(o) \in Int /\ Cost(o) \in Nat /\ unit(o) \in Nat \ {0}
  BY EscrowTyped, OrderFacts
<1>2. a.plan[o].mode = "none"
  BY DEF NoPlan
<1>3. /\ IsLimit(o) => ~IsLadder(o) /\ ~IsMarket(o)
      /\ IsMarket(o) => ~IsLimit(o) /\ ~IsLadder(o)
      /\ IsLadder(o) \/ IsLimit(o) \/ IsMarket(o)
  BY OrderFacts
<1>4. ~IsLadder(o) => /\ place[o] = "resting"
                      /\ Holds(o, Escrow(o), IF v # NoRow THEN Backing(o, v) ELSE 0)
  <2> SUFFICES ASSUME ~IsLadder(o)
               PROVE  /\ place[o] = "resting"
                      /\ Holds(o, Escrow(o), IF v # NoRow THEN Backing(o, v) ELSE 0)
    OBVIOUS
  <2>1. place[o] = "resting"
    BY DEF Listed
  <2>2. Holds(o, Escrow(o), Due(o, claim[o], v, r, a.plan[o]))
    BY <2>1 DEF OrderFits, Accounted
  <2>3. Due(o, claim[o], v, r, a.plan[o]) = IF v # NoRow THEN Backing(o, v) ELSE 0
    BY <1>2 DEF Due
  <2> QED
    BY <2>1, <2>2, <2>3
<1>5. IsLimit(o) => Outstanding(p, o, a.plan[o]) = IF v # NoRow THEN Cost(o) - v.released ELSE 0
  BY <1>2, <1>3, <1>4 DEF Outstanding
<1>6. v # NoRow => Sound(o, v, 0)
  BY DEF OrderFits
<1> HIDE DEF r, v
<1>7. CASE Fresh(o, v, r)
  <2>1. v # NoRow /\ r \in Row /\ v \in Row /\ Sound(o, v, 0)
    BY <1>6, <1>7 DEF Fresh, Sound
  <2>2. /\ r.qty \in Nat /\ r.released \in Nat /\ v.released \in Nat /\ v.qty \in Nat
    BY <2>1, RowTyped
  <2>3. CASE IsLimit(o)
    <3>1. r = v
      BY <1>3, <1>7, <2>3 DEF Fresh
    <3>2. v.released + 0 + v.qty * unit(o) <= Cost(o) /\ v.qty * unit(o) \in Nat
      BY <1>1, <2>1, <2>2, <2>3, ProductsGrow DEF Sound
    <3> DEFINE x == v.qty * unit(o)
    <3>3. x \in Nat /\ v.released + 0 + x <= Cost(o)
      BY <3>2
    <3> HIDE DEF x
    <3>4. v.released + x <= Cost(o) /\ Cost(o) - v.released \in Nat
      BY <1>1, <2>2, <3>3
    <3>5. Backing(o, v) = Cost(o) - v.released
      BY <2>3, <3>4 DEF Backing, reservationRemaining, Positive
    <3>6. v.released + v.qty * unit(o) <= Cost(o)
      BY <3>4 DEF x
    <3>7. v.price = Request[o].price
      BY <1>3, <2>1, <2>3 DEF Sound
    <3> QED
      BY <1>1, <1>3, <1>4, <1>5, <2>1, <2>3, <3>1, <3>5, <3>6, <3>7 DEF Stock, r, v
  <2>4. CASE IsMarket(o)
    <3>1. r.value = v.value /\ Backing(o, v) = v.value /\ Stock(o, r) = r.value
      BY <1>3, <1>7, <2>4 DEF Fresh, Backing, Stock
    <3> QED
      BY <1>1, <1>3, <1>4, <2>1, <2>4, <3>1 DEF r, v
  <2>5. CASE IsLadder(o)
    <3>1. r = v /\ v.price = Request[o].price
      BY <1>3, <1>7, <2>1, <2>5 DEF Fresh, Sound
    <3> QED
      BY <1>1, <1>3, <2>1, <2>5, <3>1 DEF r, v
  <2> QED
    BY <1>3, <2>3, <2>4, <2>5
<1>8. CASE ~IsMarket(o) /\ Finished(o, v, r)
  <2>1. /\ v = NoRow /\ r \in Row /\ r.qty = 0 /\ r.price = Request[o].price
        /\ IsLimit(o) => r.released = Cost(o)
    BY <1>8 DEF Finished, Over
  <2>2. IsLimit(o) => Cost(o) - r.released = 0 /\ r.released + r.qty * unit(o) <= Cost(o)
    <3>1. 0 * unit(o) = 0
      BY <1>1
    <3> QED
      BY <1>1, <2>1, <3>1
  <2> QED
    BY <1>1, <1>3, <1>4, <1>5, <1>8, <2>1, <2>2 DEF Stock, r, v
<1> QED
  BY <1>7, <1>8 DEF r, v

LEMMA CreditSettles ==
    ASSUME NEW o \in Orders, NEW n \in Nat, NEW c \in Agenda,
           \A m \in c.next : o \notin Parties(m)
    PROVE  Settles(settlementCredit(o, n), c, c)
<1> DEFINE x == Op("credit", o, n)
<1>1. x \in OpRecord /\ x.o = o /\ x.op = "credit"
  BY OpTyped DEF OpNames
<1>2. settlementCredit(o, n) = IF IsLadder(o) THEN <<>> ELSE <<x>>
  BY DEF settlementCredit
<1> HIDE DEF x
<1>3. Prepends(x, c.plan[o], c.plan[o])
  BY <1>1 DEF Prepends
<1>4. Leads(x, c, c)
  BY <1>1, <1>3 DEF Leads
<1>5. Settles(<<x>>, c, c)
  BY <1>1, <1>4, SettlesOne
<1> QED
  BY <1>2, <1>5, SettlesNone

LEMMA GoneOrOver ==
    ASSUME NEW o, NEW k, NEW b, NEW r, NEW g, NEW h, PlanFits(o, k, b, r, g), g => h
    PROVE  PlanFits(o, k, b, r, h)
  BY DEF PlanFits

\* One side after the trade.
LEMMA TradedFits ==
    ASSUME NEW p, NEW a, NEW d, NEW o \in Orders, NEW side, NEW g, NEW taken,
           OrderFits(p, o, a), claim[o] = NoClaim, Listed(o),
           place' = place, claim' = claim, book' = book, tick'[p].rows[o] = side.row,
           Settled(o, side, d.plan[o], Escrow(o) - taken, g), g => Gone(p, o, d.next)',
           ~IsLadder(o) => Escrow(o)' = Escrow(o) - taken
    PROVE  OrderFits(p, o, d)' /\ (o \in Ready(p, d))'
<1> DEFINE k == d.plan[o]
<1>1. /\ k \in Plan /\ k.mode \in {"keep", "drop"}
      /\ PlanFits(o, k, book[o], side.row, g)
      /\ ~IsLadder(o) => Holds(o, Escrow(o) - taken, Due(o, claim[o], book[o], side.row, k))
  BY DEF Settled
<1>2. PlanFits(o, k, book'[o], tick'[p].rows[o], Gone(p, o, d.next)')
  BY <1>1, GoneOrOver
<1>3. Listed(o)' /\ claim'[o] = NoClaim /\ k.mode # "none"
  BY <1>1 DEF Listed
<1>4. (o \in Ready(p, d))'
  BY <1>3 DEF Ready
<1>5. ~IsLadder(o) => Accounted(p, o, k)'
  <2>1. ~IsLadder(o) => place[o] = "resting"
    BY DEF Listed
  <2> HIDE DEF k
  <2> QED
    BY <1>1, <2>1 DEF Accounted
<1>6. ClaimFits(o)'
  BY <1>3 DEF ClaimFits, OrderFits
<1> QED
  BY <1>2, <1>3, <1>4, <1>5, <1>6 DEF OrderFits

-----------------------------------------------------------------------------

\* What a trade between b and s may be asked for.
CanTrade(p, a, rows, b, s, e, price) ==
    /\ rows \in [Orders -> Row \cup {NoRow}]
    /\ \A q \in Orders : q # b /\ q # s => rows[q] = tick[p].rows[q]
    /\ b \in Ready(p, a) /\ IsBuy(b) /\ claim[b] = NoClaim /\ a.plan[b] = NoPlan
    /\ s \in Ready(p, a) /\ ~IsBuy(s) /\ claim[s] = NoClaim /\ a.plan[s] = NoPlan
    /\ price \in Nat \ {0} /\ e \in Nat /\ e <= rows[b].qty /\ e <= rows[s].qty
    /\ Matchable(b, rows[b], price) /\ Matchable(s, rows[s], price)
    /\ ~IsLadder(b) => Holds(b, Escrow(b), Stock(b, rows[b]))
    /\ ~IsLadder(s) => Holds(s, Escrow(s), Stock(s, rows[s]))
    /\ IsLimit(b) => Outstanding(p, b, a.plan[b]) = Cost(b) - rows[b].released
    /\ IsLimit(s) => Outstanding(p, s, a.plan[s]) = Cost(s) - rows[s].released

\* What follows the trade: at most one match of other orders, if buyers are left.
ThenSettles(p, a, b, s, rest, c) ==
    /\ c \in Agenda /\ Settles(rest, c, Nothing) /\ c.plan = Nothing.plan
    /\ c.next \subseteq a.next
    /\ \A m \in c.next : b \notin Parties(m) /\ s \notin Parties(m) /\ c.next = {m}
    /\ c.next # {} => tick[p].buys # <<>> /\ Tail(tick[p].buys) # <<>>

\* No fill gives back to an escrow what it has taken.
SpentGrows == \A o \in UserOrders : spent'[o] \in Nat /\ spent[o] \in Nat /\ spent'[o] >= spent[o]

LEMMA TradeAccounts ==
    ASSUME NEW p \in Pairs, NEW a, NEW rows, NEW b, NEW s, NEW e, NEW price, NEW rest,
           NEW c, MatcherInv, MoneyTyped, MoneyAt(p, a), tick[p].at = "matching",
           a.plan = Nothing.plan, CanTrade(p, a, rows, b, s, e, price),
           ThenSettles(p, a, b, s, rest, c), Trade(p, rows, b, s, e, price, rest),
           UNCHANGED <<book, inOrder, place, claim, refunded, earned>>
    PROVE  (\E d : MoneyAt(p, d)') /\ MoneyTyped' /\ SpentGrows
<1> DEFINE buys == tick[p].buys
           sells == tick[p].sells
           buyer == FillSide(b, rows[b], e, price, \E i \in DOMAIN sells : sells[i] /= s)
           buysLeft == IF buyer.done /\ buys /= <<>> THEN Tail(buys) ELSE buys
           seller == FillSide(s, rows[s], e, price, buysLeft /= <<>>)
           sellsLeft == IF seller.done /\ sells /= <<>> THEN Tail(sells) ELSE sells
           after == [rows EXCEPT ![b] = buyer.row, ![s] = seller.row]
           todo == buyer.ops \o seller.ops \o settlementCredit(b, e)
                   \o settlementCredit(s, e * price) \o rest
           g == IsMarket(s) /\ ~IsBuy(s) /\ buysLeft = <<>> /\ c.next = {}
<1>1. /\ a \in Agenda /\ RowsTyped(p) /\ ListsFit(p, a) /\ Reserved(p, a)
      /\ \A q \in Orders : OrderFits(p, q, a)
      /\ \A m \in a.next : MatchFits(p, a, m)
  BY DEF MoneyAt
<1>2. b \in Orders /\ s \in Orders /\ b # s /\ Listed(b) /\ Listed(s)
  BY DEF CanTrade, Ready
<1>3. \A q \in Orders : a.plan[q] = NoPlan /\ c.plan[q] = NoPlan
  BY NothingToSettle DEF ThenSettles
<1>4. TickShape(p) /\ tick = [q \in Pairs |-> tick[q]]
  BY MatchingFacts
<1>5. e \in Nat /\ price \in Nat \ {0} /\ e * price \in Nat
  <2>1. e \in Nat /\ price \in Nat /\ price \in Nat \ {0}
    BY DEF CanTrade
  <2> QED
    BY <2>1, ProductsGrow
<1>6. Escrow(b) \in Int /\ Escrow(s) \in Int
  BY <1>2, EscrowTyped
<1>7. \E k : Settled(b, buyer, k, Escrow(b) - e * price, FALSE)
  <2>1. Taken(b, e, price) = e * price
    BY DEF CanTrade, Taken
  <2>2. /\ Matchable(b, rows[b], price) /\ e <= rows[b].qty /\ IsBuy(b)
        /\ ~IsLadder(b) => Holds(b, Escrow(b), Stock(b, rows[b]))
    BY DEF CanTrade
  <2> DEFINE others == \E i \in DOMAIN sells : sells[i] /= s
  <2> HIDE DEF others
  <2>3. IsMarket(b) /\ ~IsBuy(b) /\ ~others => FALSE
    BY <2>2
  <2>4. \E k : Settled(b, FillSide(b, rows[b], e, price, others), k,
                       Escrow(b) - Taken(b, e, price), FALSE)
    BY <1>2, <1>5, <1>6, <2>2, <2>3, FillSettles
  <2> QED
    BY <2>1, <2>4 DEF others
<1>8. PICK kb : Settled(b, buyer, kb, Escrow(b) - e * price, FALSE)
  BY <1>7
<1>8a. IsLimit(b) => buyer.row.released = rows[b].released
  <2>1. rows[b] \in Row
    BY DEF CanTrade, Matchable
  <2> DEFINE others == \E i \in DOMAIN sells : sells[i] /= s
  <2> HIDE DEF others
  <2>2. IsLimit(b) => FillSide(b, rows[b], e, price, others).row.released = rows[b].released
    BY <1>2, <2>1, FillKeepsReleased
  <2> QED
    BY <2>2 DEF others
<1>9. buysLeft \in {buys, Tail(buys)}
  OBVIOUS
<1>10. IsMarket(s) /\ ~IsBuy(s) /\ ~(buysLeft /= <<>>) => g
  <2>1. c.next # {} => buysLeft /= <<>>
    BY <1>9 DEF ThenSettles
  <2> QED
    BY <2>1
<1> HIDE DEF buyer, buysLeft, g
<1>11. \E k : Settled(s, seller, k, Escrow(s) - e, g)
  <2>1. /\ Matchable(s, rows[s], price) /\ e <= rows[s].qty /\ ~IsBuy(s)
        /\ ~IsLadder(s) => Holds(s, Escrow(s), Stock(s, rows[s]))
    BY DEF CanTrade
  <2>2. Taken(s, e, price) = e
    BY <2>1 DEF Taken
  <2> DEFINE others == buysLeft /= <<>>
  <2>3. IsMarket(s) /\ ~IsBuy(s) /\ ~others => g
    BY <1>10
  <2> HIDE DEF others
  <2>4. \E k : Settled(s, FillSide(s, rows[s], e, price, others), k,
                       Escrow(s) - Taken(s, e, price), g)
    BY <1>2, <1>5, <1>6, <2>1, <2>3, FillSettles
  <2> QED
    BY <2>2, <2>4 DEF others
<1>12. PICK ks : Settled(s, seller, ks, Escrow(s) - e, g)
  BY <1>11
<1>12a. IsLimit(s) => seller.row.released = rows[s].released
  BY <1>2, FillKeepsReleased DEF CanTrade, Matchable
<1> HIDE DEF seller, sellsLeft, after, todo
<1>13. sellsLeft \in {sells, Tail(sells)}
  BY DEF sellsLeft
<1>14. /\ tick' = [tick EXCEPT ![p].rows = after, ![p].buys = buysLeft,
                               ![p].sells = sellsLeft, ![p].todo = todo]
       /\ spent' = [o \in Orders |->
             IF IsLadder(o) THEN 0
             ELSE IF o = b THEN spent[o] + e * price
             ELSE IF o = s THEN spent[o] + e
             ELSE spent[o]]
  BY DEF Trade, buyer, seller, buysLeft, sellsLeft, after, todo
<1>15. tick'[p] = [at |-> "matching", buys |-> buysLeft, sells |-> sellsLeft,
                   rows |-> after, todo |-> todo]
  <2> HIDE DEF buys, sells
  <2> QED
    BY <1>4, <1>14 DEF TickShape
<1>16. /\ tick'[p].at = "matching" /\ tick'[p].buys = buysLeft /\ tick'[p].sells = sellsLeft
       /\ tick'[p].rows = after /\ tick'[p].todo = todo
  BY <1>15
<1>17. /\ book' = book /\ inOrder' = inOrder /\ place' = place /\ claim' = claim
       /\ refunded' = refunded /\ earned' = earned
  OBVIOUS
<1>18. /\ after \in [Orders -> Row \cup {NoRow}]
       /\ after[b] = buyer.row /\ after[s] = seller.row
       /\ \A q \in Orders : q # b /\ q # s => after[q] = tick[p].rows[q]
  <2>1. buyer.row \in Row /\ seller.row \in Row
    BY <1>8, <1>12 DEF Settled
  <2> QED
    BY <1>2, <2>1 DEF CanTrade, after
<1>19. MoneyTyped'
  <2>1. \A q \in Orders : spent[q] \in Nat
    BY DEF MoneyTyped
  <2>2. \A q \in Orders : spent[q] + e * price \in Nat /\ spent[q] + e \in Nat
    BY <1>5, <2>1
  <2>3. spent' \in [Orders -> Nat]
    BY <1>14, <2>1, <2>2
  <2> QED
    BY <1>17, <2>3 DEF MoneyTyped
<1>20. /\ ~IsLadder(b) => Escrow(b)' = Escrow(b) - e * price
       /\ ~IsLadder(s) => Escrow(s)' = Escrow(s) - e
  <2>1. /\ Debited(b)' = Debited(b) /\ Debited(s)' = Debited(s)
        /\ Debited(b) \in Nat /\ Debited(s) \in Nat
        /\ refunded[b] \in Nat /\ refunded[s] \in Nat /\ spent[b] \in Nat /\ spent[s] \in Nat
    BY <1>2, <1>17, EscrowTyped DEF Debited
  <2> DEFINE x == e * price
  <2>2. /\ ~IsLadder(b) => spent'[b] = spent[b] + x
        /\ ~IsLadder(s) => spent'[s] = spent[s] + e
        /\ x \in Nat
    BY <1>2, <1>5, <1>14
  <2> HIDE DEF x
  <2>3. /\ ~IsLadder(b) => Escrow(b)' = Escrow(b) - x
        /\ ~IsLadder(s) => Escrow(s)' = Escrow(s) - e
    BY <1>5, <1>17, <2>1, <2>2 DEF Escrow
  <2> QED
    BY <2>3 DEF x
<1> DEFINE d1 == With(c, s, ks)
           d == With(d1, b, kb)
<1>21. /\ d1 \in Agenda /\ d1.next = c.next /\ d1.plan[s] = ks
       /\ \A q \in Orders : q # s => d1.plan[q] = NoPlan
       /\ ks \in Plan /\ kb \in Plan /\ c \in Agenda
  <2>1. ks \in Plan /\ kb \in Plan /\ c \in Agenda
    BY <1>8, <1>12 DEF Settled, ThenSettles
  <2> QED
    <3>1. /\ d1 \in Agenda /\ d1.next = c.next /\ d1.plan[s] = ks
          /\ \A q \in Orders : q # s => d1.plan[q] = c.plan[q]
      BY <1>2, <2>1, WithIsAgenda
    <3> QED
      BY <1>3, <2>1, <3>1
<1> HIDE DEF d1
<1>22. /\ d \in Agenda /\ d.next = c.next /\ d.plan[b] = kb /\ d.plan[s] = ks
       /\ \A q \in Orders : q # s /\ q # b => d.plan[q] = NoPlan
  <2>1. /\ d \in Agenda /\ d.next = d1.next /\ d.plan[b] = kb
        /\ \A q \in Orders : q # b => d.plan[q] = d1.plan[q]
    BY <1>2, <1>21, WithIsAgenda
  <2> QED
    BY <1>2, <1>21, <2>1
<1> HIDE DEF d
<1>23. Settles(todo, d, Nothing)
  <2>1. \A m \in c.next : b \notin Parties(m) /\ s \notin Parties(m)
    BY DEF ThenSettles
  <2>2. Settles(seller.ops, d1, c)
    <3>1. Steps(seller.ops, s, ks, NoPlan)
      BY <1>12 DEF Settled
    <3> QED
      BY <1>2, <1>3, <1>21, <2>1, <3>1 DEF Steps, d1
  <2>3. Settles(buyer.ops, d, d1)
    <3>1. Steps(buyer.ops, b, kb, NoPlan)
      BY <1>8 DEF Settled
    <3>2. d1.plan[b] = NoPlan /\ \A m \in d1.next : b \notin Parties(m)
      BY <1>2, <1>21, <2>1
    <3> QED
      BY <1>21, <3>1, <3>2 DEF Steps, d
  <2>4. /\ Settles(settlementCredit(b, e), c, c)
        /\ Settles(settlementCredit(s, e * price), c, c)
    BY <1>2, <1>5, <1>21, <2>1, CreditSettles
  <2>5. Settles(buyer.ops \o seller.ops, d, c)
    BY <2>2, <2>3, SettlesBoth
  <2>6. Settles(buyer.ops \o seller.ops \o settlementCredit(b, e), d, c)
    BY <2>4, <2>5, SettlesBoth
  <2>7. Settles(buyer.ops \o seller.ops \o settlementCredit(b, e)
                \o settlementCredit(s, e * price), d, c)
    BY <2>4, <2>6, SettlesBoth
  <2>8. Settles(rest, c, Nothing)
    BY DEF ThenSettles
  <2> QED
    BY <2>7, <2>8, SettlesBoth DEF todo
<1>24. \A q : Gone(p, q, a.next) => Gone(p, q, d.next)'
  <2>1. c.next \subseteq a.next
    BY DEF ThenSettles
  <2>2. buys = <<>> => buysLeft = <<>>
    BY DEF buysLeft
  <2> QED
    BY <1>16, <1>22, <2>1, <2>2 DEF Gone
<1>25. g => Gone(p, s, d.next)'
  BY <1>16, <1>22 DEF g, Gone
<1>26. OrderFits(p, b, d)' /\ (b \in Ready(p, d))'
  <2>1. OrderFits(p, b, a) /\ claim[b] = NoClaim
    BY <1>1, <1>2 DEF CanTrade
  <2>2. tick'[p].rows[b] = buyer.row
    BY <1>16, <1>18
  <2> DEFINE x == e * price
  <2>3. Settled(b, buyer, d.plan[b], Escrow(b) - x, FALSE)
    BY <1>8, <1>22
  <2>4. ~IsLadder(b) => Escrow(b)' = Escrow(b) - x
    BY <1>20
  <2> HIDE DEF x
  <2> QED
    BY <1>2, <1>17, <2>1, <2>2, <2>3, <2>4, TradedFits
<1>27. OrderFits(p, s, d)' /\ (s \in Ready(p, d))'
  <2>1. OrderFits(p, s, a) /\ claim[s] = NoClaim
    BY <1>1, <1>2 DEF CanTrade
  <2>2. tick'[p].rows[s] = seller.row
    BY <1>16, <1>18
  <2>3. Settled(s, seller, d.plan[s], Escrow(s) - e, g)
    BY <1>12, <1>22
  <2> QED
    BY <1>2, <1>17, <1>20, <1>25, <2>1, <2>2, <2>3, TradedFits
<1>28. ASSUME NEW q \in Orders, q # b, q # s
       PROVE  /\ d.plan[q] = a.plan[q] /\ tick'[p].rows[q] = tick[p].rows[q]
              /\ ~IsLadder(q) => refunded'[q] = refunded[q] /\ spent'[q] = spent[q]
  BY <1>3, <1>14, <1>16, <1>17, <1>18, <1>22, <1>28
<1>29. \A q \in Orders : OrderFits(p, q, d)'
  <2> SUFFICES ASSUME NEW q \in Orders, q # b, q # s PROVE OrderFits(p, q, d)'
    BY <1>26, <1>27
  <2>1. book'[q] = book[q] /\ place'[q] = place[q] /\ claim'[q] = claim[q]
    BY <1>17
  <2>2. OrderFits(p, q, a)
    BY <1>1
  <2> QED
    BY <1>24, <1>28, <2>1, <2>2, OrderKept
<1>30. ASSUME NEW q \in Ready(p, a) PROVE (q \in Ready(p, d))'
  <2> SUFFICES ASSUME q # b, q # s PROVE (q \in Ready(p, d))'
    BY <1>26, <1>27
  <2>1. q \in Orders /\ Listed(q)
    BY DEF Ready
  <2>2. Listed(q)' /\ book'[q] = book[q]
    BY <1>17, <2>1 DEF Listed
  <2> QED
    BY <1>24, <1>28, <1>30, <2>1, <2>2, ReadyKept
<1>31. RowsTyped(p)' /\ ListsFit(p, d)'
  <2>1. ListOf(buys, Ready(p, a)) /\ ListOf(sells, Ready(p, a))
    BY <1>1 DEF ListsFit
  <2>2. Ready(p, a) \subseteq Ready(p, d)'
    BY <1>30
  <2>3. /\ ListOf(buysLeft, Ready(p, a)) /\ ListOf(sellsLeft, Ready(p, a))
        /\ buysLeft \in Seq(Orders) /\ sellsLeft \in Seq(Orders)
    <3>1. ListOf(buysLeft, Ready(p, a))
      <4>1. buysLeft = buys \/ (buys /= <<>> /\ buysLeft = Tail(buys))
        BY DEF buysLeft
      <4> QED
        BY <2>1, <4>1, ListOfTail
    <3>2. ListOf(sellsLeft, Ready(p, a))
      <4>1. sellsLeft = sells \/ (sells /= <<>> /\ sellsLeft = Tail(sells))
        BY DEF sellsLeft
      <4> QED
        BY <2>1, <4>1, ListOfTail
    <3>3. Ready(p, a) \subseteq Orders
      BY DEF Ready
    <3>4. ListOf(buysLeft, Orders) /\ ListOf(sellsLeft, Orders)
      BY <3>1, <3>2, <3>3, ListOfWider
    <3> QED
      BY <3>1, <3>2, <3>4 DEF ListOf
  <2>4. ListOf(buysLeft, Ready(p, d)') /\ ListOf(sellsLeft, Ready(p, d)')
    BY <2>2, <2>3, ListOfWider
  <2>5. ListsFit(p, d)'
    BY <1>16, <2>4 DEF ListsFit
  <2>6. RowsTyped(p)'
    BY <1>16, <1>18, <2>3 DEF RowsTyped
  <2> QED
    BY <2>5, <2>6
<1>32. ASSUME NEW m \in d.next PROVE MatchFits(p, d, m)'
  <2>1. m \in a.next /\ d.next = {m} /\ b \notin Parties(m) /\ s \notin Parties(m)
    BY <1>22, <1>32 DEF ThenSettles
  <2>2. MatchFits(p, a, m) /\ m.o \in Ready(p, a) /\ m.with \in Ready(p, a)
    BY <1>1, <2>1 DEF MatchFits
  <2>3. /\ m.o \in Orders /\ m.with \in Orders
        /\ m.o # b /\ m.o # s /\ m.with # b /\ m.with # s
    BY <2>1, <2>2 DEF Parties, Ready
  <2>4. /\ d.plan[m.o] = a.plan[m.o] /\ d.plan[m.with] = a.plan[m.with]
        /\ tick'[p].rows[m.o] = tick[p].rows[m.o]
        /\ tick'[p].rows[m.with] = tick[p].rows[m.with]
    BY <1>28, <2>3
  <2>5. book'[m.o] = book[m.o] /\ book'[m.with] = book[m.with]
    BY <1>17
  <2>6. (m.o \in Ready(p, d))' /\ (m.with \in Ready(p, d))'
    BY <1>30, <2>2
  <2>7. d.next \subseteq a.next
    BY <2>1
  <2> QED
    BY <2>1, <2>2, <2>4, <2>5, <2>6, <2>7, MatchKept
<1>33. Reserved(p, d)'
  <2>1. ASSUME NEW q \in Orders, IsLimit(q)
        PROVE  Outstanding(p, q, d.plan[q])' = Outstanding(p, q, a.plan[q])
    <3>1. CASE q # b /\ q # s
      BY <1>17, <1>28, <3>1 DEF Outstanding
    <3>2. CASE q = b
      <4>1. place[b] = "resting" /\ claim[b] = NoClaim /\ kb.mode # "none"
        BY <1>2, <1>8, <2>1, <3>2, OrderFacts DEF Listed, CanTrade, Settled
      <4>2. Outstanding(p, b, d.plan[b])' = Cost(b) - buyer.row.released
        BY <1>16, <1>17, <1>18, <1>22, <4>1 DEF Outstanding
      <4> QED
        BY <1>8a, <2>1, <3>2, <4>2 DEF CanTrade
    <3>3. CASE q = s
      <4>1. place[s] = "resting" /\ claim[s] = NoClaim /\ ks.mode # "none"
        BY <1>2, <1>12, <2>1, <3>3, OrderFacts DEF Listed, CanTrade, Settled
      <4>2. Outstanding(p, s, d.plan[s])' = Cost(s) - seller.row.released
        BY <1>16, <1>17, <1>18, <1>22, <4>1 DEF Outstanding
      <4> QED
        BY <1>12a, <2>1, <3>3, <4>2 DEF CanTrade
    <3> QED
      BY <3>1, <3>2, <3>3
  <2> QED
    BY <1>1, <1>17, <2>1, ReservedSame
<1>34. MoneyAt(p, d)'
  <2>1. Settles(tick'[p].todo, d, Nothing)
    BY <1>16, <1>23
  <2> QED
    BY <1>22, <1>29, <1>31, <1>32, <1>33, <2>1 DEF MoneyAt
<1>35. SpentGrows
  <2> SUFFICES ASSUME NEW o \in UserOrders
               PROVE  spent'[o] \in Nat /\ spent[o] \in Nat /\ spent'[o] >= spent[o]
    BY DEF SpentGrows
  <2>1. o \in Orders /\ ~IsLadder(o) /\ spent[o] \in Nat
    BY DEF UserOrders, MoneyTyped
  <2> DEFINE x == e * price
  <2>2. x \in Nat /\ e \in Nat
    BY <1>5
  <2>3. spent'[o] = IF o = b THEN spent[o] + x ELSE IF o = s THEN spent[o] + e ELSE spent[o]
    BY <1>14, <2>1
  <2> HIDE DEF x
  <2> QED
    BY <2>1, <2>2, <2>3
<1> QED
  BY <1>19, <1>34, <1>35

-----------------------------------------------------------------------------

\* The match the tick comes to, and what is left to settle after it.
MatchHas(p, a, x, c) ==
    /\ x = Head(tick[p].todo) /\ x \in OpRecord /\ x \in a.next
    /\ c \in Agenda /\ Settles(Tail(tick[p].todo), c, Nothing)
    /\ c.plan = Nothing.plan /\ a.plan = Nothing.plan
    /\ c.next \subseteq a.next
    /\ \A m \in c.next : x.o \notin Parties(m) /\ x.with \notin Parties(m) /\ c.next = {m}
    /\ c.next # {} => tick[p].buys # <<>> /\ Tail(tick[p].buys) # <<>>
    /\ IsMarket(x.o) /\ IsBuy(x.o) # IsBuy(x.with) /\ x.amount \in Nat \ {0}
    /\ x.o \in Held(p) /\ x.with \in Held(p)

LEMMA MatchFacts ==
    ASSUME MatcherInv, NEW p \in Pairs, NEW a, MoneyAt(p, a), NextOp(p, "match")
    PROVE  /\ tick[p].at = "matching" /\ tick[p].todo # <<>>
           /\ TickShape(p) /\ tick = [q \in Pairs |-> tick[q]]
           /\ \E x, c : MatchHas(p, a, x, c)
<1> DEFINE x == Head(tick[p].todo)
<1>1. tick[p].at = "matching" /\ tick[p].todo # <<>> /\ x.op = "match"
  BY SettlingMatches DEF NextOp
<1>2. /\ TickShape(p) /\ tick = [q \in Pairs |-> tick[q]]
      /\ OpOver(x, Held(p))
  BY <1>1, MatchingFacts
<1>3. Settles(tick[p].todo, a, Nothing) /\ \A m \in a.next : MatchFits(p, a, m)
  BY DEF MoneyAt
<1>4. /\ x \in OpRecord
      /\ \E b \in Agenda : Leads(x, a, b) /\ Settles(Tail(tick[p].todo), b, Nothing)
  BY <1>1, <1>3, SettlesFirst
<1>5. PICK c \in Agenda : Leads(x, a, c) /\ Settles(Tail(tick[p].todo), c, Nothing)
  BY <1>4
<1> HIDE DEF x
<1>6. Queues(x, c.next) /\ c.plan = Nothing.plan /\ a = [c EXCEPT !.next = @ \cup {x}]
  BY <1>1, <1>5 DEF Leads
<1>7. a.next = c.next \cup {x} /\ a.plan = c.plan
  BY <1>5, <1>6 DEF Agenda
<1>8. /\ x \notin c.next /\ x.amount > 0 /\ x.amount \in Nat
      /\ IsMarket(x.o) /\ IsBuy(x.o) # IsBuy(x.with)
  BY <1>4, <1>6 DEF Queues, OpRecord
<1>9. ASSUME NEW m \in c.next
      PROVE  /\ x.o \notin Parties(m) /\ x.with \notin Parties(m) /\ c.next = {m}
             /\ tick[p].buys # <<>> /\ Tail(tick[p].buys) # <<>>
  <2>1. c.next = {m} /\ Parties(x) \cap Parties(m) = {}
    BY <1>6 DEF Queues
  <2>2. x.o \notin Parties(m) /\ x.with \notin Parties(m)
    BY <2>1 DEF Parties
  <2>3. MatchFits(p, a, m) /\ x \in a.next /\ m # x
    BY <1>3, <1>7, <1>8
  <2> QED
    BY <2>1, <2>2, <2>3 DEF MatchFits
<1>10. x.o \in Held(p) /\ x.with \in Held(p)
  BY <1>2 DEF OpOver
<1>11. MatchHas(p, a, x, c)
  <2>1. x.amount \in Nat \ {0}
    BY <1>8
  <2>2. c.next \subseteq a.next /\ x \in a.next /\ a.plan = Nothing.plan
    BY <1>6, <1>7
  <2> QED
    BY <1>4, <1>5, <1>6, <1>8, <1>9, <1>10, <2>1, <2>2 DEF MatchHas, x
<1> QED
  BY <1>1, <1>2, <1>11

\* An order with nothing planned does not depend on its row in the tick.
LEMMA UnplannedFits ==
    ASSUME NEW p, NEW o \in Orders, NEW a, NEW c, OrderFits(p, o, a),
           a.plan[o] = NoPlan, c.plan[o] = NoPlan, place' = place, claim' = claim,
           refunded' = refunded, spent' = spent, book' = book
    PROVE  /\ OrderFits(p, o, c)'
           /\ IsLimit(o) => Outstanding(p, o, c.plan[o])' = Outstanding(p, o, a.plan[o])
<1>1. a.plan[o] = NoPlan /\ c.plan[o] = NoPlan /\ NoPlan.mode = "none"
  BY DEF NoPlan
<1>2. PlanFits(o, c.plan[o], book'[o], tick'[p].rows[o], Gone(p, o, c.next)')
  BY <1>1 DEF PlanFits, NoPlan
<1>3. ClaimFits(o)' /\ Escrow(o)' = Escrow(o) /\ Debited(o)' = Debited(o)
  BY DEF OrderFits, ClaimFits, Escrow, Debited
<1>4. ~IsLadder(o) => Accounted(p, o, c.plan[o])'
  BY <1>1, <1>3 DEF OrderFits, Accounted, Due
<1> QED
  BY <1>1, <1>2, <1>3, <1>4 DEF OrderFits, Outstanding

\* A match that executes nothing only prices the row of its market order.
LEMMA IdleMatchAccounts ==
    ASSUME NEW p \in Pairs, NEW a, NEW x, NEW c, NEW r,
           MatcherInv, MoneyTyped, MoneyAt(p, a), MatchHas(p, a, x, c),
           tick[p].at = "matching", r \in Row, Fresh(x.o, book[x.o], r),
           tick' = [tick EXCEPT ![p].rows = [tick[p].rows EXCEPT ![x.o] = r],
                                ![p].todo = Tail(tick[p].todo)],
           UNCHANGED <<book, inOrder, place, claim, refunded, earned, spent>>
    PROVE  MoneyAt(p, c)' /\ MoneyTyped'
<1> DEFINE o == x.o
           rows == [tick[p].rows EXCEPT ![o] = r]
           rest == Tail(tick[p].todo)
<1>1. /\ a \in Agenda /\ RowsTyped(p) /\ ListsFit(p, a) /\ Reserved(p, a)
      /\ \A q \in Orders : OrderFits(p, q, a)
      /\ \A m \in a.next : MatchFits(p, a, m)
  BY DEF MoneyAt
<1>2. TickShape(p) /\ tick = [q \in Pairs |-> tick[q]]
  BY MatchingFacts
<1>3. o \in Orders /\ x \in a.next /\ c \in Agenda /\ Settles(rest, c, Nothing)
  BY DEF MatchHas, OpRecord
<1>4. \A q \in Orders : a.plan[q] = NoPlan /\ c.plan[q] = NoPlan
  BY NothingToSettle DEF MatchHas
<1>5. /\ book' = book /\ inOrder' = inOrder /\ place' = place /\ claim' = claim
      /\ refunded' = refunded /\ earned' = earned /\ spent' = spent
  OBVIOUS
<1>6. /\ rows \in [Orders -> Row \cup {NoRow}] /\ rows[o] = r
      /\ \A q \in Orders : q # o => rows[q] = tick[p].rows[q]
  BY <1>1, <1>3 DEF RowsTyped
<1> HIDE DEF rows, rest
<1>7. tick'[p] = [at |-> "matching", buys |-> tick[p].buys, sells |-> tick[p].sells,
                  rows |-> rows, todo |-> rest]
  BY <1>2 DEF TickShape, rows, rest
<1>8. /\ tick'[p].at = "matching" /\ tick'[p].buys = tick[p].buys
      /\ tick'[p].sells = tick[p].sells /\ tick'[p].rows = rows /\ tick'[p].todo = rest
  <2> DEFINE t == tick'[p]
             buys == tick[p].buys
             sells == tick[p].sells
  <2>1. t = [at |-> "matching", buys |-> buys, sells |-> sells, rows |-> rows,
             todo |-> rest]
    BY <1>7
  <2> HIDE DEF t, buys, sells
  <2>2. t.at = "matching" /\ t.buys = buys /\ t.sells = sells
        /\ t.rows = rows /\ t.todo = rest
    BY <2>1
  <2> QED
    BY <2>2 DEF t, buys, sells
<1>9. \A q : ~Gone(p, q, a.next)
  BY <1>3 DEF Gone
<1>10. MoneyTyped'
  BY <1>5 DEF MoneyTyped
<1>11. ASSUME NEW q \in Orders
       PROVE  /\ OrderFits(p, q, c)'
              /\ IsLimit(q) => Outstanding(p, q, c.plan[q])' = Outstanding(p, q, a.plan[q])
  BY <1>1, <1>4, <1>5, UnplannedFits
<1>12. ASSUME NEW q \in Ready(p, a) PROVE (q \in Ready(p, c))'
  <2>1. q \in Orders /\ Listed(q) /\ Listed(q)' /\ book'[q] = book[q]
    BY <1>5 DEF Ready, Listed
  <2>2. CASE q = o
    <3>1. Fresh(q, book'[q], tick'[p].rows[q])
      BY <1>6, <1>8, <2>1, <2>2
    <3> QED
      BY <2>1, <3>1 DEF Ready
  <2>3. CASE q # o
    <3>1. tick'[p].rows[q] = tick[p].rows[q]
      BY <1>6, <1>8, <2>1, <2>3
    <3> QED
      BY <1>4, <1>9, <1>12, <2>1, <3>1, ReadyKept
  <2> QED
    BY <2>2, <2>3
<1>13. RowsTyped(p)' /\ ListsFit(p, c)'
  <2>1. ListOf(tick[p].buys, Ready(p, a)) /\ ListOf(tick[p].sells, Ready(p, a))
    BY <1>1 DEF ListsFit
  <2>2. Ready(p, a) \subseteq Ready(p, c)'
    BY <1>12
  <2>3. ListOf(tick[p].buys, Ready(p, c)') /\ ListOf(tick[p].sells, Ready(p, c)')
    BY <2>1, <2>2, ListOfWider
  <2>4. ListsFit(p, c)'
    BY <1>8, <2>3 DEF ListsFit
  <2>5. RowsTyped(p)'
    BY <1>1, <1>6, <1>8 DEF RowsTyped
  <2> QED
    BY <2>4, <2>5
<1>14. ASSUME NEW m \in c.next PROVE MatchFits(p, c, m)'
  <2>1. m \in a.next /\ c.next = {m} /\ o \notin Parties(m) /\ c.next \subseteq a.next
    BY <1>14 DEF MatchHas
  <2>2. MatchFits(p, a, m) /\ m.o \in Ready(p, a) /\ m.with \in Ready(p, a)
    BY <1>1, <2>1 DEF MatchFits
  <2>3. m.o \in Orders /\ m.with \in Orders /\ m.o # o /\ m.with # o
    BY <2>1, <2>2 DEF Parties, Ready
  <2>4. /\ c.plan[m.o] = a.plan[m.o] /\ c.plan[m.with] = a.plan[m.with]
        /\ tick'[p].rows[m.o] = tick[p].rows[m.o]
        /\ tick'[p].rows[m.with] = tick[p].rows[m.with]
    BY <1>4, <1>6, <1>8, <2>3
  <2>5. book'[m.o] = book[m.o] /\ book'[m.with] = book[m.with]
    BY <1>5
  <2>6. (m.o \in Ready(p, c))' /\ (m.with \in Ready(p, c))'
    BY <1>12, <2>2
  <2> QED
    BY <2>1, <2>2, <2>4, <2>5, <2>6, MatchKept
<1>15. Reserved(p, c)'
  BY <1>1, <1>5, <1>11, ReservedSame
<1> QED
  BY <1>3, <1>8, <1>10, <1>11, <1>13, <1>14, <1>15 DEF MoneyAt

LEMMA PricedRow ==
    ASSUME NEW y \in Row, NEW n \in Nat, NEW m \in Nat
    PROVE  [[y EXCEPT !.price = n] EXCEPT !.qty = m]
             = [qty |-> m, price |-> n, value |-> y.value, released |-> y.released]
<1> DEFINE z == [y EXCEPT !.price = n]
<1>1. z = [qty |-> y.qty, price |-> n, value |-> y.value, released |-> y.released]
  BY DEF Row
<1> HIDE DEF z
<1>2. [z EXCEPT !.qty = m]
        = [qty |-> m, price |-> n, value |-> y.value, released |-> y.released]
  BY <1>1
<1> QED
  BY <1>2 DEF z

LEMMA NothingSpent ==
    ASSUME MoneyTyped, spent' = spent
    PROVE  SpentGrows
  BY DEF MoneyTyped, SpentGrows, UserOrders

LEMMA TickMatchAccounts ==
    ASSUME NEW p \in Pairs, NEW a, MatcherInv, MoneyTyped, MoneyAt(p, a), TickMatch(p)
    PROVE  (\E d : MoneyAt(p, d)') /\ MoneyTyped' /\ SpentGrows
<1>1. /\ NextOp(p, "match") /\ MarketMatch(p)
      /\ book' = book /\ inOrder' = inOrder /\ place' = place /\ claim' = claim
      /\ refunded' = refunded /\ earned' = earned
  BY DEF TickMatch, MarketMatch
<1>2. /\ tick[p].at = "matching" /\ TickShape(p) /\ tick = [q \in Pairs |-> tick[q]]
      /\ \E x, c : MatchHas(p, a, x, c)
  BY <1>1, MatchFacts
<1>3. PICK x, c : MatchHas(p, a, x, c)
  BY <1>2
<1> DEFINE o == x.o
           w == x.with
           price == tick[p].rows[w].price
           value == tick[p].rows[o].value
           afford == ((value \div price) \div x.amount) * x.amount
           q == IF IsBuy(o) THEN afford ELSE value
           r == [qty |-> q, price |-> price, value |-> value,
                 released |-> tick[p].rows[o].released]
           rows == [tick[p].rows EXCEPT ![o] = r]
           b == IF IsBuy(o) THEN o ELSE w
           s == IF IsBuy(o) THEN w ELSE o
           e == Executed(rows[b], rows[s])
           rest == Tail(tick[p].todo)
<1>4. /\ RowsTyped(p) /\ MatchFits(p, a, x) /\ a.plan = Nothing.plan
      /\ x = Head(tick[p].todo) /\ c.plan = Nothing.plan
      /\ \A n \in Orders : OrderFits(p, n, a)
  BY <1>3 DEF MoneyAt, MatchHas
<1>5. /\ o \in Orders /\ w \in Orders /\ o # w /\ IsMarket(o) /\ IsBuy(o) # IsBuy(w)
      /\ ~IsLimit(o) /\ ~IsLadder(o) /\ x.amount \in Nat \ {0}
      /\ claim[o] = NoClaim /\ claim[w] = NoClaim /\ Listed(o) /\ Listed(w)
  <2>1. o \in Orders /\ w \in Orders /\ IsMarket(o) /\ IsBuy(o) # IsBuy(w)
        /\ x.amount \in Nat \ {0} /\ o \in Held(p) /\ w \in Held(p)
    BY <1>3 DEF MatchHas, OpRecord
  <2> QED
    BY <2>1, OrderFacts DEF Held
<1>6. a.plan[o] = NoPlan /\ a.plan[w] = NoPlan
  BY <1>4, <1>5, NothingToSettle
<1>7. /\ o \in Ready(p, a) /\ w \in Ready(p, a)
      /\ Fresh(o, book[o], tick[p].rows[o]) /\ price # Market
      /\ \/ Fresh(w, book[w], tick[p].rows[w])
         \/ Finished(w, book[w], tick[p].rows[w])
  BY <1>4 DEF MatchFits
<1>8. tick[p].rows[o] \in Row /\ tick[p].rows[w] \in Row
  BY <1>7 DEF Fresh, Finished, Over
<1>9. /\ price \in Nat \ {0} /\ value \in Nat
      /\ tick[p].rows[o].released \in Nat /\ tick[p].rows[w].qty \in Nat
  BY <1>7, <1>8, RowTyped DEF Market
<1>10. afford \in Nat /\ afford * price <= value
  <2> HIDE DEF price, value
  <2> QED
    BY <1>5, <1>9, WhatIsAfforded
<1>11. q \in Nat /\ (IF IsBuy(o) THEN q * price <= value ELSE q = value)
  BY <1>9, <1>10
<1> HIDE DEF afford, q
<1>12. /\ r \in Row /\ r.qty = q /\ r.price = price /\ r.value = value
  BY <1>9, <1>11 DEF Row
<1>13. [tick[p].rows EXCEPT ![o].price = price, ![o].qty = q] = rows
  <2>1. tick[p].rows \in [Orders -> Row \cup {NoRow}]
    BY <1>4 DEF RowsTyped
  <2> DEFINE z == tick[p].rows
             y == z[o]
  <2>2. y \in Row
    BY <1>8
  <2>3. [[y EXCEPT !.price = price] EXCEPT !.qty = q] = r
    <3>1. q \in Nat /\ price \in Nat /\ y \in Row
      BY <1>9, <1>11, <2>2
    <3> HIDE DEF price, y
    <3>2. [[y EXCEPT !.price = price] EXCEPT !.qty = q]
             = [qty |-> q, price |-> price, value |-> y.value, released |-> y.released]
      BY <3>1, PricedRow
    <3> QED
      BY <3>2 DEF y
  <2>4. [z EXCEPT ![o].price = price, ![o].qty = q]
           = [z EXCEPT ![o] = [[y EXCEPT !.price = price] EXCEPT !.qty = q]]
    <3> DEFINE pr == price
    <3>1. o \in Orders /\ z \in [Orders -> Row \cup {NoRow}]
      BY <1>5, <2>1
    <3> HIDE DEF z, pr, o
    <3> QED
      BY <3>1
  <2> QED
    BY <2>3, <2>4
<1> HIDE DEF r
<1>14. /\ rows \in [Orders -> Row \cup {NoRow}] /\ rows[o] = r /\ rows[w] = tick[p].rows[w]
       /\ \A n \in Orders : n # o => rows[n] = tick[p].rows[n]
  BY <1>4, <1>5, <1>12 DEF RowsTyped
<1>15. /\ \/ e > 0 /\ Trade(p, rows, b, s, e, price, rest)
          \/ /\ ~(e > 0) /\ spent' = spent
             /\ tick' = [tick EXCEPT ![p].rows = rows, ![p].todo = rest]
  BY <1>1, <1>4, <1>13 DEF MarketMatch, afford, q
<1> HIDE DEF rows, price, value
<1>16. CASE ~(e > 0) /\ spent' = spent
            /\ tick' = [tick EXCEPT ![p].rows = rows, ![p].todo = rest]
  <2>1. Fresh(x.o, book[x.o], r)
    <3>1. book[o] # NoRow /\ tick[p].rows[o].value = book[o].value
      BY <1>5, <1>7 DEF Fresh
    <3> QED
      BY <1>5, <1>11, <1>12, <3>1 DEF Fresh, value
  <2>2. tick' = [tick EXCEPT ![p].rows = [tick[p].rows EXCEPT ![x.o] = r],
                             ![p].todo = Tail(tick[p].todo)]
    BY <1>16 DEF rows
  <2>3. MoneyAt(p, c)' /\ MoneyTyped'
    BY <1>1, <1>2, <1>3, <1>12, <1>16, <2>1, <2>2, IdleMatchAccounts
  <2> QED
    BY <1>16, <2>3, NothingSpent
<1>17. CASE e > 0 /\ Trade(p, rows, b, s, e, price, rest)
  <2>1. e \in Nat /\ e <= rows[b].qty /\ e <= rows[s].qty
    <3>1. rows[b].qty \in Nat /\ rows[s].qty \in Nat
      BY <1>9, <1>11, <1>12, <1>14
    <3> QED
      BY <3>1 DEF Executed, AtMost
  <2>2. Fresh(w, book[w], tick[p].rows[w])
    <3>1. w \in {b, s} /\ rows[w].qty # 0
      BY <1>9, <1>14, <1>17, <2>1
    <3> QED
      BY <1>7, <1>14, <3>1 DEF Finished, Over
  <2>3. /\ Holds(o, Escrow(o), Stock(o, tick[p].rows[o]))
        /\ ~IsLadder(w) => Holds(w, Escrow(w), Stock(w, tick[p].rows[w]))
        /\ IsLimit(w) => Outstanding(p, w, a.plan[w]) = Cost(w) - tick[p].rows[w].released
        /\ IsLimit(w) =>
              tick[p].rows[w].released + tick[p].rows[w].qty * unit(w) <= Cost(w)
        /\ ~IsMarket(w) => tick[p].rows[w].price = Request[w].price
    <3>1. Holds(o, Escrow(o), Stock(o, tick[p].rows[o]))
      BY <1>4, <1>5, <1>6, <1>7, StockHeld
    <3> QED
      BY <1>4, <1>5, <1>6, <2>2, <3>1, StockHeld
  <2>4. Holds(o, Escrow(o), Stock(o, rows[o]))
    BY <1>5, <1>12, <1>14, <2>3 DEF Stock, value
  <2>5. Matchable(o, rows[o], price)
    BY <1>5, <1>11, <1>12, <1>14 DEF Matchable
  <2>6. Matchable(w, rows[w], price)
    <3>1. /\ rows[w] = tick[p].rows[w] /\ rows[w].price = price /\ price # Market
      BY <1>7, <1>14 DEF price
    <3>2. IsMarket(w) => IF IsBuy(w) THEN rows[w].qty * price <= rows[w].value
                         ELSE rows[w].qty = rows[w].value
      BY <2>2, <3>1 DEF Fresh
    <3>3. price <= price
      BY <1>9
    <3> QED
      BY <1>8, <2>3, <3>1, <3>2, <3>3 DEF Matchable
  <2>7. CanTrade(p, a, rows, b, s, e, price)
    <3>1. ~IsLadder(w) => Holds(w, Escrow(w), Stock(w, rows[w]))
      BY <1>14, <2>3
    <3>2. IsLimit(w) => Outstanding(p, w, a.plan[w]) = Cost(w) - rows[w].released
      BY <1>14, <2>3
    <3>3. price \in Nat \ {0}
      BY <1>9
    <3> HIDE DEF e
    <3>4. CASE IsBuy(o)
      <4>1. b = o /\ s = w /\ IsBuy(b) /\ ~IsBuy(s)
        BY <1>5, <3>4
      <4> QED
        BY <1>5, <1>6, <1>7, <1>14, <2>1, <2>4, <2>5, <2>6, <3>1, <3>2, <3>3, <4>1
           DEF CanTrade
    <3>5. CASE ~IsBuy(o)
      <4>1. b = w /\ s = o /\ IsBuy(b) /\ ~IsBuy(s)
        BY <1>5, <3>5 DEF IsBuy
      <4> QED
        BY <1>5, <1>6, <1>7, <1>14, <2>1, <2>4, <2>5, <2>6, <3>1, <3>2, <3>3, <4>1
           DEF CanTrade
    <3> QED
      BY <3>4, <3>5
  <2>8. ThenSettles(p, a, b, s, rest, c)
    <3>1. {b, s} = {o, w}
      OBVIOUS
    <3>2. \A m \in c.next : b \notin Parties(m) /\ s \notin Parties(m) /\ c.next = {m}
      BY <1>3, <3>1 DEF MatchHas
    <3> QED
      BY <1>3, <3>2 DEF MatchHas, ThenSettles
  <2> HIDE DEF e, b, s, rest
  <2> QED
    BY <1>1, <1>2, <1>4, <1>17, <2>1, <2>7, <2>8, TradeAccounts
<1> QED
  BY <1>15, <1>16, <1>17

LEMMA TurnLimitAccounts ==
    ASSUME NEW p \in Pairs, NEW a, MatcherInv, MoneyTyped, MoneyAt(p, a), TurnLimit(p)
    PROVE  (\E d : MoneyAt(p, d)') /\ MoneyTyped' /\ SpentGrows
<1> DEFINE buys == tick[p].buys
           sells == tick[p].sells
           b == buys[1]
           s == sells[1]
           rows == tick[p].rows
           e == Executed(rows[b], rows[s])
<1>1. /\ Turn(p) /\ ~IsMarket(b) /\ ~IsMarket(s)
      /\ book' = book /\ inOrder' = inOrder /\ place' = place /\ claim' = claim
      /\ refunded' = refunded /\ earned' = earned
  BY DEF TurnLimit
<1>2. /\ tick[p].at = "matching" /\ tick[p].todo = <<>>
      /\ TickShape(p) /\ tick = [q \in Pairs |-> tick[q]]
      /\ MoneyAt(p, Nothing)
      /\ ListOf(buys, Ready(p, Nothing)) /\ buys # <<>>
      /\ ListOf(sells, Ready(p, Nothing)) /\ sells # <<>>
      /\ b \in Bids(p) /\ s \in Asks(p)
      /\ rows \in [Orders -> Row \cup {NoRow}]
      /\ \A o \in Ready(p, Nothing) :
            /\ o \in Orders
            /\ \/ Fresh(o, book[o], tick[p].rows[o])
               \/ Finished(o, book[o], tick[p].rows[o])
  BY <1>1, TurnHas
<1>3. b \in Ready(p, Nothing) /\ s \in Ready(p, Nothing)
  BY <1>2, ListOfTail
<1>4. /\ b \in Orders /\ IsBuy(b) /\ claim[b] = NoClaim /\ Listed(b)
      /\ s \in Orders /\ ~IsBuy(s) /\ claim[s] = NoClaim /\ Listed(s)
  BY <1>2 DEF Bids, Asks, Held
<1>5. CASE tick' = [tick EXCEPT ![p].at = "breaking"] /\ spent' = spent
  <2>1. tick'[p] = [at |-> "breaking", buys |-> buys, sells |-> sells,
                    rows |-> rows, todo |-> <<>>]
    BY <1>2, <1>5 DEF TickShape
  <2>2. ListsFit(p, Nothing)'
    BY <2>1 DEF ListsFit
  <2>3. /\ tick'[p].todo = <<>>
        /\ tick'[p].buys \in Seq(Orders) /\ tick'[p].sells \in Seq(Orders)
        /\ tick'[p].rows \in [Orders -> Row \cup {NoRow}]
    <3>1. buys \in Seq(Orders) /\ sells \in Seq(Orders)
      BY <1>2 DEF MoneyAt, RowsTyped
    <3> QED
      BY <1>2, <2>1, <3>1
  <2>4. \A o \in Orders : book'[o] = book[o]
    BY <1>1
  <2>5. MoneyAt(p, Nothing)' /\ MoneyTyped'
    BY <1>1, <1>2, <1>5, <2>2, <2>3, <2>4, QuietStep
  <2> QED
    BY <1>5, <2>5, NothingSpent
<1>6. CASE /\ spent' = spent
           /\ Dropping(p, Tail(buys), sells) \/ Dropping(p, buys, Tail(sells))
  <2>1. ListOf(Tail(buys), Ready(p, Nothing)) /\ ListOf(Tail(sells), Ready(p, Nothing))
    BY <1>2, ListOfTail
  <2>2. UNCHANGED <<book, claim, place, inOrder, money>>
    BY <1>1, <1>6 DEF money
  <2>3. MoneyAt(p, Nothing)' /\ MoneyTyped'
    BY <1>1, <1>2, <1>6, <2>1, <2>2, DroppingAccounts
  <2> QED
    BY <1>6, <2>3, NothingSpent
<1>7. ASSUME NEW maker \in {b, s}, rows[b].price >= rows[s].price,
             Trade(p, rows, b, s, e, rows[maker].price, Break(b))
      PROVE  (\E d : MoneyAt(p, d)') /\ MoneyTyped' /\ SpentGrows
  <2>1. \A o \in Orders : Nothing.plan[o] = NoPlan /\ OrderFits(p, o, Nothing)
    BY <1>2, NothingToSettle DEF MoneyAt
  <2>2. ASSUME NEW o \in {b, s}
        PROVE  /\ rows[o] \in Row
               /\ ~IsLadder(o) => Holds(o, Escrow(o), Stock(o, rows[o]))
               /\ IsLimit(o) =>
                     Outstanding(p, o, Nothing.plan[o]) = Cost(o) - rows[o].released
               /\ IsLimit(o) => rows[o].released + rows[o].qty * unit(o) <= Cost(o)
               /\ rows[o].price = Request[o].price
    <3>1. /\ o \in Orders /\ o \in Ready(p, Nothing) /\ ~IsMarket(o)
          /\ claim[o] = NoClaim /\ Listed(o)
      BY <1>1, <1>3, <1>4
    <3>2. \/ Fresh(o, book[o], tick[p].rows[o])
          \/ ~IsMarket(o) /\ Finished(o, book[o], tick[p].rows[o])
      BY <1>2, <3>1
    <3>3. Nothing.plan[o] = NoPlan /\ OrderFits(p, o, Nothing)
      BY <2>1, <3>1
    <3> QED
      BY <3>1, <3>2, <3>3, StockHeld
  <2> DEFINE price == rows[maker].price
  <2>3. /\ price \in Nat \ {0} /\ price <= rows[b].price
        /\ rows[b].qty \in Nat /\ rows[s].qty \in Nat
    <3>1. rows[b].price \in Nat /\ rows[s].price \in Nat
          /\ rows[b].qty \in Nat /\ rows[s].qty \in Nat
      BY <2>2, RowTyped
    <3>2. Request[maker].price \in Nat \ {0}
      BY <1>4, OrderFacts
    <3>3. price = Request[maker].price
      BY <2>2
    <3>4. price <= rows[b].price
      BY <1>7, <3>1
    <3> QED
      BY <3>1, <3>2, <3>3, <3>4
  <2>4. e \in Nat /\ e <= rows[b].qty /\ e <= rows[s].qty
    BY <2>3 DEF Executed, AtMost
  <2>5. Matchable(b, rows[b], price) /\ Matchable(s, rows[s], price)
    <3> HIDE DEF price
    <3> QED
      BY <1>1, <1>4, <2>2, <2>3 DEF Matchable
  <2>6. CanTrade(p, Nothing, rows, b, s, e, price)
    <3> HIDE DEF price, e
    <3>1. /\ ~IsLadder(b) => Holds(b, Escrow(b), Stock(b, rows[b]))
          /\ ~IsLadder(s) => Holds(s, Escrow(s), Stock(s, rows[s]))
          /\ IsLimit(b) => Outstanding(p, b, Nothing.plan[b]) = Cost(b) - rows[b].released
          /\ IsLimit(s) => Outstanding(p, s, Nothing.plan[s]) = Cost(s) - rows[s].released
      BY <2>2
    <3>2. price \in Nat \ {0} /\ Nothing.plan[b] = NoPlan /\ Nothing.plan[s] = NoPlan
      BY <1>4, <2>1, <2>3
    <3> HIDE DEF b, s
    <3> QED
      BY <1>2, <1>3, <1>4, <2>4, <2>5, <3>1, <3>2 DEF CanTrade
  <2>7. ThenSettles(p, Nothing, b, s, Break(b), Nothing)
    <3> DEFINE x == Op("break", b, 0)
    <3>1. x \in OpRecord /\ x.op = "break"
      BY <1>4, OpTyped DEF OpNames
    <3>2. Leads(x, Nothing, Nothing)
      BY <3>1 DEF Leads
    <3> HIDE DEF x
    <3>3. Settles(<<x>>, Nothing, Nothing)
      BY <3>1, <3>2, NothingToSettle, SettlesOne
    <3>4. Settles(Break(b), Nothing, Nothing)
      BY <3>3 DEF Break, x
    <3> QED
      BY <3>4, NothingToSettle DEF ThenSettles
  <2> HIDE DEF price, e, b, s, rows
  <2>8. Trade(p, rows, b, s, e, price, Break(b))
    BY <1>7 DEF price
  <2> QED
    BY <1>1, <1>2, <2>3, <2>4, <2>6, <2>7, <2>8, TradeAccounts
<1>8. \/ tick' = [tick EXCEPT ![p].at = "breaking"] /\ spent' = spent
      \/ /\ spent' = spent
         /\ Dropping(p, Tail(buys), sells) \/ Dropping(p, buys, Tail(sells))
      \/ /\ rows[b].price >= rows[s].price
         /\ \E maker \in {b, s} :
               Trade(p, rows, b, s, e, rows[maker].price, Break(b))
  BY DEF TurnLimit
<1> QED
  BY <1>5, <1>6, <1>7, <1>8

-----------------------------------------------------------------------------
\* The inductive invariant of the money.

LEMMA MoneyInvInitially == Init => MoneyInv
<1> SUFFICES ASSUME Init PROVE MoneyInv
  OBVIOUS
<1>1. /\ book = [o \in Orders |-> NoRow] /\ place = [o \in Orders |-> "new"]
      /\ claim = [o \in Orders |-> NoClaim]
      /\ inOrder = [f \in Users \X Coins |-> 0]
      /\ refunded = [o \in Orders |-> 0] /\ earned = [o \in Orders |-> 0]
      /\ spent = [o \in Orders |-> 0]
      /\ tick = [p \in Pairs |-> IdleTick]
  BY DEF Init
<1>2. MoneyTyped
  BY <1>1 DEF MoneyTyped
<1>3. ASSUME NEW p \in Pairs PROVE MoneyAt(p, Nothing)
  <2>1. tick[p] = IdleTick
    BY <1>1
  <2>2. /\ tick[p].at = "idle" /\ tick[p].buys = <<>> /\ tick[p].sells = <<>>
        /\ tick[p].rows = [o \in Orders |-> NoRow] /\ tick[p].todo = <<>>
    BY <2>1 DEF IdleTick
  <2>3. /\ Settles(<<>>, Nothing, Nothing) /\ Nothing \in Agenda /\ Nothing.next = {}
        /\ \A o \in Orders : Nothing.plan[o] = NoPlan
    BY NothingToSettle
  <2>4. ASSUME NEW o \in Orders PROVE OrderFits(p, o, Nothing)
    <3>1. /\ book[o] = NoRow /\ place[o] = "new" /\ claim[o] = NoClaim
          /\ refunded[o] = 0 /\ spent[o] = 0
      BY <1>1
    <3>2. NoClaim \in Claimed /\ ClaimFits(o)
      BY <3>1 DEF ClaimFits, NoClaim, Claimed
    <3>3. PlanFits(o, NoPlan, book[o], tick[p].rows[o], Gone(p, o, Nothing.next))
      BY DEF PlanFits, NoPlan
    <3>4. Accounted(p, o, NoPlan)
      BY <3>1 DEF Accounted, Escrow, Debited
    <3> QED
      BY <2>3, <3>1, <3>2, <3>3, <3>4 DEF OrderFits, NoPlan
  <2>5. RowsTyped(p) /\ ListsFit(p, Nothing)
    BY <2>2 DEF RowsTyped, ListsFit
  <2>6. Reserved(p, Nothing)
    <3> SUFFICES ASSUME NEW f \in Users \X Coins PROVE ReservedOf(p, Nothing, f)
      BY DEF Reserved
    <3> DEFINE v == OutstandingOf(p, Nothing)
               m == [T \in SUBSET Mine(f) |-> 0]
    <3>1. \A o \in Mine(f) : v[o] = 0
      BY <1>1 DEF Mine, OutstandingOf, Outstanding
    <3> HIDE DEF v
    <3>2. Additive(m, v, Mine(f))
      BY <3>1, ZeroAdds
    <3>3. inOrder[f] = 0 /\ m[Mine(f)] = 0
      BY <1>1
    <3> HIDE DEF m
    <3> QED
      BY <3>2, <3>3 DEF ReservedOf, v
  <2> QED
    BY <2>2, <2>3, <2>4, <2>5, <2>6 DEF MoneyAt
<1> QED
  BY <1>2, <1>3 DEF MoneyInv

\* What every step keeps, and that no fill gives back what it has taken.
LEMMA TickStepAccounts ==
    ASSUME NEW p \in Pairs, NEW a, MatcherInv, IsFiniteSet(Orders), MoneyTyped,
           MoneyAt(p, a), TickStep(p)
    PROVE  (\E b : MoneyAt(p, b)') /\ MoneyTyped' /\ SpentGrows
<1>1. CASE TickMatch(p)
  BY <1>1, TickMatchAccounts
<1>2. CASE TurnLimit(p)
  BY <1>2, TurnLimitAccounts
<1>3. CASE SyncLadder(p) \/ ArmAndReadBuys(p) \/ ReadSells(p) \/ OneSided(p)
           \/ BeginMatching(p) \/ FinishTick(p)
  <2>1. MoneyAt(p, Nothing)' /\ MoneyTyped'
    BY <1>3, SyncLadderAccounts, ReadingAccounts, OneSidedAccounts,
       BeginMatchingAccounts, FinishTickAccounts
  <2>2. spent' = spent
    BY <1>3 DEF SyncLadder, ArmAndReadBuys, ReadSells, OneSided, BeginMatching,
                FinishTick, EndTick, money
  <2> QED
    BY <2>1, <2>2, NothingSpent
<1>4. CASE TurnBothMarket(p) \/ TurnMarketBuy(p) \/ TurnMarketSell(p)
  <2>1. (\E b : MoneyAt(p, b)') /\ MoneyTyped'
    BY <1>4, TurnBothMarketAccounts, TurnMarketBuyAccounts, TurnMarketSellAccounts
  <2>2. spent' = spent
    BY <1>4 DEF TurnBothMarket, TurnMarketBuy, TurnMarketSell, money
  <2> QED
    BY <2>1, <2>2, NothingSpent
<1>5. CASE TickRefund(p) \/ TickCredit(p) \/ TickHdel(p) \/ TickHset(p)
           \/ TickReadInOrder(p) \/ TickWriteInOrder(p) \/ TickBreak(p)
  <2>1. (\E b : MoneyAt(p, b)') /\ MoneyTyped'
    BY <1>5, TickRefundAccounts, TickCreditAccounts, TickHdelAccounts, TickHsetAccounts,
       TickReadInOrderAccounts, TickWriteInOrderAccounts, TickBreakAccounts
  <2>2. spent' = spent
    BY <1>5 DEF TickRefund, TickCredit, TickHdel, TickHset, TickReadInOrder,
                TickWriteInOrder, TickBreak, money
  <2> QED
    BY <2>1, <2>2, NothingSpent
<1> QED
  BY <1>1, <1>2, <1>3, <1>4, <1>5 DEF TickStep

LEMMA StepAccounts ==
    ASSUME NEW p \in Pairs, NEW a, OnePair, Closers = {}, IsFiniteSet(Orders),
           MatcherInv, MoneyTyped, MoneyAt(p, a), [Next]_vars
    PROVE  (\E b : MoneyAt(p, b)') /\ MoneyTyped' /\ SpentGrows
<1>1. ASSUME NEW o \in Orders, DebitLimit(o) \/ DebitMarket(o) \/ PlaceStep(o)
      PROVE  (\E b : MoneyAt(p, b)') /\ MoneyTyped' /\ SpentGrows
  <2>1. MoneyAt(p, a)' /\ MoneyTyped'
    BY <1>1, PlacingAccounts
  <2>2. spent' = spent
    BY <1>1 DEF DebitLimit, DebitMarket, Debit, PlaceStep, Reserve, ListLimit, ListMarket,
                List, money
  <2> QED
    BY <2>1, <2>2, NothingSpent
<1>2. ASSUME NEW o \in Orders, CancelOrder(o)
      PROVE  (\E b : MoneyAt(p, b)') /\ MoneyTyped' /\ SpentGrows
  <2>1. MoneyAt(p, a)' /\ MoneyTyped'
    BY <1>2, CancelAccounts
  <2>2. spent' = spent
    BY <1>2 DEF CancelOrder, money
  <2> QED
    BY <2>1, <2>2, NothingSpent
<1>3. ASSUME NEW o \in Orders, ClaimStep(o)
      PROVE  (\E b : MoneyAt(p, b)') /\ MoneyTyped' /\ SpentGrows
  <2>1. MoneyAt(p, a)' /\ MoneyTyped'
    BY <1>3, ClaimStepAccounts
  <2>2. spent' = spent
    BY <1>3 DEF ClaimStep, ClaimRefund, ClaimReadInOrder, ClaimWriteInOrder, money
  <2> QED
    BY <2>1, <2>2, NothingSpent
<1>4. ASSUME NEW q \in Pairs, StartTick(q) \/ Spin(q)
      PROVE  (\E b : MoneyAt(p, b)') /\ MoneyTyped' /\ SpentGrows
  <2>1. q = p
    BY DEF OnePair
  <2>2. MoneyAt(p, Nothing)' /\ MoneyTyped'
    BY <1>4, <2>1, StartTickAccounts, SpinAccounts
  <2>3. spent' = spent
    BY <1>4 DEF StartTick, Spin, money
  <2> QED
    BY <2>2, <2>3, NothingSpent
<1>5. ASSUME NEW q \in Pairs, TickStep(q)
      PROVE  (\E b : MoneyAt(p, b)') /\ MoneyTyped' /\ SpentGrows
  <2>1. q = p
    BY DEF OnePair
  <2> QED
    BY <1>5, <2>1, TickStepAccounts
<1>6. CASE UNCHANGED vars
  <2>1. /\ book' = book /\ inOrder' = inOrder /\ place' = place /\ claim' = claim
        /\ tick' = tick /\ refunded' = refunded /\ earned' = earned /\ spent' = spent
    BY <1>6 DEF vars
  <2>2. MoneyTyped'
    BY <2>1 DEF MoneyTyped
  <2>3. /\ a \in Agenda /\ Settles(tick[p].todo, a, Nothing) /\ RowsTyped(p)
        /\ ListsFit(p, a) /\ Reserved(p, a)
        /\ \A o \in Orders : OrderFits(p, o, a)
        /\ \A m \in a.next : MatchFits(p, a, m)
    BY DEF MoneyAt
  <2>4. \A q : Gone(p, q, a.next) => Gone(p, q, a.next)'
    BY <2>1 DEF Gone
  <2>5. \A o \in Orders : OrderFits(p, o, a)'
    <3> SUFFICES ASSUME NEW o \in Orders PROVE OrderFits(p, o, a)'
      OBVIOUS
    <3> QED
      BY <2>1, <2>3, <2>4, OrderKept
  <2>6. Ready(p, a)' = Ready(p, a)
    BY <2>1 DEF Ready, Listed, Gone
  <2>7. RowsTyped(p)' /\ ListsFit(p, a)'
    BY <2>1, <2>3, <2>6 DEF RowsTyped, ListsFit
  <2>8. \A m \in a.next : MatchFits(p, a, m)'
    BY <2>1, <2>3, <2>6 DEF MatchFits
  <2>9. Reserved(p, a)'
    <3>1. \A o \in Orders : IsLimit(o) =>
              Outstanding(p, o, a.plan[o])' = Outstanding(p, o, a.plan[o])
      BY <2>1 DEF Outstanding
    <3> QED
      BY <2>1, <2>3, <3>1, ReservedSame
  <2>10. MoneyAt(p, a)'
    BY <2>1, <2>3, <2>5, <2>7, <2>8, <2>9 DEF MoneyAt
  <2> QED
    BY <2>1, <2>2, <2>10, NothingSpent
<1> QED
  BY <1>1, <1>2, <1>3, <1>4, <1>5, <1>6 DEF Next

LEMMA MoneyInvInductive ==
    ASSUME OnePair, Closers = {}, IsFiniteSet(Orders)
    PROVE  MatcherInv /\ MoneyInv /\ [Next]_vars => (MatcherInv /\ MoneyInv)'
<1> SUFFICES ASSUME MatcherInv, MoneyInv, [Next]_vars PROVE MatcherInv' /\ MoneyInv'
  OBVIOUS
<1>1. MatcherInv'
  BY MatcherInvInductive
<1>2. MoneyTyped /\ \A p \in Pairs : \E a : MoneyAt(p, a)
  BY DEF MoneyInv
<1>3. ASSUME NEW p \in Pairs PROVE (\E b : MoneyAt(p, b)') /\ MoneyTyped'
  <2>1. PICK a : MoneyAt(p, a)
    BY <1>2
  <2> QED
    BY <1>2, <2>1, StepAccounts
<1>4. MoneyInv'
  <2>1. CASE Pairs = {}
    <3>1. Orders = {}
      BY <2>1, RequestAssumption
    <3>2. UNCHANGED vars
      BY <2>1, <3>1 DEF Next
    <3>3. MoneyTyped'
      BY <1>2, <3>2 DEF vars, MoneyTyped
    <3> QED
      BY <2>1, <3>3 DEF MoneyInv
  <2>2. CASE Pairs # {}
    BY <1>3, <2>2 DEF MoneyInv
  <2> QED
    BY <2>1, <2>2
<1> QED
  BY <1>1, <1>4

-----------------------------------------------------------------------------
\* What the invariant says of an order a user has placed.

LEMMA SoundBacking ==
    ASSUME NEW o \in Orders, NEW r, ~IsLadder(o), Sound(o, r, 0)
    PROVE  /\ Backing(o, r) \in Nat /\ Backing(o, r) > 0 /\ r \in Row
           /\ IsLimit(o) => /\ r.released \in Nat /\ r.released <= Cost(o)
                            /\ Backing(o, r) = Cost(o) - r.released
                            /\ reservationRemaining(o, r) = Cost(o) - r.released
<1>1. /\ r \in Row /\ r.qty \in Nat /\ r.value \in Nat /\ r.released \in Nat
  BY RowTyped DEF Sound
<1>2. Cost(o) \in Nat /\ unit(o) \in Nat \ {0} /\ (IsLimit(o) \/ IsMarket(o))
      /\ (IsLimit(o) => ~IsMarket(o)) /\ (IsMarket(o) => ~IsLimit(o))
  BY OrderFacts
<1>3. CASE IsMarket(o)
  BY <1>1, <1>2, <1>3 DEF Sound, Backing
<1>4. CASE IsLimit(o)
  <2> DEFINE x == r.qty * unit(o)
  <2>1. r.qty > 0
    BY <1>2, <1>4 DEF Sound
  <2>2. x \in Nat /\ x > 0
    BY <1>1, <1>2, <2>1, ProductsGrow
  <2>3. r.released + 0 + x <= Cost(o)
    BY <1>4 DEF Sound
  <2> HIDE DEF x
  <2>4. Cost(o) - r.released > 0 /\ Cost(o) - r.released \in Nat /\ r.released <= Cost(o)
    BY <1>1, <1>2, <2>2, <2>3
  <2>5. reservationRemaining(o, r) = Cost(o) - r.released
    BY <2>4 DEF reservationRemaining, Positive
  <2> QED
    BY <1>1, <1>2, <1>4, <2>4, <2>5 DEF Backing
<1> QED
  BY <1>2, <1>3, <1>4

\* What is due of an order is never negative, and more than nothing while its row is
\* in the book with nothing planned, or is to be written back.
LEMMA DueIsNat ==
    ASSUME NEW p, NEW o \in Orders, NEW a, a \in Agenda, ~IsLadder(o), OrderFits(p, o, a)
    PROVE  LET due == Due(o, claim[o], book[o], tick[p].rows[o], a.plan[o])
           IN /\ due \in Nat
              /\ a.plan[o].mode = "set" => due > 0
              /\ a.plan[o].mode = "none" /\ claim[o] = NoClaim /\ book[o] # NoRow => due > 0
<1> DEFINE k == a.plan[o]
           r == tick[p].rows[o]
           due == Due(o, claim[o], book[o], r, k)
<1>1. k \in Plan /\ PlanFits(o, k, book[o], r, Gone(p, o, a.next))
      /\ (claim[o] # NoClaim => Sound(o, claim[o].row, 0))
      /\ (book[o] # NoRow => Sound(o, book[o], 0))
  BY DEF Agenda, OrderFits, ClaimFits
<1> HIDE DEF k, r
<1>2. CASE k.mode = "none"
  <2>1. due = IF claim[o] # NoClaim
                THEN (IF claim[o].step = "refund" THEN Backing(o, claim[o].row) ELSE 0)
              ELSE IF book[o] # NoRow THEN Backing(o, book[o]) ELSE 0
    BY <1>2 DEF Due
  <2>2. /\ claim[o] # NoClaim => Backing(o, claim[o].row) \in Nat
        /\ book[o] # NoRow => Backing(o, book[o]) \in Nat /\ Backing(o, book[o]) > 0
    BY <1>1, SoundBacking
  <2> HIDE DEF due
  <2>3. due \in Nat /\ (claim[o] = NoClaim /\ book[o] # NoRow => due > 0)
    BY <2>1, <2>2
  <2> QED
    BY <1>2, <2>3 DEF due, k, r
<1>3. CASE k.mode # "none"
  <2>1. /\ r \in Row /\ k.rel \in Nat /\ k.pay \in Nat
        /\ k.mode \in {"keep", "set", "drop"}
        /\ Backing(o, r) \in Nat
        /\ due = IF k.mode = "drop" THEN k.pay ELSE Backing(o, r) - k.rel + k.pay
        /\ IsLimit(o) =>
              /\ r.released \in Nat /\ Backing(o, r) = Cost(o) - r.released
              /\ r.released <= Cost(o)
    BY <1>1, <1>3, PlannedDue
  <2>2. CASE k.mode = "drop"
    BY <2>1, <2>2 DEF due, k, r
  <2>3. CASE k.mode \in {"keep", "set"}
    <3>1. Sound(o, r, k.rel)
      BY <1>1, <2>3 DEF PlanFits
    <3>2. Backing(o, r) - k.rel \in Nat /\ Backing(o, r) - k.rel > 0
      <4>1. CASE IsMarket(o)
        <5>1. k.rel = 0 /\ r.value > 0 /\ Backing(o, r) = r.value
          BY <1>1, <3>1, <4>1, OrderFacts DEF PlanFits, Sound, Backing
        <5> QED
          BY <2>1, <5>1
      <4>2. CASE IsLimit(o)
        <5> DEFINE x == r.qty * unit(o)
        <5>1. r.qty > 0 /\ r.qty \in Nat /\ unit(o) \in Nat \ {0} /\ Cost(o) \in Nat
          BY <2>1, <3>1, <4>2, OrderFacts, RowTyped DEF Sound
        <5>2. x \in Nat /\ x > 0
          BY <5>1, ProductsGrow
        <5>3. r.released + k.rel + x <= Cost(o)
          BY <3>1, <4>2 DEF Sound
        <5> HIDE DEF x
        <5> QED
          BY <2>1, <4>2, <5>1, <5>2, <5>3
      <4> QED
        BY <4>1, <4>2, OrderFacts
    <3>3. due = Backing(o, r) - k.rel + k.pay
      BY <2>1, <2>3
    <3> HIDE DEF due
    <3>4. due \in Nat /\ due > 0
      BY <2>1, <3>2, <3>3
    <3> QED
      BY <1>3, <3>4 DEF due, k, r
  <2> QED
    BY <2>1, <2>2, <2>3
<1> QED
  BY <1>2, <1>3

\* Every order has a pair, so every order a user places is accounted for.
LEMMA EscrowBound ==
    ASSUME NEW o \in UserOrders, MoneyInv
    PROVE  /\ o \in Orders /\ ~IsLadder(o)
           /\ Escrow(o) \in Int /\ Escrow(o) >= 0 /\ Debited(o) \in Nat
           /\ place[o] \in {"new", "debited", "reserved", "resting"}
           /\ place[o] # "resting" => Escrow(o) = Debited(o)
           /\ \E p \in Pairs : \E a :
                 /\ MoneyAt(p, a) /\ a \in Agenda /\ OrderFits(p, o, a)
                 /\ place[o] = "resting" =>
                       LET due == Due(o, claim[o], book[o], tick[p].rows[o], a.plan[o])
                       IN /\ due \in Nat /\ Escrow(o) >= due
                          /\ Exact(o) => Escrow(o) = due
                          /\ a.plan[o].mode = "set" => due > 0
                          /\ a.plan[o].mode = "none" /\ claim[o] = NoClaim
                                /\ book[o] # NoRow => due > 0
<1>1. o \in Orders /\ ~IsLadder(o) /\ pair(o) \in Pairs
  BY RequestAssumption DEF UserOrders, pair
<1>2. MoneyTyped /\ \A p \in Pairs : \E a : MoneyAt(p, a)
  BY DEF MoneyInv
<1> DEFINE p == pair(o)
<1>3. PICK a : MoneyAt(p, a)
  BY <1>1, <1>2
<1>4. a \in Agenda /\ OrderFits(p, o, a)
  BY <1>1, <1>3 DEF MoneyAt
<1>5. Debited(o) \in Nat /\ Escrow(o) \in Int
  BY <1>1, <1>2, EscrowTyped
<1>6. place[o] # "resting" => Escrow(o) = Debited(o)
  BY <1>1, <1>4 DEF OrderFits, Accounted
<1> DEFINE due == Due(o, claim[o], book[o], tick[p].rows[o], a.plan[o])
<1>7. /\ due \in Nat
      /\ a.plan[o].mode = "set" => due > 0
      /\ a.plan[o].mode = "none" /\ claim[o] = NoClaim /\ book[o] # NoRow => due > 0
  BY <1>1, <1>4, DueIsNat
<1>8. place[o] = "resting" => Escrow(o) >= due /\ (Exact(o) => Escrow(o) = due)
  BY <1>1, <1>4 DEF OrderFits, Accounted, Holds
<1>9. Escrow(o) >= 0
  <2> HIDE DEF due
  <2> QED
    BY <1>5, <1>6, <1>7, <1>8
<1>10. place[o] \in {"new", "debited", "reserved", "resting"}
  BY <1>4 DEF OrderFits
<1> QED
  BY <1>1, <1>3, <1>4, <1>5, <1>6, <1>7, <1>8, <1>9, <1>10

\* With one pair and no account closing, no schedule of placing, fills, commands,
\* cancels and refunds pays out more of an order than was debited for it, whatever the
\* orders, their prices and the lot.
THEOREM NothingIsPaidTwice ==
    ASSUME OnePair, Closers = {}, IsFiniteSet(Orders)
    PROVE  Spec => []NoDoublePay
<1> DEFINE Inv == MatcherInv /\ MoneyInv
<1>1. Init => Inv
  BY MatcherInvInitially, MoneyInvInitially
<1>2. Inv /\ [Next]_vars => Inv'
  BY MoneyInvInductive
<1>3. Inv => NoDoublePay
  BY EscrowBound DEF NoDoublePay
<1> QED
  BY <1>1, <1>2, <1>3, PTL DEF Spec

-----------------------------------------------------------------------------
\* Types.

\* What nobody else's invariant mentions.
SideTyped ==
    /\ sweep \in [Closers -> SUBSET Orders]
    /\ tradePair \in Pairs \cup {NoPair}
    /\ isRun \in BOOLEAN

LEMMA SideTypedInductive == SideTyped /\ [Next]_vars => SideTyped'
<1> SUFFICES ASSUME SideTyped, [Next]_vars PROVE SideTyped'
  OBVIOUS
<1>1. ASSUME NEW o \in Orders, \/ DebitLimit(o) \/ DebitMarket(o) \/ PlaceStep(o)
                               \/ CancelOrder(o) \/ ClaimStep(o)
      PROVE  SideTyped'
  BY <1>1 DEF SideTyped, DebitLimit, DebitMarket, Debit, PlaceStep, Reserve, ListLimit,
              ListMarket, List, CancelOrder, ClaimStep, ClaimRefund, ClaimReadInOrder,
              ClaimWriteInOrder, matcher
<1>2. ASSUME NEW u \in Closers, ListForClosure(u) \/ ClaimForClosure(u) PROVE SideTyped'
  <2>1. tradePair' = tradePair /\ isRun' = isRun
    BY <1>2 DEF ListForClosure, ClaimForClosure, matcher
  <2>2. \E S \in SUBSET Orders : sweep' = [sweep EXCEPT ![u] = S]
    <3>1. CASE ListForClosure(u)
      BY <3>1 DEF ListForClosure, UserOrders
    <3>2. CASE ClaimForClosure(u)
      <4>1. PICK o \in sweep[u] : sweep' = [sweep EXCEPT ![u] = @ \ {o}]
        BY <3>2 DEF ClaimForClosure
      <4>2. sweep[u] \ {o} \in SUBSET Orders
        BY DEF SideTyped
      <4> QED
        BY <4>1, <4>2
    <3> QED
      BY <1>2, <3>1, <3>2
  <2> QED
    BY <2>1, <2>2 DEF SideTyped
<1>3. ASSUME NEW p \in Pairs, StartTick(p) \/ TickStep(p) \/ Spin(p) PROVE SideTyped'
  <2>1. CASE SyncLadder(p) \/ ArmAndReadBuys(p) \/ ReadSells(p) \/ OneSided(p)
             \/ BeginMatching(p) \/ FinishTick(p) \/ StartTick(p) \/ Spin(p)
    BY <2>1 DEF SideTyped, StartTick, Spin, SyncLadder, ArmAndReadBuys, ReadSells,
                OneSided, BeginMatching, FinishTick, EndTick
  <2>2. CASE TurnBothMarket(p) \/ TurnMarketBuy(p) \/ TurnMarketSell(p) \/ TurnLimit(p)
             \/ TickMatch(p)
    BY <2>2 DEF SideTyped, TurnBothMarket, TurnMarketBuy, TurnMarketSell, TurnLimit,
                TickMatch, MarketMatch
  <2>3. CASE TickRefund(p) \/ TickCredit(p) \/ TickHdel(p) \/ TickHset(p)
             \/ TickReadInOrder(p) \/ TickWriteInOrder(p) \/ TickBreak(p)
    BY <2>3 DEF SideTyped, TickRefund, TickCredit, TickHdel, TickHset, TickReadInOrder,
                TickWriteInOrder, TickBreak
  <2> QED
    BY <1>3, <2>1, <2>2, <2>3 DEF TickStep
<1>4. CASE UNCHANGED vars
  BY <1>4 DEF vars, SideTyped
<1> QED
  BY <1>1, <1>2, <1>3, <1>4 DEF Next

LEMMA TickTyped ==
    ASSUME NEW p \in Pairs, MatcherInv, MoneyInv
    PROVE  tick[p] \in Tick
<1>1. PICK a : MoneyAt(p, a)
  BY DEF MoneyInv
<1>2. TickShape(p)
  BY DEF MatcherInv, TickInv
<1> DEFINE at == tick[p].at
           buys == tick[p].buys
           sells == tick[p].sells
           rows == tick[p].rows
           todo == tick[p].todo
<1>3. /\ buys \in Seq(Orders) /\ sells \in Seq(Orders)
      /\ rows \in [Orders -> Row \cup {NoRow}] /\ todo \in Seq(OpRecord)
  BY <1>1 DEF MoneyAt, RowsTyped, Settles
<1>4. /\ tick[p] = [at |-> at, buys |-> buys, sells |-> sells, rows |-> rows, todo |-> todo]
      /\ at \in {"idle", "fetching", "synced", "armed", "read", "matching",
                 "breaking", "spinning"}
  BY <1>2 DEF TickShape
<1> HIDE DEF at, buys, sells, rows, todo
<1> QED
  BY <1>3, <1>4 DEF Tick, OpRecord

\* Every variable keeps its type, with one pair and no account closing: among them no
\* reservation of a coin goes below zero, whatever releases interleave, and no command
\* of a settlement carries a negative amount.
THEOREM MatcherTypes ==
    ASSUME OnePair, Closers = {}, IsFiniteSet(Orders)
    PROVE  Spec => []TypeOK
<1> DEFINE Inv == MatcherInv /\ MoneyInv /\ SideTyped
<1>1. Init => Inv
  <2>1. Init => SideTyped
    BY DEF Init, SideTyped
  <2> QED
    BY <2>1, MatcherInvInitially, MoneyInvInitially
<1>2. Inv /\ [Next]_vars => Inv'
  BY MoneyInvInductive, SideTypedInductive
<1>3. Inv => TypeOK
  <2> SUFFICES ASSUME MatcherInv, MoneyInv, SideTyped PROVE TypeOK
    OBVIOUS
  <2>1. tick \in [Pairs -> Tick]
    BY TickTyped DEF MatcherInv
  <2>2. ASSUME NEW o \in Orders
        PROVE  /\ book[o] \in Row \cup {NoRow}
               /\ place[o] \in {"new", "debited", "reserved", "resting"}
               /\ claim[o] \in Claimed
    <3>1. pair(o) \in Pairs
      BY RequestAssumption DEF pair
    <3>2. PICK a : OrderFits(pair(o), o, a)
      BY <3>1 DEF MoneyInv, MoneyAt
    <3> QED
      BY <3>2 DEF OrderFits, Sound, ClaimFits
  <2>3. /\ book \in [Orders -> Row \cup {NoRow}]
        /\ place \in [Orders -> {"new", "debited", "reserved", "resting"}]
        /\ claim \in [Orders -> Claimed]
    <3>1. /\ book = [o \in Orders |-> book[o]] /\ place = [o \in Orders |-> place[o]]
          /\ claim = [o \in Orders |-> claim[o]]
      BY DEF MatcherInv, OrdersInv
    <3> QED
      BY <2>2, <3>1
  <2>4. /\ inOrder \in [Users \X Coins -> Nat] /\ refunded \in [Orders -> Nat]
        /\ earned \in [Orders -> Nat] /\ spent \in [Orders -> Nat]
    BY DEF MoneyInv, MoneyTyped
  <2> QED
    BY <2>1, <2>3, <2>4 DEF TypeOK, SideTyped
<1> QED
  BY <1>1, <1>2, <1>3, PTL DEF Spec

-----------------------------------------------------------------------------
\* The escrow of an order only shrinks.

\* What a step may do to an order that a user places.
Draws(o) ==
    /\ place'[o] = place[o] \/ (place[o] = "new" /\ place'[o] = "debited")
       \/ (place[o] \in {"debited", "reserved"} /\ place'[o] \in {"reserved", "resting"})
    /\ refunded'[o] >= refunded[o] /\ spent'[o] >= spent[o]
    /\ place'[o] # place[o] => refunded'[o] = refunded[o] /\ spent'[o] = spent[o]
    /\ place[o] = "resting" /\ book[o] = NoRow /\ Escrow(o) = 0 => book'[o] = NoRow

-----------------------------------------------------------------------------

LEMMA PlacingDraws ==
    ASSUME NEW o \in UserOrders, NEW x \in Orders, MatcherInv, MoneyInv,
           DebitLimit(x) \/ DebitMarket(x) \/ PlaceStep(x)
    PROVE  Draws(o)
<1>1. /\ o \in Orders /\ refunded[o] \in Nat /\ spent[o] \in Nat
  BY DEF UserOrders, MoneyInv, MoneyTyped
<1>2. refunded' = refunded /\ spent' = spent
  BY DEF DebitLimit, DebitMarket, Debit, PlaceStep, Reserve, ListLimit, ListMarket,
         List, money
<1>3. place = [q \in Orders |-> place[q]] /\ book = [q \in Orders |-> book[q]]
  BY DEF MatcherInv, OrdersInv
<1>4. CASE DebitLimit(x) \/ DebitMarket(x) \/ Reserve(x)
  <2>1. book' = book
    BY <1>4 DEF DebitLimit, DebitMarket, Debit, Reserve
  <2>2. \/ place[x] = "new" /\ place' = [place EXCEPT ![x] = "debited"]
        \/ place[x] = "debited" /\ place' = [place EXCEPT ![x] = "reserved"]
    BY <1>4 DEF DebitLimit, DebitMarket, Debit, Reserve, Placing
  <2> QED
    BY <1>1, <1>2, <1>3, <2>1, <2>2 DEF Draws
<1>5. CASE ListLimit(x) \/ ListMarket(x)
  <2>1. /\ place[x] \in {"debited", "reserved"}
        /\ place' = [place EXCEPT ![x] = "resting"]
        /\ \E row : book' = [book EXCEPT ![x] = row]
    BY <1>5 DEF ListLimit, ListMarket, List, Placing
  <2> QED
    BY <1>1, <1>2, <1>3, <2>1 DEF Draws
<1> QED
  BY <1>4, <1>5 DEF PlaceStep

\* A step that places nothing, pays nothing back and only takes rows from the book.
LEMMA TakingDraws ==
    ASSUME NEW o \in UserOrders, MoneyInv, SpentGrows, place' = place, refunded' = refunded,
           book'[o] \in {book[o], NoRow}
    PROVE  Draws(o)
<1>1. refunded[o] \in Nat /\ spent'[o] >= spent[o]
  BY DEF UserOrders, MoneyInv, MoneyTyped, SpentGrows
<1> QED
  BY <1>1 DEF Draws

\* A step that pays an order back, and changes no row.
LEMMA PayingDraws ==
    ASSUME NEW o \in UserOrders, NEW x \in Orders, NEW n \in Nat, MoneyInv, place' = place,
           spent' = spent, book' = book, refunded' = [refunded EXCEPT ![x] = @ + n]
    PROVE  Draws(o)
<1>1. refunded \in [Orders -> Nat] /\ o \in Orders /\ spent[o] \in Nat
  BY DEF UserOrders, MoneyInv, MoneyTyped
<1>2. refunded'[o] >= refunded[o]
  BY <1>1
<1> QED
  BY <1>1, <1>2 DEF Draws

LEMMA ClaimTakesRow ==
    ASSUME NEW o \in Orders, NEW S, NEW by, Claim(S, by)
    PROVE  book'[o] \in {book[o], NoRow}
  BY DEF Claim

LEMMA ClaimStepDraws ==
    ASSUME NEW o \in UserOrders, NEW x \in Orders, MatcherInv, MoneyInv, SpentGrows,
           ClaimStep(x)
    PROVE  Draws(o)
<1>1. place' = place /\ spent' = spent /\ book' = book
  BY DEF ClaimStep, ClaimRefund, ClaimReadInOrder, ClaimWriteInOrder, money
<1>2. CASE ClaimRefund(x)
  <2>1. claim[x].step = "refund"
    BY <1>2 DEF ClaimRefund, Claiming
  <2>2. claim[x] # NoClaim
    BY <2>1 DEF NoClaim
  <2>3. ~IsLadder(x)
    BY <2>2 DEF MatcherInv, OrdersInv
  <2>4. pair(x) \in Pairs
    BY RequestAssumption DEF pair
  <2>5. PICK a : OrderFits(pair(x), x, a)
    BY <2>4 DEF MoneyInv, MoneyAt
  <2>6. Sound(x, claim[x].row, 0)
    BY <2>2, <2>5 DEF OrderFits, ClaimFits
  <2>7. Backing(x, claim[x].row) \in Nat
    BY <2>3, <2>6, SoundBacking
  <2>8. refunded' = [refunded EXCEPT ![x] = @ + Backing(x, claim[x].row)]
    BY <1>2 DEF ClaimRefund
  <2> QED
    BY <1>1, <2>7, <2>8, PayingDraws
<1>3. CASE ClaimReadInOrder(x) \/ ClaimWriteInOrder(x)
  <2>1. refunded' = refunded
    BY <1>3 DEF ClaimReadInOrder, ClaimWriteInOrder, money
  <2> QED
    BY <1>1, <2>1, TakingDraws
<1> QED
  BY <1>2, <1>3 DEF ClaimStep

LEMMA TickStepDraws ==
    ASSUME NEW o \in UserOrders, NEW p \in Pairs, MatcherInv, MoneyInv, SpentGrows,
           TickStep(p) \/ StartTick(p) \/ Spin(p)
    PROVE  Draws(o)
<1>1. o \in Orders /\ ~IsLadder(o)
  BY DEF UserOrders
<1>2. PICK a : MoneyAt(p, a)
  BY DEF MoneyInv
<1>3. CASE StartTick(p) \/ Spin(p) \/ ArmAndReadBuys(p) \/ ReadSells(p) \/ BeginMatching(p)
           \/ TurnBothMarket(p) \/ TurnLimit(p)
           \/ TickMatch(p) \/ TickCredit(p) \/ TickReadInOrder(p) \/ TickWriteInOrder(p)
           \/ TickBreak(p)
  <2>1. book' = book /\ place' = place /\ refunded' = refunded
    BY <1>3 DEF StartTick, Spin, ArmAndReadBuys, ReadSells, BeginMatching, TurnBothMarket,
                TurnLimit, TickMatch, MarketMatch, TickCredit, TickReadInOrder,
                TickWriteInOrder, TickBreak, money
  <2> QED
    BY <2>1, TakingDraws
<1>4. CASE SyncLadder(p)
  <2>1. place' = place /\ refunded' = refunded
    BY <1>4 DEF SyncLadder, money
  <2>2. book'[o] = book[o]
    BY <1>1, <1>4 DEF SyncLadder
  <2> QED
    BY <2>1, <2>2, TakingDraws
<1>5. CASE OneSided(p) \/ FinishTick(p)
  <2>1. /\ place' = place /\ refunded' = refunded
        /\ \E S : Claim(S, "matcher")
    BY <1>5 DEF OneSided, FinishTick, EndTick, CancelMarketOrders, money
  <2>2. book'[o] \in {book[o], NoRow}
    BY <1>1, <2>1, ClaimTakesRow
  <2> QED
    BY <2>1, <2>2, TakingDraws
<1>6. CASE TurnMarketBuy(p) \/ TurnMarketSell(p)
  <2>1. /\ place' = place /\ refunded' = refunded
        /\ book' = book \/ \E S : Claim(S, "matcher")
    BY <1>6 DEF TurnMarketBuy, TurnMarketSell, CancelMarketOrders, money
  <2>2. book'[o] \in {book[o], NoRow}
    BY <1>1, <2>1, ClaimTakesRow
  <2> QED
    BY <2>1, <2>2, TakingDraws
<1>7. CASE TickHdel(p)
  <2>1. /\ place' = place /\ refunded' = refunded
        /\ book' = [book EXCEPT ![Head(tick[p].todo).o] = NoRow]
    BY <1>7 DEF TickHdel, money
  <2>2. book = [q \in Orders |-> book[q]]
    BY DEF MatcherInv, OrdersInv
  <2>3. book'[o] \in {book[o], NoRow}
    BY <1>1, <2>1, <2>2
  <2> QED
    BY <2>1, <2>3, TakingDraws
<1>8. CASE TickRefund(p)
  <2>1. /\ NextOp(p, "refund") /\ place' = place /\ spent' = spent /\ book' = book
        /\ refunded' = [refunded EXCEPT ![Head(tick[p].todo).o] =
                                            @ + Head(tick[p].todo).amount]
    BY <1>8 DEF TickRefund
  <2>2. PICK q, x, b : OpHas(p, a, q, x, b)
    BY <1>2, <2>1, OpFacts DEF Carried
  <2>3. q \in Orders /\ x.amount \in Nat /\ x = Head(tick[p].todo) /\ x.o = q
    BY <2>2 DEF OpHas
  <2> QED
    BY <2>1, <2>3, PayingDraws
<1>9. CASE TickHset(p)
  <2>1. /\ NextOp(p, "hset") /\ place' = place /\ spent' = spent /\ refunded' = refunded
        /\ \E r : book' = [book EXCEPT ![Head(tick[p].todo).o] = r]
    BY <1>9 DEF TickHset, money
  <2>2. PICK q, x, b : OpHas(p, a, q, x, b) /\ x.op = "hset"
    BY <1>2, <2>1, OpFacts DEF Carried
  <2>3. q \in Orders /\ x = Head(tick[p].todo) /\ x.o = q
        /\ Prepends(x, a.plan[q], b.plan[q])
    BY <2>2 DEF OpHas
  <2>4. a.plan[q].mode = "set"
    BY <2>2, <2>3 DEF Prepends, NoPlan
  <2>5. book = [n \in Orders |-> book[n]] /\ refunded[o] \in Nat /\ spent[o] \in Nat
    BY <1>1 DEF MatcherInv, OrdersInv, MoneyInv, MoneyTyped
  <2>6. CASE q # o
    <3>1. book'[o] = book[o]
      BY <1>1, <2>1, <2>3, <2>5, <2>6
    <3> QED
      BY <2>1, <3>1, TakingDraws
  <2>7. CASE q = o
    <3>1. OrderFits(p, o, a) /\ a \in Agenda /\ Escrow(o) \in Int
      BY <1>1, <1>2, EscrowTyped DEF MoneyAt, MoneyInv
    <3> DEFINE due == Due(o, claim[o], book[o], tick[p].rows[o], a.plan[o])
    <3>2. due \in Nat /\ due > 0
      BY <1>1, <2>4, <2>7, <3>1, DueIsNat
    <3>3. place[o] = "resting" => Escrow(o) >= due
      BY <1>1, <3>1 DEF OrderFits, Accounted, Holds
    <3> HIDE DEF due
    <3>4. place[o] = "resting" => Escrow(o) # 0
      BY <3>1, <3>2, <3>3
    <3> QED
      BY <2>1, <2>5, <3>4 DEF Draws
  <2> QED
    BY <2>6, <2>7
<1> QED
  BY <1>3, <1>4, <1>5, <1>6, <1>7, <1>8, <1>9 DEF TickStep

LEMMA StepDraws ==
    ASSUME OnePair, Closers = {}, IsFiniteSet(Orders), MatcherInv, MoneyInv, [Next]_vars,
           NEW o \in UserOrders
    PROVE  Draws(o)
<1>1. o \in Orders /\ pair(o) \in Pairs
  BY RequestAssumption DEF pair, UserOrders
<1>2. SpentGrows
  <2>1. PICK a : MoneyAt(pair(o), a)
    BY <1>1 DEF MoneyInv
  <2>2. MoneyTyped
    BY DEF MoneyInv
  <2> QED
    BY <1>1, <2>1, <2>2, StepAccounts
<1>3. ASSUME NEW x \in Orders, CancelOrder(x) PROVE Draws(o)
  <2>1. place' = place /\ refunded' = refunded /\ Claim({x}, "owner")
    BY <1>3 DEF CancelOrder, money
  <2> QED
    BY <1>1, <1>2, <2>1, ClaimTakesRow, TakingDraws
<1>4. CASE UNCHANGED vars
  BY <1>2, <1>4, TakingDraws DEF vars
<1> QED
  BY <1>2, <1>3, <1>4, PlacingDraws, ClaimStepDraws, TickStepDraws DEF Next

-----------------------------------------------------------------------------
\* The matcher keeps the promise of OrderEscrow.

LEMMA CostPositive == \A o \in UserOrders : Cost(o) \in Nat /\ Cost(o) > 0
<1> SUFFICES ASSUME NEW o \in UserOrders PROVE Cost(o) \in Nat /\ Cost(o) > 0
  OBVIOUS
<1> QED
  BY OrderFacts DEF UserOrders

\* An order that is new holds nothing, one on its way to the book all that was debited.
EscrowReads(o) ==
    /\ Escrow(o) \in Int /\ Escrow(o) >= 0
    /\ place[o] \in {"new", "debited", "reserved", "resting"}
    /\ place[o] = "new" => Escrow(o) = 0 /\ standing[o] = "new"
    /\ place[o] \in {"debited", "reserved"} => Escrow(o) = Cost(o) /\ standing[o] = "open"
    /\ place[o] = "resting" =>
          standing[o] = IF book[o] = NoRow /\ Escrow(o) = 0 THEN "closed" ELSE "open"
    /\ escrowed[o] = Escrow(o)

LEMMA EscrowIsRead == MoneyInv => \A o \in UserOrders : EscrowReads(o)
<1> SUFFICES ASSUME MoneyInv, NEW o \in UserOrders PROVE EscrowReads(o)
  OBVIOUS
<1> QED
  BY EscrowBound DEF EscrowReads, standing, escrowed, Debited

LEMMA EscrowIsReadNext == MoneyInv' => \A o \in UserOrders : EscrowReads(o)'
<1>1. (MoneyInv => \A o \in UserOrders : EscrowReads(o))'
  BY EscrowIsRead, PTL
<1> QED
  BY <1>1

LEMMA EscrowsInitially == Init => Escrows!Init
<1> SUFFICES ASSUME Init PROVE Escrows!Init
  OBVIOUS
<1>1. ASSUME NEW o \in UserOrders PROVE standing[o] = "new" /\ escrowed[o] = 0
  <2>1. o \in Orders /\ place[o] = "new" /\ refunded[o] = 0 /\ spent[o] = 0
    BY DEF Init, UserOrders
  <2> QED
    BY <2>1 DEF standing, escrowed, Escrow, Debited
<1>2. /\ standing = [o \in UserOrders |-> standing[o]]
      /\ escrowed = [o \in UserOrders |-> escrowed[o]]
  BY DEF standing, escrowed
<1> QED
  BY <1>1, <1>2 DEF Escrows!Init

LEMMA EscrowStep ==
    ASSUME NEW o \in UserOrders, MoneyInv, MoneyInv', Draws(o)
    PROVE  Escrows!Open(o) \/ Escrows!Draw(o) \/ Escrows!Rest(o)
<1>1. /\ Escrow(o) \in Int /\ Escrow(o) >= 0
      /\ place[o] \in {"new", "debited", "reserved", "resting"}
  BY EscrowIsRead DEF EscrowReads
<1>2. Escrow(o)' \in Int /\ Escrow(o)' >= 0
  BY EscrowIsReadNext DEF EscrowReads
<1>3. /\ place[o] = "new" => Escrow(o) = 0 /\ standing[o] = "new"
      /\ place[o] \in {"debited", "reserved"} =>
            Escrow(o) = Cost(o) /\ standing[o] = "open"
      /\ place[o] = "resting" =>
            standing[o] = IF book[o] = NoRow /\ Escrow(o) = 0 THEN "closed" ELSE "open"
      /\ escrowed[o] = Escrow(o)
  BY EscrowIsRead DEF EscrowReads
<1>4. /\ place'[o] = "new" => Escrow(o)' = 0 /\ standing'[o] = "new"
      /\ place'[o] \in {"debited", "reserved"} =>
            Escrow(o)' = Cost(o) /\ standing'[o] = "open"
      /\ place'[o] = "resting" =>
            standing'[o] = IF book'[o] = NoRow /\ Escrow(o)' = 0 THEN "closed" ELSE "open"
      /\ escrowed'[o] = Escrow(o)'
  BY EscrowIsReadNext DEF EscrowReads
<1>5. Cost(o) \in Nat /\ Cost(o) > 0
  BY CostPositive
<1>6. place[o] # "new" => Escrow(o)' <= Escrow(o)
  <2>1. /\ refunded'[o] \in Nat /\ refunded[o] \in Nat /\ spent'[o] \in Nat /\ spent[o] \in Nat
        /\ refunded'[o] >= refunded[o] /\ spent'[o] >= spent[o]
    BY DEF Draws, UserOrders, MoneyInv, MoneyTyped
  <2>2. place[o] # "new" => place'[o] # "new"
    BY DEF Draws
  <2> QED
    BY <1>5, <2>1, <2>2 DEF Escrow, Debited
<1> DEFINE e == Escrow(o)
           f == Escrow(o)'
<1> HIDE DEF e, f
<1>7. CASE place[o] = "new"
  <2>1. CASE place'[o] = "new"
    BY <1>3, <1>4, <1>7, <2>1 DEF Escrows!Rest
  <2>2. CASE place'[o] = "debited"
    BY <1>3, <1>4, <1>7, <2>2 DEF Escrows!Open
  <2> QED
    BY <1>7, <2>1, <2>2 DEF Draws
<1>8. CASE place[o] \in {"debited", "reserved"}
  <2>1. place'[o] \in {"debited", "reserved", "resting"}
    BY <1>8 DEF Draws
  <2>2. escrowed'[o] \in 0..escrowed[o]
    BY <1>1, <1>2, <1>3, <1>4, <1>6, <1>8
  <2>3. standing'[o] \in {"open", "closed"} /\ (standing'[o] = "closed" => escrowed'[o] = 0)
    BY <1>4, <2>1
  <2>4. standing[o] = "open"
    BY <1>3, <1>8
  <2> QED
    BY <2>2, <2>3, <2>4 DEF Escrows!Draw
<1>9. CASE place[o] = "resting"
  <2>1. place'[o] = "resting"
    BY <1>9 DEF Draws
  <2>2. escrowed'[o] \in 0..escrowed[o]
    BY <1>1, <1>2, <1>3, <1>4, <1>6, <1>9
  <2>3. standing'[o] \in {"open", "closed"} /\ (standing'[o] = "closed" => escrowed'[o] = 0)
    BY <1>4, <2>1
  <2>4. CASE standing[o] = "open"
    BY <2>2, <2>3, <2>4 DEF Escrows!Draw
  <2>5. CASE standing[o] # "open"
    <3>1. book[o] = NoRow /\ Escrow(o) = 0 /\ standing[o] = "closed"
      BY <1>3, <1>9, <2>5
    <3>2. book'[o] = NoRow
      BY <1>9, <3>1 DEF Draws
    <3>3. Escrow(o)' = 0
      BY <1>2, <1>6, <1>9, <3>1
    <3>4. standing'[o] = "closed" /\ escrowed'[o] = escrowed[o]
      BY <1>3, <1>4, <2>1, <3>1, <3>2, <3>3
    <3> QED
      BY <3>1, <3>4 DEF Escrows!Rest
  <2> QED
    BY <2>4, <2>5
<1> QED
  BY <1>1, <1>7, <1>8, <1>9

\* With one pair and no account closing, the book, the matcher and the cancels, with
\* every interleaving of their commands, do to an order only what OrderEscrow allows:
\* its money is taken once, only leaves from then on, and a closed order stays closed.
THEOREM MatcherKeepsEscrows ==
    ASSUME OnePair, Closers = {}, IsFiniteSet(Orders)
    PROVE  Spec => KeepsEscrows
<1> DEFINE Inv == MatcherInv /\ MoneyInv
<1>1. Init => Inv
  BY MatcherInvInitially, MoneyInvInitially
<1>2. Inv /\ [Next]_vars => Inv'
  BY MoneyInvInductive
<1>3. Inv /\ Inv' /\ [Next]_vars => [Escrows!Next]_Escrows!vars
  <2> SUFFICES ASSUME MatcherInv, MoneyInv, MoneyInv', [Next]_vars
               PROVE  Escrows!Next
    OBVIOUS
  <2>1. \A o \in UserOrders : Escrows!Open(o) \/ Escrows!Draw(o) \/ Escrows!Rest(o)
    BY StepDraws, EscrowStep
  <2>2. /\ standing' = [o \in UserOrders |-> standing'[o]]
        /\ escrowed' = [o \in UserOrders |-> escrowed'[o]]
    BY DEF standing, escrowed
  <2> QED
    BY <2>1, <2>2 DEF Escrows!Next
<1> QED
  BY <1>1, <1>2, <1>3, EscrowsInitially, PTL DEF Spec, KeepsEscrows, Escrows!Spec

\* An order that has left the book and whose escrow is empty.
SettledUp(o) == place[o] = "resting" /\ book[o] = NoRow /\ Escrow(o) = 0

\* With one pair and no account closing, no command of a settlement, a cancel or a
\* placement puts money back behind an order, and an order that has left the book with
\* nothing behind it is never written back, refunded or filled again, however late the
\* command that meets it.
THEOREM EscrowNeverRefilled ==
    ASSUME OnePair, Closers = {}, IsFiniteSet(Orders)
    PROVE  Spec => [][\A o \in UserOrders :
                         /\ Escrow(o)' > Escrow(o) => place[o] = "new"
                         /\ SettledUp(o) => /\ SettledUp(o)'
                                            /\ refunded'[o] = refunded[o]
                                            /\ spent'[o] = spent[o]]_vars
<1> DEFINE Inv == MatcherInv /\ MoneyInv
           Stay == \A o \in UserOrders :
                      /\ Escrow(o)' > Escrow(o) => place[o] = "new"
                      /\ SettledUp(o) => /\ SettledUp(o)'
                                         /\ refunded'[o] = refunded[o]
                                         /\ spent'[o] = spent[o]
<1>1. Init => Inv
  BY MatcherInvInitially, MoneyInvInitially
<1>2. Inv /\ [Next]_vars => Inv'
  BY MoneyInvInductive
<1>3. Inv /\ Inv' /\ [Next]_vars => [Stay]_vars
  <2> SUFFICES ASSUME MatcherInv, MoneyInv, MoneyInv', [Next]_vars, NEW o \in UserOrders
               PROVE  /\ Escrow(o)' > Escrow(o) => place[o] = "new"
                      /\ SettledUp(o) => /\ SettledUp(o)'
                                         /\ refunded'[o] = refunded[o]
                                         /\ spent'[o] = spent[o]
    OBVIOUS
  <2>1. Draws(o)
    BY StepDraws
  <2>2. /\ Escrow(o) \in Int /\ Escrow(o) >= 0
        /\ place[o] \in {"new", "debited", "reserved", "resting"}
        /\ place[o] = "new" => Escrow(o) = 0
    BY EscrowIsRead DEF EscrowReads
  <2>3. Escrow(o)' \in Int /\ Escrow(o)' >= 0
    BY EscrowIsReadNext DEF EscrowReads
  <2>4. Cost(o) \in Nat /\ Cost(o) > 0
    BY CostPositive
  <2>5. /\ refunded'[o] \in Nat /\ refunded[o] \in Nat /\ spent'[o] \in Nat /\ spent[o] \in Nat
        /\ refunded'[o] >= refunded[o] /\ spent'[o] >= spent[o]
    BY <2>1 DEF Draws, UserOrders, MoneyInv, MoneyTyped
  <2>6. /\ Escrow(o) = Debited(o) - refunded[o] - spent[o]
        /\ Escrow(o)' = Debited(o)' - refunded'[o] - spent'[o]
    BY DEF Escrow
  <2>7. /\ place[o] # "new" => place'[o] # "new"
        /\ place[o] # "new" => Debited(o) = Cost(o) /\ Debited(o)' = Cost(o)
        /\ place[o] = "resting" => place'[o] = "resting"
    BY <2>1, <2>2 DEF Draws, Debited
  <2>8. Escrow(o)' > Escrow(o) => place[o] = "new"
    BY <2>4, <2>5, <2>6, <2>7
  <2>9. ASSUME SettledUp(o)
        PROVE  SettledUp(o)' /\ refunded'[o] = refunded[o] /\ spent'[o] = spent[o]
    <3>1. place[o] = "resting" /\ book[o] = NoRow /\ Escrow(o) = 0
      BY <2>9 DEF SettledUp
    <3>2. place'[o] = "resting" /\ book'[o] = NoRow
      BY <2>1, <2>7, <3>1 DEF Draws
    <3>3. Escrow(o)' = 0 /\ refunded'[o] = refunded[o] /\ spent'[o] = spent[o]
      BY <2>3, <2>4, <2>5, <2>6, <2>7, <3>1
    <3> QED
      BY <3>2, <3>3 DEF SettledUp
  <2> QED
    BY <2>8, <2>9
<1> QED
  BY <1>1, <1>2, <1>3, PTL DEF Spec

-----------------------------------------------------------------------------
\* Orders nobody is working on.

\* An order that no command names has nothing planned.
LEMMA UnnamedUnplanned ==
    ASSUME NEW t, NEW a, NEW o \in Orders, Settles(t, a, Nothing),
           \A i \in DOMAIN t : o # t[i].o
    PROVE  a.plan[o] = NoPlan
<1>1. PICK g \in [1..(Len(t) + 1) -> Agenda] :
        /\ g[1] = a /\ g[Len(t) + 1] = Nothing
        /\ \A i \in 1..Len(t) : Leads(t[i], g[i], g[i + 1])
  BY DEF Settles
<1>2. Len(t) \in Nat /\ DOMAIN t = 1..Len(t)
  <2>1. t \in Seq(OpRecord)
    BY DEF Settles
  <2> QED
    BY <2>1, LenProperties
<1> DEFINE n == Len(t)
           Bad == {k \in 0..n : g[n + 1 - k].plan[o] # NoPlan}
<1>3. ASSUME a.plan[o] # NoPlan PROVE FALSE
  <2>1. n \in Bad /\ Bad \subseteq Nat /\ Bad # {}
    BY <1>1, <1>2, <1>3
  <2> HIDE DEF Bad
  <2>2. PICK k \in Bad : \A j \in Bad : k <= j
    BY <2>1, LeastNatural
  <2>3. k \in 0..n /\ g[n + 1 - k].plan[o] # NoPlan
    BY <2>2 DEF Bad
  <2>4. k # 0
    <3>1. g[n + 1 - 0] = Nothing
      BY <1>1, <1>2
    <3> QED
      BY <2>3, <3>1, NothingToSettle
  <2> DEFINE i == n + 1 - k
  <2>5. i \in 1..n /\ i + 1 = n + 1 - (k - 1) /\ k - 1 \in 0..n /\ i + 1 \in 1..(n + 1)
    BY <1>2, <2>3, <2>4
  <2>6. g[i + 1].plan[o] = NoPlan
    <3>1. k - 1 \notin Bad
      BY <1>2, <2>2, <2>3
    <3>2. g[n + 1 - (k - 1)].plan[o] = NoPlan
      BY <2>5, <3>1 DEF Bad
    <3> QED
      BY <2>5, <3>2
  <2> HIDE DEF i
  <2>7. Leads(t[i], g[i], g[i + 1]) /\ o # t[i].o /\ g[i + 1] \in Agenda
    BY <1>1, <1>2, <2>5
  <2>8. g[i].plan[o] = NoPlan
    <3> DEFINE x == t[i]
               c == g[i]
               b == g[i + 1]
    <3>1. Leads(x, c, b) /\ o # x.o /\ b \in Agenda /\ b.plan[o] = NoPlan
      BY <2>6, <2>7
    <3> SUFFICES c.plan[o] = NoPlan
      BY DEF c
    <3> HIDE DEF x, c, b
    <3>2. CASE x.op = "match" /\ c = [b EXCEPT !.next = @ \cup {x}]
      <4>1. c.plan = b.plan
        BY <3>1, <3>2 DEF Agenda
      <4> QED
        BY <3>1, <4>1
    <3>3. CASE x.op = "break" /\ c = Nothing
      BY <3>3, NothingToSettle
    <3>4. CASE \A q \in Orders : q # x.o => c.plan[q] = b.plan[q]
      BY <3>1, <3>4
    <3> QED
      BY <3>1, <3>2, <3>3, <3>4 DEF Leads
  <2> QED
    BY <2>3, <2>8 DEF i
<1> QED
  BY <1>3

\* What such an order holds: what is in its row.
LEMMA IdleOrder ==
    ASSUME NEW p \in Pairs, NEW a, NEW o \in UserOrders, MatcherInv, MoneyInv, MoneyAt(p, a),
           ~InFlight(o)
    PROVE  /\ a.plan[o] = NoPlan /\ claim[o] = NoClaim /\ place[o] \in {"new", "resting"}
           /\ place[o] = "new" => book[o] = NoRow /\ Escrow(o) = 0
           /\ place[o] = "resting" =>
                 Holds(o, Escrow(o), IF book[o] # NoRow THEN Backing(o, book[o]) ELSE 0)
           /\ book[o] # NoRow => Sound(o, book[o], 0)
<1>1. o \in Orders /\ ~IsLadder(o) /\ OrderFits(p, o, a) /\ Settles(tick[p].todo, a, Nothing)
  BY DEF UserOrders, MoneyAt
<1>2. /\ place[o] \notin {"debited", "reserved"} /\ claim[o] = NoClaim
      /\ \A i \in DOMAIN tick[p].todo : o # tick[p].todo[i].o
  BY DEF InFlight
<1>3. a.plan[o] = NoPlan
  BY <1>1, <1>2, UnnamedUnplanned
<1>4. place[o] \in {"new", "resting"}
  BY <1>1, <1>2 DEF OrderFits
<1>5. place[o] = "new" => book[o] = NoRow
  BY <1>1 DEF MatcherInv, OrdersInv, Listed
<1>6. place[o] = "new" => Escrow(o) = 0
  BY EscrowIsRead DEF EscrowReads
<1>7. place[o] = "resting" =>
         Holds(o, Escrow(o), IF book[o] # NoRow THEN Backing(o, book[o]) ELSE 0)
  <2>1. place[o] = "resting" =>
           Holds(o, Escrow(o), Due(o, claim[o], book[o], tick[p].rows[o], a.plan[o]))
    BY <1>1 DEF OrderFits, Accounted
  <2>2. a.plan[o].mode = "none"
    BY <1>3 DEF NoPlan
  <2>3. Due(o, claim[o], book[o], tick[p].rows[o], a.plan[o])
          = IF book[o] # NoRow THEN Backing(o, book[o]) ELSE 0
    BY <1>2, <2>2 DEF Due
  <2> QED
    BY <2>1, <2>3
<1> QED
  BY <1>1, <1>2, <1>3, <1>4, <1>5, <1>6, <1>7 DEF OrderFits

\* What nobody is working on backs its row with what is left of its escrow.
LEMMA BackedWhenIdle ==
    ASSUME Lot = 1 \/ \A o \in Orders : IsMarket(o) => IsBuy(o), MatcherInv, MoneyInv
    PROVE  EscrowIsBacked
<1> SUFFICES ASSUME NEW o \in UserOrders, ~InFlight(o)
             PROVE  Escrow(o) = IF book[o] = NoRow THEN 0 ELSE Backing(o, book[o])
  BY DEF EscrowIsBacked
<1>1. pair(o) \in Pairs /\ Exact(o) /\ o \in Orders
  BY RequestAssumption DEF pair, Exact, UserOrders
<1>2. PICK a : MoneyAt(pair(o), a)
  BY <1>1 DEF MoneyInv
<1>3. /\ place[o] \in {"new", "resting"}
      /\ place[o] = "new" => book[o] = NoRow /\ Escrow(o) = 0
      /\ place[o] = "resting" =>
            Holds(o, Escrow(o), IF book[o] # NoRow THEN Backing(o, book[o]) ELSE 0)
  BY <1>1, <1>2, IdleOrder
<1> QED
  BY <1>1, <1>3 DEF Holds

\* Where the lot is the unit or no market order sells, the row of an order nobody is
\* working on holds exactly what is left of its escrow: a cancel pays back what is owed.
\* (A sell leaves what is below the lot in its escrow for good.)
THEOREM RowsBackEscrows ==
    ASSUME OnePair, Closers = {}, IsFiniteSet(Orders),
           Lot = 1 \/ \A o \in Orders : IsMarket(o) => IsBuy(o)
    PROVE  Spec => []EscrowIsBacked
<1> DEFINE Inv == MatcherInv /\ MoneyInv
<1>1. Init => Inv
  BY MatcherInvInitially, MoneyInvInitially
<1>2. Inv /\ [Next]_vars => Inv'
  BY MoneyInvInductive
<1>3. Inv => EscrowIsBacked
  BY BackedWhenIdle
<1> QED
  BY <1>1, <1>2, <1>3, PTL DEF Spec

-----------------------------------------------------------------------------
\* Sums over orders.

LEMMA FewerAdd ==
    ASSUME NEW S, NEW T, T \subseteq S, NEW v, NEW m, Additive(m, v, S)
    PROVE  Additive([U \in SUBSET T |-> m[U]], v, T)
<1> DEFINE k == [U \in SUBSET T |-> m[U]]
<1>1. m \in [SUBSET S -> Nat] /\ m[{}] = 0
      /\ \A U \in SUBSET S : \A x \in U : m[U] = v[x] + m[U \ {x}]
  BY DEF Additive
<1>2. \A U \in SUBSET T : U \in SUBSET S /\ k[U] = m[U]
  OBVIOUS
<1>3. k \in [SUBSET T -> Nat]
  BY <1>1
<1> HIDE DEF k
<1>4. \A U \in SUBSET T : \A x \in U : k[U] = v[x] + k[U \ {x}]
  <2> SUFFICES ASSUME NEW U \in SUBSET T, NEW x \in U PROVE k[U] = v[x] + k[U \ {x}]
    OBVIOUS
  <2>1. U \in SUBSET S /\ U \ {x} \in SUBSET T
    OBVIOUS
  <2> QED
    BY <1>1, <1>2, <2>1
<1>5. k[{}] = 0
  BY <1>1, <1>2
<1>6. Additive(k, v, T)
  BY <1>3, <1>4, <1>5 DEF Additive
<1> QED
  BY <1>6 DEF k

\* Orders that count for nothing do not change a sum.
LEMMA RestAddsNothing ==
    ASSUME NEW S, IsFiniteSet(S), NEW T, T \subseteq S, NEW v, NEW m, Additive(m, v, S),
           \A x \in S \ T : v[x] = 0
    PROVE  m[S] = m[T]
<1>1. m \in [SUBSET S -> Nat] /\ \A U \in SUBSET S : \A x \in U : m[U] = v[x] + m[U \ {x}]
  BY DEF Additive
<1> DEFINE Apart == {U \in SUBSET S : T \subseteq U /\ m[U] # m[T]}
           Sizes == {Cardinality(U) : U \in Apart}
<1>2. \A U \in SUBSET S : IsFiniteSet(U) /\ Cardinality(U) \in Nat
  BY FS_Subset, FS_CardinalityType
<1>3. ASSUME Apart # {} PROVE FALSE
  <2>1. \E n \in Sizes : \A i \in Sizes : n <= i
    <3>1. Sizes \subseteq Nat /\ Sizes # {}
      BY <1>2, <1>3
    <3> HIDE DEF Sizes
    <3> QED
      BY <3>1, LeastNatural
  <2>2. PICK U \in Apart : \A W \in Apart : Cardinality(U) <= Cardinality(W)
    BY <2>1
  <2>3. U \in SUBSET S /\ T \subseteq U /\ m[U] # m[T]
    BY <2>2
  <2>4. PICK x \in U : x \notin T
    <3>1. U # T
      BY <2>3
    <3> QED
      BY <2>3, <3>1
  <2> DEFINE W == U \ {x}
  <2>5. W \in SUBSET S /\ T \subseteq W
    BY <2>3, <2>4
  <2>6. Cardinality(W) = Cardinality(U) - 1
    BY <1>2, <2>3, FS_RemoveElement
  <2>7. m[U] = 0 + m[W] /\ m[W] \in Nat
    BY <1>1, <2>3, <2>4, <2>5
  <2> HIDE DEF W
  <2>8. W \in Apart
    BY <2>3, <2>5, <2>7
  <2> HIDE DEF Apart
  <2>9. Cardinality(U) <= Cardinality(W) /\ Cardinality(U) \in Nat
    BY <1>2, <2>2, <2>3, <2>8
  <2> QED
    BY <2>6, <2>9
<1> QED
  BY <1>3

LEMMA RemainingSum ==
    ASSUME NEW S, IsFiniteSet(S), NEW v, NEW m, Additive(m, v, S),
           \A o \in S : v[o] = reservationRemaining(o, book[o])
    PROVE  MapThenSumSet(LAMBDA o : reservationRemaining(o, book[o]), S) = m[S]
<1> DEFINE Pick(s) == CHOOSE x \in s : TRUE
           f(o) == reservationRemaining(o, book[o])
           Eqn(h) == h = [s \in SUBSET S |->
                             IF s = {} THEN 0 ELSE f(Pick(s)) + h[s \ {Pick(s)}]]
           iter == CHOOSE h : Eqn(h)
<1>1. MapThenSumSet(LAMBDA o : reservationRemaining(o, book[o]), S) = iter[S]
  BY DEF MapThenSumSet, MapThenFoldSet
<1>2. \A s \in SUBSET S : s # {} => Pick(s) \in s
  OBVIOUS
<1>3. \A o \in S : v[o] = f(o)
  OBVIOUS
<1> HIDE DEF f
<1>4. Eqn(m)
  <2> HIDE DEF Pick
  <2> QED
    BY <1>2, <1>3 DEF Additive
<1>5. Eqn(iter)
  <2> HIDE DEF Eqn
  <2> QED
    BY <1>4
<1> HIDE DEF iter
<1> DEFINE Apart == {s \in SUBSET S : iter[s] # m[s]}
           Sizes == {Cardinality(s) : s \in Apart}
<1>6. \A s \in SUBSET S : IsFiniteSet(s) /\ Cardinality(s) \in Nat
  BY FS_Subset, FS_CardinalityType
<1>7. ASSUME Apart # {} PROVE FALSE
  <2>1. \E n \in Sizes : \A i \in Sizes : n <= i
    <3>1. Sizes \subseteq Nat /\ Sizes # {}
      BY <1>6, <1>7
    <3> HIDE DEF Sizes
    <3> QED
      BY <3>1, LeastNatural
  <2>2. PICK s \in Apart : \A t \in Apart : Cardinality(s) <= Cardinality(t)
    BY <2>1
  <2>3. s \in SUBSET S /\ s # {}
    BY <1>4, <1>5, <2>2
  <2> DEFINE r == s \ {Pick(s)}
  <2>4. Pick(s) \in s /\ r \in SUBSET S
    BY <1>2, <2>3
  <2>5. Cardinality(r) = Cardinality(s) - 1
    BY <1>6, <2>3, <2>4, FS_RemoveElement
  <2>6. r \notin Apart
    <3> HIDE DEF r, Apart
    <3>1. Cardinality(s) \in Nat /\ Cardinality(r) < Cardinality(s)
      BY <1>6, <2>3, <2>4, <2>5
    <3> QED
      BY <1>6, <2>2, <2>4, <3>1
  <2>7. iter[r] = m[r]
    BY <2>4, <2>6
  <2>8. iter[s] = m[s]
    <3>1. m[s] = f(Pick(s)) + m[r] /\ iter[s] = f(Pick(s)) + iter[r]
      BY <1>4, <1>5, <2>3
    <3> HIDE DEF r, Pick
    <3> QED
      BY <2>7, <3>1
  <2> QED
    BY <2>2, <2>8
<1> QED
  BY <1>1, <1>7

\* What is reserved of a coin is what the resting limit orders still hold of it, once
\* nobody is working on one of them.
THEOREM ReservationsAddUp ==
    ASSUME OnePair, Pairs # {}, Closers = {}, IsFiniteSet(Orders)
    PROVE  Spec => []InOrderIsReservations
<1> DEFINE Inv == MatcherInv /\ MoneyInv
<1>1. Init => Inv
  BY MatcherInvInitially, MoneyInvInitially
<1>2. Inv /\ [Next]_vars => Inv'
  BY MoneyInvInductive
<1> PICK p \in Pairs : TRUE
  OBVIOUS
<1>3. Inv => InOrderIsReservations
  <2> DEFINE S(u, c) == {o \in UserOrders : IsLimit(o) /\ Field(o) = <<u, c>>}
  <2> SUFFICES ASSUME MatcherInv, MoneyInv, NEW u \in Users, NEW c \in Coins,
                      \A o \in S(u, c) : ~InFlight(o)
               PROVE  inOrder[<<u, c>>] =
                        MapThenSumSet(LAMBDA o : reservationRemaining(o, book[o]),
                                      {o \in S(u, c) : book[o] /= NoRow})
    BY DEF InOrderIsReservations
  <2> DEFINE f == <<u, c>>
             M == S(u, c)
             T == {o \in M : book[o] /= NoRow}
  <2>1. M = Mine(f) /\ M \subseteq Orders /\ M \subseteq UserOrders
        /\ \A o \in M : IsLimit(o) /\ ~InFlight(o)
    BY OrderFacts DEF Mine, UserOrders
  <2>2. f \in Users \X Coins
    OBVIOUS
  <2> HIDE DEF M, T
  <2>3. PICK a : MoneyAt(p, a)
    BY DEF MoneyInv
  <2> DEFINE v == OutstandingOf(p, a)
  <2>4. PICK m : Additive(m, v, M) /\ inOrder[f] = m[M]
    BY <2>1, <2>2, <2>3 DEF MoneyAt, Reserved, ReservedOf
  <2>5. ASSUME NEW o \in M
        PROVE  v[o] = IF book[o] # NoRow THEN reservationRemaining(o, book[o]) ELSE 0
    <3>1. /\ o \in Orders /\ o \in UserOrders /\ IsLimit(o) /\ ~IsLadder(o) /\ ~InFlight(o)
      BY <2>1, OrderFacts
    <3>2. /\ a.plan[o] = NoPlan /\ claim[o] = NoClaim /\ place[o] \in {"new", "resting"}
          /\ place[o] = "new" => book[o] = NoRow
          /\ book[o] # NoRow => Sound(o, book[o], 0)
      BY <2>3, <3>1, IdleOrder
    <3>3. book[o] # NoRow => reservationRemaining(o, book[o]) = Cost(o) - book[o].released
      BY <3>1, <3>2, SoundBacking
    <3>4. v[o] = IF book[o] # NoRow THEN Cost(o) - book[o].released ELSE 0
      BY <3>1, <3>2 DEF OutstandingOf, Outstanding, NoPlan
    <3> QED
      BY <3>3, <3>4
  <2> HIDE DEF v
  <2>6. IsFiniteSet(M) /\ IsFiniteSet(T) /\ T \subseteq M
    BY <2>1, FS_Subset DEF T
  <2>7. m[M] = m[T]
    <3>1. \A x \in M \ T : v[x] = 0
      BY <2>5 DEF T
    <3> QED
      BY <2>4, <2>6, <3>1, RestAddsNothing
  <2> DEFINE k == [U \in SUBSET T |-> m[U]]
  <2>8. Additive(k, v, T) /\ k[T] = m[T]
    <3>1. Additive([U \in SUBSET T |-> m[U]], v, T)
      BY <2>4, <2>6, FewerAdd
    <3> QED
      BY <3>1
  <2> HIDE DEF k
  <2>9. \A o \in T : v[o] = reservationRemaining(o, book[o])
    BY <2>5, <2>6 DEF T
  <2>10. MapThenSumSet(LAMBDA o : reservationRemaining(o, book[o]), T) = k[T]
    BY <2>6, <2>8, <2>9, RemainingSum
  <2> QED
    BY <2>4, <2>7, <2>8, <2>10 DEF T, M
<1> QED
  BY <1>1, <1>2, <1>3, PTL DEF Spec

-----------------------------------------------------------------------------
\* Sums over finite sets.

\* Induction over the parts of a finite set; G are those that have the property.
LEMMA FinitePartInduction ==
    ASSUME NEW S, IsFiniteSet(S), NEW G, {} \in G,
           \A T \in SUBSET S : T # {} /\ (\A x \in T : T \ {x} \in G) => T \in G
    PROVE  S \in G
<1> DEFINE Bad == {T \in SUBSET S : T \notin G}
           Sizes == {Cardinality(T) : T \in Bad}
<1>1. \A T \in SUBSET S : IsFiniteSet(T) /\ Cardinality(T) \in Nat
  BY FS_Subset, FS_CardinalityType
<1>2. ASSUME Bad # {} PROVE FALSE
  <2>1. \E n \in Sizes : \A i \in Sizes : n <= i
    <3>1. Sizes \subseteq Nat /\ Sizes # {}
      BY <1>1, <1>2
    <3> HIDE DEF Sizes
    <3> QED
      BY <3>1, LeastNatural
  <2>2. PICK T \in Bad : \A W \in Bad : Cardinality(T) <= Cardinality(W)
    BY <2>1
  <2>3. PICK x \in T : T \ {x} \notin G
    BY <2>2
  <2> DEFINE W == T \ {x}
  <2>4. W \in SUBSET S /\ W \notin G
    BY <2>2, <2>3
  <2>5. Cardinality(W) = Cardinality(T) - 1
    BY <1>1, <2>2, <2>3, FS_RemoveElement
  <2> HIDE DEF W
  <2>6. Cardinality(T) <= Cardinality(W) /\ Cardinality(T) \in Nat
    BY <1>1, <2>2, <2>4
  <2> QED
    BY <2>5, <2>6
<1> QED
  BY <1>2

\* The sum of v over S.
Total(v, S) == MapThenSumSet(LAMBDA x : v[x], S)

Adds(m, v, S) ==
    /\ m \in [SUBSET S -> Int] /\ m[{}] = 0
    /\ \A T \in SUBSET S : \A x \in T : m[T] = v[x] + m[T \ {x}]

LEMMA AddsExtended ==
    ASSUME NEW T, NEW x \in T, NEW v, v[x] \in Int, \A y \in T : v[y] \in Int,
           NEW m, Adds(m, v, T \ {x})
    PROVE  \E k : Adds(k, v, T)
<1> DEFINE k == [U \in SUBSET T |-> IF x \in U THEN v[x] + m[U \ {x}] ELSE m[U]]
<1>1. \A U \in SUBSET T : U \ {x} \in SUBSET (T \ {x}) /\ (x \notin U => U \in SUBSET (T \ {x}))
  OBVIOUS
<1>2. k \in [SUBSET T -> Int] /\ k[{}] = 0
  BY <1>1 DEF Adds
<1>3. ASSUME NEW U \in SUBSET T, NEW y \in U
      PROVE  k[U] = v[y] + k[U \ {y}]
  <2>1. CASE y = x
    BY <1>1, <2>1
  <2>2. CASE y # x /\ x \in U
    <3>1. (U \ {x}) \ {y} = (U \ {y}) \ {x}
      OBVIOUS
    <3>2. m[U \ {x}] = v[y] + m[(U \ {y}) \ {x}]
      <4>1. m[U \ {x}] = v[y] + m[(U \ {x}) \ {y}]
        BY <1>1, <2>2 DEF Adds
      <4> QED
        BY <3>1, <4>1
    <3>3. k[U] = v[x] + m[U \ {x}] /\ k[U \ {y}] = v[x] + m[(U \ {y}) \ {x}]
      BY <2>2
    <3>4. m[(U \ {y}) \ {x}] \in Int /\ v[y] \in Int /\ v[x] \in Int
      BY <1>1, <2>2 DEF Adds
    <3> HIDE DEF k
    <3> QED
      BY <3>2, <3>3, <3>4
  <2>3. CASE x \notin U
    BY <1>1, <2>3 DEF Adds
  <2> QED
    BY <2>1, <2>2, <2>3
<1> HIDE DEF k
<1> QED
  BY <1>2, <1>3 DEF Adds

LEMMA SumsExist ==
    ASSUME NEW S, IsFiniteSet(S), NEW v, \A x \in S : v[x] \in Int
    PROVE  \E m : Adds(m, v, S)
<1> DEFINE G == {T \in SUBSET S : \E m : Adds(m, v, T)}
<1>1. {} \in G
  <2>1. Adds([T \in SUBSET {} |-> 0], v, {})
    BY DEF Adds
  <2> QED
    BY <2>1
<1>2. ASSUME NEW T \in SUBSET S, T # {}, \A x \in T : T \ {x} \in G PROVE T \in G
  <2> PICK x \in T : TRUE
    BY <1>2
  <2>1. PICK m : Adds(m, v, T \ {x})
    BY <1>2
  <2> HIDE DEF G
  <2>2. \E k : Adds(k, v, T)
    BY <2>1, AddsExtended
  <2> QED
    BY <2>2 DEF G
<1>3. S \in G
  <2> HIDE DEF G
  <2> QED
    BY <1>1, <1>2, FinitePartInduction
<1> QED
  BY <1>3

LEMMA TotalIsSum ==
    ASSUME NEW S, IsFiniteSet(S), NEW v, NEW m, Adds(m, v, S)
    PROVE  Total(v, S) = m[S]
<1> DEFINE Pick(s) == CHOOSE x \in s : TRUE
           Eqn(h) == h = [s \in SUBSET S |->
                             IF s = {} THEN 0 ELSE v[Pick(s)] + h[s \ {Pick(s)}]]
           iter == CHOOSE h : Eqn(h)
<1>1. Total(v, S) = iter[S]
  BY DEF Total, MapThenSumSet, MapThenFoldSet
<1>2. \A s \in SUBSET S : s # {} => Pick(s) \in s
  OBVIOUS
<1>3. Eqn(m)
  <2> HIDE DEF Pick
  <2> QED
    BY <1>2 DEF Adds
<1>4. Eqn(iter)
  <2> HIDE DEF Eqn
  <2> QED
    BY <1>3
<1> HIDE DEF iter
<1> DEFINE G == {s \in SUBSET S : iter[s] = m[s]}
<1>5. {} \in G
  BY <1>3, <1>4
<1>6. ASSUME NEW s \in SUBSET S, s # {}, \A x \in s : s \ {x} \in G PROVE s \in G
  <2> DEFINE r == s \ {Pick(s)}
  <2>1. iter[r] = m[r]
    BY <1>2, <1>6
  <2>2. m[s] = v[Pick(s)] + m[r] /\ iter[s] = v[Pick(s)] + iter[r]
    BY <1>3, <1>4, <1>6
  <2> QED
    BY <2>1, <2>2
<1>7. S \in G
  <2> HIDE DEF G
  <2> QED
    BY <1>5, <1>6, FinitePartInduction
<1> QED
  BY <1>1, <1>7

\* A sum of named values is that of the function of them.
LEMMA RefundsNetted ==
    ASSUME NEW S, NEW v, \A o \in S : v[o] = refunded[o] - Debited(o)
    PROVE  MapThenSumSet(LAMBDA o : refunded[o] - Debited(o), S) = Total(v, S)
<1> DEFINE Pick(s) == CHOOSE x \in s : TRUE
           E1(h) == h = [s \in SUBSET S |->
                       IF s = {} THEN 0 ELSE (refunded[Pick(s)] - Debited(Pick(s))) + h[s \ {Pick(s)}]]
           E2(h) == h = [s \in SUBSET S |->
                       IF s = {} THEN 0 ELSE v[Pick(s)] + h[s \ {Pick(s)}]]
<1>1. \A s \in SUBSET S : s # {} => Pick(s) \in s
  OBVIOUS
<1>2. \A h : E1(h) <=> E2(h)
  <2> HIDE DEF Pick
  <2> QED
    BY <1>1
<1>3. (CHOOSE h : E1(h)) = (CHOOSE h : E2(h))
  <2> HIDE DEF E1, E2
  <2> QED
    BY <1>2
<1>4. Total(v, S) = (CHOOSE h : E2(h))[S]
  BY DEF Total, MapThenSumSet, MapThenFoldSet
<1>5. MapThenSumSet(LAMBDA o : refunded[o] - Debited(o), S) = (CHOOSE h : E1(h))[S]
  BY DEF MapThenSumSet, MapThenFoldSet
<1> QED
  BY <1>3, <1>4, <1>5

LEMMA PartsInduction ==
    ASSUME NEW S, IsFiniteSet(S), NEW G, {} \in G,
           \A T \in SUBSET S : \A x \in T : T \ {x} \in G => T \in G
    PROVE  \A T \in SUBSET S : T \in G
<1> SUFFICES ASSUME NEW T \in SUBSET S PROVE T \in G
  OBVIOUS
<1>1. IsFiniteSet(T)
  BY FS_Subset
<1>2. \A U \in SUBSET T : U # {} /\ (\A x \in U : U \ {x} \in G) => U \in G
  OBVIOUS
<1> QED
  BY <1>1, <1>2, FinitePartInduction

\* A sum over a part is read off the sums over all parts.
LEMMA TotalOfPart ==
    ASSUME NEW S, IsFiniteSet(S), NEW v, NEW m, Adds(m, v, S), NEW T \in SUBSET S
    PROVE  Total(v, T) = m[T] /\ m[T] \in Int
<1> DEFINE k == [U \in SUBSET T |-> m[U]]
<1>1. IsFiniteSet(T) /\ m[T] \in Int
  BY FS_Subset DEF Adds
<1>2. Adds(k, v, T)
  <2>1. k \in [SUBSET T -> Int] /\ k[{}] = 0
    BY DEF Adds
  <2>2. ASSUME NEW U \in SUBSET T, NEW x \in U PROVE k[U] = v[x] + k[U \ {x}]
    BY DEF Adds
  <2> HIDE DEF k
  <2> QED
    BY <2>1, <2>2 DEF Adds
<1>3. k[T] = m[T]
  OBVIOUS
<1> HIDE DEF k
<1>4. Total(v, T) = k[T]
  BY <1>1, <1>2, TotalIsSum
<1> QED
  BY <1>1, <1>3, <1>4

LEMMA PartGrows ==
    ASSUME NEW S, NEW v, NEW m, Adds(m, v, S), NEW R, NEW T \in SUBSET S, NEW x \in T,
           v[x] \in Int
    PROVE  m[T \cap R] = (IF x \in R THEN v[x] ELSE 0) + m[(T \ {x}) \cap R]
<1> DEFINE A == T \cap R
           B == (T \ {x}) \cap R
<1>1. A \in SUBSET S /\ B \in SUBSET S
  OBVIOUS
<1>2. CASE x \in R
  <2>1. x \in A /\ A \ {x} = B
    BY <1>2
  <2> HIDE DEF A, B
  <2>2. m[A] = v[x] + m[A \ {x}]
    BY <1>1, <2>1 DEF Adds
  <2>3. m[A] = (IF x \in R THEN v[x] ELSE 0) + m[B]
    BY <1>2, <2>1, <2>2
  <2> QED
    BY <2>3 DEF A, B
<1>3. CASE x \notin R
  <2>1. A = B
    BY <1>3
  <2> HIDE DEF A, B
  <2>2. m[B] \in Int
    BY <1>1 DEF Adds
  <2>3. m[A] = (IF x \in R THEN v[x] ELSE 0) + m[B]
    BY <1>3, <2>1, <2>2
  <2> QED
    BY <2>3 DEF A, B
<1> QED
  BY <1>2, <1>3

\* Over S, a share u is a v where the element is in R and a w where it is in Q.
Splits(S, R, Q, u, v, w) ==
    \A x \in S : /\ v[x] \in Int /\ w[x] \in Int
                 /\ u[x] = (IF x \in R THEN v[x] ELSE 0) + (IF x \in Q THEN w[x] ELSE 0)

\* The sums of such shares are the sums of v over what is in R, and those of
\* w over what is in Q.
LEMMA SumsCombine ==
    ASSUME NEW S, IsFiniteSet(S), NEW R, NEW Q, NEW u, NEW v, NEW w, NEW k, NEW m, NEW n,
           Adds(k, u, S), Adds(m, v, S), Adds(n, w, S), Splits(S, R, Q, u, v, w)
    PROVE  \A T \in SUBSET S : k[T] = m[T \cap R] + n[T \cap Q]
<1> DEFINE G == {T \in SUBSET S : k[T] = m[T \cap R] + n[T \cap Q]}
<1>1. {} \in G
  <2>1. {} \cap R = {} /\ {} \cap Q = {}
    OBVIOUS
  <2> QED
    BY <2>1 DEF Adds
<1>2. ASSUME NEW T \in SUBSET S, NEW x \in T, T \ {x} \in G PROVE T \in G
  <2> DEFINE U == T \ {x}
  <2>1. k[T] = u[x] + k[U] /\ k[U] = m[U \cap R] + n[U \cap Q]
    BY <1>2 DEF Adds
  <2>2. /\ m[T \cap R] = (IF x \in R THEN v[x] ELSE 0) + m[U \cap R]
        /\ n[T \cap Q] = (IF x \in Q THEN w[x] ELSE 0) + n[U \cap Q]
    <3>1. v[x] \in Int /\ w[x] \in Int
      BY DEF Splits
    <3>2. m[T \cap R] = (IF x \in R THEN v[x] ELSE 0) + m[U \cap R]
      BY <3>1, PartGrows
    <3>3. n[T \cap Q] = (IF x \in Q THEN w[x] ELSE 0) + n[U \cap Q]
      BY <3>1, PartGrows
    <3> HIDE DEF U
    <3> QED
      BY <3>2, <3>3
  <2>4. m[U \cap R] \in Int /\ n[U \cap Q] \in Int /\ v[x] \in Int /\ w[x] \in Int
    <3>1. U \cap R \in SUBSET S /\ U \cap Q \in SUBSET S
      OBVIOUS
    <3>2. v[x] \in Int /\ w[x] \in Int
      BY DEF Splits
    <3> QED
      BY <3>1, <3>2 DEF Adds
  <2>5. u[x] = (IF x \in R THEN v[x] ELSE 0) + (IF x \in Q THEN w[x] ELSE 0)
    BY DEF Splits
  <2> HIDE DEF U
  <2>6. k[T] = m[T \cap R] + n[T \cap Q]
    BY <2>1, <2>2, <2>4, <2>5
  <2> QED
    BY <2>6
<1> HIDE DEF G
<1>3. \A T \in SUBSET S : T \in G
  BY <1>1, <1>2, PartsInduction
<1> QED
  BY <1>3 DEF G

LEMMA SumsJoin ==
    ASSUME NEW S, IsFiniteSet(S), NEW v, NEW m, Adds(m, v, S), \A x \in S : v[x] \in Int,
           NEW A \in SUBSET S
    PROVE  \A B \in SUBSET S : A \cap B = {} => m[A \cup B] = m[A] + m[B]
<1> DEFINE G == {B \in SUBSET S : A \cap B = {} => m[A \cup B] = m[A] + m[B]}
<1>1. {} \in G
  <2>1. A \cup {} = A /\ m[A] \in Int /\ m[{}] = 0
    BY DEF Adds
  <2> QED
    BY <2>1
<1>2. ASSUME NEW B \in SUBSET S, NEW x \in B, B \ {x} \in G PROVE B \in G
  <2> SUFFICES ASSUME A \cap B = {} PROVE m[A \cup B] = m[A] + m[B]
    OBVIOUS
  <2> DEFINE U == B \ {x}
  <2>1. m[A \cup U] = m[A] + m[U] /\ m[B] = v[x] + m[U]
    BY <1>2 DEF Adds
  <2>2. m[A \cup B] = v[x] + m[A \cup U]
    <3>1. (A \cup B) \ {x} = A \cup U /\ x \in A \cup B /\ A \cup B \in SUBSET S
      OBVIOUS
    <3>2. m[A \cup B] = v[x] + m[(A \cup B) \ {x}]
      BY <3>1 DEF Adds
    <3> QED
      BY <3>1, <3>2
  <2>3. m[A] \in Int /\ m[U] \in Int /\ v[x] \in Int
    BY DEF Adds
  <2> HIDE DEF U
  <2> QED
    BY <2>1, <2>2, <2>3
<1> HIDE DEF G
<1>3. \A B \in SUBSET S : B \in G
  BY <1>1, <1>2, PartsInduction
<1> QED
  BY <1>3 DEF G

\* A value that changes moves the sum by as much.
LEMMA SumMoves ==
    ASSUME NEW S, NEW v, NEW m, Adds(m, v, S), NEW x \in S, v[x] \in Int,
           NEW w, w[x] \in Int, \A y \in S \ {x} : w[y] = v[y] /\ v[y] \in Int
    PROVE  \E k : Adds(k, w, S) /\ k[S] = m[S] - v[x] + w[x]
<1> DEFINE k == [T \in SUBSET S |-> IF x \in T THEN w[x] + m[T \ {x}] ELSE m[T]]
<1>1. k \in [SUBSET S -> Int] /\ k[{}] = 0
  BY DEF Adds
<1>2. ASSUME NEW T \in SUBSET S, NEW y \in T
      PROVE  k[T] = w[y] + k[T \ {y}]
  <2>1. CASE y = x
    BY <2>1
  <2>2. CASE y # x /\ x \in T
    <3>1. (T \ {x}) \ {y} = (T \ {y}) \ {x}
      OBVIOUS
    <3>2. m[T \ {x}] = v[y] + m[(T \ {y}) \ {x}]
      <4>1. m[T \ {x}] = v[y] + m[(T \ {x}) \ {y}]
        BY <2>2 DEF Adds
      <4> QED
        BY <3>1, <4>1
    <3>3. k[T] = w[x] + m[T \ {x}] /\ k[T \ {y}] = w[x] + m[(T \ {y}) \ {x}]
      BY <2>2
    <3>4. m[(T \ {y}) \ {x}] \in Int /\ w[y] = v[y] /\ v[y] \in Int
      BY <2>2 DEF Adds
    <3> HIDE DEF k
    <3> QED
      BY <3>2, <3>3, <3>4
  <2>3. CASE x \notin T
    BY <2>3 DEF Adds
  <2> QED
    BY <2>1, <2>2, <2>3
<1>3. k[S] = m[S] - v[x] + w[x]
  <2>1. m[S] = v[x] + m[S \ {x}] /\ m[S \ {x}] \in Int
    BY DEF Adds
  <2>2. k[S] = w[x] + m[S \ {x}]
    OBVIOUS
  <2> HIDE DEF k
  <2> QED
    BY <2>1, <2>2
<1>4. Adds(k, w, S)
  <2> HIDE DEF k
  <2> QED
    BY <1>1, <1>2 DEF Adds
<1> HIDE DEF k
<1> QED
  BY <1>3, <1>4

\* Sums of the sums over what belongs to each of U.
LEMMA SumsOfShares ==
    ASSUME NEW S, IsFiniteSet(S), NEW v, NEW m, Adds(m, v, S), \A x \in S : v[x] \in Int,
           NEW U, IsFiniteSet(U), NEW own, \A x \in S : own[x] \in U, NEW n \in Int,
           NEW w, NEW k, Adds(k, w, U),
           \A u \in U : w[u] = n + m[{x \in S : own[x] = u}]
    PROVE  k[U] = n * Cardinality(U) + m[S]
<1> DEFINE P(W) == {x \in S : own[x] \in W}
           G == {W \in SUBSET U : k[W] = n * Cardinality(W) + m[P(W)]}
<1>1. {} \in G
  <2>1. P({}) = {}
    OBVIOUS
  <2>2. m[{}] = 0 /\ k[{}] = 0 /\ Cardinality({}) = 0
    BY FS_EmptySet DEF Adds
  <2>3. n * Cardinality({}) = 0
    <3>1. \A i \in Int : i * 0 = 0
      OBVIOUS
    <3> QED
      BY <2>2, <3>1
  <2>4. {} \in SUBSET U
    OBVIOUS
  <2> DEFINE z == P({})  c == n * Cardinality({})
  <2> HIDE DEF P, z, c
  <2>5. k[{}] = c + m[z]
    <3>1. z = {} /\ c = 0
      BY <2>1, <2>3 DEF z, c
    <3> QED
      BY <2>2, <3>1
  <2> QED
    BY <2>4, <2>5 DEF z, c
<1>2. ASSUME NEW W \in SUBSET U, NEW u \in W, W \ {u} \in G PROVE W \in G
  <2> DEFINE V == W \ {u}
             F == {x \in S : own[x] = u}
  <2>1. k[W] = w[u] + k[V] /\ k[V] = n * Cardinality(V) + m[P(V)] /\ w[u] = n + m[F]
    BY <1>2 DEF Adds
  <2>2. m[P(W)] = m[P(V)] + m[F]
    <3>1. /\ P(V) \cup F = P(W) /\ P(V) \cap F = {}
          /\ P(V) \in SUBSET S /\ F \in SUBSET S
      OBVIOUS
    <3> HIDE DEF P, F, V
    <3>2. m[P(V) \cup F] = m[P(V)] + m[F]
      BY <3>1, SumsJoin
    <3> QED
      BY <3>1, <3>2
  <2>3. IsFiniteSet(W) /\ Cardinality(V) = Cardinality(W) - 1 /\ Cardinality(W) \in Nat
    BY FS_Subset, FS_RemoveElement, FS_CardinalityType
  <2>4. m[P(V)] \in Int /\ m[F] \in Int
    BY DEF Adds
  <2>5. k[W] = n * Cardinality(W) + m[P(W)]
    <3> DEFINE c == Cardinality(W)  d == Cardinality(V)
    <3>1. c \in Nat /\ d = c - 1
      BY <2>3
    <3> HIDE DEF c, d, P, F, V
    <3>2. n * d + n = n * c
      BY <3>1
    <3>3. n * d \in Int /\ n * c \in Int
      BY <3>1
    <3>4. k[W] = (n + m[F]) + (n * d + m[P(V)])
      BY <2>1 DEF d
    <3>5. k[W] = n * c + m[P(W)]
      <4> DEFINE nd == n * d  nc == n * c
      <4>1. nd \in Int /\ nc \in Int /\ nd + n = nc /\ k[W] = (n + m[F]) + (nd + m[P(V)])
        BY <3>2, <3>3, <3>4
      <4> HIDE DEF nd, nc
      <4>2. k[W] = nc + m[P(W)]
        BY <2>2, <2>4, <4>1
      <4> QED
        BY <4>2 DEF nc
    <3> QED
      BY <3>5 DEF c
  <2> QED
    BY <2>5
<1>3. \A W \in SUBSET U : W \in G
  <2> HIDE DEF G
  <2> QED
    BY <1>1, <1>2, PartsInduction
<1>4. P(U) = S
  OBVIOUS
<1> QED
  BY <1>3, <1>4

-----------------------------------------------------------------------------
\* What a tick has taken for a trade and not yet credited.

\* Of the coin c, a command pays Part to its order.
Part(x, c) == IF x.op = "credit" /\ GainCoin(x.o) = c THEN x.amount ELSE 0

Owing(x, c, m, n) == m = n + Part(x, c) /\ (x.op = "break" => m = 0 /\ n = 0)

\* The commands t, before commands that owe n of the coin c, owe m of it.
Owes(t, c, m, n) ==
    /\ \E R : t \in Seq(R)
    /\ \E g \in [1..(Len(t) + 1) -> Nat] :
          /\ g[1] = m /\ g[Len(t) + 1] = n
          /\ \A i \in 1..Len(t) : Owing(t[i], c, g[i], g[i + 1])

LEMMA OwesNone ==
    ASSUME NEW c, NEW n \in Nat
    PROVE  /\ Owes(<<>>, c, n, n)
           /\ \A m : Owes(<<>>, c, m, n) => m = n
<1> DEFINE g == [i \in 1..1 |-> n]
<1>1. <<>> \in Seq({}) /\ Len(<<>>) = 0
  BY EmptySeq
<1>2. g \in [1..1 -> Nat] /\ g[1] = n
  OBVIOUS
<1> HIDE DEF g
<1>3. 1..(Len(<<>>) + 1) = 1..1 /\ Len(<<>>) + 1 = 1 /\ 1..Len(<<>>) = {}
  BY <1>1
<1>4. Owes(<<>>, c, n, n)
  BY <1>1, <1>2, <1>3 DEF Owes
<1>5. ASSUME NEW m, Owes(<<>>, c, m, n) PROVE m = n
  BY <1>3, <1>5 DEF Owes
<1> QED
  BY <1>4, <1>5

LEMMA OwesOne ==
    ASSUME NEW x, NEW c, NEW m \in Nat, NEW n \in Nat, Owing(x, c, m, n)
    PROVE  Owes(<<x>>, c, m, n)
<1> DEFINE t == <<x>>
           g == [i \in 1..2 |-> IF i = 1 THEN m ELSE n]
<1>1. t \in Seq({x}) /\ Len(t) = 1 /\ t[1] = x
  OBVIOUS
<1>2. g \in [1..2 -> Nat] /\ g[1] = m /\ g[2] = n
  OBVIOUS
<1> HIDE DEF g, t
<1>3. 1..(Len(t) + 1) = 1..2 /\ Len(t) + 1 = 2 /\ \A i \in 1..Len(t) : i = 1 /\ i + 1 = 2
  BY <1>1
<1>4. \A i \in 1..Len(t) : Owing(t[i], c, g[i], g[i + 1])
  BY <1>1, <1>2, <1>3
<1>5. Owes(t, c, m, n)
  BY <1>1, <1>2, <1>3, <1>4 DEF Owes
<1> QED
  BY <1>5 DEF t

LEMMA OwesBoth ==
    ASSUME NEW s, NEW t, NEW coin, NEW a, NEW b, NEW c,
           Owes(s, coin, a, b), Owes(t, coin, b, c)
    PROVE  Owes(s \o t, coin, a, c)
<1>1. PICK f \in [1..(Len(s) + 1) -> Nat] :
        /\ f[1] = a /\ f[Len(s) + 1] = b
        /\ \A i \in 1..Len(s) : Owing(s[i], coin, f[i], f[i + 1])
  BY DEF Owes
<1>2. PICK g \in [1..(Len(t) + 1) -> Nat] :
        /\ g[1] = b /\ g[Len(t) + 1] = c
        /\ \A i \in 1..Len(t) : Owing(t[i], coin, g[i], g[i + 1])
  BY DEF Owes
<1>3. PICK R : s \in Seq(R) /\ t \in Seq(R)
  <2>1. PICK A, B : s \in Seq(A) /\ t \in Seq(B)
    BY DEF Owes
  <2>2. s \in Seq(A \cup B) /\ t \in Seq(A \cup B)
    BY <2>1, SeqMonotonic
  <2> QED
    BY <2>2
<1> DEFINE u == s \o t
           m == Len(s)
           n == Len(t)
           h == [i \in 1..(m + n + 1) |-> IF i <= m THEN f[i] ELSE g[i - m]]
<1>4. m \in Nat /\ n \in Nat
  BY <1>3, LenProperties
<1>5. /\ u \in Seq(R) /\ Len(u) = m + n
      /\ \A i \in 1..(m + n) : u[i] = IF i <= m THEN s[i] ELSE t[i - m]
  BY <1>3, ConcatProperties
<1> HIDE DEF u
<1>6. h \in [1..(m + n + 1) -> Nat]
  BY <1>4
<1>7. \A i \in 1..(m + 1) : h[i] = f[i]
  <2> SUFFICES ASSUME NEW i \in 1..(m + 1) PROVE h[i] = f[i]
    OBVIOUS
  <2>1. CASE i <= m
    BY <1>4, <2>1
  <2>2. CASE i = m + 1
    <3>1. h[i] = g[1]
      BY <1>4, <2>2
    <3> QED
      BY <1>1, <1>2, <2>2, <3>1
  <2> QED
    BY <1>4, <2>1, <2>2
<1>8. \A i \in 1..(n + 1) : h[m + i] = g[i]
  BY <1>4
<1> HIDE DEF h
<1>9. h[1] = a /\ h[m + n + 1] = c
  <2>1. 1 \in 1..(m + 1) /\ n + 1 \in 1..(n + 1) /\ m + (n + 1) = m + n + 1
    BY <1>4
  <2> HIDE DEF m, n
  <2>2. h[1] = f[1] /\ h[m + (n + 1)] = g[n + 1]
    BY <1>7, <1>8, <2>1
  <2> QED
    BY <1>1, <1>2, <2>1, <2>2 DEF m, n
<1>10. ASSUME NEW i \in 1..(m + n)
       PROVE  Owing(u[i], coin, h[i], h[i + 1])
  <2>1. CASE i <= m
    <3>1. i \in 1..m /\ i \in 1..(m + 1) /\ i + 1 \in 1..(m + 1)
      BY <1>4, <2>1
    <3>2. u[i] = s[i] /\ h[i] = f[i] /\ h[i + 1] = f[i + 1]
      BY <1>5, <1>7, <2>1, <3>1
    <3> QED
      BY <1>1, <3>1, <3>2
  <2>2. CASE ~(i <= m)
    <3> DEFINE j == i - m
    <3>1. /\ j \in 1..n /\ j \in 1..(n + 1) /\ j + 1 \in 1..(n + 1)
          /\ i = m + j /\ i + 1 = m + (j + 1)
      BY <1>4, <2>2
    <3>2. u[i] = t[j]
      BY <1>5, <2>2
    <3> HIDE DEF j
    <3>3. h[i] = g[j] /\ h[i + 1] = g[j + 1]
      BY <1>8, <3>1
    <3> QED
      BY <1>2, <3>1, <3>2, <3>3
  <2> QED
    BY <2>1, <2>2
<1>11. Owes(u, coin, a, c)
  BY <1>4, <1>5, <1>6, <1>9, <1>10 DEF Owes
<1> QED
  BY <1>11 DEF u

LEMMA OwesFirst ==
    ASSUME NEW t, t # <<>>, NEW c, NEW m, NEW n, Owes(t, c, m, n)
    PROVE  \E k \in Nat : Owing(Head(t), c, m, k) /\ Owes(Tail(t), c, k, n)
<1>1. PICK f \in [1..(Len(t) + 1) -> Nat] :
        /\ f[1] = m /\ f[Len(t) + 1] = n
        /\ \A i \in 1..Len(t) : Owing(t[i], c, f[i], f[i + 1])
  BY DEF Owes
<1>2. PICK R : t \in Seq(R)
  BY DEF Owes
<1> DEFINE r == Tail(t)
           l == Len(r)
           g == [i \in 1..(l + 1) |-> f[i + 1]]
<1>3. /\ Head(t) = t[1] /\ Len(t) \in Nat
      /\ r \in Seq(R) /\ l = Len(t) - 1 /\ l \in Nat
      /\ \A i \in 1..l : r[i] = t[i + 1]
  BY <1>2, HeadTailProperties, LenProperties
<1> HIDE DEF r, l
<1>4. g \in [1..(l + 1) -> Nat]
  BY <1>3
<1>5. g[1] = f[2] /\ f[2] \in Nat /\ g[l + 1] = n
  BY <1>1, <1>3
<1>6. ASSUME NEW i \in 1..l PROVE Owing(r[i], c, g[i], g[i + 1])
  <2>1. i + 1 \in 1..Len(t) /\ g[i] = f[i + 1] /\ g[i + 1] = f[(i + 1) + 1] /\ r[i] = t[i + 1]
    BY <1>3
  <2> QED
    BY <1>1, <2>1
<1> HIDE DEF g
<1>7. Owes(r, c, f[2], n)
  BY <1>3, <1>4, <1>5, <1>6 DEF Owes, l
<1>8. Owing(Head(t), c, m, f[2])
  BY <1>1, <1>3
<1> QED
  BY <1>5, <1>7, <1>8 DEF r

-----------------------------------------------------------------------------
\* Commands that credit nothing and break nothing off.
Silent(t) == \A c : \A n \in Nat : Owes(t, c, n, n)

LEMMA SilentNone == Silent(<<>>)
  BY OwesNone DEF Silent

LEMMA SilentOne ==
    ASSUME NEW x, x.op \notin {"credit", "break"}
    PROVE  Silent(<<x>>)
<1> SUFFICES ASSUME NEW c, NEW n \in Nat PROVE Owes(<<x>>, c, n, n)
  BY DEF Silent
<1>1. Owing(x, c, n, n)
  BY DEF Owing, Part
<1> QED
  BY <1>1, OwesOne

LEMMA SilentBoth ==
    ASSUME NEW s, NEW t, Silent(s), Silent(t)
    PROVE  Silent(s \o t)
<1> SUFFICES ASSUME NEW c, NEW n \in Nat PROVE Owes(s \o t, c, n, n)
  BY DEF Silent
<1>1. Owes(s, c, n, n) /\ Owes(t, c, n, n)
  BY DEF Silent
<1> QED
  BY <1>1, OwesBoth

LEMMA CommandsAreSilent ==
    ASSUME NEW o, NEW a
    PROVE  /\ Silent(Refund(o, a)) /\ Silent(Release(o, a)) /\ Silent(ReleaseAll(o))
           /\ Silent(Hdel(o)) /\ Silent(Hset(o))
           /\ Silent(<<Op("write", o, a)>>) /\ Silent(<<Op("writeAll", o, a)>>)
<1>1. /\ Op("refund", o, a).op = "refund" /\ Op("release", o, a).op = "release"
      /\ Op("releaseAll", o, 0).op = "releaseAll" /\ Op("hdel", o, 0).op = "hdel"
      /\ Op("hset", o, 0).op = "hset" /\ Op("write", o, a).op = "write"
      /\ Op("writeAll", o, a).op = "writeAll"
  BY DEF Op
<1>2. Silent(<<Op("refund", o, a)>>)
  BY <1>1, SilentOne
<1>3. Silent(Release(o, a))
  BY <1>1, SilentOne DEF Release
<1>4. Silent(ReleaseAll(o)) /\ Silent(Hdel(o)) /\ Silent(Hset(o))
  BY <1>1, SilentOne DEF ReleaseAll, Hdel, Hset
<1>5. Silent(<<Op("write", o, a)>>) /\ Silent(<<Op("writeAll", o, a)>>)
  BY <1>1, SilentOne
<1> QED
  BY <1>2, <1>3, <1>4, <1>5, SilentNone DEF Refund

LEMMA SidesAreSilent ==
    ASSUME NEW o \in Orders, NEW row, NEW e, NEW price, NEW others
    PROVE  Silent(FillSide(o, row, e, price, others).ops)
<1> DEFINE H == Hdel(o)
           I == Hset(o)
<1>1. Silent(H \o I) /\ Silent(H)
  BY CommandsAreSilent, SilentBoth
<1>2. \A a : Silent(Refund(o, a) \o H)
  BY CommandsAreSilent, SilentBoth
<1>3. Silent(LadderSide(o, row, e).ops)
  BY <1>1 DEF LadderSide
<1>4. Silent(MarketBuySide(o, row, e, price, others).ops)
  BY <1>1, <1>2 DEF MarketBuySide
<1>5. Silent(MarketSellSide(o, row, e, others).ops)
  BY <1>1, <1>2 DEF MarketSellSide
<1>6. Silent(LimitSide(o, row, e, price).ops)
  <2>1. \A a : Silent(Release(o, a) \o H \o I)
    <3> TAKE a
    <3>1. Silent(Release(o, a) \o H)
      BY CommandsAreSilent, SilentBoth
    <3> QED
      BY <3>1, CommandsAreSilent, SilentBoth
  <2>2. \A a : Silent(ReleaseAll(o) \o Refund(o, a) \o H)
    <3> TAKE a
    <3>1. Silent(ReleaseAll(o) \o Refund(o, a))
      BY CommandsAreSilent, SilentBoth
    <3> QED
      BY <3>1, CommandsAreSilent, SilentBoth
  <2> DEFINE left == toFixedDown(row.qty - e)
             used == e * (IF IsBuy(o) THEN row.price ELSE 1)
             improved == IF IsBuy(o) THEN Refund(o, e * (row.price - price)) ELSE <<>>
             settled == IF left = 0
                          THEN ReleaseAll(o)
                               \o Refund(o, unspentReservationOf(o, row, used)) \o H
                          ELSE Release(o, used) \o H \o I
  <2>3. Silent(settled)
    BY <2>1, <2>2
  <2>4. Silent(improved)
    BY CommandsAreSilent, SilentNone
  <2>5. LimitSide(o, row, e, price).ops = improved \o settled
    BY DEF LimitSide
  <2> HIDE DEF improved, settled
  <2>6. Silent(improved \o settled)
    BY <2>3, <2>4, SilentBoth
  <2> QED
    BY <2>5, <2>6
<1> HIDE DEF H, I
<1> QED
  BY <1>3, <1>4, <1>5, <1>6 DEF FillSide

-----------------------------------------------------------------------------
\* What fills take of a coin is credited.

\* What an order has had of the coin c, less what fills took from it.
GainOf(o, c) == IF GainCoin(o) = c THEN earned[o] ELSE 0
LossOf(o, c) == IF CostCoin(o) = c THEN spent[o] ELSE 0
FlowOf(c) == [o \in Orders |-> GainOf(o, c) - LossOf(o, c)]

BalancedBy(c, m, n) == Adds(m, FlowOf(c), Orders) /\ m[Orders] + n = 0

Balanced(p, c) ==
    \E n \in Nat : Owes(tick[p].todo, c, n, 0) /\ \E m : BalancedBy(c, m, n)

BalanceInv == \A p \in Pairs : \A c \in Coins : Balanced(p, c)

LEMMA FlowTyped ==
    ASSUME MoneyTyped, NEW c, NEW o \in Orders
    PROVE  /\ GainOf(o, c) \in Nat /\ LossOf(o, c) \in Nat
           /\ FlowOf(c)[o] \in Int /\ FlowOf(c)[o] = GainOf(o, c) - LossOf(o, c)
<1>1. earned[o] \in Nat /\ spent[o] \in Nat
  BY DEF MoneyTyped
<1>2. GainOf(o, c) \in Nat /\ LossOf(o, c) \in Nat
  BY <1>1 DEF GainOf, LossOf
<1>3. FlowOf(c)[o] = GainOf(o, c) - LossOf(o, c)
  BY DEF FlowOf
<1> QED
  BY <1>2, <1>3

\* A step that neither credits nor fills, and owes after it what it owed.
LEMMA BalanceKept ==
    ASSUME NEW p, NEW c, Balanced(p, c), earned' = earned, spent' = spent,
           \A n \in Nat : Owes(tick[p].todo, c, n, 0) => Owes(tick'[p].todo, c, n, 0)
    PROVE  Balanced(p, c)'
<1>1. PICK n, m : n \in Nat /\ Owes(tick[p].todo, c, n, 0) /\ BalancedBy(c, m, n)
  BY DEF Balanced
<1>2. FlowOf(c)' = FlowOf(c)
  BY DEF FlowOf, GainOf, LossOf
<1>3. BalancedBy(c, m, n)'
  BY <1>1, <1>2 DEF BalancedBy
<1>4. Owes(tick'[p].todo, c, n, 0)
  BY <1>1
<1> QED
  BY <1>1, <1>3, <1>4 DEF Balanced

LEMMA CreditBalances ==
    ASSUME NEW p \in Pairs, NEW c, Balanced(p, c), MoneyTyped,
           tick[p].todo # <<>>, NEW x, x = Head(tick[p].todo), x \in OpRecord, x.op = "credit",
           tick'[p].todo = Tail(tick[p].todo), spent' = spent,
           earned' = [earned EXCEPT ![x.o] = @ + x.amount]
    PROVE  Balanced(p, c)'
<1>1. PICK n, m : n \in Nat /\ Owes(tick[p].todo, c, n, 0) /\ BalancedBy(c, m, n)
  BY DEF Balanced
<1>2. PICK k \in Nat : Owing(x, c, n, k) /\ Owes(Tail(tick[p].todo), c, k, 0)
  BY <1>1, OwesFirst
<1> DEFINE o == x.o
           v == FlowOf(c)
           w == FlowOf(c)'
<1>3. o \in Orders /\ x.amount \in Nat /\ Part(x, c) \in Nat
  BY DEF OpRecord, Part
<1>4. earned \in [Orders -> Nat]
  BY DEF MoneyTyped
<1>5. \A q \in Orders : earned'[q] = IF q = o THEN earned[q] + x.amount ELSE earned[q]
  BY <1>3, <1>4
<1>6. GainOf(o, c)' = GainOf(o, c) + Part(x, c) /\ LossOf(o, c)' = LossOf(o, c)
  BY <1>3, <1>4, <1>5 DEF GainOf, LossOf, Part
<1>7. \A q \in Orders : w[q] = GainOf(q, c)' - LossOf(q, c)'
  BY DEF FlowOf
<1>8. \A q \in Orders : v[q] \in Int /\ v[q] = GainOf(q, c) - LossOf(q, c)
  BY FlowTyped
<1>9. w[o] = v[o] + Part(x, c) /\ w[o] \in Int
  <2>1. GainOf(o, c) \in Nat /\ LossOf(o, c) \in Nat
    BY <1>3, FlowTyped
  <2> HIDE DEF v, w
  <2>2. w[o] = GainOf(o, c)' - LossOf(o, c)' /\ v[o] = GainOf(o, c) - LossOf(o, c)
    BY <1>3, <1>7, <1>8
  <2> QED
    BY <1>3, <1>6, <2>1, <2>2
<1>10. \A q \in Orders \ {o} : w[q] = v[q] /\ v[q] \in Int
  <2> SUFFICES ASSUME NEW q \in Orders, q # o PROVE w[q] = v[q]
    BY <1>8
  <2>1. GainOf(q, c)' = GainOf(q, c) /\ LossOf(q, c)' = LossOf(q, c)
    BY <1>5 DEF GainOf, LossOf
  <2> HIDE DEF v, w
  <2> QED
    BY <1>7, <1>8, <2>1
<1>11. Adds(m, v, Orders) /\ m[Orders] + n = 0 /\ m[Orders] \in Int
  BY <1>1 DEF BalancedBy, Adds
<1>12. v[o] \in Int
  BY <1>3, <1>8
<1> HIDE DEF v, w, o
<1>13. PICK l : Adds(l, w, Orders) /\ l[Orders] = m[Orders] - v[o] + w[o]
  <2>1. o \in Orders /\ v[o] \in Int /\ w[o] \in Int /\ Adds(m, v, Orders)
    BY <1>3, <1>9, <1>11, <1>12
  <2> QED
    BY <1>10, <2>1, SumMoves
<1>14. n = k + Part(x, c)
  BY <1>2 DEF Owing
<1>15. l[Orders] + k = 0
  BY <1>3, <1>9, <1>11, <1>12, <1>13, <1>14
<1>16. BalancedBy(c, l, k)'
  BY <1>13, <1>15 DEF BalancedBy, w
<1>17. Owes(tick'[p].todo, c, k, 0)
  BY <1>2
<1> QED
  BY <1>16, <1>17 DEF Balanced

\* A trade owes each side what it takes from the other.
LEMMA TradeBalances ==
    ASSUME OnePair, UserOrders = Orders, NEW p \in Pairs, NEW c, MoneyTyped,
           tick = [q \in Pairs |-> tick[q]], TickShape(p),
           NEW b \in Orders, NEW s \in Orders, IsBuy(b), ~IsBuy(s), NEW e \in Nat,
           NEW price \in Nat, NEW rows, NEW rest, Trade(p, rows, b, s, e, price, rest),
           earned' = earned,
           NEW n \in Nat, Owes(rest, c, n, 0), NEW m, BalancedBy(c, m, n)
    PROVE  Balanced(p, c)'
<1> DEFINE buys == tick[p].buys
           sells == tick[p].sells
           buyer == FillSide(b, rows[b], e, price, \E i \in DOMAIN sells : sells[i] /= s)
           buysLeft == IF buyer.done /\ buys /= <<>> THEN Tail(buys) ELSE buys
           seller == FillSide(s, rows[s], e, price, buysLeft /= <<>>)
           sellsLeft == IF seller.done /\ sells /= <<>> THEN Tail(sells) ELSE sells
           t == buyer.ops \o seller.ops \o settlementCredit(b, e)
                   \o settlementCredit(s, e * price) \o rest
           row == [rows EXCEPT ![b] = buyer.row, ![s] = seller.row]
           x == Op("credit", b, e)
           y == Op("credit", s, e * price)
           v == FlowOf(c)
           w == FlowOf(c)'
<1>1. ~IsLadder(b) /\ ~IsLadder(s) /\ \A o \in Orders : ~IsLadder(o)
  BY DEF UserOrders
<1>2. e * price \in Nat
  BY ProductsGrow
<1>3. tick'[p].todo = t
  <2>1. tick' = [tick EXCEPT ![p].rows = row, ![p].buys = buysLeft,
                             ![p].sells = sellsLeft, ![p].todo = t]
    BY DEF Trade
  <2> HIDE DEF row, buysLeft, sellsLeft, t
  <2>2. tick'[p] = [at |-> tick[p].at, buys |-> buysLeft, sells |-> sellsLeft,
                    rows |-> row, todo |-> t]
    BY <2>1 DEF TickShape
  <2> QED
    BY <2>2
<1>4. spent' = [o \in Orders |->
             IF IsLadder(o) THEN 0
             ELSE IF o = b THEN spent[o] + e * price
             ELSE IF o = s THEN spent[o] + e
             ELSE spent[o]]
  BY DEF Trade
<1>5. b # s
  OBVIOUS
<1>6. /\ spent'[b] = spent[b] + e * price /\ spent'[s] = spent[s] + e
      /\ \A o \in Orders \ {b, s} : spent'[o] = spent[o]
  BY <1>1, <1>4, <1>5
<1>7. /\ CostCoin(b) = Quote /\ GainCoin(s) = Quote
      /\ GainCoin(b) = CostCoin(s)
  <2>1. pair(b) = pair(s)
    <3>1. pair(b) \in Pairs /\ pair(s) \in Pairs
      BY RequestAssumption DEF pair
    <3> QED
      BY <3>1 DEF OnePair
  <2> QED
    BY <2>1 DEF CostCoin, GainCoin
<1>8. /\ x.op = "credit" /\ x.o = b /\ x.amount = e
      /\ y.op = "credit" /\ y.o = s /\ y.amount = e * price
  BY DEF Op
<1> HIDE DEF x, y
<1>9. Part(x, c) \in Nat /\ Part(y, c) \in Nat
  BY <1>2, <1>8 DEF Part
<1> DEFINE ny == n + Part(y, c)
           nx == ny + Part(x, c)
<1>10. ny \in Nat /\ nx \in Nat
  BY <1>9
<1>11. Owes(t, c, nx, 0)
  <2>1. /\ settlementCredit(b, e) = <<x>> /\ settlementCredit(s, e * price) = <<y>>
    BY <1>1 DEF settlementCredit, x, y
  <2>2. Owing(y, c, ny, n) /\ Owing(x, c, nx, ny)
    BY <1>8 DEF Owing
  <2> HIDE DEF nx, ny
  <2>3. Owes(<<y>>, c, ny, n) /\ Owes(<<x>>, c, nx, ny)
    BY <1>10, <2>2, OwesOne
  <2>4. Owes(buyer.ops, c, nx, nx) /\ Owes(seller.ops, c, nx, nx)
    <3>1. Silent(buyer.ops) /\ Silent(seller.ops)
      BY SidesAreSilent
    <3> HIDE DEF buyer, seller
    <3> QED
      BY <1>10, <3>1 DEF Silent
  <2> DEFINE A == buyer.ops
             B == seller.ops
  <2> HIDE DEF buyer, seller
  <2>5. Owes(A, c, nx, nx) /\ Owes(B, c, nx, nx)
    BY <2>4
  <2> HIDE DEF A, B
  <2>6. Owes(A \o B, c, nx, nx)
    BY <2>5, OwesBoth
  <2>7. Owes(A \o B \o <<x>>, c, nx, ny)
    BY <2>3, <2>6, OwesBoth
  <2>8. Owes(A \o B \o <<x>> \o <<y>>, c, nx, n)
    BY <2>3, <2>7, OwesBoth
  <2>9. Owes(A \o B \o <<x>> \o <<y>> \o rest, c, nx, 0)
    BY <2>8, OwesBoth
  <2> QED
    BY <2>1, <2>9 DEF A, B
<1> HIDE DEF t, buysLeft, sellsLeft, buyer, seller, row
<1>12. \A q \in Orders : w[q] = GainOf(q, c)' - LossOf(q, c)'
  BY DEF FlowOf
<1>13. \A q \in Orders : /\ v[q] = GainOf(q, c) - LossOf(q, c) /\ v[q] \in Int
                         /\ GainOf(q, c) \in Nat /\ LossOf(q, c) \in Nat
  BY FlowTyped
<1>14. \A q \in Orders : GainOf(q, c)' = GainOf(q, c)
  BY DEF GainOf
<1>15. /\ LossOf(b, c)' = LossOf(b, c) + Part(y, c)
       /\ LossOf(s, c)' = LossOf(s, c) + Part(x, c)
       /\ \A q \in Orders \ {b, s} : LossOf(q, c)' = LossOf(q, c)
  <2>1. spent[b] \in Nat /\ spent[s] \in Nat
    BY DEF MoneyTyped
  <2>2. LossOf(b, c)' = LossOf(b, c) + Part(y, c)
    BY <1>2, <1>6, <1>7, <1>8, <2>1 DEF LossOf, Part
  <2>3. LossOf(s, c)' = LossOf(s, c) + Part(x, c)
    BY <1>6, <1>7, <1>8, <2>1 DEF LossOf, Part
  <2>4. \A q \in Orders \ {b, s} : LossOf(q, c)' = LossOf(q, c)
    BY <1>6 DEF LossOf
  <2> QED
    BY <2>2, <2>3, <2>4
<1> HIDE DEF v, w
<1>16. /\ w[b] = v[b] - Part(y, c) /\ w[s] = v[s] - Part(x, c)
       /\ w[b] \in Int /\ w[s] \in Int
       /\ \A q \in Orders \ {b, s} : w[q] = v[q] /\ v[q] \in Int
  <2>1. ASSUME NEW q \in Orders, NEW d \in Nat, LossOf(q, c)' = LossOf(q, c) + d
        PROVE  w[q] = v[q] - d /\ w[q] \in Int
    BY <1>12, <1>13, <1>14, <2>1
  <2>2. ASSUME NEW q \in Orders \ {b, s} PROVE w[q] = v[q] /\ v[q] \in Int
    BY <1>12, <1>13, <1>14, <1>15
  <2>3. w[b] = v[b] - Part(y, c) /\ w[b] \in Int
    BY <1>9, <1>15, <2>1
  <2>4. w[s] = v[s] - Part(x, c) /\ w[s] \in Int
    BY <1>9, <1>15, <2>1
  <2> QED
    BY <2>2, <2>3, <2>4
<1>17. Adds(m, v, Orders) /\ m[Orders] + n = 0 /\ m[Orders] \in Int
  BY DEF BalancedBy, Adds, v
<1> DEFINE u == [q \in Orders |-> IF q = b THEN w[b] ELSE v[q]]
<1>18. /\ u[b] = w[b] /\ u[s] = v[s] /\ \A q \in Orders \ {b} : u[q] = v[q] /\ v[q] \in Int
       /\ \A q \in Orders \ {s} : w[q] = u[q] /\ u[q] \in Int
       /\ v[b] \in Int /\ v[s] \in Int
  BY <1>5, <1>13, <1>16
<1> HIDE DEF u
<1>19. PICK k : Adds(k, u, Orders) /\ k[Orders] = m[Orders] - v[b] + u[b]
  <2>1. u[b] \in Int
    BY <1>16, <1>18
  <2> QED
    BY <1>17, <1>18, <2>1, SumMoves
<1>20. PICK l : Adds(l, w, Orders) /\ l[Orders] = k[Orders] - u[s] + w[s]
  <2>1. u[s] \in Int
    BY <1>18
  <2> QED
    BY <1>16, <1>18, <1>19, <2>1, SumMoves
<1>21. l[Orders] + nx = 0
  <2> DEFINE px == Part(x, c)  py == Part(y, c)
  <2>1. /\ w[b] = v[b] - py /\ w[s] = v[s] - px /\ px \in Nat /\ py \in Nat
        /\ nx = (n + py) + px
    BY <1>9, <1>16
  <2>2. l[Orders] = (m[Orders] - v[b] + w[b]) - v[s] + w[s]
    BY <1>18, <1>19, <1>20
  <2> HIDE DEF px, py, nx
  <2> QED
    BY <1>16, <1>17, <1>18, <2>1, <2>2
<1>22. BalancedBy(c, l, nx)'
  <2> HIDE DEF nx
  <2> QED
    BY <1>20, <1>21 DEF BalancedBy, w
<1>23. Owes(tick'[p].todo, c, nx, 0)
  BY <1>3, <1>11
<1> HIDE DEF nx
<1> QED
  BY <1>10, <1>22, <1>23 DEF Balanced

\* Steps of a tick that leave its commands.
LEMMA TodoKept ==
    ASSUME MatcherInv, NEW p \in Pairs,
           \/ StartTick(p) \/ SyncLadder(p) \/ ArmAndReadBuys(p) \/ ReadSells(p) \/ Spin(p)
           \/ BeginMatching(p) \/ OneSided(p) \/ FinishTick(p)
           \/ \E buys, sells : Dropping(p, buys, sells)
           \/ tick' = [tick EXCEPT ![p].at = "breaking"]
    PROVE  tick'[p].todo = tick[p].todo
<1>1. TickShape(p) /\ IdleInv(p) /\ tick = [q \in Pairs |-> tick[q]]
  BY DEF MatcherInv, TickInv
<1>2. ASSUME NEW at, tick' = [tick EXCEPT ![p].at = at] PROVE tick'[p].todo = tick[p].todo
  BY <1>1, <1>2 DEF TickShape
<1>3. ASSUME NEW at, NEW rows, tick' = [tick EXCEPT ![p].at = at, ![p].rows = rows]
      PROVE  tick'[p].todo = tick[p].todo
  BY <1>1, <1>3 DEF TickShape
<1>4. ASSUME NEW buys, NEW sells, Dropping(p, buys, sells)
      PROVE  tick'[p].todo = tick[p].todo
  BY <1>1, <1>4 DEF TickShape, Dropping
<1>5. CASE OneSided(p) \/ FinishTick(p)
  <2>1. tick' = [tick EXCEPT ![p] = IdleTick]
    BY <1>5 DEF OneSided, FinishTick, EndTick
  <2>2. tick'[p].todo = <<>>
    BY <1>1, <2>1 DEF IdleTick
  <2>3. tick[p].todo = <<>>
    BY <1>1, <1>5 DEF OneSided, FinishTick, At, IdleInv
  <2> QED
    BY <2>2, <2>3
<1>6. CASE StartTick(p) \/ SyncLadder(p) \/ Spin(p)
  BY <1>2, <1>6 DEF StartTick, SyncLadder, Spin
<1>7. CASE ArmAndReadBuys(p) \/ ReadSells(p)
  BY <1>3, <1>7 DEF ArmAndReadBuys, ReadSells
<1>8. CASE BeginMatching(p)
  <2>1. PICK buys, sells :
           tick' = [tick EXCEPT ![p].at = "matching", ![p].buys = buys, ![p].sells = sells]
    BY <1>8 DEF BeginMatching
  <2> QED
    BY <1>1, <2>1 DEF TickShape
<1> QED
  BY <1>2, <1>4, <1>5, <1>6, <1>7, <1>8

\* A turn that settles nothing drops orders or queues matches.
LEMMA TurnOwes ==
    ASSUME MatcherInv, NEW p \in Pairs, NEW c,
           TurnBothMarket(p) \/ TurnMarketBuy(p) \/ TurnMarketSell(p)
    PROVE  \A n \in Nat : Owes(tick[p].todo, c, n, 0) => Owes(tick'[p].todo, c, n, 0)
<1>1. TickShape(p) /\ tick = [q \in Pairs |-> tick[q]] /\ tick[p].todo = <<>>
  BY TurnFacts DEF TurnBothMarket, TurnMarketBuy, TurnMarketSell
<1>2. \A taker, other, u : Silent(Match(taker, other, u))
  <2> TAKE taker, other, u
  <2> DEFINE x == [op |-> "match", o |-> taker, amount |-> u, with |-> other]
  <2>1. x.op \notin {"credit", "break"}
    OBVIOUS
  <2> HIDE DEF x
  <2>2. Silent(<<x>>)
    BY <2>1, SilentOne
  <2> QED
    BY <2>2 DEF Match, x
<1>3. ASSUME NEW t, Silent(t), tick' = [tick EXCEPT ![p].todo = t]
      PROVE  \A n \in Nat : Owes(tick[p].todo, c, n, 0) => Owes(tick'[p].todo, c, n, 0)
  <2> TAKE n \in Nat
  <2> HAVE Owes(tick[p].todo, c, n, 0)
  <2>1. tick'[p].todo = t
    BY <1>1, <1>3 DEF TickShape
  <2>2. n = 0
    <3>1. Owes(<<>>, c, n, 0) /\ 0 \in Nat
      BY <1>1
    <3> QED
      BY <3>1, OwesNone
  <2> QED
    BY <1>3, <2>1, <2>2 DEF Silent
<1>4. ASSUME NEW buys, NEW sells, Dropping(p, buys, sells)
      PROVE  \A n \in Nat : Owes(tick[p].todo, c, n, 0) => Owes(tick'[p].todo, c, n, 0)
  <2>1. tick'[p].todo = tick[p].todo
    BY <1>4, TodoKept
  <2> QED
    BY <2>1
<1>5. CASE TurnMarketBuy(p)
  BY <1>2, <1>3, <1>4, <1>5 DEF TurnMarketBuy
<1>6. CASE TurnMarketSell(p)
  BY <1>2, <1>3, <1>4, <1>6 DEF TurnMarketSell
<1>7. CASE TurnBothMarket(p)
  <2> DEFINE b == tick[p].buys[1]
             s == tick[p].sells[1]
             i == FirstLimit(p, tick[p].buys)
             j == FirstLimit(p, tick[p].sells)
             first == IF j /= 0 THEN Match(b, tick[p].sells[j], Lot) ELSE <<>>
             second == IF i /= 0 THEN Match(s, tick[p].buys[i], Lot) ELSE <<>>
  <2>1. Silent(first) /\ Silent(second)
    BY <1>2, SilentNone
  <2>2. \/ \E buys, sells : Dropping(p, buys, sells)
        \/ tick' = [tick EXCEPT ![p].todo = first \o second]
    BY <1>7 DEF TurnBothMarket
  <2> HIDE DEF first, second
  <2>3. Silent(first \o second)
    BY <2>1, SilentBoth
  <2> QED
    BY <1>3, <1>4, <2>2, <2>3
<1> QED
  BY <1>5, <1>6, <1>7

\* A command that pays nobody is done with.
LEMMA SilentHead ==
    ASSUME NEW t, t # <<>>, Head(t).op \notin {"credit", "break"}, NEW c,
           NEW n \in Nat, Owes(t, c, n, 0)
    PROVE  Owes(Tail(t), c, n, 0)
<1>1. PICK k \in Nat : Owing(Head(t), c, n, k) /\ Owes(Tail(t), c, k, 0)
  BY OwesFirst
<1>2. n = k
  BY <1>1 DEF Owing, Part
<1> QED
  BY <1>1, <1>2

LEMMA CommandOwes ==
    ASSUME MatcherInv, NEW p \in Pairs, NEW c,
           \/ TickRefund(p) \/ TickHdel(p) \/ TickHset(p) \/ TickBreak(p)
           \/ TickReadInOrder(p) \/ TickWriteInOrder(p)
    PROVE  \A n \in Nat : Owes(tick[p].todo, c, n, 0) => Owes(tick'[p].todo, c, n, 0)
<1> TAKE n \in Nat
<1> HAVE Owes(tick[p].todo, c, n, 0)
<1> DEFINE x == Head(tick[p].todo)
           t == Tail(tick[p].todo)
<1>1. /\ tick[p].todo # <<>> /\ tick[p].at = "matching"
      /\ TickShape(p) /\ tick = [q \in Pairs |-> tick[q]]
  BY SettlingMatches, MatchingFacts
     DEF TickRefund, TickHdel, TickHset, TickBreak, TickReadInOrder, TickWriteInOrder
<1>2. CASE TickBreak(p)
  <2>1. x.op = "break"
    BY <1>2 DEF TickBreak, NextOp
  <2>2. \E k \in Nat : Owing(x, c, n, k) /\ Owes(t, c, k, 0)
    BY <1>1, OwesFirst
  <2>3. n = 0
    BY <2>1, <2>2 DEF Owing
  <2>4. tick'[p].todo = <<>>
    BY <1>1, <1>2 DEF TickBreak, TickShape
  <2> QED
    BY <2>3, <2>4, OwesNone
<1>3. CASE TickRefund(p) \/ TickHdel(p) \/ TickHset(p)
  <2>1. x.op \notin {"credit", "break"}
    BY <1>3 DEF TickRefund, TickHdel, TickHset, NextOp
  <2>2. tick' = [tick EXCEPT ![p].todo = t]
    BY <1>3 DEF TickRefund, TickHdel, TickHset, Done
  <2> HIDE DEF t
  <2>3. tick'[p].todo = t
    BY <1>1, <2>2 DEF TickShape
  <2> QED
    BY <1>1, <2>1, <2>3, SilentHead DEF t
<1>4. CASE TickReadInOrder(p) \/ TickWriteInOrder(p)
  <2>1. x.op \notin {"credit", "break"}
    BY <1>4 DEF TickReadInOrder, TickWriteInOrder, NextOp
  <2>2. Owes(t, c, n, 0)
    BY <1>1, <2>1, SilentHead
  <2>3. \E r, u : Silent(u) /\ tick' = [tick EXCEPT ![p].rows[x.o] = r, ![p].todo = u \o t]
    <3>1. CASE TickReadInOrder(p)
      <4> DEFINE row == tick[p].rows[x.o]
                 final == x.op = "releaseAll"
                 release == IF final THEN reservationRemaining(x.o, row)
                            ELSE AtMost(x.amount, reservationRemaining(x.o, row))
                 applied == AtMost(release, Positive(inOrder[Field(x.o)]))
                 write == Op(IF final THEN "writeAll" ELSE "write", x.o, applied)
                 r == IF final /\ applied = 0 THEN Retired(x.o, row) ELSE row
                 u == IF applied > 0 THEN <<write>> ELSE <<>>
      <4>1. tick' = [tick EXCEPT ![p].rows[x.o] = r, ![p].todo = u \o t]
        BY <3>1 DEF TickReadInOrder
      <4>2. write.op \in {"write", "writeAll"}
        BY DEF Op
      <4> HIDE DEF write, r
      <4>3. Silent(u)
        BY <4>2, SilentOne, SilentNone
      <4> HIDE DEF u
      <4> QED
        BY <4>1, <4>3
    <3>2. CASE TickWriteInOrder(p)
      <4> DEFINE row == tick[p].rows[x.o]
                 r == IF x.op = "writeAll" THEN Retired(x.o, row)
                      ELSE [row EXCEPT !.released = @ + x.amount]
      <4>1. tick' = [tick EXCEPT ![p].rows[x.o] = r, ![p].todo = t]
        BY <3>2 DEF TickWriteInOrder
      <4>2. <<>> \o t = t
        <5>1. PICK R : tick[p].todo \in Seq(R)
          BY DEF Owes
        <5>2. t \in Seq(R)
          BY <1>1, <5>1, HeadTailProperties
        <5> HIDE DEF t
        <5> QED
          BY <5>2, ConcatEmptySeq
      <4> HIDE DEF r, t
      <4>3. tick' = [tick EXCEPT ![p].rows[x.o] = r, ![p].todo = <<>> \o t]
        BY <4>1, <4>2
      <4> QED
        BY <4>3, SilentNone
    <3> QED
      BY <1>4, <3>1, <3>2
  <2>4. PICK r, u : Silent(u) /\ tick' = [tick EXCEPT ![p].rows[x.o] = r, ![p].todo = u \o t]
    BY <2>3
  <2> HIDE DEF t
  <2>5. tick'[p].todo = u \o t
    <3> DEFINE z == u \o t  y == x.o
    <3>1. tick' = [tick EXCEPT ![p].rows[y] = r, ![p].todo = z]
      BY <2>4
    <3> HIDE DEF z, y
    <3>2. tick'[p].todo = z
      BY <1>1, <3>1 DEF TickShape
    <3> QED
      BY <3>2 DEF z
  <2>6. Owes(u, c, n, n)
    BY <2>4 DEF Silent
  <2>7. Owes(u \o t, c, n, 0)
    BY <2>2, <2>6, OwesBoth
  <2> QED
    BY <2>5, <2>7
<1> QED
  BY <1>2, <1>3, <1>4

LEMMA MatchBalances ==
    ASSUME OnePair, UserOrders = Orders, MatcherInv, NEW p \in Pairs, NEW a, MoneyTyped,
           MoneyAt(p, a), TickMatch(p), NEW c, Balanced(p, c)
    PROVE  Balanced(p, c)'
<1>1. NextOp(p, "match") /\ MarketMatch(p) /\ earned' = earned
  BY DEF TickMatch, MarketMatch
<1>2. /\ tick[p].todo # <<>> /\ TickShape(p) /\ tick = [q \in Pairs |-> tick[q]]
      /\ \E x, d : MatchHas(p, a, x, d)
  BY <1>1, MatchFacts
<1>3. PICK x, d : MatchHas(p, a, x, d)
  BY <1>2
<1> DEFINE o == x.o
           w == x.with
           price == tick[p].rows[w].price
           value == tick[p].rows[o].value
           afford == ((value \div price) \div x.amount) * x.amount
           q == IF IsBuy(o) THEN afford ELSE value
           rows == [tick[p].rows EXCEPT ![o].price = price, ![o].qty = q]
           b == IF IsBuy(o) THEN o ELSE w
           s == IF IsBuy(o) THEN w ELSE o
           e == Executed(rows[b], rows[s])
           rest == Tail(tick[p].todo)
<1>4. x = Head(tick[p].todo) /\ MatchFits(p, a, x) /\ RowsTyped(p)
  BY <1>3 DEF MoneyAt, MatchHas
<1>5. PICK n, m : n \in Nat /\ Owes(tick[p].todo, c, n, 0) /\ BalancedBy(c, m, n)
  BY DEF Balanced
<1>6. Owes(rest, c, n, 0)
  <2>1. Head(tick[p].todo).op \notin {"credit", "break"}
    BY <1>1 DEF NextOp
  <2> QED
    BY <1>2, <1>5, <2>1, SilentHead
<1>7. /\ o \in Orders /\ w \in Orders /\ IsMarket(o) /\ IsBuy(o) # IsBuy(w)
      /\ x.amount \in Nat \ {0}
  BY <1>3 DEF MatchHas, OpRecord
<1>8. tick[p].rows[o] \in Row /\ tick[p].rows[w] \in Row /\ price # Market
  <2>1. /\ Fresh(o, book[o], tick[p].rows[o]) /\ price # Market
        /\ \/ Fresh(w, book[w], tick[p].rows[w])
           \/ Finished(w, book[w], tick[p].rows[w])
    BY <1>4 DEF MatchFits
  <2> QED
    BY <2>1 DEF Fresh, Finished, Over
<1>9. price \in Nat \ {0} /\ value \in Nat /\ tick[p].rows[w].qty \in Nat
  BY <1>8, RowTyped DEF Market
<1>10. afford \in Nat
  <2> HIDE DEF price, value
  <2> QED
    BY <1>7, <1>9, WhatIsAfforded
<1>11. q \in Nat
  BY <1>9, <1>10
<1>12. /\ \/ e > 0 /\ Trade(p, rows, b, s, e, price, rest)
          \/ spent' = spent /\ tick' = [tick EXCEPT ![p].rows = rows, ![p].todo = rest]
  BY <1>1, <1>4 DEF MarketMatch
<1> HIDE DEF afford, q, price, value
<1>13. o # w
  BY <1>7
<1>14. rows[o].qty = q /\ rows[w].qty = tick[p].rows[w].qty
  <2> DEFINE z == tick[p].rows
  <2>1. z \in [Orders -> Row \cup {NoRow}] /\ z[o] \in Row
    BY <1>4, <1>8 DEF RowsTyped
  <2>2. rows = [[z EXCEPT ![o].price = price] EXCEPT ![o].qty = q]
    OBVIOUS
  <2> DEFINE y == [z[o] EXCEPT !.price = price]
  <2>3. rows[o] = [y EXCEPT !.qty = q] /\ rows[w] = z[w]
    BY <1>7, <1>13, <2>1
  <2>4. y = [qty |-> z[o].qty, price |-> price, value |-> z[o].value,
             released |-> z[o].released]
    BY <2>1 DEF Row
  <2> HIDE DEF y, z, rows
  <2>5. rows[o].qty = q
    BY <2>3, <2>4
  <2> QED
    BY <2>3, <2>5 DEF z
<1> HIDE DEF rows, rest
<1>15. e \in Nat
  <2>1. rows[b].qty \in Nat /\ rows[s].qty \in Nat
    BY <1>9, <1>11, <1>14
  <2> QED
    BY <2>1 DEF Executed, AtMost
<1>16. CASE e > 0 /\ Trade(p, rows, b, s, e, price, rest)
  <2>1. b \in Orders /\ s \in Orders /\ IsBuy(b) /\ ~IsBuy(s)
    BY <1>7 DEF IsBuy
  <2>2. price \in Nat
    BY <1>9
  <2> HIDE DEF e, b, s
  <2> QED
    BY <1>1, <1>2, <1>5, <1>6, <1>15, <1>16, <2>1, <2>2, TradeBalances
<1>17. CASE spent' = spent /\ tick' = [tick EXCEPT ![p].rows = rows, ![p].todo = rest]
  <2>1. tick'[p].todo = rest
    BY <1>2, <1>17 DEF TickShape
  <2>2. FlowOf(c)' = FlowOf(c)
    BY <1>1, <1>17 DEF FlowOf, GainOf, LossOf
  <2>3. BalancedBy(c, m, n)'
    BY <1>5, <2>2 DEF BalancedBy
  <2> QED
    BY <1>5, <1>6, <2>1, <2>3 DEF Balanced
<1> QED
  BY <1>12, <1>16, <1>17

LEMMA LimitsBalance ==
    ASSUME OnePair, UserOrders = Orders, MatcherInv, NEW p \in Pairs, NEW a, MoneyTyped,
           MoneyAt(p, a), TurnLimit(p), NEW c, Balanced(p, c)
    PROVE  Balanced(p, c)'
<1> DEFINE b == tick[p].buys[1]
           s == tick[p].sells[1]
           rows == tick[p].rows
           e == Executed(rows[b], rows[s])
<1>1. Turn(p) /\ earned' = earned
  BY DEF TurnLimit
<1>2. /\ tick[p].todo = <<>> /\ TickShape(p) /\ tick = [q \in Pairs |-> tick[q]]
      /\ ListOf(tick[p].buys, Ready(p, Nothing)) /\ tick[p].buys # <<>>
      /\ ListOf(tick[p].sells, Ready(p, Nothing)) /\ tick[p].sells # <<>>
      /\ b \in Bids(p) /\ s \in Asks(p)
      /\ \A o \in Ready(p, Nothing) :
            /\ o \in Orders
            /\ \/ Fresh(o, book[o], tick[p].rows[o])
               \/ Finished(o, book[o], tick[p].rows[o])
  BY <1>1, TurnHas
<1>3. /\ b \in Orders /\ IsBuy(b) /\ s \in Orders /\ ~IsBuy(s)
      /\ b \in Ready(p, Nothing) /\ s \in Ready(p, Nothing)
  BY <1>2, ListOfTail DEF Bids, Asks, Held
<1>4. rows[b] \in Row /\ rows[s] \in Row
  BY <1>2, <1>3 DEF Fresh, Finished, Over
<1>5. /\ rows[b].qty \in Nat /\ rows[b].price \in Nat
      /\ rows[s].qty \in Nat /\ rows[s].price \in Nat
  BY <1>4, RowTyped
<1>6. e \in Nat
  BY <1>5 DEF Executed, AtMost
<1>7. PICK n, m : n \in Nat /\ Owes(tick[p].todo, c, n, 0) /\ BalancedBy(c, m, n)
  BY DEF Balanced
<1>8. n = 0
  <2>1. Owes(<<>>, c, n, 0) /\ 0 \in Nat
    BY <1>2, <1>7
  <2> QED
    BY <2>1, OwesNone
<1>9. Owes(Break(b), c, n, 0)
  <2> DEFINE x == Op("break", b, 0)
  <2>1. x.op = "break"
    BY DEF Op
  <2>2. Owing(x, c, 0, 0)
    BY <2>1 DEF Owing, Part
  <2> HIDE DEF x
  <2>3. Owes(<<x>>, c, 0, 0)
    BY <2>2, OwesOne
  <2> QED
    BY <1>8, <2>3 DEF Break, x
<1>10. \/ /\ spent' = spent
          /\ \/ tick' = [tick EXCEPT ![p].at = "breaking"]
             \/ \E buys, sells : Dropping(p, buys, sells)
       \/ \E maker \in {b, s} : Trade(p, rows, b, s, e, rows[maker].price, Break(b))
  BY DEF TurnLimit
<1>11. CASE /\ spent' = spent
            /\ \/ tick' = [tick EXCEPT ![p].at = "breaking"]
               \/ \E buys, sells : Dropping(p, buys, sells)
  <2>1. tick'[p].todo = tick[p].todo
    BY <1>11, TodoKept
  <2> QED
    BY <1>1, <1>11, <2>1, BalanceKept
<1>12. ASSUME NEW maker \in {b, s}, Trade(p, rows, b, s, e, rows[maker].price, Break(b))
       PROVE  Balanced(p, c)'
  <2> DEFINE price == rows[maker].price
             rest == Break(b)
  <2>1. price \in Nat /\ Trade(p, rows, b, s, e, price, rest) /\ Owes(rest, c, n, 0)
    BY <1>5, <1>9, <1>12
  <2> HIDE DEF price, rest, b, s, e, rows
  <2> QED
    BY <1>1, <1>2, <1>3, <1>6, <1>7, <2>1, TradeBalances
<1> QED
  BY <1>10, <1>11, <1>12

LEMMA TickStepBalances ==
    ASSUME OnePair, UserOrders = Orders, MatcherInv, NEW p \in Pairs, NEW a, MoneyTyped,
           MoneyAt(p, a), TickStep(p), NEW c, Balanced(p, c)
    PROVE  Balanced(p, c)'
<1>1. CASE TickMatch(p)
  BY <1>1, MatchBalances
<1>2. CASE TurnLimit(p)
  BY <1>2, LimitsBalance
<1>3. CASE SyncLadder(p) \/ ArmAndReadBuys(p) \/ ReadSells(p) \/ OneSided(p)
           \/ BeginMatching(p) \/ FinishTick(p)
  <2>1. tick'[p].todo = tick[p].todo
    BY <1>3, TodoKept
  <2>2. earned' = earned /\ spent' = spent
    BY <1>3 DEF SyncLadder, ArmAndReadBuys, ReadSells, OneSided, BeginMatching,
                FinishTick, EndTick, money
  <2> QED
    BY <2>1, <2>2, BalanceKept
<1>4. CASE TurnBothMarket(p) \/ TurnMarketBuy(p) \/ TurnMarketSell(p)
  <2>1. \A n \in Nat : Owes(tick[p].todo, c, n, 0) => Owes(tick'[p].todo, c, n, 0)
    BY <1>4, TurnOwes
  <2>2. earned' = earned /\ spent' = spent
    BY <1>4 DEF TurnBothMarket, TurnMarketBuy, TurnMarketSell, money
  <2> QED
    BY <2>1, <2>2, BalanceKept
<1>5. CASE TickRefund(p) \/ TickHdel(p) \/ TickHset(p)
           \/ TickReadInOrder(p) \/ TickWriteInOrder(p) \/ TickBreak(p)
  <2>1. \A n \in Nat : Owes(tick[p].todo, c, n, 0) => Owes(tick'[p].todo, c, n, 0)
    BY <1>5, CommandOwes
  <2>2. earned' = earned /\ spent' = spent
    BY <1>5 DEF TickRefund, TickHdel, TickHset, TickReadInOrder, TickWriteInOrder,
                TickBreak, money
  <2> QED
    BY <2>1, <2>2, BalanceKept
<1>6. CASE TickCredit(p)
  <2>1. NextOp(p, "credit") /\ Done(p) /\ spent' = spent
    BY <1>6 DEF TickCredit
  <2>2. /\ tick[p].todo # <<>> /\ TickShape(p) /\ tick = [q \in Pairs |-> tick[q]]
    BY <2>1, SettlingMatches, MatchingFacts
  <2> DEFINE x == Head(tick[p].todo)
  <2>3. x \in OpRecord /\ x.op = "credit"
    <3>1. Settles(tick[p].todo, a, Nothing)
      BY DEF MoneyAt
    <3> QED
      BY <2>1, <2>2, <3>1, SettlesFirst DEF NextOp
  <2>4. tick'[p].todo = Tail(tick[p].todo)
    BY <2>1, <2>2 DEF Done, TickShape
  <2>5. earned' = [earned EXCEPT ![x.o] = @ + x.amount]
    BY <1>6 DEF TickCredit
  <2> HIDE DEF x
  <2>6. x = Head(tick[p].todo)
    BY DEF x
  <2> QED
    BY <2>1, <2>2, <2>3, <2>4, <2>5, <2>6, CreditBalances
<1> QED
  BY <1>1, <1>2, <1>3, <1>4, <1>5, <1>6 DEF TickStep

LEMMA BalanceInvInitially == IsFiniteSet(Orders) /\ Init => BalanceInv
<1> SUFFICES ASSUME IsFiniteSet(Orders), Init, NEW p \in Pairs, NEW c PROVE Balanced(p, c)
  BY DEF BalanceInv
<1>1. /\ earned = [o \in Orders |-> 0] /\ spent = [o \in Orders |-> 0]
      /\ tick[p].todo = <<>>
  BY DEF Init, IdleTick
<1> DEFINE v == FlowOf(c)
           m == [T \in SUBSET Orders |-> 0]
<1>2. \A o \in Orders : v[o] = 0
  BY <1>1 DEF FlowOf, GainOf, LossOf
<1> HIDE DEF v
<1>3. Adds(m, v, Orders)
  BY <1>2 DEF Adds
<1>4. m[Orders] + 0 = 0
  OBVIOUS
<1> HIDE DEF m
<1>5. BalancedBy(c, m, 0)
  BY <1>3, <1>4 DEF BalancedBy, v
<1>6. Owes(tick[p].todo, c, 0, 0)
  BY <1>1, OwesNone
<1> QED
  BY <1>5, <1>6 DEF Balanced

LEMMA BalanceInvInductive ==
    ASSUME OnePair, Closers = {}, UserOrders = Orders
    PROVE  MatcherInv /\ MoneyInv /\ BalanceInv /\ [Next]_vars => BalanceInv'
<1> SUFFICES ASSUME MatcherInv, MoneyInv, BalanceInv, [Next]_vars,
                    NEW p \in Pairs, NEW c \in Coins
             PROVE  Balanced(p, c)'
  BY DEF BalanceInv, Coins
<1>1. Balanced(p, c) /\ MoneyTyped
  BY DEF BalanceInv, MoneyInv
<1>2. PICK a : MoneyAt(p, a)
  BY DEF MoneyInv
<1>3. ASSUME NEW o \in Orders,
             \/ DebitLimit(o) \/ DebitMarket(o) \/ PlaceStep(o)
             \/ CancelOrder(o) \/ ClaimStep(o)
      PROVE  Balanced(p, c)'
  <2>1. tick' = tick /\ earned' = earned /\ spent' = spent
    BY <1>3 DEF DebitLimit, DebitMarket, Debit, PlaceStep, Reserve, ListLimit, ListMarket,
                List, CancelOrder, ClaimStep, ClaimRefund, ClaimReadInOrder,
                ClaimWriteInOrder, money, matcher
  <2> QED
    BY <1>1, <2>1, BalanceKept
<1>4. ASSUME NEW q \in Pairs, StartTick(q) \/ Spin(q)
      PROVE  Balanced(p, c)'
  <2>1. q = p
    BY DEF OnePair
  <2>2. tick'[p].todo = tick[p].todo
    BY <1>4, <2>1, TodoKept
  <2>3. earned' = earned /\ spent' = spent
    BY <1>4 DEF StartTick, Spin, money
  <2> QED
    BY <1>1, <2>2, <2>3, BalanceKept
<1>5. ASSUME NEW q \in Pairs, TickStep(q)
      PROVE  Balanced(p, c)'
  <2>1. q = p
    BY DEF OnePair
  <2> QED
    BY <1>1, <1>2, <1>5, <2>1, TickStepBalances
<1>6. CASE UNCHANGED vars
  <2>1. tick' = tick /\ earned' = earned /\ spent' = spent
    BY <1>6 DEF vars
  <2> QED
    BY <1>1, <2>1, BalanceKept
<1> QED
  BY <1>3, <1>4, <1>5, <1>6 DEF Next

\* Sums of named values are those of functions of them.
LEMMA FreeSummed ==
    ASSUME NEW S, NEW c, NEW v, \A u \in S : v[u] = Free(u, c)
    PROVE  MapThenSumSet(LAMBDA u : Free(u, c), S) = Total(v, S)
<1> DEFINE Pick(s) == CHOOSE x \in s : TRUE
           E1(h) == h = [s \in SUBSET S |->
                       IF s = {} THEN 0 ELSE Free(Pick(s), c) + h[s \ {Pick(s)}]]
           E2(h) == h = [s \in SUBSET S |->
                       IF s = {} THEN 0 ELSE v[Pick(s)] + h[s \ {Pick(s)}]]
<1>1. \A s \in SUBSET S : s # {} => Pick(s) \in s
  OBVIOUS
<1>2. \A h : E1(h) <=> E2(h)
  <2> HIDE DEF Pick
  <2> QED
    BY <1>1
<1>3. (CHOOSE h : E1(h)) = (CHOOSE h : E2(h))
  <2> HIDE DEF E1, E2
  <2> QED
    BY <1>2
<1>4. Total(v, S) = (CHOOSE h : E2(h))[S]
  BY DEF Total, MapThenSumSet, MapThenFoldSet
<1>5. MapThenSumSet(LAMBDA u : Free(u, c), S) = (CHOOSE h : E1(h))[S]
  BY DEF MapThenSumSet, MapThenFoldSet
<1> QED
  BY <1>3, <1>4, <1>5

LEMMA BackingSummed ==
    ASSUME NEW S, NEW v, \A o \in S : v[o] = Backing(o, book[o])
    PROVE  MapThenSumSet(LAMBDA o : Backing(o, book[o]), S) = Total(v, S)
<1> DEFINE Pick(s) == CHOOSE x \in s : TRUE
           E1(h) == h = [s \in SUBSET S |->
                       IF s = {} THEN 0 ELSE Backing(Pick(s), book[Pick(s)]) + h[s \ {Pick(s)}]]
           E2(h) == h = [s \in SUBSET S |->
                       IF s = {} THEN 0 ELSE v[Pick(s)] + h[s \ {Pick(s)}]]
<1>1. \A s \in SUBSET S : s # {} => Pick(s) \in s
  OBVIOUS
<1>2. \A h : E1(h) <=> E2(h)
  <2> HIDE DEF Pick
  <2> QED
    BY <1>1
<1>3. (CHOOSE h : E1(h)) = (CHOOSE h : E2(h))
  <2> HIDE DEF E1, E2
  <2> QED
    BY <1>2
<1>4. Total(v, S) = (CHOOSE h : E2(h))[S]
  BY DEF Total, MapThenSumSet, MapThenFoldSet
<1>5. MapThenSumSet(LAMBDA o : Backing(o, book[o]), S) = (CHOOSE h : E1(h))[S]
  BY DEF MapThenSumSet, MapThenFoldSet
<1> QED
  BY <1>3, <1>4, <1>5

\* With nobody at work, nothing is owed, and the flows of a coin cancel out.
LEMMA FlowsCancel ==
    ASSUME IsFiniteSet(Orders), MoneyInv, BalanceInv, \A o \in Orders : ~InFlight(o),
           NEW c \in Coins
    PROVE  \E m : Adds(m, FlowOf(c), Orders) /\ m[Orders] = 0
<1>1. CASE Pairs = {}
  <2>1. Orders = {}
    BY <1>1, RequestAssumption
  <2> DEFINE v == FlowOf(c)
             m == [T \in SUBSET Orders |-> 0]
  <2> HIDE DEF v
  <2>2. Adds(m, v, Orders) /\ m[Orders] = 0
    BY <2>1 DEF Adds
  <2> HIDE DEF m
  <2> QED
    BY <2>2 DEF v
<1>2. CASE Pairs # {}
  <2> PICK p \in Pairs : TRUE
    BY <1>2
  <2>1. PICK n \in Nat : Owes(tick[p].todo, c, n, 0) /\ \E m : BalancedBy(c, m, n)
    BY DEF BalanceInv, Balanced
  <2>2. tick[p].todo = <<>>
    <3> SUFFICES ASSUME tick[p].todo # <<>> PROVE FALSE
      OBVIOUS
    <3> DEFINE t == tick[p].todo
    <3>1. t \in Seq(OpRecord)
      BY DEF MoneyInv, MoneyAt, Settles
    <3>2. 1 \in DOMAIN t /\ t[1] \in OpRecord
      <4> HIDE DEF t
      <4>1. t # <<>>
        BY DEF t
      <4> QED
        BY <3>1, <4>1, LenProperties, EmptySeq
    <3>3. t[1].o \in Orders
      BY <3>2 DEF OpRecord
    <3>4. InFlight(t[1].o)
      BY <3>2 DEF InFlight
    <3> QED
      BY <3>3, <3>4
  <2>3. n = 0
    <3>1. Owes(<<>>, c, n, 0) /\ 0 \in Nat
      BY <2>1, <2>2
    <3> QED
      BY <3>1, OwesNone
  <2>6. PICK m : BalancedBy(c, m, n)
    BY <2>1
  <2>4. Adds(m, FlowOf(c), Orders) /\ m[Orders] + 0 = 0 /\ m[Orders] \in Int
    BY <2>3, <2>6 DEF BalancedBy, Adds
  <2>5. m[Orders] = 0
    BY <2>4
  <2> QED
    BY <2>4, <2>5
<1> QED
  BY <1>1, <1>2

LEMMA CoinsAddUp ==
    ASSUME IsFiniteSet(Orders), IsFiniteSet(Users), UserOrders = Orders,
           Lot = 1 \/ \A o \in Orders : IsMarket(o) => IsBuy(o),
           MatcherInv, MoneyInv, BalanceInv,
           \A o \in Orders : ~InFlight(o), NEW c \in Coins
    PROVE  MapThenSumSet(LAMBDA u : Free(u, c), Users)
             + MapThenSumSet(LAMBDA o : Backing(o, book[o]),
                   {o \in UserOrders : CostCoin(o) = c /\ book[o] /= NoRow})
           = Funds * Cardinality(Users)
<1> DEFINE R == {o \in Orders : GainCoin(o) = c}
           Q == {o \in Orders : CostCoin(o) = c}
           T == {o \in Orders : CostCoin(o) = c /\ book[o] /= NoRow}
           Of(u) == {o \in Orders : user(o) = u}
           flow == FlowOf(c)
           net == [o \in Orders |-> refunded[o] - Debited(o)]
           share == [o \in Orders |-> (IF o \in R THEN earned[o] ELSE 0)
                                       + (IF o \in Q THEN net[o] ELSE 0)]
           held == [o \in Orders |-> Escrow(o)]
           wallet == [u \in Users |-> Free(u, c)]
           own == [o \in Orders |-> user(o)]
<1>1. PICK m : Adds(m, flow, Orders) /\ m[Orders] = 0
  BY FlowsCancel
<1>2. \A o \in Orders : /\ refunded[o] \in Nat /\ earned[o] \in Nat /\ spent[o] \in Nat
                        /\ Debited(o) \in Nat
  BY OrderFacts DEF MoneyInv, MoneyTyped, Debited
<1>3. \A o \in Orders : Escrow(o) = IF book[o] = NoRow THEN 0 ELSE Backing(o, book[o])
  BY BackedWhenIdle DEF EscrowIsBacked
<1>4. \A o \in Orders : /\ net[o] = refunded[o] - Debited(o) /\ net[o] \in Int
                        /\ held[o] = Debited(o) - refunded[o] - spent[o] /\ held[o] \in Int
                        /\ held[o] = IF book[o] = NoRow THEN 0 ELSE Backing(o, book[o])
  BY <1>2, <1>3 DEF Escrow
<1>5. \A o \in Orders :
         /\ share[o] = (IF o \in R THEN earned[o] ELSE 0) + (IF o \in Q THEN net[o] ELSE 0)
         /\ share[o] \in Int
  BY <1>2, <1>4
<1>6. \A o \in Orders : flow[o] = (IF o \in R THEN earned[o] ELSE 0)
                                   - (IF o \in Q THEN spent[o] ELSE 0)
  BY DEF FlowOf, GainOf, LossOf
<1>7. \A o \in Orders : o \in T <=> o \in Q /\ book[o] # NoRow
  OBVIOUS
<1> HIDE DEF net, share, held, flow
<1>8. \A o \in Orders : flow[o] = (IF o \in Orders THEN share[o] ELSE 0)
                                   + (IF o \in T THEN held[o] ELSE 0)
  <2> SUFFICES ASSUME NEW o \in Orders
               PROVE  flow[o] = share[o] + (IF o \in T THEN held[o] ELSE 0)
    OBVIOUS
  <2> HIDE DEF R, Q, T
  <2>1. CASE o \in Q
    <3>1. net[o] + held[o] = 0 - spent[o]
      BY <1>2, <1>4
    <3>2. o \notin T => held[o] = 0
      BY <1>4, <1>7, <2>1
    <3> QED
      BY <1>2, <1>4, <1>5, <1>6, <2>1, <3>1, <3>2
  <2>2. CASE o \notin Q
    BY <1>2, <1>5, <1>6, <1>7, <2>2
  <2> QED
    BY <2>1, <2>2
<1>9. PICK mE : Adds(mE, earned, Orders)
  BY <1>2, SumsExist
<1>10. PICK mN : Adds(mN, net, Orders)
  BY <1>4, SumsExist
<1>11. PICK mS : Adds(mS, share, Orders)
  BY <1>5, SumsExist
<1>12. PICK mH : Adds(mH, held, Orders)
  BY <1>4, SumsExist
<1>13. \A S \in SUBSET Orders : mS[S] = mE[S \cap R] + mN[S \cap Q]
  <2> HIDE DEF R, Q, T, Of, wallet, own
  <2>1. Splits(Orders, R, Q, share, earned, net)
    BY <1>2, <1>4, <1>5 DEF Splits
  <2> QED
    BY ONLY IsFiniteSet(Orders), <1>9, <1>10, <1>11, <2>1, SumsCombine
<1>14. mS[Orders] + mH[T] = 0
  <2>1. \A S \in SUBSET Orders : m[S] = mS[S \cap Orders] + mH[S \cap T]
    <3> HIDE DEF T
    <3>1. Splits(Orders, Orders, T, flow, share, held)
      BY <1>4, <1>5, <1>8 DEF Splits
    <3> QED
      BY <1>1, <1>11, <1>12, <3>1, SumsCombine
  <2>2. m[Orders] = mS[Orders \cap Orders] + mH[Orders \cap T]
    BY <2>1
  <2>3. Orders \cap Orders = Orders /\ Orders \cap T = T
    OBVIOUS
  <2> HIDE DEF T
  <2> QED
    BY <1>1, <2>2, <2>3
<1>15. ASSUME NEW u \in Users
       PROVE  wallet[u] = Funds + mS[Of(u)] /\ wallet[u] \in Int
  <2> DEFINE A == Of(u) \cap R
             B == Of(u) \cap Q
  <2>1. /\ {o \in UserOrders : user(o) = u /\ GainCoin(o) = c} = A
        /\ {o \in UserOrders : user(o) = u /\ CostCoin(o) = c} = B
    OBVIOUS
  <2>2. A \in SUBSET Orders /\ B \in SUBSET Orders /\ Of(u) \in SUBSET Orders
    OBVIOUS
  <2>3. mS[Of(u)] = mE[A] + mN[B]
    BY <1>13, <2>2
  <2> HIDE DEF A, B, Of, R, Q
  <2>4. Total(earned, A) = mE[A] /\ mE[A] \in Int
    BY <1>9, <2>2, TotalOfPart
  <2>5. Total(net, B) = mN[B] /\ mN[B] \in Int
    BY <1>10, <2>2, TotalOfPart
  <2>6. MapThenSumSet(LAMBDA o : earned[o], A) = Total(earned, A)
    BY DEF Total
  <2>7. MapThenSumSet(LAMBDA o : refunded[o] - Debited(o), B) = Total(net, B)
    <3>1. \A o \in B : net[o] = refunded[o] - Debited(o)
      BY <1>4, <2>2
    <3> QED
      BY <3>1, RefundsNetted
  <2>8. Free(u, c) = Funds + MapThenSumSet(LAMBDA o : earned[o], A)
                           + MapThenSumSet(LAMBDA o : refunded[o] - Debited(o), B)
    BY <2>1 DEF Free
  <2>9. Free(u, c) = Funds + mE[A] + mN[B]
    BY <2>4, <2>5, <2>6, <2>7, <2>8
  <2>10. wallet[u] = Free(u, c)
    OBVIOUS
  <2> HIDE DEF wallet
  <2> QED
    BY <2>3, <2>4, <2>5, <2>9, <2>10, FundsAssumption
<1>16. PICK k : Adds(k, wallet, Users)
  <2> HIDE DEF wallet
  <2> QED
    BY <1>15, SumsExist
<1>17. k[Users] = Funds * Cardinality(Users) + mS[Orders]
  <2>1. \A o \in Orders : own[o] \in Users
    BY RequestAssumption DEF user
  <2>2. \A u \in Users : Of(u) = {o \in Orders : own[o] = u}
    OBVIOUS
  <2>3. \A u \in Users : wallet[u] = Funds + mS[{o \in Orders : own[o] = u}]
    <3> HIDE DEF wallet, Of, own
    <3> QED
      BY <1>15, <2>2
  <2>4. Funds \in Int
    BY FundsAssumption
  <2> HIDE DEF wallet, Of, own
  <2> QED
    BY <1>5, <1>11, <1>16, <2>1, <2>3, <2>4, SumsOfShares
<1>18. MapThenSumSet(LAMBDA u : Free(u, c), Users) = k[Users]
  <2>1. \A u \in Users : wallet[u] = Free(u, c)
    OBVIOUS
  <2> HIDE DEF wallet
  <2>2. MapThenSumSet(LAMBDA u : Free(u, c), Users) = Total(wallet, Users)
    BY <2>1, FreeSummed
  <2>3. Total(wallet, Users) = k[Users]
    BY <1>16, TotalIsSum
  <2> QED
    BY <2>2, <2>3
<1>19. MapThenSumSet(LAMBDA o : Backing(o, book[o]), T) = mH[T] /\ mH[T] \in Int
  <2>1. T \in SUBSET Orders /\ \A o \in T : held[o] = Backing(o, book[o])
    BY <1>4
  <2> HIDE DEF T
  <2>2. Total(held, T) = mH[T] /\ mH[T] \in Int
    BY <1>12, <2>1, TotalOfPart
  <2>3. MapThenSumSet(LAMBDA o : Backing(o, book[o]), T) = Total(held, T)
    BY <2>1, BackingSummed
  <2> QED
    BY <2>2, <2>3
<1>20. mS[Orders] \in Int /\ Funds * Cardinality(Users) \in Int
  <2>1. mS[Orders] \in Int
    BY <1>11 DEF Adds
  <2>2. Cardinality(Users) \in Nat /\ Funds \in Nat
    BY FS_CardinalityType, FundsAssumption
  <2>3. Funds * Cardinality(Users) \in Int
    BY <2>2
  <2> QED
    BY <2>1, <2>3
<1>21. T = {o \in UserOrders : CostCoin(o) = c /\ book[o] /= NoRow}
  OBVIOUS
<1> DEFINE a == MapThenSumSet(LAMBDA u : Free(u, c), Users)
           b == MapThenSumSet(LAMBDA o : Backing(o, book[o]), T)
           d == Funds * Cardinality(Users)
<1>22. /\ a = d + mS[Orders] /\ b = mH[T] /\ mS[Orders] + mH[T] = 0
       /\ mS[Orders] \in Int /\ mH[T] \in Int /\ d \in Int
  BY <1>14, <1>17, <1>18, <1>19, <1>20
<1> HIDE DEF a, b, d, T
<1>23. a + b = d
  BY <1>22
<1> QED
  BY <1>21, <1>23 DEF a, b, d

\* Where the users of a pair trade with each other only, no coin is made or lost: once
\* nobody is working on an order, what they started with is in their wallets or behind
\* the rows of the book.
THEOREM CoinsAreConserved ==
    ASSUME OnePair, Closers = {}, IsFiniteSet(Orders), IsFiniteSet(Users),
           UserOrders = Orders, Lot = 1 \/ \A o \in Orders : IsMarket(o) => IsBuy(o)
    PROVE  Spec => []CoinsConserved
<1> DEFINE Inv == MatcherInv /\ MoneyInv /\ BalanceInv
<1>1. Init => Inv
  BY MatcherInvInitially, MoneyInvInitially, BalanceInvInitially
<1>2. Inv /\ [Next]_vars => Inv'
  BY MoneyInvInductive, BalanceInvInductive
<1>3. Inv => CoinsConserved
  BY CoinsAddUp DEF CoinsConserved
<1> QED
  BY <1>1, <1>2, <1>3, PTL DEF Spec

=============================================================================
