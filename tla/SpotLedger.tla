----------------------------- MODULE SpotLedger -----------------------------
(***************************************************************************)
(* The atomic balance scripts of cryptodex-spotapi.                        *)
(*                                                                         *)
(* A spendable balance is one field of the redis hash walletbalance_spot;  *)
(* its ledger is the redis stream ledger_<field>.  Four Lua scripts move a *)
(* balance, and each appends the entry that describes the move inside the  *)
(* same script, so a script is one action here.  Fields do not interact:   *)
(* the module models one of them.                                          *)
(*                                                                         *)
(* Amounts are integers.  The code's are doubles; what it does about their *)
(* last bits (RECONCILE_TOLERANCE) is left out.                            *)
(***************************************************************************)
EXTENDS Integers, Sequences

CONSTANTS
    Amounts,        \* positive amounts a credit or a debit is asked for
    Targets,        \* values an absolute set is asked for
    Openings,       \* balances a field may hold before its first entry
    MaxLen,         \* LEDGER_MAXLEN
    TrimSlack,      \* entries MAXLEN ~ may leave above MaxLen (a stream node)
    MaxBalance      \* bound of the model: movements stay within it

ASSUME AmountsAssumption == Amounts \subseteq Nat \ {0}
ASSUME TargetsAssumption == Targets \subseteq Int /\ Openings \subseteq Int
ASSUME LimitsAssumption ==
    /\ MaxLen \in Nat \ {0}
    /\ TrimSlack \in Nat
    /\ MaxBalance \in Nat

VARIABLES
    present,    \* the hash field exists
    bal,        \* its value; 0 while it is absent, as every script reads it
    stream,     \* the surviving entries, oldest first
    truth       \* ghost: the opening balance plus every movement granted since

ledgerVars == <<present, bal, stream, truth>>

Entry == [delta : Int, before : Int, after : Int]

InBounds(v) == -MaxBalance <= v /\ v <= MaxBalance

-----------------------------------------------------------------------------
\* XADD ... MAXLEN ~ : append, then drop old entries in whole nodes, so that at
\* least MaxLen of them survive.
Logged(e) ==
    LET grown == Append(stream, e) IN
    \E first \in 1..Len(grown) :
        /\ first = 1 \/ Len(grown) - first + 1 >= MaxLen
        /\ Len(grown) - first + 1 <= MaxLen + TrimSlack
        /\ stream' = SubSeq(grown, first, Len(grown))

\* HINCRBYFLOAT and its entry. An absent field counts from 0 and is created.
Move(delta) ==
    /\ InBounds(bal + delta) /\ InBounds(truth + delta)
    /\ Logged([delta |-> delta, before |-> bal, after |-> bal + delta])
    /\ bal' = bal + delta
    /\ present' = TRUE
    /\ truth' = truth + delta

Credit(amount) == Move(amount)

\* An unaffordable debit answers nil, a frozen one FROZEN: both change nothing.
Debit(amount) ==
    /\ bal >= amount
    /\ Move(-amount)

\* The signed apply refuses nothing, an overdraft included; zero logs nothing.
Apply(delta) ==
    /\ delta /= 0
    /\ Move(delta)

\* HSET of an absolute value, logged as the delta it implies; no entry when the
\* value is already there.
SetTo(target) ==
    /\ InBounds(target)
    /\ IF target = bal
         THEN UNCHANGED stream
         ELSE Logged([delta |-> target - bal, before |-> bal, after |-> target])
    /\ bal' = target
    /\ present' = TRUE
    /\ truth' = target

-----------------------------------------------------------------------------
\* A field may predate its ledger: it opens at any value with no entries.
Init ==
    /\ present \in BOOLEAN
    /\ bal \in (IF present THEN Openings ELSE {0})
    /\ stream = <<>>
    /\ truth = bal

Scripts ==
    \/ \E a \in Amounts : Credit(a) \/ Debit(a) \/ Apply(-a)
    \/ \E t \in Targets : SetTo(t)

Spec == Init /\ [][Scripts]_ledgerVars

-----------------------------------------------------------------------------
LedgerTypeOK ==
    /\ present \in BOOLEAN
    /\ bal \in Int
    /\ ~present => bal = 0
    /\ stream \in Seq(Entry)
    /\ Len(stream) <= MaxLen + TrimSlack
    /\ truth \in Int

\* Every entry carries the arithmetic of its own movement, and starts where the
\* entry before it ended: no movement is missing between two survivors, whatever
\* the interleaving of writers and however the stream was trimmed.
ChainIntact ==
    /\ \A i \in 1..Len(stream) :
          stream[i].after = stream[i].before + stream[i].delta
    /\ \A i \in 1..(Len(stream) - 1) : stream[i].after = stream[i + 1].before

\* The live balance is where the newest entry ended: the hash and the stream
\* never disagree between two scripts.
LedgerMeetsBalance ==
    Len(stream) > 0 => stream[Len(stream)].after = bal
=============================================================================
