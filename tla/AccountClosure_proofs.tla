------------------------ MODULE AccountClosure_proofs ------------------------
(***************************************************************************)
(* What AccountClosure promises for any number of closures, logins, edits   *)
(* and placements, whichever of the faults may happen.                      *)
(***************************************************************************)
EXTENDS AccountClosure, TLAPS

CallRecord == [at: {"none", "look", "set", "check", "answered"}, mode: Mode, answer: Answer]
PlaceRecord ==
    [at: {"idle", "mark", "wallet", "verdict", "inside", "refused", "placed"},
     known: BOOLEAN, sawFrozen: BOOLEAN, closedThen: BOOLEAN]

\* The types the proofs below need.
TypedInv ==
    /\ account \in {"verified", "deactivated"}
    /\ frozen \in BOOLEAN
    /\ call \in [Callers -> CallRecord]
    /\ confirm \in [Confirms -> ConfirmRecord]
    /\ place \in [Placements -> PlaceRecord]
    /\ book \subseteq Placements /\ out \subseteq Placements

\* Where a closure is and what walletapi is doing for it.
CallInv ==
    /\ call[Operator].mode = "freeze"
    /\ \A c \in Confirms :
         /\ confirm[c].at \in {"idle", "reading"} => call[c].at = "none"
         /\ call[c].at \in {"look", "set", "check"} => confirm[c].at \in {"freezing", "undoing"}
         /\ confirm[c].at = "freezing" => call[c].mode = "freeze"
         /\ confirm[c].at = "undoing" => call[c].mode = "unfreeze"
         /\ confirm[c].at # "done" => confirm[c].reply = "none"

\* A closure that may undo a freeze found the wallet live.
HeldInv ==
    \A c \in Confirms :
        /\ confirm[c].at = "freezing" /\ call[c].at \in {"set", "check"} => ~confirm[c].found
        /\ confirm[c].at = "freezing" /\ call[c].at = "answered" /\ call[c].answer = "FROZEN"
             => ~confirm[c].found
        /\ confirm[c].at \in {"saving", "undoing"} /\ confirm[c].applied => ~confirm[c].found
        /\ confirm[c].at = "undoing" => confirm[c].applied

Refusals == {"WALLET_NOT_DEACTIVATED", "ACCOUNT_NOT_DEACTIVATED"}

\* The wallet is frozen by a closure only from its update to its undo, or for good.
FrozeInv ==
    /\ ~frozen => froze = Nobody
    /\ \A c \in Confirms : froze = c =>
         /\ confirm[c].at \notin {"idle", "reading"}
         /\ confirm[c].at = "freezing" => call[c].at \in {"check", "answered"}
         /\ confirm[c].at = "freezing" /\ call[c].at = "answered"
              => call[c].answer \in {"FROZEN", "FREEZE_FAILED"}
         /\ confirm[c].at = "saving" => confirm[c].applied
         /\ confirm[c].at = "undoing" =>
              \/ call[c].at \in {"look", "set"}
              \/ call[c].at = "answered" /\ call[c].answer = "UNFREEZE_FAILED"
         /\ confirm[c].reply \in Refusals => confirm[c].unsure

ClosureInv == TypedInv /\ CallInv /\ HeldInv /\ FrozeInv

---------------------------------------------------------------------------
Stages == {"idle", "reading", "freezing", "saving", "undoing", "purging",
           "sweeping", "cancelling", "done"}

\* Closure c is the only one a step has moved, to a stage, with an answer.
Moved(c, at, reply) ==
    /\ confirm' \in [Confirms -> ConfirmRecord]
    /\ \A d \in Confirms \ {c} : confirm'[d] = confirm[d]
    /\ confirm'[c].at = at /\ confirm'[c].reply = reply
    /\ confirm'[c].found = confirm[c].found

\* The wallet service was called for c, and for nobody else.
Called(c, mode) ==
    /\ call' \in [Callers -> CallRecord]
    /\ \A d \in Callers \ {c} : call'[d] = call[d]
    /\ call'[c].at = "look" /\ call'[c].mode = mode

\* Every field of a closure's record may change by itself.
LEMMA FieldIsTyped ==
    ASSUME NEW f \in [Confirms -> ConfirmRecord], NEW c \in Confirms
    PROVE  /\ \A x \in Stages : [f EXCEPT ![c].at = x] \in [Confirms -> ConfirmRecord]
           /\ \A x \in BOOLEAN :
                /\ [f EXCEPT ![c].applied = x] \in [Confirms -> ConfirmRecord]
                /\ [f EXCEPT ![c].purged = x] \in [Confirms -> ConfirmRecord]
                /\ [f EXCEPT ![c].unsure = x] \in [Confirms -> ConfirmRecord]
           /\ \A x \in SUBSET Placements : [f EXCEPT ![c].list = x] \in [Confirms -> ConfirmRecord]
           /\ \A x \in Reply : [f EXCEPT ![c].reply = x] \in [Confirms -> ConfirmRecord]
<1> DEFINE p == f[c]
<1>1. p \in ConfirmRecord
  OBVIOUS
<1>2. \A q \in ConfirmRecord : [f EXCEPT ![c] = q] \in [Confirms -> ConfirmRecord]
  OBVIOUS
<1> HIDE DEF p
<1>3. \A x \in Stages : [p EXCEPT !.at = x] \in ConfirmRecord
  BY <1>1 DEF ConfirmRecord, Stages
<1>4. \A x \in BOOLEAN : [p EXCEPT !.applied = x] \in ConfirmRecord
  BY <1>1 DEF ConfirmRecord
<1>5. \A x \in BOOLEAN : [p EXCEPT !.purged = x] \in ConfirmRecord
  BY <1>1 DEF ConfirmRecord
<1>6. \A x \in BOOLEAN : [p EXCEPT !.unsure = x] \in ConfirmRecord
  BY <1>1 DEF ConfirmRecord
<1>7. \A x \in SUBSET Placements : [p EXCEPT !.list = x] \in ConfirmRecord
  BY <1>1 DEF ConfirmRecord
<1>8. \A x \in Reply : [p EXCEPT !.reply = x] \in ConfirmRecord
  BY <1>1 DEF ConfirmRecord
<1> QED
  BY <1>2, <1>3, <1>4, <1>5, <1>6, <1>7, <1>8 DEF p

\* So may the two a step changes together.
LEMMA PairIsTyped ==
    ASSUME NEW f \in [Confirms -> ConfirmRecord], NEW c \in Confirms
    PROVE  /\ \A x \in Reply : [f EXCEPT ![c].at = "done", ![c].reply = x]
                 \in [Confirms -> ConfirmRecord]
           /\ \A x \in BOOLEAN : [f EXCEPT ![c].at = "saving", ![c].applied = x]
                 \in [Confirms -> ConfirmRecord]
           /\ [f EXCEPT ![c].at = "sweeping", ![c].purged = FALSE]
                 \in [Confirms -> ConfirmRecord]
           /\ \A x \in SUBSET Placements :
                 [f EXCEPT ![c].at = "cancelling", ![c].list = x]
                 \in [Confirms -> ConfirmRecord]
<1> DEFINE At(x) == [f EXCEPT ![c].at = x]
<1>1. \A x \in Stages : At(x) \in [Confirms -> ConfirmRecord]
  BY FieldIsTyped
<1> HIDE DEF At
<1>2. /\ \A x \in Reply : [At("done") EXCEPT ![c].reply = x] \in [Confirms -> ConfirmRecord]
      /\ \A x \in BOOLEAN : [At("saving") EXCEPT ![c].applied = x] \in [Confirms -> ConfirmRecord]
      /\ [At("sweeping") EXCEPT ![c].purged = FALSE] \in [Confirms -> ConfirmRecord]
      /\ \A x \in SUBSET Placements :
            [At("cancelling") EXCEPT ![c].list = x] \in [Confirms -> ConfirmRecord]
  BY <1>1, FieldIsTyped DEF Stages
<1> QED
  BY <1>2 DEF At

LEMMA GotoMoves ==
    ASSUME TypedInv, NEW c \in Confirms, NEW at \in Stages, Goto(c, at)
    PROVE  Moved(c, at, confirm[c].reply) /\ confirm'[c].applied = confirm[c].applied
BY DEF TypedInv, Goto, Moved, ConfirmRecord, Stages

LEMMA RepliedMoves ==
    ASSUME TypedInv, NEW c \in Confirms, NEW r \in Reply, Replied(c, r)
    PROVE  Moved(c, "done", r) /\ confirm'[c].unsure = confirm[c].unsure
<1>1. confirm \in [Confirms -> ConfirmRecord] /\ confirm' \in [Confirms -> ConfirmRecord]
  BY PairIsTyped DEF TypedInv, Replied
<1> QED
  BY <1>1 DEF Replied, Moved, ConfirmRecord

\* A closure that ends, its other fields as a lost call or a failed sweep leave them.
LEMMA DoneIsTyped ==
    ASSUME NEW f \in [Confirms -> ConfirmRecord], NEW c \in Confirms, NEW r \in Reply,
           NEW b \in BOOLEAN
    PROVE  /\ [f EXCEPT ![c].at = "done", ![c].unsure = b, ![c].reply = r]
                 \in [Confirms -> ConfirmRecord]
           /\ [f EXCEPT ![c].at = "done", ![c].list = {}, ![c].reply = r]
                 \in [Confirms -> ConfirmRecord]
<1> DEFINE g == [f EXCEPT ![c].at = "done"]
           ended == [g EXCEPT ![c].unsure = b]
           over == [g EXCEPT ![c].list = {}]
<1>1. g \in [Confirms -> ConfirmRecord]
  BY FieldIsTyped DEF Stages
<1> HIDE DEF g
<1>2. ended \in [Confirms -> ConfirmRecord] /\ over \in [Confirms -> ConfirmRecord]
  BY <1>1, FieldIsTyped
<1> HIDE DEF ended, over
<1>3. /\ [ended EXCEPT ![c].reply = r] \in [Confirms -> ConfirmRecord]
      /\ [over EXCEPT ![c].reply = r] \in [Confirms -> ConfirmRecord]
  BY <1>2, FieldIsTyped
<1> QED
  BY <1>3 DEF g, ended, over

LEMMA RefusedMoves ==
    ASSUME TypedInv, NEW c \in Confirms, NEW r \in Reply, RefusedHearing(c, r)
    PROVE  /\ Moved(c, "done", r)
           /\ confirm'[c].unsure = (call[c].answer \in Failed)
<1> DEFINE b == call[c].answer \in Failed
<1>1. confirm \in [Confirms -> ConfirmRecord] /\ b \in BOOLEAN
  BY DEF TypedInv
<1>2. confirm' = [confirm EXCEPT ![c].at = "done", ![c].unsure = b, ![c].reply = r]
  BY DEF RefusedHearing
<1> SUFFICES Moved(c, "done", r) /\ confirm'[c].unsure = b
  OBVIOUS
<1> HIDE DEF b
<1>3. confirm' \in [Confirms -> ConfirmRecord]
  BY <1>1, <1>2, DoneIsTyped
<1> QED
  BY <1>1, <1>2, <1>3 DEF Moved, ConfirmRecord

LEMMA CallIsMade ==
    ASSUME TypedInv, NEW c \in Callers, NEW m \in Mode, Call(c, m)
    PROVE  Called(c, m)
BY DEF TypedInv, Call, Called, CallRecord, Idle, Answer, Failed

\* What walletapi answers is recorded whole.
LEMMA AnsweredIsTyped ==
    ASSUME call \in [Callers -> CallRecord], NEW c \in Callers, NEW a \in Answer
    PROVE  [call EXCEPT ![c].at = "answered", ![c].answer = a] \in [Callers -> CallRecord]
<1> DEFINE p == call[c]
           q == [p EXCEPT !.at = "answered"]
<1>1. p \in CallRecord
  OBVIOUS
<1>2. \A x \in CallRecord : [call EXCEPT ![c] = x] \in [Callers -> CallRecord]
  OBVIOUS
<1> HIDE DEF p
<1>3. q \in CallRecord
  BY <1>1 DEF CallRecord
<1> HIDE DEF q
<1>4. [q EXCEPT !.answer = a] \in CallRecord
  BY <1>3 DEF CallRecord
<1> QED
  BY <1>2, <1>4 DEF p, q

LEMMA LookKeeps == ASSUME ClosureInv, NEW c \in Callers, Look(c) PROVE ClosureInv'
<1>1. TypedInv /\ CallInv /\ HeldInv /\ FrozeInv
  BY DEF ClosureInv
<1>2. TypedInv'
  <2>1. /\ {"ALREADY_FROZEN", "ALREADY_LIVE"} \subseteq Answer
        /\ frozen \in BOOLEAN /\ call \in [Callers -> CallRecord]
        /\ confirm \in [Confirms -> ConfirmRecord]
    BY <1>1 DEF TypedInv, Answer, Failed
  <2>2. ASSUME NEW a \in Answer, Answered(c, a)
        PROVE  call' \in [Callers -> CallRecord]
    BY <2>1, <2>2, AnsweredIsTyped DEF Answered
  <2>3. call' = [call EXCEPT ![c].at = "set"] => call' \in [Callers -> CallRecord]
    BY <2>1 DEF CallRecord
  <2>4. call' \in [Callers -> CallRecord]
    BY <2>1, <2>2, <2>3 DEF Look
  <2>5. ASSUME c \in Confirms, NEW b \in BOOLEAN, confirm' = [confirm EXCEPT ![c].found = b]
        PROVE  confirm' \in [Confirms -> ConfirmRecord]
    BY <2>1, <2>5 DEF ConfirmRecord
  <2>6. confirm' \in [Confirms -> ConfirmRecord]
    BY <2>1, <2>5 DEF Look
  <2> QED
    BY <1>1, <2>4, <2>6 DEF Look, TypedInv, orders, requests, wallet
<1>3. CallInv'
  BY <1>1, NamesAssumption DEF Look, Answered, TypedInv, CallRecord, ConfirmRecord, Callers, CallInv, orders, requests, wallet
<1>4. HeldInv'
  BY <1>1, NamesAssumption DEF Look, Answered, TypedInv, CallRecord, ConfirmRecord, Callers, CallInv, orders, requests, wallet, HeldInv
<1>5. FrozeInv'
  BY <1>1, NamesAssumption, NobodyAssumption DEF Look, Answered, TypedInv, CallRecord, ConfirmRecord, Callers, CallInv, orders, requests, wallet, FrozeInv, Refusals
<1> QED
  BY <1>2, <1>3, <1>4, <1>5 DEF ClosureInv

LEMMA SetKeeps == ASSUME ClosureInv, NEW c \in Callers, Set(c) PROVE ClosureInv'
<1>1. TypedInv /\ CallInv /\ HeldInv /\ FrozeInv
  BY DEF ClosureInv
<1>2. TypedInv'
  BY <1>1 DEF Set, TypedInv, CallRecord, ConfirmRecord, Callers, CallInv, orders, requests, wallet, Mode, Answer, Failed
<1>3. CallInv'
  BY <1>1, NamesAssumption DEF Set, TypedInv, CallRecord, ConfirmRecord, Callers, CallInv, orders, requests, wallet
<1>4. HeldInv'
  BY <1>1, NamesAssumption DEF Set, TypedInv, CallRecord, ConfirmRecord, Callers, CallInv, orders, requests, wallet, HeldInv
<1>5. FrozeInv'
  <2>1. /\ call'[c].at = "check" /\ call'[c].mode = call[c].mode
        /\ \A d \in Callers \ {c} : call'[d] = call[d]
        /\ confirm' = confirm
    BY <1>1 DEF Set, TypedInv
  <2>2. CASE call[c].mode = "unfreeze"
    BY <2>2, NobodyAssumption DEF Set, FrozeInv, Callers
  <2>3. CASE call[c].mode = "freeze" /\ ~frozen
    BY <1>1, <2>1, <2>3, NamesAssumption DEF Set, FrozeInv, CallInv, Callers, Refusals
  <2>4. CASE call[c].mode = "freeze" /\ frozen
    <3>1. froze' = froze /\ frozen' /\ call[c].at = "set"
      BY <2>4 DEF Set
    <3>2. c \in Confirms => froze # c
      BY <1>1, <2>4, <3>1 DEF FrozeInv, CallInv
    <3> QED
      BY <1>1, <2>1, <3>1, <3>2 DEF FrozeInv, Callers
  <2> QED
    BY <1>1, <2>2, <2>3, <2>4 DEF TypedInv, CallRecord, Mode
<1> QED
  BY <1>2, <1>3, <1>4, <1>5 DEF ClosureInv

LEMMA CheckKeeps == ASSUME ClosureInv, NEW c \in Callers, Check(c) PROVE ClosureInv'
<1>1. TypedInv /\ CallInv /\ HeldInv /\ FrozeInv
  BY DEF ClosureInv
<1>2. TypedInv'
  BY <1>1 DEF Check, Answered, TypedInv, CallRecord, ConfirmRecord, Callers, CallInv, orders, requests, wallet, Mode, Answer, Failed
<1>3. CallInv'
  BY <1>1, NamesAssumption DEF Check, Answered, TypedInv, CallRecord, ConfirmRecord, Callers, CallInv, orders, requests, wallet
<1>4. HeldInv'
  BY <1>1, NamesAssumption DEF Check, Answered, TypedInv, CallRecord, ConfirmRecord, Callers, CallInv, orders, requests, wallet, HeldInv
<1>5. FrozeInv'
  BY <1>1, NamesAssumption, NobodyAssumption DEF Check, Answered, TypedInv, CallRecord, ConfirmRecord, Callers, CallInv, orders, requests, wallet, FrozeInv, Refusals
<1> QED
  BY <1>2, <1>3, <1>4, <1>5 DEF ClosureInv

LEMMA WalletFailsKeeps == ASSUME ClosureInv, NEW c \in Callers, WalletFails(c) PROVE ClosureInv'
<1>1. TypedInv /\ CallInv /\ HeldInv /\ FrozeInv
  BY DEF ClosureInv
<1>2. PICK a \in Failed :
        /\ Answered(c, a)
        /\ call[c].mode = "freeze" => a = "FREEZE_FAILED"
        /\ call[c].mode = "unfreeze" => a = "UNFREEZE_FAILED"
  BY DEF WalletFails, Failed
<1>3. UNCHANGED <<account, frozen, froze, confirm, place, book, out>>
  BY DEF WalletFails, wallet, orders, requests
<1>4. call' \in [Callers -> CallRecord]
  BY <1>1, <1>2, AnsweredIsTyped DEF Answered, TypedInv, Answer, Failed
<1>5. /\ call'[c].at = "answered" /\ call'[c].mode = call[c].mode /\ call'[c].answer = a
      /\ \A d \in Callers \ {c} : call'[d] = call[d]
      /\ call[c].at \in {"look", "set", "check"}
  BY <1>1, <1>2 DEF WalletFails, Answered, TypedInv, CallRecord
<1>6. TypedInv'
  BY <1>1, <1>3, <1>4 DEF TypedInv
<1>7. CallInv'
  BY <1>1, <1>3, <1>5 DEF CallInv, Callers
<1>8. HeldInv'
  BY <1>1, <1>2, <1>3, <1>5 DEF HeldInv, Callers, Failed
<1>9. FrozeInv'
  BY <1>1, <1>2, <1>3, <1>5 DEF FrozeInv, CallInv, Callers
<1> QED
  BY <1>6, <1>7, <1>8, <1>9 DEF ClosureInv

LEMMA ConfirmKeeps == ASSUME ClosureInv, NEW c \in Confirms, Confirm(c) PROVE ClosureInv'
<1>1. TypedInv /\ CallInv /\ HeldInv /\ FrozeInv /\ c \in Callers /\ Operator # c
  BY NamesAssumption DEF ClosureInv, Callers
<1>2. Moved(c, "reading", confirm[c].reply)
  BY <1>1, GotoMoves DEF Confirm, Stages, Reply
<1>6. TypedInv'
  BY <1>1, <1>2 DEF Confirm, orders, requests, wallet, Moved, Called, TypedInv, Callers
<1>7. CallInv'
  BY <1>1, <1>2 DEF Confirm, orders, requests, wallet, Moved, Called, TypedInv, CallInv, Callers
<1>8. HeldInv'
  BY <1>1, <1>2 DEF Confirm, orders, requests, wallet, Moved, Called, TypedInv, CallInv, HeldInv, Callers
<1>9. FrozeInv'
  BY <1>1, <1>2 DEF Confirm, orders, requests, wallet, Moved, Called, TypedInv, CallInv, FrozeInv, Refusals, Callers
<1> QED
  BY <1>6, <1>7, <1>8, <1>9 DEF ClosureInv

LEMMA ReadUserKeeps == ASSUME ClosureInv, NEW c \in Confirms, ReadUser(c) PROVE ClosureInv'
<1>1. TypedInv /\ CallInv /\ HeldInv /\ FrozeInv /\ c \in Callers /\ Operator # c
  BY NamesAssumption DEF ClosureInv, Callers
<1>2. CASE Goto(c, "freezing") /\ Call(c, "freeze")
  <2>1. Moved(c, "freezing", confirm[c].reply) /\ Called(c, "freeze")
    BY <1>1, <1>2, GotoMoves, CallIsMade DEF Stages, Mode
  <2>6. TypedInv'
    BY <1>1, <1>2, <2>1 DEF ReadUser, orders, requests, wallet, Moved, Called, TypedInv, Callers
  <2>7. CallInv'
    BY <1>1, <1>2, <2>1 DEF ReadUser, orders, requests, wallet, Moved, Called, TypedInv, CallInv, Callers
  <2>8. HeldInv'
    BY <1>1, <1>2, <2>1 DEF ReadUser, orders, requests, wallet, Moved, Called, TypedInv, CallInv, HeldInv, Callers
  <2>9. FrozeInv'
    BY <1>1, <1>2, <2>1 DEF ReadUser, orders, requests, wallet, Moved, Called, TypedInv, CallInv, FrozeInv, Refusals, Callers
  <2> QED
    BY <2>6, <2>7, <2>8, <2>9 DEF ClosureInv
<1>3. CASE Replied(c, "REFUSED") /\ UNCHANGED call
  <2>1. Moved(c, "done", "REFUSED")
    BY <1>1, <1>3, RepliedMoves DEF Reply
  <2>6. TypedInv'
    BY <1>1, <1>3, <2>1 DEF ReadUser, orders, requests, wallet, Moved, Called, TypedInv, Callers
  <2>7. CallInv'
    BY <1>1, <1>3, <2>1 DEF ReadUser, orders, requests, wallet, Moved, Called, TypedInv, CallInv, Callers
  <2>8. HeldInv'
    BY <1>1, <1>3, <2>1 DEF ReadUser, orders, requests, wallet, Moved, Called, TypedInv, CallInv, HeldInv, Callers
  <2>9. FrozeInv'
    BY <1>1, <1>3, <2>1 DEF ReadUser, orders, requests, wallet, Moved, Called, TypedInv, CallInv, FrozeInv, Refusals, Callers
  <2> QED
    BY <2>6, <2>7, <2>8, <2>9 DEF ClosureInv
<1> QED
  BY <1>2, <1>3 DEF ReadUser

LEMMA HearFreezeKeeps == ASSUME ClosureInv, NEW c \in Confirms, HearFreeze(c) PROVE ClosureInv'
<1>1. TypedInv /\ CallInv /\ HeldInv /\ FrozeInv /\ c \in Callers /\ Operator # c
  BY NamesAssumption DEF ClosureInv, Callers
<1>2. CASE call[c].answer \in {"FROZEN", "ALREADY_FROZEN"}
  <2> DEFINE b == AppliedByThisCall(call[c].answer)
  <2>2. b \in BOOLEAN /\ (call[c].answer = "FROZEN" => b) /\ (b => call[c].answer = "FROZEN")
    BY DEF AppliedByThisCall
  <2>3. confirm' = [confirm EXCEPT ![c].at = "saving", ![c].applied = b]
    BY <1>2 DEF HearFreeze
  <2> HIDE DEF b
  <2>5. confirm \in [Confirms -> ConfirmRecord] /\ confirm' \in [Confirms -> ConfirmRecord]
    BY <1>1, <2>2, <2>3, PairIsTyped DEF TypedInv
  <2>4. Moved(c, "saving", confirm[c].reply) /\ confirm'[c].applied = b
    BY <2>3, <2>5 DEF Moved, ConfirmRecord
  <2>1. /\ Moved(c, "saving", confirm[c].reply)
        /\ call[c].answer = "FROZEN" => confirm'[c].applied
        /\ confirm'[c].applied => call[c].answer = "FROZEN"
    BY <2>2, <2>4
  <2>6. TypedInv'
    BY <1>1, <1>2, <2>1 DEF HearFreeze, orders, requests, wallet, Moved, Called, TypedInv, Callers
  <2>7. CallInv'
    BY <1>1, <1>2, <2>1 DEF HearFreeze, orders, requests, wallet, Moved, Called, TypedInv, CallInv, Callers
  <2>8. HeldInv'
    BY <1>1, <1>2, <2>1 DEF HearFreeze, orders, requests, wallet, Moved, Called, TypedInv, CallInv, HeldInv, Callers
  <2>9. FrozeInv'
    BY <1>1, <1>2, <2>1 DEF HearFreeze, orders, requests, wallet, Moved, Called, TypedInv, CallInv, FrozeInv, Refusals, Callers
  <2> QED
    BY <2>6, <2>7, <2>8, <2>9 DEF ClosureInv
<1>3. CASE call[c].answer \notin {"FROZEN", "ALREADY_FROZEN"}
  <2>1. /\ Moved(c, "done", "WALLET_NOT_DEACTIVATED")
        /\ confirm'[c].unsure = (call[c].answer \in Failed)
    BY <1>1, <1>3, RefusedMoves DEF HearFreeze, Reply
  <2>6. TypedInv'
    BY <1>1, <1>3, <2>1 DEF HearFreeze, orders, requests, wallet, Moved, Called, TypedInv, Callers
  <2>7. CallInv'
    BY <1>1, <1>3, <2>1 DEF HearFreeze, orders, requests, wallet, Moved, Called, TypedInv, CallInv, Callers
  <2>8. HeldInv'
    BY <1>1, <1>3, <2>1 DEF HearFreeze, orders, requests, wallet, Moved, Called, TypedInv, CallInv, HeldInv, Callers
  <2>9. FrozeInv'
    <3>1. /\ frozen' = frozen /\ froze' = froze /\ call' = call
          /\ call[c].at = "answered" /\ confirm[c].at = "freezing"
      BY DEF HearFreeze, wallet
    <3>2. froze = c => call[c].answer \in Failed
      BY <1>1, <1>3, <3>1 DEF FrozeInv, Failed
    <3> QED
      BY <1>1, <2>1, <3>1, <3>2 DEF Moved, FrozeInv, Refusals
  <2> QED
    BY <2>6, <2>7, <2>8, <2>9 DEF ClosureInv
<1> QED
  BY <1>2, <1>3 DEF HearFreeze

LEMMA SaveKeeps == ASSUME ClosureInv, NEW c \in Confirms, Save(c) PROVE ClosureInv'
<1>1. TypedInv /\ CallInv /\ HeldInv /\ FrozeInv /\ c \in Callers /\ Operator # c
  BY NamesAssumption DEF ClosureInv, Callers
<1>2. Moved(c, "purging", confirm[c].reply)
  BY <1>1, GotoMoves DEF Save, Stages, Reply
<1>6. TypedInv'
  BY <1>1, <1>2 DEF Save, orders, requests, wallet, Moved, Called, TypedInv, Callers
<1>7. CallInv'
  BY <1>1, <1>2 DEF Save, orders, requests, wallet, Moved, Called, TypedInv, CallInv, Callers
<1>8. HeldInv'
  BY <1>1, <1>2 DEF Save, orders, requests, wallet, Moved, Called, TypedInv, CallInv, HeldInv, Callers
<1>9. FrozeInv'
  BY <1>1, <1>2 DEF Save, orders, requests, wallet, Moved, Called, TypedInv, CallInv, FrozeInv, Refusals, Callers
<1> QED
  BY <1>6, <1>7, <1>8, <1>9 DEF ClosureInv

LEMMA SaveFailsKeeps == ASSUME ClosureInv, NEW c \in Confirms, SaveFails(c) PROVE ClosureInv'
<1>1. TypedInv /\ CallInv /\ HeldInv /\ FrozeInv /\ c \in Callers /\ Operator # c
  BY NamesAssumption DEF ClosureInv, Callers
<1>2. CASE Goto(c, "undoing") /\ Call(c, "unfreeze") /\ confirm[c].applied
  <2>1. Moved(c, "undoing", confirm[c].reply) /\ Called(c, "unfreeze") /\ confirm'[c].applied
    BY <1>1, <1>2, GotoMoves, CallIsMade DEF Stages, Mode
  <2>6. TypedInv'
    BY <1>1, <1>2, <2>1 DEF SaveFails, orders, requests, wallet, Moved, Called, TypedInv, Callers
  <2>7. CallInv'
    BY <1>1, <1>2, <2>1 DEF SaveFails, orders, requests, wallet, Moved, Called, TypedInv, CallInv, Callers
  <2>8. HeldInv'
    BY <1>1, <1>2, <2>1 DEF SaveFails, orders, requests, wallet, Moved, Called, TypedInv, CallInv, HeldInv, Callers
  <2>9. FrozeInv'
    BY <1>1, <1>2, <2>1 DEF SaveFails, orders, requests, wallet, Moved, Called, TypedInv, CallInv, FrozeInv, Refusals, Callers
  <2> QED
    BY <2>6, <2>7, <2>8, <2>9 DEF ClosureInv
<1>3. CASE Replied(c, "ACCOUNT_NOT_DEACTIVATED") /\ UNCHANGED call /\ ~confirm[c].applied
  <2>1. Moved(c, "done", "ACCOUNT_NOT_DEACTIVATED")
    BY <1>1, <1>3, RepliedMoves DEF Reply
  <2>6. TypedInv'
    BY <1>1, <1>3, <2>1 DEF SaveFails, orders, requests, wallet, Moved, Called, TypedInv, Callers
  <2>7. CallInv'
    BY <1>1, <1>3, <2>1 DEF SaveFails, orders, requests, wallet, Moved, Called, TypedInv, CallInv, Callers
  <2>8. HeldInv'
    BY <1>1, <1>3, <2>1 DEF SaveFails, orders, requests, wallet, Moved, Called, TypedInv, CallInv, HeldInv, Callers
  <2>9. FrozeInv'
    BY <1>1, <1>3, <2>1 DEF SaveFails, orders, requests, wallet, Moved, Called, TypedInv, CallInv, FrozeInv, Refusals, Callers
  <2> QED
    BY <2>6, <2>7, <2>8, <2>9 DEF ClosureInv
<1> QED
  BY <1>2, <1>3 DEF SaveFails

LEMMA HearUndoKeeps == ASSUME ClosureInv, NEW c \in Confirms, HearUndo(c) PROVE ClosureInv'
<1>1. TypedInv /\ CallInv /\ HeldInv /\ FrozeInv /\ c \in Callers /\ Operator # c
  BY NamesAssumption DEF ClosureInv, Callers
<1>2. /\ Moved(c, "done", "ACCOUNT_NOT_DEACTIVATED")
      /\ confirm'[c].unsure = (call[c].answer \in Failed)
  BY <1>1, RefusedMoves DEF HearUndo, Reply
<1>6. TypedInv'
  BY <1>1, <1>2 DEF HearUndo, orders, requests, wallet, Moved, Called, TypedInv, Callers
<1>7. CallInv'
  BY <1>1, <1>2 DEF HearUndo, orders, requests, wallet, Moved, Called, TypedInv, CallInv, Callers
<1>8. HeldInv'
  BY <1>1, <1>2 DEF HearUndo, orders, requests, wallet, Moved, Called, TypedInv, CallInv, HeldInv, Callers
<1>9. FrozeInv'
  <2>1. /\ frozen' = frozen /\ froze' = froze /\ call' = call
        /\ call[c].at = "answered" /\ confirm[c].at = "undoing"
    BY DEF HearUndo, wallet
  <2>2. froze = c => call[c].answer \in Failed
    BY <1>1, <2>1 DEF FrozeInv, Failed
  <2> QED
    BY <1>1, <1>2, <2>1, <2>2 DEF Moved, FrozeInv, Refusals
<1> QED
  BY <1>6, <1>7, <1>8, <1>9 DEF ClosureInv

\* The answer of walletapi never comes: the closure ends, and is unsure.
LEMMA LoseCallKeeps == ASSUME ClosureInv, NEW c \in Confirms, LoseCall(c) PROVE ClosureInv'
<1>1. TypedInv /\ CallInv /\ HeldInv /\ FrozeInv /\ c \in Callers /\ Operator # c
  BY NamesAssumption DEF ClosureInv, Callers
<1>2. /\ call' \in [Callers -> CallRecord]
      /\ call'[c].at = "none"
      /\ \A d \in Callers \ {c} : call'[d] = call[d]
  BY <1>1 DEF LoseCall, TypedInv, CallRecord, Idle, Mode, Answer, Failed
<1>3. PICK r \in Refusals :
        confirm' = [confirm EXCEPT ![c].at = "done", ![c].unsure = TRUE, ![c].reply = r]
  BY DEF LoseCall, Refusals
<1>4. Moved(c, "done", confirm'[c].reply) /\ confirm'[c].unsure
  <2>1. r \in Reply /\ confirm \in [Confirms -> ConfirmRecord]
    BY <1>1 DEF TypedInv, Refusals, Reply
  <2>2. confirm' \in [Confirms -> ConfirmRecord]
    BY <1>3, <2>1, DoneIsTyped
  <2> QED
    BY <1>3, <2>1, <2>2 DEF Moved, ConfirmRecord
<1>5. UNCHANGED <<account, frozen, froze, place, book, out>>
  BY DEF LoseCall, wallet, orders, requests
<1>6. TypedInv'
  BY <1>1, <1>2, <1>4, <1>5 DEF Moved, TypedInv
<1>7. CallInv'
  BY <1>1, <1>2, <1>4 DEF Moved, CallInv, Callers
<1>8. HeldInv'
  BY <1>1, <1>2, <1>4 DEF Moved, HeldInv, Callers
<1>9. FrozeInv'
  BY <1>1, <1>2, <1>4, <1>5 DEF Moved, FrozeInv, Callers
<1> QED
  BY <1>6, <1>7, <1>8, <1>9 DEF ClosureInv

\* After the account is closed: these steps move the closure towards its answer.
Onward(c) ==
    /\ Moved(c, confirm'[c].at, confirm'[c].reply)
    /\ confirm[c].at \in {"purging", "sweeping", "cancelling"}
    /\ \/ confirm'[c].at \in {"sweeping", "cancelling"} /\ confirm'[c].reply = confirm[c].reply
       \/ confirm'[c].at = "done" /\ confirm'[c].reply \in Reply \ Refusals
    /\ book' \subseteq Placements
    /\ UNCHANGED <<account, frozen, froze, call, place, out>>

LEMMA OnwardKeeps == ASSUME ClosureInv, NEW c \in Confirms, Onward(c) PROVE ClosureInv'
<1>1. TypedInv /\ CallInv /\ HeldInv /\ FrozeInv
  BY DEF ClosureInv
<1>6. TypedInv'
  BY <1>1 DEF Onward, Moved, TypedInv
<1>7. CallInv'
  BY <1>1 DEF Onward, Moved, CallInv
<1>8. HeldInv'
  BY <1>1 DEF Onward, Moved, HeldInv
<1>9. FrozeInv'
  BY <1>1 DEF Onward, Moved, FrozeInv, CallInv, Refusals
<1> QED
  BY <1>6, <1>7, <1>8, <1>9 DEF ClosureInv

LEMMA PurgeAndSweepGoOn ==
    ASSUME ClosureInv, NEW c \in Confirms,
           Purge(c) \/ SweepRead(c) \/ SweepClaim(c) \/ SweepEnd(c)
    PROVE  Onward(c)
<1>1. TypedInv
  BY DEF ClosureInv
<1>2. CASE Purge(c)
  <2>1. CASE Goto(c, "sweeping")
    <3>1. Moved(c, "sweeping", confirm[c].reply)
      BY <1>1, <2>1, GotoMoves DEF Stages
    <3> QED
      BY <1>1, <1>2, <3>1 DEF Purge, Onward, Moved, TypedInv, orders, requests, wallet
  <2>2. CASE confirm' = [confirm EXCEPT ![c].at = "sweeping", ![c].purged = FALSE]
    <3>2. confirm \in [Confirms -> ConfirmRecord] /\ confirm' \in [Confirms -> ConfirmRecord]
      BY <1>1, <2>2, PairIsTyped DEF TypedInv
    <3>1. Moved(c, "sweeping", confirm[c].reply)
      BY <2>2, <3>2 DEF Moved, ConfirmRecord
    <3> QED
      BY <1>1, <1>2, <3>1 DEF Purge, Onward, Moved, TypedInv, orders, requests, wallet
  <2> QED
    BY <1>2, <2>1, <2>2 DEF Purge
<1>3. CASE SweepRead(c)
  <2>2. confirm \in [Confirms -> ConfirmRecord] /\ confirm' \in [Confirms -> ConfirmRecord]
    BY <1>1, <1>3, PairIsTyped DEF SweepRead, TypedInv
  <2>1. Moved(c, "cancelling", confirm[c].reply)
    BY <1>3, <2>2 DEF SweepRead, Moved, ConfirmRecord
  <2> QED
    BY <1>1, <1>3, <2>1 DEF SweepRead, Onward, Moved, TypedInv, orders, requests, wallet
<1>4. CASE SweepClaim(c)
  <2>1. Moved(c, "cancelling", confirm[c].reply)
    BY <1>1, <1>4 DEF SweepClaim, TypedInv, Moved, ConfirmRecord
  <2> QED
    BY <1>1, <1>4, <2>1 DEF SweepClaim, Onward, Moved, TypedInv, orders, requests, wallet
<1>5. CASE SweepEnd(c)
  <2>1. \A swept \in BOOLEAN : FinalReply(c, swept) \in Reply \ Refusals
    BY DEF FinalReply, Reply, Refusals
  <2>2. PICK r \in Reply \ Refusals :
          \/ Replied(c, r)
          \/ confirm' = [confirm EXCEPT ![c].at = "done", ![c].list = {}, ![c].reply = r]
    BY <1>5, <2>1 DEF SweepEnd
  <2>3. Moved(c, "done", r)
    <3>1. CASE Replied(c, r)
      BY <1>1, <2>2, <3>1, RepliedMoves
    <3>2. CASE confirm' = [confirm EXCEPT ![c].at = "done", ![c].list = {}, ![c].reply = r]
      <4>1. confirm' \in [Confirms -> ConfirmRecord]
        BY <1>1, <3>2, DoneIsTyped DEF TypedInv
      <4>2. confirm'[c].at = "done" /\ confirm'[c].reply = r
        BY <1>1, <3>2, <4>1 DEF TypedInv, ConfirmRecord
      <4>3. confirm'[c].found = confirm[c].found
        BY <1>1, <3>2, <4>1 DEF TypedInv, ConfirmRecord
      <4> QED
        BY <1>1, <3>2, <4>1, <4>2, <4>3, SMTT(30) DEF TypedInv, Moved
    <3> QED
      BY <2>2, <3>1, <3>2
  <2> QED
    BY <1>1, <1>5, <2>2, <2>3 DEF SweepEnd, Onward, Moved, TypedInv, orders, requests, wallet
<1> QED
  BY <1>2, <1>3, <1>4, <1>5


LEMMA HoldKeeps == ASSUME ClosureInv, Hold PROVE ClosureInv'
<1>1. TypedInv /\ CallInv /\ HeldInv /\ FrozeInv
  BY DEF ClosureInv
<1>2. Operator \in Callers /\ Operator \notin Confirms
  BY NamesAssumption DEF Callers
<1>3. call' \in [Callers -> CallRecord] /\ call'[Operator].mode = call[Operator].mode
  BY <1>1, <1>2 DEF Hold, TypedInv, CallRecord
<1>4. \A c \in Confirms : c \in Callers /\ call'[c] = call[c]
  BY <1>1, <1>2 DEF Hold, TypedInv, Callers
<1>5. UNCHANGED <<account, frozen, froze, confirm, place, book, out>>
  BY DEF Hold, wallet, orders, requests
<1>6. TypedInv'
  BY <1>1, <1>3, <1>5 DEF TypedInv
<1>7. CallInv'
  BY <1>1, <1>3, <1>4, <1>5 DEF CallInv
<1>8. HeldInv'
  BY <1>1, <1>4, <1>5 DEF HeldInv
<1>9. FrozeInv'
  BY <1>1, <1>4, <1>5 DEF FrozeInv
<1> QED
  BY <1>6, <1>7, <1>8, <1>9 DEF ClosureInv

---------------------------------------------------------------------------
\* Logins, edits and placements leave the closures and the wallet alone.

\* Placement o is the only one a step has moved, to a stage.
PlaceMoved(o, at) ==
    /\ place' \in [Placements -> PlaceRecord]
    /\ place'[o].at = at
    /\ \A p \in Placements \ {o} : place'[p] = place[p]

\* Nothing that placement o has learned is forgotten.
Remembers(o) ==
    /\ place'[o].known = place[o].known
    /\ place'[o].sawFrozen = place[o].sawFrozen
    /\ place'[o].closedThen = place[o].closedThen

PlaceStages == {"idle", "mark", "wallet", "verdict", "inside", "refused", "placed"}

LEMMA StageMoves ==
    ASSUME TypedInv, NEW o \in Placements, NEW at \in PlaceStages,
           place' = [place EXCEPT ![o].at = at]
    PROVE  PlaceMoved(o, at) /\ Remembers(o)
BY DEF TypedInv, PlaceMoved, Remembers, PlaceRecord, PlaceStages

LEMMA UnknownMoves ==
    ASSUME TypedInv, NEW o \in Placements, NEW at \in PlaceStages,
           place' = [place EXCEPT ![o].at = at, ![o].known = FALSE]
    PROVE  PlaceMoved(o, at) /\ ~place'[o].known
           /\ place'[o].sawFrozen = place[o].sawFrozen
           /\ place'[o].closedThen = place[o].closedThen
BY DEF TypedInv, PlaceMoved, PlaceRecord, PlaceStages

LEMMA AnswerMoves ==
    ASSUME TypedInv, NEW o \in Placements, NEW s \in BOOLEAN, NEW t \in BOOLEAN,
           place' = [place EXCEPT ![o].at = "verdict", ![o].sawFrozen = s, ![o].closedThen = t]
    PROVE  PlaceMoved(o, "verdict") /\ place'[o].sawFrozen = s /\ place'[o].closedThen = t
<1> DEFINE p == place[o]
           q == [p EXCEPT !.sawFrozen = s]
           r == [q EXCEPT !.closedThen = t]
<1>1. p \in PlaceRecord
  BY DEF TypedInv
<1> HIDE DEF p
<1>2. q \in PlaceRecord
  BY <1>1 DEF PlaceRecord
<1> HIDE DEF q
<1>3. r \in PlaceRecord
  BY <1>2 DEF PlaceRecord
<1> HIDE DEF r
<1>4. [r EXCEPT !.at = "verdict"] \in PlaceRecord
  BY <1>3 DEF PlaceRecord
<1>5. place'[o] = [r EXCEPT !.at = "verdict"]
  BY <1>1 DEF p, q, r, TypedInv, PlaceRecord
<1>6. place' \in [Placements -> PlaceRecord]
  BY <1>4, <1>5 DEF TypedInv
<1> QED
  BY <1>6 DEF PlaceMoved, TypedInv, PlaceRecord

\* What the placements know.
PlaceInv ==
    \A o \in Placements :
        /\ place[o].closedThen => place[o].sawFrozen
        /\ place[o].at \in {"inside", "placed"} => ~place[o].sawFrozen /\ place[o].known

\* What the wallet shows while no two closures overlap: each stage has a state of
\* the account, and a closed account has a frozen wallet.
StageInv ==
    /\ \A c, d \in Confirms : c # d =>
         confirm[c].at \in {"idle", "done"} \/ confirm[d].at \in {"idle", "done"}
    /\ account = "deactivated" => frozen
    /\ \A c \in Confirms :
         /\ confirm[c].at \in {"freezing", "saving", "undoing"} => account # "deactivated"
         /\ confirm[c].at \in {"purging", "sweeping", "cancelling"} => account = "deactivated"
         /\ confirm[c].at = "saving" => frozen
         /\ /\ confirm[c].at = "freezing" /\ call[c].at = "answered"
            /\ call[c].answer \in {"FROZEN", "ALREADY_FROZEN"}
            => frozen

Aside ==
    /\ place' \in [Placements -> PlaceRecord]
    /\ book' \subseteq Placements /\ out' \subseteq Placements
    /\ UNCHANGED <<account, frozen, froze, call, confirm>>

LEMMA AsideKeeps == ASSUME ClosureInv, Aside PROVE ClosureInv'
<1>1. TypedInv'
  BY DEF Aside, ClosureInv, TypedInv
<1>2. CallInv' /\ HeldInv' /\ FrozeInv'
  BY DEF Aside, ClosureInv, CallInv, HeldInv, FrozeInv
<1> QED
  BY <1>1, <1>2 DEF ClosureInv

LEMMA PlacingStaysAside ==
    ASSUME ClosureInv, NEW o \in Placements, Placing(o)
    PROVE  Aside /\ (PlaceInv /\ (account = "deactivated" => frozen) => PlaceInv')
<1>1. TypedInv
  BY DEF ClosureInv
<1>2. CASE PlaceStart(o)
  <2>1. PlaceMoved(o, "mark") /\ Remembers(o)
    BY <1>1, <1>2, StageMoves DEF PlaceStart, PlaceStages
  <2> QED
    BY <1>1, <1>2, <2>1 DEF PlaceStart, PlaceMoved, Remembers, Aside, PlaceInv, TypedInv, orders, wallet
<1>3. CASE ReadMark(o)
  <2>1. \E at \in PlaceStages : PlaceMoved(o, at) /\ at \in {"wallet", "refused"}
            /\ place'[o].sawFrozen = place[o].sawFrozen
            /\ place'[o].closedThen = place[o].closedThen
    <3>1. CASE place' = [place EXCEPT ![o].at = IF marked THEN "refused" ELSE "wallet"]
      BY <1>1, <3>1, StageMoves DEF PlaceStages, Remembers
    <3>2. CASE place' = [place EXCEPT ![o].at = "wallet", ![o].known = FALSE]
      BY <1>1, <3>2, UnknownMoves DEF PlaceStages
    <3> QED
      BY <1>3, <3>1, <3>2 DEF ReadMark
  <2> QED
    BY <1>1, <1>3, <2>1 DEF ReadMark, PlaceMoved, Aside, PlaceInv, TypedInv, orders, wallet
<1>4. CASE AskWallet(o)
  <2>1. /\ PlaceMoved(o, "verdict")
        /\ PlaceInv /\ (account = "deactivated" => frozen)
             => (place'[o].closedThen => place'[o].sawFrozen)
    <3>1. CASE place' = [place EXCEPT ![o].at = "verdict", ![o].sawFrozen = frozen,
                           ![o].closedThen = (account = "deactivated")]
      <4>1. frozen \in BOOLEAN /\ (account = "deactivated") \in BOOLEAN
        BY <1>1 DEF TypedInv
      <4>2. /\ PlaceMoved(o, "verdict") /\ place'[o].sawFrozen = frozen
            /\ place'[o].closedThen = (account = "deactivated")
        BY <1>1, <3>1, <4>1, AnswerMoves, Zenon
      <4> QED
        BY <4>2, Zenon
    <3>2. CASE place' = [place EXCEPT ![o].at = "verdict", ![o].known = FALSE]
      BY <1>1, <3>2, UnknownMoves DEF PlaceStages, PlaceInv
    <3> QED
      BY <1>4, <3>1, <3>2 DEF AskWallet
  <2> QED
    BY <1>1, <1>4, <2>1 DEF AskWallet, PlaceMoved, Aside, PlaceInv, TypedInv, orders, wallet
<1>5. CASE Verdict(o)
  <2>1. \E at \in PlaceStages : PlaceMoved(o, at) /\ Remembers(o)
            /\ at = IF Admits(o) THEN "inside" ELSE "refused"
    BY <1>1, <1>5, StageMoves DEF Verdict, PlaceStages
  <2> QED
    BY <1>1, <1>5, <2>1 DEF Verdict, Admits, PlaceMoved, Remembers, Aside, PlaceInv, TypedInv, orders, wallet
<1>6. CASE PlaceOrder(o)
  <2>1. \E at \in PlaceStages : PlaceMoved(o, at) /\ Remembers(o)
    BY <1>1, <1>6, StageMoves DEF PlaceOrder, PlaceStages
  <2> QED
    BY <1>1, <1>6, <2>1 DEF PlaceOrder, PlaceMoved, Remembers, Aside, PlaceInv, TypedInv, wallet
<1>7. CASE FillTake(o) \/ FillPut(o)
  BY <1>1, <1>7 DEF FillTake, FillPut, Aside, PlaceInv, TypedInv, wallet, requests
<1> QED
  BY <1>2, <1>3, <1>4, <1>5, <1>6, <1>7 DEF Placing


LEMMA RequestsStayAside ==
    ASSUME ClosureInv,
           \/ \E l \in Logins : LoginRead(l) \/ LoginMint(l)
           \/ \E e \in Edits : EditStart(e) \/ EditRead(e) \/ EditWrite(e)
    PROVE  Aside /\ place' = place
BY DEF LoginRead, LoginMint, EditStart, EditRead, EditWrite, Aside, ClosureInv, TypedInv,
       wallet, orders

---------------------------------------------------------------------------
LEMMA InitHolds == Init => ClosureInv /\ PlaceInv /\ StageInv
<1> SUFFICES ASSUME Init PROVE ClosureInv /\ PlaceInv /\ StageInv
  OBVIOUS
<1>1. /\ call \in [Callers -> CallRecord]
      /\ \A c \in Callers : call[c].at = "none" /\ call[c].mode = "freeze"
  BY DEF Init, Idle, CallRecord, Mode, Answer, Failed
<1>2. /\ confirm \in [Confirms -> ConfirmRecord]
      /\ \A c \in Confirms : confirm[c].at = "idle" /\ confirm[c].reply = "none"
  BY DEF Init, ConfirmRecord, Reply
<1>3. /\ place \in [Placements -> PlaceRecord]
      /\ \A o \in Placements : place[o].at = "idle" /\ ~place[o].closedThen
  BY DEF Init, PlaceRecord
<1>4. account = "verified" /\ frozen = FALSE /\ froze = Nobody /\ book = {} /\ out = {}
  BY DEF Init
<1>5. \A c \in Confirms : froze # c
  BY <1>4, NobodyAssumption DEF Callers
<1>6. TypedInv
  BY <1>1, <1>2, <1>3, <1>4 DEF TypedInv
<1>7. CallInv
  BY <1>1, <1>2 DEF CallInv, Callers
<1>8. HeldInv /\ FrozeInv
  BY <1>2, <1>4, <1>5 DEF HeldInv, FrozeInv
<1>9. PlaceInv /\ StageInv
  BY <1>2, <1>3, <1>4 DEF PlaceInv, StageInv
<1> QED
  BY <1>6, <1>7, <1>8, <1>9 DEF ClosureInv

LEMMA ClosingKeeps == ASSUME ClosureInv, NEW c \in Confirms, Closing(c) PROVE ClosureInv'
BY ConfirmKeeps, ReadUserKeeps, HearFreezeKeeps, LoseCallKeeps, SaveKeeps, SaveFailsKeeps,
   HearUndoKeeps, PurgeAndSweepGoOn, OnwardKeeps DEF Closing

LEMMA ClosureStep == ClosureInv /\ [Next]_vars => ClosureInv'
<1> SUFFICES ASSUME ClosureInv, [Next]_vars PROVE ClosureInv'
  OBVIOUS
<1>1. CASE \E c \in Confirms : Closing(c)
  BY <1>1, ClosingKeeps
<1>2. CASE WalletService \/ Hold
  BY <1>2, LookKeeps, SetKeeps, CheckKeeps, WalletFailsKeeps, HoldKeeps DEF WalletService
<1>3. CASE \/ \E l \in Logins : LoginRead(l) \/ LoginMint(l)
           \/ \E e \in Edits : EditStart(e) \/ EditRead(e) \/ EditWrite(e)
  BY <1>3, RequestsStayAside, AsideKeeps
<1>4. CASE \E o \in Placements : Placing(o)
  BY <1>4, PlacingStaysAside, AsideKeeps
<1>5. CASE UNCHANGED vars
  BY <1>5 DEF vars, ClosureInv, TypedInv, CallInv, HeldInv, FrozeInv
<1> QED
  BY <1>1, <1>2, <1>3, <1>4, <1>5 DEF Next

\* The inductive invariant of the closures, the calls made for them and the freeze.
LEMMA ClosureInvariant == Spec => []ClosureInv
<1>1. Init => ClosureInv
  BY InitHolds
<1> QED
  BY <1>1, ClosureStep, PTL DEF Spec

---------------------------------------------------------------------------
\* Nothing has changed: however many closures and holds run at once, a refused closure
\* leaves no freeze of its own, unless a call of it to walletapi was lost or was only
\* answered that it failed.
THEOREM RefusedUnfrozen == Spec => []RefusalLeavesNothing
<1>1. ClosureInv => RefusalLeavesNothing
  BY DEF ClosureInv, FrozeInv, RefusalLeavesNothing, Refusals
<1> QED
  BY <1>1, ClosureInvariant, PTL

\* A hold somebody else put on the wallet outlives every closure that found it there:
\* the wallet is only unfrozen by the undo of a closure that had found it live.
THEOREM HoldsStay == Spec => HoldOutlivesClosure
<1>1. ClosureInv /\ [Next]_vars =>
        [frozen /\ ~frozen' =>
           \E c \in Confirms : confirm[c].at = "undoing" /\ ~confirm[c].found]_vars
  <2> SUFFICES ASSUME ClosureInv, Next, frozen, ~frozen'
               PROVE  \E c \in Confirms : confirm[c].at = "undoing" /\ ~confirm[c].found
    OBVIOUS
  <2>1. PICK c \in Callers : Set(c)
    <3>1. ~Hold /\ \A c \in Callers : ~Look(c) /\ ~Check(c) /\ ~WalletFails(c)
      BY DEF Hold, Look, Check, WalletFails, wallet
    <3>2. \A c \in Confirms : ~Closing(c)
      BY DEF Closing, Confirm, ReadUser, HearFreeze, LoseCall, Save, SaveFails, HearUndo,
             Purge, SweepRead, SweepClaim, SweepEnd, wallet
    <3>3. \A o \in Placements : ~Placing(o)
      BY DEF Placing, PlaceStart, ReadMark, AskWallet, Verdict, PlaceOrder, FillTake,
             FillPut, wallet
    <3>4. /\ \A l \in Logins : ~LoginRead(l) /\ ~LoginMint(l)
          /\ \A e \in Edits : ~EditStart(e) /\ ~EditRead(e) /\ ~EditWrite(e)
      BY DEF LoginRead, LoginMint, EditStart, EditRead, EditWrite, wallet
    <3> QED
      BY <3>1, <3>2, <3>3, <3>4 DEF Next, WalletService
  <2>2. call[c].mode # "freeze" /\ call[c].at = "set"
    BY <2>1 DEF Set
  <2>3. c \in Confirms
    BY <2>2 DEF ClosureInv, CallInv, Callers
  <2> QED
    BY <2>2, <2>3 DEF ClosureInv, CallInv, HeldInv
<1> QED
  BY <1>1, ClosureInvariant, PTL DEF Spec, HoldOutlivesClosure


---------------------------------------------------------------------------
\* Closures one at a time.  The wallet's own steps first.

LEMMA WalletStage ==
    ASSUME ClosureInv, StageInv, NEW c \in Callers,
           Look(c) \/ Set(c) \/ Check(c) \/ WalletFails(c)
    PROVE  StageInv'
<1>1. TypedInv /\ CallInv
  BY DEF ClosureInv
<1>2. /\ account' = account
      /\ \A d \in Callers \ {c} : call'[d] = call[d]
      /\ \A d \in Confirms : confirm'[d].at = confirm[d].at
  BY <1>1 DEF Look, Set, Check, WalletFails, Answered, TypedInv, ConfirmRecord, wallet
<1>3. CASE Look(c)
  <2>1. /\ frozen' = frozen
        /\ call'[c].at = "answered" => frozen \/ call'[c].answer = "ALREADY_LIVE"
    BY <1>1, <1>3 DEF Look, Answered, TypedInv, CallRecord, wallet
  <2> QED
    BY <1>1, <1>2, <2>1 DEF StageInv, Callers
<1>4. CASE Set(c)
  <2>1. call'[c].at = "check" /\ (frozen' \/ call[c].mode # "freeze") /\ call[c].at = "set"
    BY <1>1, <1>4 DEF Set, TypedInv, CallRecord
  <2>2. CASE frozen'
    BY <1>1, <1>2, <2>1, <2>2 DEF StageInv, Callers
  <2>3. CASE call[c].mode # "freeze"
    <3>1. c \in Confirms /\ confirm[c].at = "undoing"
      BY <1>1, <2>1, <2>3 DEF CallInv, Callers
    <3>2. /\ account # "deactivated"
          /\ \A d \in Confirms \ {c} : confirm[d].at \in {"idle", "done"}
      BY <3>1 DEF StageInv
    <3> QED
      BY <1>2, <3>1, <3>2 DEF StageInv
  <2> QED
    BY <2>1, <2>2, <2>3
<1>5. CASE Check(c)
  <2>1. /\ frozen' = frozen
        /\ call'[c].answer \in {"FROZEN", "ALREADY_FROZEN"} => frozen
    BY <1>1, <1>5 DEF Check, Answered, TypedInv, CallRecord, wallet, Mode
  <2> QED
    BY <1>1, <1>2, <2>1 DEF StageInv, Callers
<1>6. CASE WalletFails(c)
  <2>1. frozen' = frozen /\ call'[c].answer \in Failed
    BY <1>1, <1>6 DEF WalletFails, Answered, TypedInv, CallRecord, wallet, Failed
  <2> QED
    BY <1>1, <1>2, <2>1 DEF StageInv, Callers, Failed
<1> QED
  BY <1>3, <1>4, <1>5, <1>6

\* A closure that moves while the account stays what it is.
LEMMA ClosingStage ==
    ASSUME ClosureInv, StageInv, ~Overlap, NEW c \in Confirms, Closing(c)
    PROVE  StageInv'
<1>1. TypedInv /\ c \in Callers
  BY DEF ClosureInv, Callers
<1>2. \A d \in Confirms : d \in Callers
  BY DEF Callers
<1>3. CASE Confirm(c)
  <2>1. Moved(c, "reading", confirm[c].reply)
    BY <1>1, <1>3, GotoMoves DEF Confirm, Stages
  <2>2. \A d \in Confirms : confirm[d].at \in {"idle", "done"}
    BY <1>3 DEF Confirm
  <2> QED
    BY <1>2, <1>3, <2>1, <2>2 DEF Confirm, Moved, StageInv, wallet
<1>4. CASE ReadUser(c)
  <2>1. CASE account = "verified" /\ Goto(c, "freezing") /\ Call(c, "freeze")
    <3>1. Moved(c, "freezing", confirm[c].reply) /\ Called(c, "freeze")
      BY <1>1, <2>1, GotoMoves, CallIsMade DEF Stages, Mode
    <3> QED
      BY <1>2, <1>4, <2>1, <3>1 DEF ReadUser, Moved, Called, StageInv, wallet
  <2>2. CASE Replied(c, "REFUSED") /\ UNCHANGED call
    <3>1. Moved(c, "done", "REFUSED")
      BY <1>1, <2>2, RepliedMoves DEF Reply
    <3> QED
      BY <1>2, <1>4, <2>2, <3>1 DEF ReadUser, Moved, StageInv, wallet
  <2> QED
    BY <1>4, <2>1, <2>2 DEF ReadUser
<1>5. CASE HearFreeze(c)
  <2>1. CASE call[c].answer \in {"FROZEN", "ALREADY_FROZEN"}
    <3>1. frozen /\ account # "deactivated"
      BY <1>5, <2>1 DEF HearFreeze, StageInv
    <3>2. /\ confirm'[c].at = "saving"
          /\ \A d \in Confirms \ {c} : confirm'[d] = confirm[d]
      BY <1>1, <1>5, <2>1 DEF HearFreeze, TypedInv, ConfirmRecord
    <3> QED
      BY <1>2, <1>5, <3>1, <3>2 DEF HearFreeze, StageInv, wallet
  <2>2. CASE call[c].answer \notin {"FROZEN", "ALREADY_FROZEN"}
    <3>1. Moved(c, "done", "WALLET_NOT_DEACTIVATED")
      BY <1>1, <1>5, <2>2, RefusedMoves DEF HearFreeze, Reply
    <3> QED
      BY <1>2, <1>5, <3>1 DEF HearFreeze, Moved, StageInv, wallet
  <2> QED
    BY <2>1, <2>2
<1>6. CASE LoseCall(c)
  <2>1. /\ confirm'[c].at = "done"
        /\ \A d \in Confirms \ {c} : confirm'[d] = confirm[d] /\ call'[d] = call[d]
    BY <1>1, <1>2, <1>6 DEF LoseCall, TypedInv, ConfirmRecord
  <2>2. /\ account' = account /\ session' = session /\ book' = book /\ out' = out
        /\ frozen' = frozen /\ marked' = marked /\ place' = place
    BY <1>6 DEF LoseCall, wallet, orders, requests
  <2> QED
    BY <1>2, <2>1, <2>2 DEF StageInv
<1>7. CASE Save(c)
  <2>1. Moved(c, "purging", confirm[c].reply)
    BY <1>1, <1>7, GotoMoves DEF Save, Stages
  <2>2. frozen /\ \A d \in Confirms \ {c} : confirm[d].at \in {"idle", "done"}
    BY <1>7 DEF Save, StageInv
  <2> QED
    BY <1>7, <2>1, <2>2 DEF Save, Moved, StageInv, wallet
<1>8. CASE SaveFails(c)
  <2>0. account # "deactivated"
    BY <1>8 DEF SaveFails, StageInv
  <2>1. CASE Goto(c, "undoing") /\ Call(c, "unfreeze")
    <3>1. Moved(c, "undoing", confirm[c].reply) /\ Called(c, "unfreeze")
      BY <1>1, <2>1, GotoMoves, CallIsMade DEF Stages, Mode
    <3> QED
      BY <1>2, <1>8, <2>0, <2>1, <3>1 DEF SaveFails, Moved, Called, StageInv, wallet
  <2>2. CASE Replied(c, "ACCOUNT_NOT_DEACTIVATED") /\ UNCHANGED call
    <3>1. Moved(c, "done", "ACCOUNT_NOT_DEACTIVATED")
      BY <1>1, <2>2, RepliedMoves DEF Reply
    <3> QED
      BY <1>2, <1>8, <2>2, <3>1 DEF SaveFails, Moved, StageInv, wallet
  <2> QED
    BY <1>8, <2>1, <2>2 DEF SaveFails
<1>9. CASE HearUndo(c)
  <2>1. Moved(c, "done", "ACCOUNT_NOT_DEACTIVATED")
    BY <1>1, <1>9, RefusedMoves DEF HearUndo, Reply
  <2> QED
    BY <1>2, <1>9, <2>1 DEF HearUndo, Moved, StageInv, wallet
<1>10. CASE Purge(c) \/ SweepRead(c) \/ SweepClaim(c) \/ SweepEnd(c)
  <2>1. Onward(c)
    BY <1>10, PurgeAndSweepGoOn
  <2>2. account = "deactivated"
    BY <2>1 DEF Onward, StageInv
  <2> QED
    BY <1>2, <2>1, <2>2 DEF Onward, Moved, StageInv
<1> QED
  BY <1>3, <1>4, <1>5, <1>6, <1>7, <1>8, <1>9, <1>10 DEF Closing

OneByOneInv == ClosureInv /\ PlaceInv /\ StageInv

LEMMA OneByOneStep ==
    ASSUME ~Overlap, OneByOneInv, [Next]_vars
    PROVE  OneByOneInv'
<1>1. ClosureInv'
  BY ClosureStep DEF OneByOneInv
<1>2. CASE \E c \in Confirms : Closing(c)
  <2>1. place' = place
    BY <1>2 DEF Closing, Confirm, ReadUser, HearFreeze, LoseCall, Save, SaveFails, HearUndo,
                Purge, SweepRead, SweepClaim, SweepEnd, requests
  <2> QED
    BY <1>1, <1>2, <2>1, ClosingStage DEF OneByOneInv, PlaceInv
<1>3. CASE WalletService
  <2>1. place' = place
    BY <1>3 DEF WalletService, Look, Set, Check, WalletFails, requests
  <2> QED
    BY <1>1, <1>3, <2>1, WalletStage DEF WalletService, OneByOneInv, PlaceInv
<1>4. CASE Hold
  <2>1. Operator \notin Confirms
    BY NamesAssumption
  <2>2. \A c \in Confirms : call'[c] = call[c]
    BY <1>4, <2>1 DEF Hold, OneByOneInv, ClosureInv, TypedInv, Callers
  <2> QED
    BY <1>1, <1>4, <2>2 DEF Hold, OneByOneInv, PlaceInv, StageInv, wallet, requests
<1>5. CASE \/ \E l \in Logins : LoginRead(l) \/ LoginMint(l)
           \/ \E e \in Edits : EditStart(e) \/ EditRead(e) \/ EditWrite(e)
  BY <1>1, <1>5, RequestsStayAside DEF OneByOneInv, Aside, PlaceInv, StageInv
<1>6. CASE \E o \in Placements : Placing(o)
  <2>1. Aside /\ PlaceInv'
    BY <1>6, PlacingStaysAside DEF OneByOneInv, StageInv
  <2> QED
    BY <1>1, <2>1 DEF OneByOneInv, Aside, StageInv
<1>7. CASE UNCHANGED vars
  BY <1>1, <1>7 DEF vars, OneByOneInv, PlaceInv, StageInv
<1> QED
  BY <1>2, <1>3, <1>4, <1>5, <1>6, <1>7 DEF Next

LEMMA OneByOne == ASSUME ~Overlap PROVE Spec => []OneByOneInv
<1>1. Init => OneByOneInv
  BY InitHolds DEF OneByOneInv
<1>2. OneByOneInv /\ [Next]_vars => OneByOneInv'
  BY OneByOneStep
<1> QED
  BY <1>1, <1>2, PTL DEF Spec

\* Orders are cancelled last: while no two closures of an account overlap, the sweep
\* begins only on an account that is closed and whose wallet is frozen.
THEOREM SweepsComeLast == ASSUME ~Overlap PROVE Spec => []IrreversibleLast
<1>1. OneByOneInv => IrreversibleLast
  BY DEF OneByOneInv, StageInv, IrreversibleLast
<1> QED
  BY <1>1, OneByOne, PTL

\* The guard of orderPlace admits nobody after the closure: not on an answer given once
\* the account was closed, and not on no answer, while closures do not overlap.
THEOREM ClosedAdmitsNobody == ASSUME ~Overlap PROVE Spec => []NoLateAdmission
<1>1. OneByOneInv => NoLateAdmission
  BY DEF OneByOneInv, PlaceInv, NoLateAdmission
<1> QED
  BY <1>1, OneByOne, PTL

---------------------------------------------------------------------------
\* The rest of the types: the mark, the sessions, who mints and edits them, and the
\* ghost of the freeze.
AroundInv ==
    /\ marked \in BOOLEAN
    /\ session \in Tokens \cup {Remnant, NoSession}
    /\ login \in [Logins -> {"idle", "minting", "done"}]
    /\ edit \in [Edits -> [at: {"idle", "reading", "writing", "done"},
                           copy: Tokens \cup {Remnant, NoSession}]]
    /\ froze \in Callers \cup {Nobody}

LEMMA AroundStep ==
    ASSUME AroundInv, [Next]_vars
    PROVE  AroundInv'
<1>1. ASSUME NEW c \in Confirms, Closing(c) PROVE AroundInv'
  <2>1. UNCHANGED <<marked, login, edit, froze>> /\ session' \in {session, NoSession}
    BY <1>1 DEF Closing, Confirm, ReadUser, HearFreeze, LoseCall, Save, SaveFails, HearUndo,
             Purge, SweepRead, SweepClaim, SweepEnd, wallet, requests
  <2> QED
    BY <2>1 DEF AroundInv
<1>2. ASSUME NEW c \in Callers, Look(c) \/ Set(c) \/ Check(c) \/ WalletFails(c) PROVE AroundInv'
  <2>1. UNCHANGED <<marked, session, login, edit>> /\ froze' \in {Nobody, froze, c}
    BY <1>2 DEF Look, Set, Check, WalletFails, wallet, requests
  <2> QED
    BY <2>1 DEF AroundInv
<1>3. CASE Hold \/ UNCHANGED vars
  BY <1>3 DEF Hold, vars, wallet, requests, AroundInv
<1>4. ASSUME NEW l \in Logins, LoginRead(l) \/ LoginMint(l) PROVE AroundInv'
  <2>1. UNCHANGED <<marked, edit, froze>> /\ session' \in {session, l}
    BY <1>4 DEF LoginRead, LoginMint, wallet
  <2>2. login' \in [Logins -> {"idle", "minting", "done"}]
    BY <1>4 DEF LoginRead, LoginMint, AroundInv
  <2> QED
    BY <2>1, <2>2 DEF AroundInv, Tokens
<1>5. ASSUME NEW e \in Edits, EditStart(e) \/ EditRead(e) \/ EditWrite(e)
      PROVE  AroundInv'
  <2> DEFINE Edit == [at: {"idle", "reading", "writing", "done"},
                      copy: Tokens \cup {Remnant, NoSession}]
  <2>1. edit[e] \in Edit /\ session \in Tokens \cup {Remnant, NoSession}
    BY DEF AroundInv
  <2>2. UNCHANGED <<marked, login, froze>>
    BY <1>5 DEF EditStart, EditRead, EditWrite, wallet
  <2>3. session' \in {session, Remnant, edit[e].copy}
    BY <1>5 DEF EditStart, EditRead, EditWrite
  <2>4. PICK n \in Edit : edit' = [edit EXCEPT ![e] = n]
    <3>1. CASE EditStart(e)
      <4>1. [edit[e] EXCEPT !.at = "reading"] \in Edit
        BY <2>1
      <4>2. edit' = [edit EXCEPT ![e] = [edit[e] EXCEPT !.at = "reading"]]
        BY <3>1 DEF EditStart, AroundInv
      <4> QED
        BY <4>1, <4>2
    <3>2. CASE EditRead(e)
      <4>1. [edit[e] EXCEPT !.at = "writing", !.copy = session] \in Edit
        BY <2>1
      <4>2. edit' = [edit EXCEPT ![e] = [edit[e] EXCEPT !.at = "writing", !.copy = session]]
        BY <3>2 DEF EditRead, AroundInv
      <4> QED
        BY <4>1, <4>2
    <3>3. CASE EditWrite(e)
      <4>1. [edit[e] EXCEPT !.at = "done"] \in Edit
        BY <2>1
      <4>2. edit' = [edit EXCEPT ![e] = [edit[e] EXCEPT !.at = "done"]]
        BY <3>3 DEF EditWrite, AroundInv
      <4> QED
        BY <4>1, <4>2
    <3> QED
      BY <1>5, <3>1, <3>2, <3>3
  <2>5. edit' \in [Edits -> Edit]
    BY <2>4 DEF AroundInv
  <2>6. session' \in Tokens \cup {Remnant, NoSession}
    BY <2>1, <2>3
  <2> QED
    BY <2>2, <2>5, <2>6 DEF AroundInv
<1>6. ASSUME NEW o \in Placements, Placing(o) PROVE AroundInv'
  <2>1. UNCHANGED <<marked, session, login, edit, froze>>
    BY <1>6 DEF Placing, PlaceStart, ReadMark, AskWallet, Verdict, PlaceOrder, FillTake,
             FillPut, wallet, requests
  <2> QED
    BY <2>1 DEF AroundInv
<1> QED
  BY <1>1, <1>2, <1>3, <1>4, <1>5, <1>6 DEF Next, WalletService

\* What the services keep of an account, and every request on its way, has its type.
THEOREM ClosureTypes == Spec => []TypeOK
<1>1. Init => AroundInv
  BY DEF Init, AroundInv, Tokens
<1>2. AroundInv /\ [Next]_vars => AroundInv'
  BY AroundStep
<1>3. ASSUME ClosureInv, AroundInv PROVE TypeOK
  BY <1>3 DEF ClosureInv, TypedInv, AroundInv, TypeOK, CallRecord, PlaceRecord
<1> QED
  BY <1>1, <1>2, <1>3, ClosureInvariant, PTL DEF Spec
=============================================================================
