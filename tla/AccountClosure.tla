--------------------------- MODULE AccountClosure ---------------------------
(***************************************************************************)
(* One account that its owner closes, across three services: userapi runs   *)
(* confirmDeActive, walletapi freezes and unfreezes the wallet for it, and  *)
(* spotapi sweeps the open orders.  Beside it run what the closure has to   *)
(* stop: placements behind the stand-down guard, logins, and showPair,      *)
(* which reads the session record and writes it back.                       *)
(*                                                                          *)
(* An action is what one service does between two awaits.  The one-time     *)
(* code is a choice here (AccountAccess models it), the open orders are one *)
(* set, and the passbook, history and socket writes are left out.           *)
(***************************************************************************)
EXTENDS FiniteSets

CONSTANTS
    Confirms,     \* requests to close the account (deactive-confirm)
    Logins, Edits, Placements,
    Operator,     \* somebody who freezes the wallet for reasons of their own
    FirstToken,   \* the token of the session the account starts with
    Remnant,      \* a session record without a token, which nothing accepts
    NoSession,
    Faults,       \* which of AllFaults may happen
    Overlap       \* whether two confirms may run at the same time

AllFaults == {"rpc", "wallet", "save", "purge", "sweep", "mark"}
ASSUME FaultsAssumption == Faults \subseteq AllFaults /\ Overlap \in BOOLEAN
ASSUME NamesAssumption ==
    /\ Operator \notin Confirms
    /\ FirstToken \notin Logins
    /\ {Remnant, NoSession} \cap (Logins \cup {FirstToken}) = {}
    /\ Remnant # NoSession

VARIABLES
    account,    \* status and userLocked of the user document
    frozen,     \* wallet.frozen
    marked,     \* the account_standdown hash, which nothing writes any more
    session,    \* the account's field of the userToken hash
    book, out,  \* open orders in their hash, and those a fill has taken out of it
    call,       \* a deactivateWallet call being served, per caller
    confirm, login, edit, place,  \* the requests
    froze       \* ghost: whose call froze the wallet, Operator or a confirm

vars == <<account, frozen, marked, session, book, out, call, confirm, login,
          edit, place, froze>>

orders == <<book, out>>
requests == <<login, edit, place>>
wallet == <<frozen, marked, froze>>

Tokens == Logins \cup {FirstToken}
Callers == Confirms \cup {Operator}
Nobody == "nobody"
ASSUME NobodyAssumption == Nobody \notin Callers

Mode == {"freeze", "unfreeze"}
Failed == {"FREEZE_FAILED", "UNFREEZE_FAILED"}
Answer == Failed \cup {"none", "FROZEN", "ALREADY_FROZEN", "FREEZE_NOT_APPLIED",
                      "RESTORED", "ALREADY_LIVE", "UNFREEZE_NOT_APPLIED"}
Reply == {"none", "REFUSED", "WALLET_NOT_DEACTIVATED", "ACCOUNT_NOT_DEACTIVATED",
          "SESSION_NOT_PURGED", "DEACTIVATED_ORDERS_PENDING", "DEACTIVATED"}

\* unsure is a ghost: of some call to walletapi this confirm heard nothing, or only
\* that it failed, which may be before or after the wallet was written.
ConfirmRecord ==
    [at: {"idle", "reading", "freezing", "saving", "undoing", "purging",
          "sweeping", "cancelling", "done"},
     applied: BOOLEAN, purged: BOOLEAN, list: SUBSET Placements, reply: Reply,
     found: BOOLEAN, unsure: BOOLEAN]

TypeOK ==
    /\ account \in {"verified", "deactivated"}
    /\ frozen \in BOOLEAN /\ marked \in BOOLEAN
    /\ session \in Tokens \cup {Remnant, NoSession}
    /\ book \subseteq Placements /\ out \subseteq Placements
    /\ call \in [Callers -> [at: {"none", "look", "set", "check", "answered"},
                             mode: Mode, answer: Answer]]
    /\ confirm \in [Confirms -> ConfirmRecord]
    /\ login \in [Logins -> {"idle", "minting", "done"}]
    /\ edit \in [Edits -> [at: {"idle", "reading", "writing", "done"},
                           copy: Tokens \cup {Remnant, NoSession}]]
    /\ place \in [Placements ->
                    [at: {"idle", "mark", "wallet", "verdict", "inside", "refused", "placed"},
                     known: BOOLEAN, sawFrozen: BOOLEAN, closedThen: BOOLEAN]]
    /\ froze \in Callers \cup {Nobody}

Idle == [at |-> "none", mode |-> "freeze", answer |-> "none"]

Init ==
    /\ account = "verified"
    /\ frozen = FALSE
    /\ marked \in BOOLEAN
    /\ session = FirstToken
    /\ book = {} /\ out = {}
    /\ call = [c \in Callers |-> Idle]
    /\ confirm = [c \in Confirms |->
         [at |-> "idle", applied |-> FALSE, purged |-> TRUE, list |-> {},
          reply |-> "none", found |-> FALSE, unsure |-> FALSE]]
    /\ login = [l \in Logins |-> "idle"]
    /\ edit = [e \in Edits |-> [at |-> "idle", copy |-> NoSession]]
    /\ place = [o \in Placements |->
         [at |-> "idle", known |-> TRUE, sawFrozen |-> FALSE, closedThen |-> FALSE]]
    /\ froze = Nobody

\* passport: the record must be there, unlocked, and carry the caller's token.
Authenticated == session \in Tokens

---------------------------------------------------------------------------
\* walletapi: standDownWallet and restoreWallet, each a read, a conditional
\* update and a second read that the answer is made from.

Answered(c, a) == call' = [call EXCEPT ![c].at = "answered", ![c].answer = a]

Look(c) ==
    /\ call[c].at = "look"
    /\ IF call[c].mode = "freeze" /\ frozen THEN Answered(c, "ALREADY_FROZEN")
       ELSE IF call[c].mode = "unfreeze" /\ ~frozen THEN Answered(c, "ALREADY_LIVE")
       ELSE call' = [call EXCEPT ![c].at = "set"]
    /\ confirm' = IF c \in Confirms /\ call[c].mode = "freeze"
                  THEN [confirm EXCEPT ![c].found = frozen] ELSE confirm
    /\ UNCHANGED <<account, wallet, session, orders, requests>>

\* The freeze's update is conditional on the wallet not being frozen.
Set(c) ==
    /\ call[c].at = "set"
    /\ call' = [call EXCEPT ![c].at = "check"]
    /\ frozen' = (call[c].mode = "freeze")
    /\ froze' = IF call[c].mode = "unfreeze" THEN Nobody
                ELSE IF frozen THEN froze ELSE c
    /\ UNCHANGED <<account, marked, session, orders, confirm, requests>>

Check(c) ==
    /\ call[c].at = "check"
    /\ Answered(c, CASE call[c].mode = "freeze" /\ frozen -> "FROZEN"
                     [] call[c].mode = "freeze" /\ ~frozen -> "FREEZE_NOT_APPLIED"
                     [] call[c].mode = "unfreeze" /\ ~frozen -> "RESTORED"
                     [] call[c].mode = "unfreeze" /\ frozen -> "UNFREEZE_NOT_APPLIED")
    /\ UNCHANGED <<account, wallet, session, orders, confirm, requests>>

\* A read or the update throws, and the catch answers so: past the update the wallet
\* has been written all the same.
WalletFails(c) ==
    /\ "wallet" \in Faults
    /\ call[c].at \in {"look", "set", "check"}
    /\ Answered(c, IF call[c].mode = "freeze" THEN "FREEZE_FAILED" ELSE "UNFREEZE_FAILED")
    /\ UNCHANGED <<account, wallet, session, orders, confirm, requests>>

WalletService == \E c \in Callers : Look(c) \/ Set(c) \/ Check(c) \/ WalletFails(c)

\* An operator's hold goes through the same call.
Hold ==
    /\ call[Operator].at = "none"
    /\ call' = [call EXCEPT ![Operator].at = "look"]
    /\ UNCHANGED <<account, wallet, session, orders, confirm, requests>>

---------------------------------------------------------------------------
\* userapi: confirmDeActive.

Goto(c, at) == confirm' = [confirm EXCEPT ![c].at = at]
Replied(c, r) == confirm' = [confirm EXCEPT ![c].at = "done", ![c].reply = r]
Call(c, mode) == call' = [call EXCEPT ![c] = [Idle EXCEPT !.at = "look", !.mode = mode]]

Confirm(c) ==
    /\ confirm[c].at = "idle" /\ Authenticated
    /\ Overlap \/ \A d \in Confirms : confirm[d].at \in {"idle", "done"}
    /\ Goto(c, "reading")
    /\ UNCHANGED <<account, wallet, session, orders, call, requests>>

\* Already closed, no pending request, wrong or expired code: refused.
ReadUser(c) ==
    /\ confirm[c].at = "reading"
    /\ \/ /\ account = "verified"
          /\ Goto(c, "freezing") /\ Call(c, "freeze")
       \/ Replied(c, "REFUSED") /\ UNCHANGED call
    /\ UNCHANGED <<account, wallet, session, orders, requests>>

\* A refusal on what walletapi answered, or after it.
RefusedHearing(c, r) ==
    confirm' = [confirm EXCEPT ![c].at = "done", ![c].unsure = (call[c].answer \in Failed),
                               ![c].reply = r]

\* freezeAppliedByThisCall: only FROZEN counts as applied by this call.
\* A plausible bug: an idempotent freeze counts as applied.
AppliedIfFrozen(a) == a \in {"FROZEN", "ALREADY_FROZEN"}
AppliedByThisCall(a) == a = "FROZEN"

HearFreeze(c) ==
    /\ confirm[c].at = "freezing" /\ call[c].at = "answered"
    /\ IF call[c].answer \in {"FROZEN", "ALREADY_FROZEN"}
       THEN confirm' = [confirm EXCEPT ![c].at = "saving",
                          ![c].applied = AppliedByThisCall(call[c].answer)]
       ELSE RefusedHearing(c, "WALLET_NOT_DEACTIVATED")
    /\ UNCHANGED <<account, wallet, session, orders, call, requests>>

\* The call never arrives, or its answer is lost: the client resolves to
\* status false, which refuses a closure and is only logged by an undo.
LoseCall(c) ==
    /\ "rpc" \in Faults
    /\ confirm[c].at \in {"freezing", "undoing"}
    /\ call[c].at \in {"look", "answered"}
    /\ call' = [call EXCEPT ![c] = Idle]
    /\ confirm' = [confirm EXCEPT
         ![c].at = "done", ![c].unsure = TRUE,
         ![c].reply = IF confirm[c].at = "freezing" THEN "WALLET_NOT_DEACTIVATED"
                      ELSE "ACCOUNT_NOT_DEACTIVATED"]
    /\ UNCHANGED <<account, wallet, session, orders, requests>>

Save(c) ==
    /\ confirm[c].at = "saving"
    /\ account' = "deactivated"
    /\ Goto(c, "purging")
    /\ UNCHANGED <<wallet, session, orders, call, requests>>

\* Plausible bugs: the handler goes on after the failed write, or forgets the undo.
SaveFailsGoesOn(c) ==
    /\ "save" \in Faults
    /\ confirm[c].at = "saving"
    /\ Goto(c, "purging")
    /\ UNCHANGED <<account, wallet, session, orders, call, requests>>
SaveFailsNoUndo(c) ==
    /\ "save" \in Faults
    /\ confirm[c].at = "saving"
    /\ Replied(c, "ACCOUNT_NOT_DEACTIVATED")
    /\ UNCHANGED <<account, wallet, session, orders, call, requests>>

\* The write fails: undoFreezes takes back what this call applied.
SaveFails(c) ==
    /\ "save" \in Faults
    /\ confirm[c].at = "saving"
    /\ IF confirm[c].applied
       THEN Goto(c, "undoing") /\ Call(c, "unfreeze")
       ELSE Replied(c, "ACCOUNT_NOT_DEACTIVATED") /\ UNCHANGED call
    /\ UNCHANGED <<account, wallet, session, orders, requests>>

\* Whatever the undo was answered, it is at most logged.
HearUndo(c) ==
    /\ confirm[c].at = "undoing" /\ call[c].at = "answered"
    /\ RefusedHearing(c, "ACCOUNT_NOT_DEACTIVATED")
    /\ UNCHANGED <<account, wallet, session, orders, call, requests>>

Purge(c) ==
    /\ confirm[c].at = "purging"
    /\ \/ session' = NoSession /\ Goto(c, "sweeping")
       \/ /\ "purge" \in Faults /\ UNCHANGED session
          /\ confirm' = [confirm EXCEPT ![c].at = "sweeping", ![c].purged = FALSE]
    /\ UNCHANGED <<account, wallet, orders, call, requests>>

\* spotapi: cancelOrderForDeactiveAcc reads the hashes, then claims row by row.
SweepRead(c) ==
    /\ confirm[c].at = "sweeping"
    /\ confirm' = [confirm EXCEPT ![c].at = "cancelling", ![c].list = book]
    /\ UNCHANGED <<account, wallet, session, orders, call, requests>>

SweepClaim(c) ==
    /\ confirm[c].at = "cancelling"
    /\ \E o \in confirm[c].list :
         /\ book' = book \ {o}
         /\ confirm' = [confirm EXCEPT ![c].list = @ \ {o}]
    /\ UNCHANGED <<account, wallet, session, out, call, requests>>

\* A plausible bug: an answer of the sweep is passed on that the page does not know.
FinalReplyOfSweep(c, swept) == IF swept THEN "DEACTIVATED" ELSE "NOT_CANCELLED"
FinalReply(c, swept) ==
    CASE ~confirm[c].purged -> "SESSION_NOT_PURGED"
      [] confirm[c].purged /\ ~swept -> "DEACTIVATED_ORDERS_PENDING"
      [] OTHER -> "DEACTIVATED"

SweepEnd(c) ==
    /\ \/ /\ confirm[c].at = "cancelling" /\ confirm[c].list = {}
          /\ Replied(c, FinalReply(c, TRUE))
       \/ /\ "sweep" \in Faults
          /\ confirm[c].at \in {"sweeping", "cancelling"}
          /\ confirm' = [confirm EXCEPT ![c].at = "done", ![c].list = {},
                           ![c].reply = FinalReply(c, FALSE)]
    /\ UNCHANGED <<account, wallet, session, orders, call, requests>>

Closing(c) ==
    \/ Confirm(c) \/ ReadUser(c) \/ HearFreeze(c) \/ LoseCall(c) \/ Save(c)
    \/ SaveFails(c) \/ HearUndo(c) \/ Purge(c) \/ SweepRead(c) \/ SweepClaim(c)
    \/ SweepEnd(c)

---------------------------------------------------------------------------
\* What the closure has to stop.

\* userLogin reads the user document, then (code, settings) mints a session.
LoginRead(l) ==
    /\ login[l] = "idle" /\ account = "verified"
    /\ login' = [login EXCEPT ![l] = "minting"]
    /\ UNCHANGED <<account, wallet, session, orders, call, confirm, edit, place>>

LoginMint(l) ==
    /\ login[l] = "minting"
    /\ login' = [login EXCEPT ![l] = "done"]
    /\ session' = l
    /\ UNCHANGED <<account, wallet, orders, call, confirm, edit, place>>

\* showPair: authenticate, read the record, write it back with one field more.
EditStart(e) ==
    /\ edit[e].at = "idle" /\ Authenticated
    /\ edit' = [edit EXCEPT ![e].at = "reading"]
    /\ UNCHANGED <<account, wallet, session, orders, call, confirm, login, place>>

EditRead(e) ==
    /\ edit[e].at = "reading"
    /\ edit' = [edit EXCEPT ![e].at = "writing", ![e].copy = session]
    /\ UNCHANGED <<account, wallet, session, orders, call, confirm, login, place>>

\* Spreading null leaves a record with nothing but the setting.
EditWrite(e) ==
    /\ edit[e].at = "writing"
    /\ session' = IF edit[e].copy = NoSession THEN Remnant ELSE edit[e].copy
    /\ edit' = [edit EXCEPT ![e].at = "done"]
    /\ UNCHANGED <<account, wallet, orders, call, confirm, login, place>>

\* A placement: passport, then resolveStandDown (the mark, then the wallet),
\* then orderPlace, whose steps are SpotMatcher's.
PlaceStart(o) ==
    /\ place[o].at = "idle" /\ Authenticated
    /\ place' = [place EXCEPT ![o].at = "mark"]
    /\ UNCHANGED <<account, wallet, session, orders, call, confirm, login, edit>>

ReadMark(o) ==
    /\ place[o].at = "mark"
    /\ \/ place' = [place EXCEPT ![o].at = IF marked THEN "refused" ELSE "wallet"]
       \/ /\ "mark" \in Faults
          /\ place' = [place EXCEPT ![o].at = "wallet", ![o].known = FALSE]
    /\ UNCHANGED <<account, wallet, session, orders, call, confirm, login, edit>>

\* checkStandDown's read; closedThen is a ghost, the account at that moment.
AskWallet(o) ==
    /\ place[o].at = "wallet"
    /\ \/ place' = [place EXCEPT ![o].at = "verdict", ![o].sawFrozen = frozen,
                      ![o].closedThen = (account = "deactivated")]
       \/ /\ "rpc" \in Faults
          /\ place' = [place EXCEPT ![o].at = "verdict", ![o].known = FALSE]
    /\ UNCHANGED <<account, wallet, session, orders, call, confirm, login, edit>>

AdmitsUnknown(o) == ~place[o].sawFrozen
Admits(o) == ~place[o].sawFrozen /\ place[o].known

Verdict(o) ==
    /\ place[o].at = "verdict"
    /\ place' = [place EXCEPT ![o].at = IF Admits(o) THEN "inside" ELSE "refused"]
    /\ UNCHANGED <<account, wallet, session, orders, call, confirm, login, edit>>

\* Between the guard and the row an order may still be refused (the gate, funds).
PlaceOrder(o) ==
    /\ place[o].at = "inside"
    /\ \/ place' = [place EXCEPT ![o].at = "placed"] /\ book' = book \cup {o}
       \/ place' = [place EXCEPT ![o].at = "refused"] /\ UNCHANGED book
    /\ UNCHANGED <<account, wallet, session, out, call, confirm, login, edit>>

\* The matcher takes a row out of its hash and, after a partial fill, puts it
\* back; a complete fill, like the owner's cancel, only takes it out.
FillTake(o) ==
    /\ o \in book
    /\ book' = book \ {o}
    /\ \/ out' = out \cup {o}
       \/ UNCHANGED out
    /\ UNCHANGED <<account, wallet, session, call, confirm, requests>>

FillPut(o) ==
    /\ o \in out
    /\ out' = out \ {o} /\ book' = book \cup {o}
    /\ UNCHANGED <<account, wallet, session, call, confirm, requests>>

Placing(o) ==
    \/ PlaceStart(o) \/ ReadMark(o) \/ AskWallet(o) \/ Verdict(o)
    \/ PlaceOrder(o) \/ FillTake(o) \/ FillPut(o)

Next ==
    \/ \E c \in Confirms : Closing(c)
    \/ WalletService \/ Hold
    \/ \E l \in Logins : LoginRead(l) \/ LoginMint(l)
    \/ \E e \in Edits : EditStart(e) \/ EditRead(e) \/ EditWrite(e)
    \/ \E o \in Placements : Placing(o)

Spec == Init /\ [][Next]_vars
---------------------------------------------------------------------------
\* Cancelling the orders is the one step that cannot be taken back: a closure
\* begins it (confirmDeActive, step 5) only on an account that is closed and
\* whose wallet is frozen, whichever calls failed or were lost on the way.
IrreversibleLast ==
    \A c \in Confirms : confirm[c].at \in {"sweeping", "cancelling"} =>
        account = "deactivated" /\ frozen

\* The guard in front of orderPlace lets nobody in on the strength of an answer
\* given after the account was closed, nor on the strength of no answer.
NoLateAdmission ==
    \A o \in Placements : place[o].at \in {"inside", "placed"} =>
        ~place[o].closedThen /\ place[o].known

\* "Nothing has changed": a closure that was refused leaves no freeze of its own
\* behind, if walletapi told it what became of every call it made.  One whose call
\* was lost, or that only heard that the call failed, may leave it.
RefusalLeavesNothing ==
    \A c \in Confirms :
        /\ confirm[c].reply \in {"WALLET_NOT_DEACTIVATED", "ACCOUNT_NOT_DEACTIVATED"}
        /\ ~confirm[c].unsure
        => froze # c

\* undoFreezes lifts a freeze only for a closure that found the wallet live: a
\* hold that was there when the closure asked outlives it.
HoldOutlivesClosure ==
    [][frozen /\ ~frozen' =>
        \E c \in Confirms : confirm[c].at = "undoing" /\ ~confirm[c].found]_vars

\* What the comments of confirmDeActive say of a closure that reports success:
\* no session and no open order is left once the requests it met are over.
ClosedIsQuiet ==
    (/\ \E c \in Confirms : confirm[c].reply = "DEACTIVATED"
     /\ \A l \in Logins : login[l] # "minting"
     /\ \A e \in Edits : edit[e].at \in {"idle", "done"}
     /\ \A o \in Placements : place[o].at \in {"idle", "refused", "placed"})
    => session \notin Tokens /\ book \cup out = {}
=============================================================================
