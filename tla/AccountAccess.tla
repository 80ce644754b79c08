---------------------------- MODULE AccountAccess ----------------------------
(***************************************************************************)
(* How the owner of one account gets in (userapi, auth.controller.js and    *)
(* user.controller.js): registration and activation, login with its one-    *)
(* time code and its lockout, the reset of a forgotten password by a mailed *)
(* link, and the change of a password with a mailed code.                   *)
(*                                                                          *)
(* Every handler reads the user document, decides on that copy and writes   *)
(* back, with an await between: copy and document may differ by then.       *)
(* Ages stand for dates: 0 within the life of a code (3.4 minutes), 1       *)
(* within that of a reset (30 minutes), 2 older.                            *)
(***************************************************************************)
EXTENDS Naturals

CONSTANTS
    Requests,      \* handlers that may run at the same time
    Groups,        \* sets of handlers: one of them runs in a behaviour
    MaxLinks, MaxCodes, MaxPasswords  \* bounds: links and codes mailed, passwords set

ASSUME BoundsAssumption == MaxLinks \in Nat /\ MaxCodes \in Nat /\ MaxPasswords \in Nat

VARIABLES
    doc,     \* the user document
    slot,    \* the handlers: where they are and the copy they work on
    links,   \* how many links have been mailed, the number of the last one
    kindOf,  \* ghost: what each link was mailed for
    codes,   \* how many one-time codes have been mailed
    strikes, \* ghost: wrong passwords since the attempts were last cleared, without
             \* that of the very login that lifts a block
    group,   \* the handlers of this behaviour
    raced    \* ghost: two handlers have overlapped

vars == <<doc, slot, links, kindOf, codes, strikes, raced, group>>
mail == <<links, kindOf, codes>>

Link == 0..MaxLinks     \* 0 is the empty string
Code == 0..MaxCodes
Age == 0..2
LOGIN_ATTEMPTS == 2     \* the third wrong password blocks
CODE_TTL == 0
RESET_TTL == 1
StrikeCap == 3          \* the ghost counts no further

Document ==
    [status: {"absent", "unverified", "verified"}, percentage: 0..1,
     password: 0..MaxPasswords,
     mailToken: Link, conFirmMailToken: Link,
     otp: Code, otpAge: Age, emailOTP: Code, emailAge: Age,
     login_attempt: 0..LOGIN_ATTEMPTS, isBlock: BOOLEAN, lockOver: BOOLEAN]

Kind == {"register", "activate", "resend", "login", "resendOTP", "forgot",
         "confirmReset", "reset", "requestOTP", "changePassword"}
ASSUME GroupsAssumption == Groups \subseteq SUBSET Kind

NoDocument ==
    [status |-> "absent", percentage |-> 0, password |-> 0,
     mailToken |-> 0, conFirmMailToken |-> 0,
     otp |-> 0, otpAge |-> 2, emailOTP |-> 0, emailAge |-> 2,
     login_attempt |-> 0, isBlock |-> FALSE, lockOver |-> TRUE]

\* arg is the link or code the request carries, right whether its password is.
IdleSlot == [at |-> "idle", kind |-> "login", arg |-> 0, right |-> TRUE, copy |-> NoDocument]

TypeOK ==
    /\ doc \in Document
    /\ slot \in [Requests -> [at: {"idle", "read", "open", "coded"},
                              kind: Kind, arg: Link \cup Code, right: BOOLEAN,
                              copy: Document]]
    /\ links \in Link /\ codes \in Code
    /\ kindOf \in [1..MaxLinks -> {"none", "activation", "reset"}]
    /\ strikes \in 0..StrikeCap
    /\ raced \in BOOLEAN /\ group \in Groups

Init ==
    /\ group \in Groups
    /\ \/ doc = [NoDocument EXCEPT !.status = "verified", !.percentage = 1]
       \/ doc = NoDocument /\ "register" \in group
    /\ slot = [r \in Requests |-> IdleSlot]
    /\ links = 0 /\ codes = 0
    /\ kindOf = [l \in 1..MaxLinks |-> "none"]
    /\ strikes = 0
    /\ raced = FALSE

Copy(r) == slot[r].copy
At(r, kind) == slot[r].at = "read" /\ slot[r].kind = kind
Done(r) == slot' = [slot EXCEPT ![r] = IdleSlot]
Goto(r, at) == slot' = [slot EXCEPT ![r].at = at]

\* A plausible bug: the whole document is written back.
SavedWhole(copy, new) == new
\* mongoose save(): only the paths whose value differs from the copy's.
Saved(copy, new) ==
    [f \in DOMAIN doc |-> IF new[f] = copy[f] THEN doc[f] ELSE new[f]]

NewLink(kind) ==
    /\ links < MaxLinks
    /\ links' = links + 1
    /\ kindOf' = [kindOf EXCEPT ![links + 1] = kind]
NewCode == codes < MaxCodes /\ codes' = codes + 1

\* The count serves handlers that run one at a time, and stops when two overlap.
Struck(r) ==
    strikes' = IF raced \/ slot[r].at = "open" \/ strikes = StrikeCap THEN strikes
               ELSE strikes + 1

\* What each handler looks at or sets: the rest of its copy it never uses.
Paths(kind) ==
    CASE kind = "register" -> {"status"}
      [] kind = "resend" -> {"status", "mailToken"}
      [] kind = "activate" -> {"status", "percentage", "mailToken"}
      [] kind = "login" -> {"status", "otp", "otpAge", "login_attempt", "isBlock", "lockOver"}
      [] kind = "resendOTP" -> {"status", "otp", "otpAge"}
      [] kind = "forgot" -> {"status", "mailToken", "conFirmMailToken", "otpAge"}
      [] kind = "confirmReset" -> {"mailToken", "conFirmMailToken"}
      [] kind = "reset" -> {"conFirmMailToken", "otpAge"}
      [] kind \in {"requestOTP", "changePassword"} -> {"status", "emailOTP", "emailAge"}
Read(kind) == [f \in DOMAIN doc |-> IF f \in Paths(kind) THEN doc[f] ELSE NoDocument[f]]

\* A request arrives and its handler reads the document.  Links and codes come
\* from mail, so a request carries one that was mailed.
Start(r) ==
    /\ slot[r].at = "idle"
    /\ \E kind \in group, right \in BOOLEAN :
       \E arg \in CASE kind \in {"activate", "confirmReset", "reset"} -> 1..links
                    [] kind = "login" -> 0..codes
                    [] kind = "changePassword" -> 1..codes
                    [] OTHER -> {0} :
         /\ kind \notin {"login", "changePassword"} => right
         /\ slot' = [slot EXCEPT ![r] =
              [at |-> "read", kind |-> kind, arg |-> arg, right |-> right, copy |-> Read(kind)]]
    /\ raced' = (raced \/ \E q \in Requests \ {r} : slot[q].at # "idle")
    /\ strikes' = IF raced' THEN 0 ELSE strikes
    /\ UNCHANGED <<doc, mail, group>>

---------------------------------------------------------------------------
\* Registration.

\* createNewUser: an existing address is refused, by the read or by the index.
Register(r) ==
    /\ At(r, "register")
    /\ Copy(r).status = "absent" /\ doc.status = "absent"
    /\ NewLink("activation")
    /\ doc' = [NoDocument EXCEPT !.status = "unverified", !.mailToken = links + 1]
    /\ Done(r)
    /\ UNCHANGED <<codes, strikes, raced, group>>

\* resendMail: emailVerified and mailSentAt are not paths of the schema, so
\* neither the check for a verified account nor the cooldown ever refuses.
ResendMail(r) ==
    /\ At(r, "resend") /\ Copy(r).status # "absent"
    /\ NewLink("activation")
    /\ doc' = Saved(Copy(r), [Copy(r) EXCEPT !.mailToken = links + 1])
    /\ Done(r)
    /\ UNCHANGED <<codes, strikes, raced, group>>

\* confirmMail
ConfirmMail(r) ==
    /\ At(r, "activate") /\ Copy(r).mailToken = slot[r].arg
    /\ Copy(r).status = "unverified"
    /\ doc' = Saved(Copy(r), [Copy(r) EXCEPT !.status = "verified",
                                !.percentage = @ + 1, !.mailToken = 0])
    /\ Done(r)
    /\ UNCHANGED <<mail, strikes, raced, group>>

---------------------------------------------------------------------------
\* Login.

Open(r) ==
    \/ At(r, "login") /\ Copy(r).status = "verified" /\ ~Copy(r).isBlock
    \/ slot[r].at = "open"

\* A block of 24 hours that has run out is lifted, in the document only.
LoginUnblock(r) ==
    /\ At(r, "login") /\ Copy(r).status = "verified"
    /\ Copy(r).isBlock /\ Copy(r).lockOver
    /\ doc' = [doc EXCEPT !.login_attempt = 0, !.isBlock = FALSE]
    /\ strikes' = 0
    /\ Goto(r, "open")
    /\ UNCHANGED <<mail, raced, group>>

\* A plausible bug: the bound is missed by one.
WrongPasswordLate(r) ==
    /\ Open(r) /\ ~slot[r].right
    /\ doc' = IF Copy(r).isBlock THEN doc
              ELSE IF Copy(r).login_attempt > LOGIN_ATTEMPTS
              THEN [doc EXCEPT !.login_attempt = 0, !.isBlock = TRUE, !.lockOver = FALSE]
              ELSE [doc EXCEPT !.login_attempt = Copy(r).login_attempt + 1]
    /\ Struck(r)
    /\ Done(r)
    /\ UNCHANGED <<mail, raced, group>>

\* The copy still says isBlock after a lift, so this failure is not counted.
WrongPassword(r) ==
    /\ Open(r) /\ ~slot[r].right
    /\ doc' = IF Copy(r).isBlock THEN doc
              ELSE IF Copy(r).login_attempt >= LOGIN_ATTEMPTS
              THEN [doc EXCEPT !.login_attempt = 0, !.isBlock = TRUE, !.lockOver = FALSE]
              ELSE [doc EXCEPT !.login_attempt = Copy(r).login_attempt + 1]
    /\ Struck(r)
    /\ Done(r)
    /\ UNCHANGED <<mail, raced, group>>

\* The first half of a login mails a code; resendOTP mails one to any account.
SendCode(r) ==
    /\ \/ Open(r) /\ slot[r].right /\ slot[r].kind = "login" /\ slot[r].arg = 0
       \/ At(r, "resendOTP") /\ Copy(r).status # "absent"
    /\ NewCode
    /\ doc' = Saved(Copy(r), [Copy(r) EXCEPT !.otp = codes + 1, !.otpAge = 0])
    /\ Done(r)
    /\ UNCHANGED <<links, kindOf, strikes, raced, group>>

CodeAccepted(r) ==
    Open(r) /\ slot[r].right /\ slot[r].arg # 0
    /\ Copy(r).otpAge <= CODE_TTL /\ Copy(r).otp = slot[r].arg

CheckCode(r) ==
    /\ CodeAccepted(r)
    /\ doc' = Saved(Copy(r), [Copy(r) EXCEPT !.otp = 0])
    /\ Goto(r, "coded")
    /\ UNCHANGED <<mail, strikes, raced, group>>

\* No code is sent or looked at where TEST_MODE is set, nor for a request that gives
\* one without the field (otpTextBox) that has it looked at.
SkipCode(r) ==
    /\ Open(r) /\ slot[r].right /\ slot[r].kind = "login" /\ slot[r].arg = 0
    /\ Goto(r, "coded")
    /\ UNCHANGED <<doc, mail, strikes, raced, group>>

\* A plausible bug: a login that succeeded leaves the count as it is.
ClearAttemptsNot(r) ==
    /\ slot[r].at = "coded"
    /\ strikes' = 0
    /\ Done(r)
    /\ UNCHANGED <<doc, mail, raced, group>>

\* The session is written (AccountClosure models it) and the attempts cleared.
ClearAttempts(r) ==
    /\ slot[r].at = "coded"
    /\ doc' = [doc EXCEPT !.login_attempt = 0, !.isBlock = FALSE, !.lockOver = TRUE]
    /\ strikes' = 0
    /\ Done(r)
    /\ UNCHANGED <<mail, raced, group>>

---------------------------------------------------------------------------
\* A forgotten password, and a changed one.

\* A plausible bug: an older link that was confirmed is left standing.
ForgotPasswordKeeping(r) ==
    /\ At(r, "forgot") /\ Copy(r).status = "verified"
    /\ NewLink("reset")
    /\ doc' = Saved(Copy(r), [Copy(r) EXCEPT !.mailToken = links + 1, !.otpAge = 0])
    /\ Done(r)
    /\ UNCHANGED <<codes, strikes, raced, group>>

\* checkForgotPassword
ForgotPassword(r) ==
    /\ At(r, "forgot") /\ Copy(r).status = "verified"
    /\ NewLink("reset")
    /\ doc' = Saved(Copy(r), [Copy(r) EXCEPT !.mailToken = links + 1,
                                !.conFirmMailToken = 0, !.otpAge = 0])
    /\ Done(r)
    /\ UNCHANGED <<codes, strikes, raced, group>>

\* ResetconfirmMail: the link, clicked, becomes the one that may set a password.
ResetConfirmMail(r) ==
    /\ At(r, "confirmReset") /\ Copy(r).mailToken = slot[r].arg
    /\ doc' = Saved(Copy(r), [Copy(r) EXCEPT !.mailToken = 0,
                                !.conFirmMailToken = slot[r].arg])
    /\ Done(r)
    /\ UNCHANGED <<mail, strikes, raced, group>>

\* resetPassword: the age is that of otptime, which a login code restamps.
ResetPassword(r) ==
    /\ At(r, "reset") /\ Copy(r).otpAge <= RESET_TTL
    /\ Copy(r).conFirmMailToken = slot[r].arg
    /\ doc.password < MaxPasswords
    /\ doc' = Saved(Copy(r), [Copy(r) EXCEPT !.password = doc.password + 1,
                                !.conFirmMailToken = 0])
    /\ Done(r)
    /\ UNCHANGED <<mail, strikes, raced, group>>

\* requestOTP.  Its cooldown holds back a second code of the same requestType only,
\* and a password is changed with a code of any: a newer code may come at any time.
RequestOTP(r) ==
    /\ At(r, "requestOTP") /\ Copy(r).status # "absent"
    /\ NewCode
    /\ doc' = Saved(Copy(r), [Copy(r) EXCEPT !.emailOTP = codes + 1, !.emailAge = 0])
    /\ Done(r)
    /\ UNCHANGED <<links, kindOf, strikes, raced, group>>

ChangePassword(r) ==
    /\ At(r, "changePassword") /\ slot[r].right
    /\ Copy(r).emailOTP = slot[r].arg /\ Copy(r).emailAge <= CODE_TTL
    /\ doc.password < MaxPasswords
    /\ doc' = Saved(Copy(r), [Copy(r) EXCEPT !.password = doc.password + 1,
                                !.emailOTP = 0, !.emailAge = 2])
    /\ Done(r)
    /\ UNCHANGED <<mail, strikes, raced, group>>

---------------------------------------------------------------------------
\* Any handler may end without writing: its checks refuse, or the write fails.
Refuse(r) ==
    /\ slot[r].at # "idle"
    /\ Done(r)
    /\ UNCHANGED <<doc, mail, strikes, raced, group>>

\* Only the life of a code matters for the mailed code of a signed-in owner.
Aged(d) == [d EXCEPT !.otpAge = IF @ = 2 THEN 2 ELSE @ + 1, !.emailAge = 2]

\* Minutes pass, for the dates in the document and in every copy.
Tick ==
    /\ doc' = Aged(doc)
    /\ slot' = [r \in Requests |-> [slot[r] EXCEPT !.copy = Aged(@)]]
    /\ UNCHANGED <<mail, strikes, raced, group>>

\* A day passes.
BlockRunsOut ==
    /\ doc.isBlock /\ ~doc.lockOver
    /\ doc' = [doc EXCEPT !.lockOver = TRUE]
    /\ UNCHANGED <<slot, mail, strikes, raced, group>>

Handle(r) ==
    \/ Start(r) \/ Refuse(r)
    \/ Register(r) \/ ResendMail(r) \/ ConfirmMail(r)
    \/ LoginUnblock(r) \/ WrongPassword(r) \/ SendCode(r) \/ CheckCode(r)
    \/ SkipCode(r) \/ ClearAttempts(r)
    \/ ForgotPassword(r) \/ ResetConfirmMail(r) \/ ResetPassword(r)
    \/ RequestOTP(r) \/ ChangePassword(r)

Next == (\E r \in Requests : Handle(r)) \/ Tick \/ BlockRunsOut

Spec == Init /\ [][Next]_vars

---------------------------------------------------------------------------
\* No handler brings an earlier password back, whatever it had read before the
\* password was set: save() leaves alone what the handler did not change.
PasswordNeverReturns == [][doc'.password >= doc.password]_vars

\* While handlers run one at a time, the third wrong password in a row blocks the
\* account, that one and no earlier one: until then the document counts every one, and
\* a success and a lifted block start over.
ThirdFailureBlocks ==
    ~raced => /\ doc.isBlock <=> strikes = 3
              /\ doc.login_attempt = IF strikes = 3 THEN 0 ELSE strikes

\* While handlers run one at a time, a password is reset with the newest reset
\* link only: asking for another revokes the older one, even once confirmed.
NewestLinkResets ==
    [][\A r \in Requests :
         At(r, "reset") /\ doc'.password # doc.password /\ slot'[r] # slot[r] /\ ~raced
         => \A l \in (slot[r].arg + 1)..links : kindOf[l] # "reset"]_vars
=============================================================================
