------------------------- MODULE AccountAccess_proofs -------------------------
(***************************************************************************)
(* What AccountAccess promises for any number of handlers, links, codes and *)
(* passwords.                                                               *)
(***************************************************************************)
EXTENDS AccountAccess, TLAPS

Fields == DOMAIN NoDocument

\* Documents, without the bounds.
Shape ==
    [status: {"absent", "unverified", "verified"}, percentage: Nat, password: Nat,
     mailToken: Nat, conFirmMailToken: Nat,
     otp: Nat, otpAge: Age, emailOTP: Nat, emailAge: Age,
     login_attempt: Nat, isBlock: BOOLEAN, lockOver: BOOLEAN]

Places == {"idle", "read", "open", "coded"}
Slot == [at: Places, kind: Kind, arg: Nat, right: BOOLEAN, copy: Shape]

TypedInv ==
    /\ doc \in Shape
    /\ slot \in [Requests -> Slot]
    /\ links \in Nat /\ codes \in Nat
    /\ kindOf \in [1..MaxLinks -> {"none", "activation", "reset"}]
    /\ strikes \in 0..StrikeCap
    /\ raced \in BOOLEAN /\ group \in Groups

\* save() answers a document when the copy was one.
LEMMA SavedShape ==
    ASSUME NEW c \in Shape, NEW n \in Shape, doc \in Shape
    PROVE  Saved(c, n) \in Shape
BY DEF Saved, Shape

LEMMA ReadShape == ASSUME doc \in Shape, NEW k PROVE Read(k) \in Shape
<1>1. NoDocument \in Shape
  BY DEF NoDocument, Shape, Age
<1> QED
  BY <1>1 DEF Read, Shape

LEMMA AgedShape == ASSUME NEW d \in Shape PROVE Aged(d) \in Shape
<1>1. d.otpAge \in {0, 1, 2}
  BY DEF Shape, Age
<1>2. (IF d.otpAge = 2 THEN 2 ELSE d.otpAge + 1) \in Age /\ 2 \in Age
  BY <1>1 DEF Age
<1> QED
  BY <1>2 DEF Aged, Shape

LEMMA IdleIsSlot == IdleSlot \in Slot /\ NoDocument \in Shape
BY DEF IdleSlot, Slot, Places, Kind, NoDocument, Shape, Age

\* A handler that ends, and one that goes on.
LEMMA DoneTyped ==
    ASSUME TypedInv, NEW r \in Requests, Done(r)
    PROVE  slot' \in [Requests -> Slot]
BY IdleIsSlot DEF TypedInv, Done

LEMMA GotoTyped ==
    ASSUME TypedInv, NEW r \in Requests, NEW at \in Places, Goto(r, at)
    PROVE  slot' \in [Requests -> Slot]
BY DEF TypedInv, Goto, Slot

LEMMA CopyTyped ==
    ASSUME TypedInv, NEW r \in Requests
    PROVE  /\ Copy(r) \in Shape /\ Copy(r).login_attempt \in Nat
           /\ slot[r].arg \in Nat /\ doc.password \in Nat
BY DEF TypedInv, Slot, Copy, Shape

LEMMA NextTyped ==
    ASSUME TypedInv, NEW r \in Requests
    PROVE  /\ Copy(r) \in Shape /\ slot[r].arg \in Nat
           /\ links + 1 \in Nat /\ codes + 1 \in Nat /\ doc.password + 1 \in Nat
           /\ Copy(r).percentage + 1 \in Nat
           /\ 0 \in Age /\ 2 \in Age
<1>1. Copy(r).percentage \in Nat
  BY CopyTyped DEF Shape
<1>2. links \in Nat /\ codes \in Nat
  BY DEF TypedInv
<1> QED
  BY <1>1, <1>2, CopyTyped DEF Age

LEMMA LinkTyped ==
    ASSUME TypedInv, NEW k \in {"activation", "reset"}, NewLink(k)
    PROVE  links' \in Nat /\ kindOf' \in [1..MaxLinks -> {"none", "activation", "reset"}]
<1>1. kindOf' = [kindOf EXCEPT ![links + 1] = k] /\ links' = links + 1 /\ links \in Nat
  BY DEF TypedInv, NewLink
<1> DEFINE S == {"none", "activation", "reset"}
<1>2. k \in S /\ kindOf \in [1..MaxLinks -> S]
  BY DEF TypedInv
<1> HIDE DEF S
<1>3. [kindOf EXCEPT ![links + 1] = k] \in [1..MaxLinks -> S]
  BY <1>2
<1> QED
  BY <1>1, <1>3 DEF S

LEMMA CodeTyped == ASSUME TypedInv, NewCode PROVE codes' \in Nat
BY DEF TypedInv, NewCode

LEMMA StruckTyped == ASSUME TypedInv, NEW r, Struck(r) PROVE strikes' \in 0..StrikeCap
BY DEF TypedInv, Struck, StrikeCap

---------------------------------------------------------------------------
\* What a step does to the fields the properties speak of.
Kept(f) == doc'[f] = doc[f]

\* A handler carries what it was sent, and an admitted login a confirmed account.
SlotInv ==
    \A r \in Requests :
        /\ slot[r].at # "idle" /\ slot[r].kind \in {"activate", "confirmReset", "reset", "changePassword"}
             => slot[r].arg # 0
        /\ slot[r].at \in {"open", "coded"} => Copy(r).status = "verified"

\* Before it is registered an account has no password, no link, no code and no failure
\* counted, and no handler has seen any.
Untouched(d) ==
    /\ d.status = "absent" /\ d.password = 0
    /\ d.mailToken = 0 /\ d.conFirmMailToken = 0 /\ d.emailOTP = 0
    /\ d.login_attempt = 0 /\ d.isBlock = FALSE

AbsentInv ==
    doc.status = "absent" => Untouched(doc) /\ \A r \in Requests : Untouched(Copy(r))

AccessInv == TypedInv /\ SlotInv /\ AbsentInv

LEMMA DoneSlots == ASSUME SlotInv, TypedInv, NEW r \in Requests, Done(r) PROVE SlotInv'
BY IdleIsSlot DEF SlotInv, TypedInv, Done, Copy, IdleSlot

\* A handler that goes on was sent what it was sent, and is an admitted login.
LEMMA GotoSlots ==
    ASSUME SlotInv, TypedInv, NEW r \in Requests, NEW at \in Places, Goto(r, at),
           Copy(r).status = "verified", slot[r].at # "idle"
    PROVE  SlotInv'
BY DEF SlotInv, TypedInv, Goto, Copy, Slot

\* An account that exists is never absent again.
LEMMA PresentStays ==
    ASSUME AccessInv, doc.status # "absent", doc'.status # "absent", TypedInv', SlotInv'
    PROVE  AccessInv'
BY DEF AccessInv, AbsentInv

\* A save of a copy that existed, changing neither its status, unless to verified,
\* nor its password, unless to a new one.
LEMMA SaveKeeps ==
    ASSUME TypedInv, NEW r \in Requests, NEW n \in Shape, doc' = Saved(Copy(r), n),
           doc.status # "absent",
           n.status \in {Copy(r).status, "verified"},
           n.password \in {Copy(r).password, doc.password + 1}
    PROVE  doc' \in Shape /\ doc'.status # "absent" /\ doc'.password >= doc.password
<1>1. Copy(r) \in Shape /\ doc \in Shape
  BY CopyTyped DEF TypedInv
<1>2. doc' \in Shape
  BY <1>1, SavedShape
<1>3. /\ doc'.status = IF n.status = Copy(r).status THEN doc.status ELSE n.status
      /\ doc'.password = IF n.password = Copy(r).password THEN doc.password ELSE n.password
  BY <1>1 DEF Saved, Shape
<1>4. doc.password \in Nat
  BY CopyTyped
<1> QED
  BY <1>2, <1>3, <1>4

LEMMA ResendMailKeeps ==
    ASSUME AccessInv, NEW r \in Requests, ResendMail(r)
    PROVE  AccessInv' /\ doc'.password >= doc.password
<1> DEFINE n == [Copy(r) EXCEPT !.mailToken = links + 1]
<1>1. TypedInv /\ SlotInv /\ AbsentInv
  BY DEF AccessInv
<1>2. doc.status # "absent"
  BY <1>1 DEF AbsentInv, Untouched, At, ResendMail
<1>3. n \in Shape
  BY <1>1, NextTyped DEF Shape
<1>4. n.status \in {Copy(r).status, "verified"} /\ n.password \in {Copy(r).password, doc.password + 1}
  BY <1>1, CopyTyped DEF Shape
<1>5. doc' = Saved(Copy(r), n)
  BY DEF ResendMail
<1> HIDE DEF n
<1>6. doc' \in Shape /\ doc'.status # "absent" /\ doc'.password >= doc.password
  BY <1>1, <1>2, <1>3, <1>4, <1>5, SaveKeeps
<1>7. TypedInv'
  BY <1>1, <1>6, DoneTyped, LinkTyped DEF ResendMail, TypedInv, mail, Places
<1>8. SlotInv'
  BY <1>1, DoneSlots DEF ResendMail, Places
<1> QED
  BY <1>2, <1>6, <1>7, <1>8, PresentStays

LEMMA ConfirmMailKeeps ==
    ASSUME AccessInv, NEW r \in Requests, ConfirmMail(r)
    PROVE  AccessInv' /\ doc'.password >= doc.password
<1> DEFINE n == [Copy(r) EXCEPT !.status = "verified", !.percentage = @ + 1, !.mailToken = 0]
<1>1. TypedInv /\ SlotInv /\ AbsentInv
  BY DEF AccessInv
<1>2. doc.status # "absent"
  BY <1>1 DEF AbsentInv, Untouched, At, ConfirmMail
<1>3. n \in Shape
  BY <1>1, NextTyped DEF Shape
<1>4. n.status \in {Copy(r).status, "verified"} /\ n.password \in {Copy(r).password, doc.password + 1}
  BY <1>1, CopyTyped DEF Shape
<1>5. doc' = Saved(Copy(r), n)
  BY DEF ConfirmMail
<1> HIDE DEF n
<1>6. doc' \in Shape /\ doc'.status # "absent" /\ doc'.password >= doc.password
  BY <1>1, <1>2, <1>3, <1>4, <1>5, SaveKeeps
<1>7. TypedInv'
  BY <1>1, <1>6, DoneTyped DEF ConfirmMail, TypedInv, mail, Places
<1>8. SlotInv'
  BY <1>1, DoneSlots DEF ConfirmMail, Places
<1> QED
  BY <1>2, <1>6, <1>7, <1>8, PresentStays

LEMMA SendCodeKeeps ==
    ASSUME AccessInv, NEW r \in Requests, SendCode(r)
    PROVE  AccessInv' /\ doc'.password >= doc.password
<1> DEFINE n == [Copy(r) EXCEPT !.otp = codes + 1, !.otpAge = 0]
<1>1. TypedInv /\ SlotInv /\ AbsentInv
  BY DEF AccessInv
<1>2. doc.status # "absent"
  BY <1>1 DEF AbsentInv, Untouched, At, SlotInv, SendCode, Open
<1>3. n \in Shape
  BY <1>1, NextTyped DEF Shape
<1>4. n.status \in {Copy(r).status, "verified"} /\ n.password \in {Copy(r).password, doc.password + 1}
  BY <1>1, CopyTyped DEF Shape
<1>5. doc' = Saved(Copy(r), n)
  BY DEF SendCode
<1> HIDE DEF n
<1>6. doc' \in Shape /\ doc'.status # "absent" /\ doc'.password >= doc.password
  BY <1>1, <1>2, <1>3, <1>4, <1>5, SaveKeeps
<1>7. TypedInv'
  BY <1>1, <1>6, DoneTyped, CodeTyped DEF SendCode, TypedInv, mail, Places
<1>8. SlotInv'
  BY <1>1, DoneSlots DEF SendCode, Places
<1> QED
  BY <1>2, <1>6, <1>7, <1>8, PresentStays

LEMMA CheckCodeKeeps ==
    ASSUME AccessInv, NEW r \in Requests, CheckCode(r)
    PROVE  AccessInv' /\ doc'.password >= doc.password
<1> DEFINE n == [Copy(r) EXCEPT !.otp = 0]
<1>1. TypedInv /\ SlotInv /\ AbsentInv
  BY DEF AccessInv
<1>2. doc.status # "absent"
  BY <1>1 DEF AbsentInv, Untouched, At, SlotInv, CheckCode, CodeAccepted, Open
<1>3. n \in Shape
  BY <1>1, NextTyped DEF Shape
<1>4. n.status \in {Copy(r).status, "verified"} /\ n.password \in {Copy(r).password, doc.password + 1}
  BY <1>1, CopyTyped DEF Shape
<1>5. doc' = Saved(Copy(r), n)
  BY DEF CheckCode
<1> HIDE DEF n
<1>6. doc' \in Shape /\ doc'.status # "absent" /\ doc'.password >= doc.password
  BY <1>1, <1>2, <1>3, <1>4, <1>5, SaveKeeps
<1>7. TypedInv'
  BY <1>1, <1>6, GotoTyped DEF CheckCode, TypedInv, mail, Places
<1>8. SlotInv'
  BY <1>1, GotoSlots DEF CheckCode, Places, CodeAccepted, Open, At, SlotInv
<1> QED
  BY <1>2, <1>6, <1>7, <1>8, PresentStays

LEMMA ForgotPasswordKeeps ==
    ASSUME AccessInv, NEW r \in Requests, ForgotPassword(r)
    PROVE  AccessInv' /\ doc'.password >= doc.password
<1> DEFINE n == [Copy(r) EXCEPT !.mailToken = links + 1, !.conFirmMailToken = 0, !.otpAge = 0]
<1>1. TypedInv /\ SlotInv /\ AbsentInv
  BY DEF AccessInv
<1>2. doc.status # "absent"
  BY <1>1 DEF AbsentInv, Untouched, At, ForgotPassword
<1>3. n \in Shape
  BY <1>1, NextTyped DEF Shape
<1>4. n.status \in {Copy(r).status, "verified"} /\ n.password \in {Copy(r).password, doc.password + 1}
  BY <1>1, CopyTyped DEF Shape
<1>5. doc' = Saved(Copy(r), n)
  BY DEF ForgotPassword
<1> HIDE DEF n
<1>6. doc' \in Shape /\ doc'.status # "absent" /\ doc'.password >= doc.password
  BY <1>1, <1>2, <1>3, <1>4, <1>5, SaveKeeps
<1>7. TypedInv'
  BY <1>1, <1>6, DoneTyped, LinkTyped DEF ForgotPassword, TypedInv, mail, Places
<1>8. SlotInv'
  BY <1>1, DoneSlots DEF ForgotPassword, Places
<1> QED
  BY <1>2, <1>6, <1>7, <1>8, PresentStays

LEMMA ResetConfirmMailKeeps ==
    ASSUME AccessInv, NEW r \in Requests, ResetConfirmMail(r)
    PROVE  AccessInv' /\ doc'.password >= doc.password
<1> DEFINE n == [Copy(r) EXCEPT !.mailToken = 0, !.conFirmMailToken = slot[r].arg]
<1>1. TypedInv /\ SlotInv /\ AbsentInv
  BY DEF AccessInv
<1>2. doc.status # "absent"
  BY <1>1 DEF AbsentInv, Untouched, At, SlotInv, ResetConfirmMail
<1>3. n \in Shape
  BY <1>1, NextTyped DEF Shape
<1>4. n.status \in {Copy(r).status, "verified"} /\ n.password \in {Copy(r).password, doc.password + 1}
  BY <1>1, CopyTyped DEF Shape
<1>5. doc' = Saved(Copy(r), n)
  BY DEF ResetConfirmMail
<1> HIDE DEF n
<1>6. doc' \in Shape /\ doc'.status # "absent" /\ doc'.password >= doc.password
  BY <1>1, <1>2, <1>3, <1>4, <1>5, SaveKeeps
<1>7. TypedInv'
  BY <1>1, <1>6, DoneTyped DEF ResetConfirmMail, TypedInv, mail, Places
<1>8. SlotInv'
  BY <1>1, DoneSlots DEF ResetConfirmMail, Places
<1> QED
  BY <1>2, <1>6, <1>7, <1>8, PresentStays

LEMMA ResetPasswordKeeps ==
    ASSUME AccessInv, NEW r \in Requests, ResetPassword(r)
    PROVE  AccessInv' /\ doc'.password >= doc.password
<1> DEFINE n == [Copy(r) EXCEPT !.password = doc.password + 1, !.conFirmMailToken = 0]
<1>1. TypedInv /\ SlotInv /\ AbsentInv
  BY DEF AccessInv
<1>2. doc.status # "absent"
  BY <1>1 DEF AbsentInv, Untouched, At, SlotInv, ResetPassword
<1>3. n \in Shape
  BY <1>1, NextTyped DEF Shape
<1>4. n.status \in {Copy(r).status, "verified"} /\ n.password \in {Copy(r).password, doc.password + 1}
  BY <1>1, CopyTyped DEF Shape
<1>5. doc' = Saved(Copy(r), n)
  BY DEF ResetPassword
<1> HIDE DEF n
<1>6. doc' \in Shape /\ doc'.status # "absent" /\ doc'.password >= doc.password
  BY <1>1, <1>2, <1>3, <1>4, <1>5, SaveKeeps
<1>7. TypedInv'
  BY <1>1, <1>6, DoneTyped DEF ResetPassword, TypedInv, mail, Places
<1>8. SlotInv'
  BY <1>1, DoneSlots DEF ResetPassword, Places
<1> QED
  BY <1>2, <1>6, <1>7, <1>8, PresentStays

LEMMA RequestOTPKeeps ==
    ASSUME AccessInv, NEW r \in Requests, RequestOTP(r)
    PROVE  AccessInv' /\ doc'.password >= doc.password
<1> DEFINE n == [Copy(r) EXCEPT !.emailOTP = codes + 1, !.emailAge = 0]
<1>1. TypedInv /\ SlotInv /\ AbsentInv
  BY DEF AccessInv
<1>2. doc.status # "absent"
  BY <1>1 DEF AbsentInv, Untouched, At, RequestOTP
<1>3. n \in Shape
  BY <1>1, NextTyped DEF Shape
<1>4. n.status \in {Copy(r).status, "verified"} /\ n.password \in {Copy(r).password, doc.password + 1}
  BY <1>1, CopyTyped DEF Shape
<1>5. doc' = Saved(Copy(r), n)
  BY DEF RequestOTP
<1> HIDE DEF n
<1>6. doc' \in Shape /\ doc'.status # "absent" /\ doc'.password >= doc.password
  BY <1>1, <1>2, <1>3, <1>4, <1>5, SaveKeeps
<1>7. TypedInv'
  BY <1>1, <1>6, DoneTyped, CodeTyped DEF RequestOTP, TypedInv, mail, Places
<1>8. SlotInv'
  BY <1>1, DoneSlots DEF RequestOTP, Places
<1> QED
  BY <1>2, <1>6, <1>7, <1>8, PresentStays

LEMMA ChangePasswordKeeps ==
    ASSUME AccessInv, NEW r \in Requests, ChangePassword(r)
    PROVE  AccessInv' /\ doc'.password >= doc.password
<1> DEFINE n == [Copy(r) EXCEPT !.password = doc.password + 1, !.emailOTP = 0, !.emailAge = 2]
<1>1. TypedInv /\ SlotInv /\ AbsentInv
  BY DEF AccessInv
<1>2. doc.status # "absent"
  BY <1>1 DEF AbsentInv, Untouched, At, SlotInv, ChangePassword
<1>3. n \in Shape
  BY <1>1, NextTyped DEF Shape
<1>4. n.status \in {Copy(r).status, "verified"} /\ n.password \in {Copy(r).password, doc.password + 1}
  BY <1>1, CopyTyped DEF Shape
<1>5. doc' = Saved(Copy(r), n)
  BY DEF ChangePassword
<1> HIDE DEF n
<1>6. doc' \in Shape /\ doc'.status # "absent" /\ doc'.password >= doc.password
  BY <1>1, <1>2, <1>3, <1>4, <1>5, SaveKeeps
<1>7. TypedInv'
  BY <1>1, <1>6, DoneTyped DEF ChangePassword, TypedInv, mail, Places
<1>8. SlotInv'
  BY <1>1, DoneSlots DEF ChangePassword, Places
<1> QED
  BY <1>2, <1>6, <1>7, <1>8, PresentStays

\* A request arrives: what its handler holds is as untouched as the document.
LEMMA StartKeeps ==
    ASSUME AccessInv, NEW r \in Requests, Start(r)
    PROVE  AccessInv' /\ doc' = doc
<1>1. TypedInv /\ SlotInv /\ AbsentInv
  BY DEF AccessInv
<1>2. PICK kind, right, arg :
        /\ kind \in group /\ right \in BOOLEAN
        /\ arg \in CASE kind \in {"activate", "confirmReset", "reset"} -> 1..links
                      [] kind = "login" -> 0..codes
                      [] kind = "changePassword" -> 1..codes
                      [] OTHER -> {0}
        /\ slot' = [slot EXCEPT ![r] =
             [at |-> "read", kind |-> kind, arg |-> arg, right |-> right, copy |-> Read(kind)]]
  BY DEF Start
<1>3. /\ doc' = doc /\ links' = links /\ codes' = codes /\ kindOf' = kindOf
      /\ group' = group /\ strikes' \in 0..StrikeCap /\ raced' \in BOOLEAN
  BY <1>1 DEF Start, TypedInv, mail, StrikeCap
<1>4. kind \in Kind
  BY <1>1, <1>2, GroupsAssumption DEF TypedInv
<1>5. arg \in Nat /\ (kind \in {"activate", "confirmReset", "reset", "changePassword"} => arg # 0)
  BY <1>1, <1>2 DEF TypedInv
<1>6. Read(kind) \in Shape
  BY <1>1, ReadShape DEF TypedInv
<1>7. slot' \in [Requests -> Slot]
  BY <1>1, <1>2, <1>4, <1>5, <1>6 DEF TypedInv, Slot, Places
<1>8. SlotInv'
  BY <1>1, <1>2, <1>5 DEF SlotInv, TypedInv, Copy
<1>9. AbsentInv'
  <2>1. doc.status = "absent" => Untouched(Read(kind))
    BY <1>1, ReadShape DEF TypedInv, AbsentInv, Untouched, Read, NoDocument, Shape
  <2> QED
    BY <1>1, <1>2, <1>3, <2>1 DEF AbsentInv, TypedInv, Copy
<1> QED
  BY <1>1, <1>3, <1>7, <1>8, <1>9 DEF AccessInv, TypedInv

LEMMA RegisterKeeps ==
    ASSUME AccessInv, NEW r \in Requests, Register(r)
    PROVE  AccessInv' /\ doc'.password = doc.password
<1>1. TypedInv /\ SlotInv /\ AbsentInv
  BY DEF AccessInv
<1>2. /\ doc' = [NoDocument EXCEPT !.status = "unverified", !.mailToken = links + 1]
      /\ doc.status = "absent" /\ doc.password = 0
  BY <1>1 DEF Register, AbsentInv, Untouched
<1>3. doc' \in Shape /\ doc'.status = "unverified" /\ doc'.password = 0
  <2>1. links + 1 \in Nat /\ NoDocument \in Shape /\ NoDocument.password = 0
    BY <1>1, IdleIsSlot, NextTyped DEF NoDocument
  <2> QED
    BY <1>2, <2>1 DEF Shape
<1>4. TypedInv'
  BY <1>1, <1>3, DoneTyped, LinkTyped DEF Register, TypedInv
<1>5. SlotInv'
  BY <1>1, DoneSlots DEF Register
<1> QED
  BY <1>2, <1>3, <1>4, <1>5 DEF AccessInv, AbsentInv

LEMMA LoginUnblockKeeps ==
    ASSUME AccessInv, NEW r \in Requests, LoginUnblock(r)
    PROVE  AccessInv' /\ doc'.password = doc.password
<1>1. TypedInv /\ SlotInv /\ AbsentInv
  BY DEF AccessInv
<1>2. doc.status # "absent" /\ Copy(r).status = "verified" /\ slot[r].at = "read"
  BY <1>1 DEF LoginUnblock, At, AbsentInv, Untouched
<1>3. doc' \in Shape /\ doc'.status = doc.status /\ doc'.password = doc.password
  BY <1>1 DEF LoginUnblock, TypedInv, Shape
<1>4. TypedInv'
  BY <1>1, <1>3, GotoTyped DEF LoginUnblock, TypedInv, mail, Places, StrikeCap
<1>5. SlotInv'
  BY <1>1, <1>2, GotoSlots DEF LoginUnblock, Places
<1> QED
  BY <1>2, <1>3, <1>4, <1>5, PresentStays

LEMMA WrongPasswordKeeps ==
    ASSUME AccessInv, NEW r \in Requests, WrongPassword(r)
    PROVE  AccessInv' /\ doc'.password = doc.password
<1>1. TypedInv /\ SlotInv /\ AbsentInv
  BY DEF AccessInv
<1>2. doc.status # "absent"
  BY <1>1 DEF WrongPassword, Open, At, AbsentInv, Untouched, SlotInv
<1>3. Copy(r).login_attempt + 1 \in Nat
  BY <1>1, CopyTyped
<1>4. doc' \in Shape /\ doc'.status = doc.status /\ doc'.password = doc.password
  <2>1. doc' \in {doc, [doc EXCEPT !.login_attempt = 0, !.isBlock = TRUE, !.lockOver = FALSE],
                  [doc EXCEPT !.login_attempt = Copy(r).login_attempt + 1]}
    BY DEF WrongPassword
  <2>2. doc \in Shape
    BY <1>1 DEF TypedInv
  <2> DEFINE m == Copy(r).login_attempt + 1
  <2>3. m \in Nat
    BY <1>3
  <2> HIDE DEF m
  <2>4. doc' \in {doc, [doc EXCEPT !.login_attempt = 0, !.isBlock = TRUE, !.lockOver = FALSE],
                  [doc EXCEPT !.login_attempt = m]}
    BY <2>1 DEF m
  <2>5. CASE doc' = doc
    BY <2>2, <2>5
  <2>6. CASE doc' = [doc EXCEPT !.login_attempt = 0, !.isBlock = TRUE, !.lockOver = FALSE]
    BY <2>2, <2>6 DEF Shape
  <2>7. CASE doc' = [doc EXCEPT !.login_attempt = m]
    BY <2>2, <2>3, <2>7 DEF Shape
  <2> QED
    BY <2>4, <2>5, <2>6, <2>7
<1>5. TypedInv'
  BY <1>1, <1>4, DoneTyped, StruckTyped DEF WrongPassword, TypedInv, mail
<1>6. SlotInv'
  BY <1>1, DoneSlots DEF WrongPassword
<1> QED
  BY <1>2, <1>4, <1>5, <1>6, PresentStays

LEMMA SkipCodeKeeps ==
    ASSUME AccessInv, NEW r \in Requests, SkipCode(r)
    PROVE  AccessInv' /\ doc' = doc
<1>1. TypedInv /\ SlotInv /\ AbsentInv
  BY DEF AccessInv
<1>2. doc.status # "absent" /\ doc' = doc
  BY <1>1 DEF AbsentInv, Untouched, At, SlotInv, SkipCode, Open
<1>3. TypedInv'
  BY <1>1, <1>2, GotoTyped DEF SkipCode, TypedInv, mail, Places
<1>4. SlotInv'
  BY <1>1, GotoSlots DEF SkipCode, Places, Open, At, SlotInv
<1> QED
  BY <1>2, <1>3, <1>4, PresentStays

LEMMA ClearAttemptsKeeps ==
    ASSUME AccessInv, NEW r \in Requests, ClearAttempts(r)
    PROVE  AccessInv' /\ doc'.password = doc.password
<1>1. TypedInv /\ SlotInv /\ AbsentInv
  BY DEF AccessInv
<1>2. doc.status # "absent"
  BY <1>1 DEF ClearAttempts, AbsentInv, Untouched, SlotInv
<1>3. doc' \in Shape /\ doc'.status = doc.status /\ doc'.password = doc.password
  BY <1>1 DEF ClearAttempts, TypedInv, Shape
<1>4. TypedInv'
  BY <1>1, <1>3, DoneTyped DEF ClearAttempts, TypedInv, mail, StrikeCap
<1>5. SlotInv'
  BY <1>1, DoneSlots DEF ClearAttempts
<1> QED
  BY <1>2, <1>3, <1>4, <1>5, PresentStays

LEMMA RefuseKeeps ==
    ASSUME AccessInv, NEW r \in Requests, Refuse(r)
    PROVE  AccessInv' /\ doc' = doc
<1>1. TypedInv /\ SlotInv /\ AbsentInv
  BY DEF AccessInv
<1>2. TypedInv'
  BY <1>1, DoneTyped DEF Refuse, TypedInv, mail
<1>3. SlotInv'
  BY <1>1, DoneSlots DEF Refuse
<1>4. AbsentInv'
  BY <1>1 DEF AbsentInv, Refuse, Done, Copy, Untouched, IdleSlot, NoDocument, TypedInv
<1> QED
  BY <1>2, <1>3, <1>4 DEF AccessInv, Refuse

\* Minutes pass: nothing but dates changes.
LEMMA TickKeeps == ASSUME AccessInv, Tick PROVE AccessInv' /\ doc'.password = doc.password
<1>1. TypedInv /\ SlotInv /\ AbsentInv
  BY DEF AccessInv
<1>2. \A d \in Shape :
        /\ Aged(d) \in Shape /\ Aged(d).status = d.status /\ Aged(d).password = d.password
        /\ Aged(d).mailToken = d.mailToken /\ Aged(d).conFirmMailToken = d.conFirmMailToken
        /\ Aged(d).emailOTP = d.emailOTP /\ Aged(d).login_attempt = d.login_attempt
        /\ Aged(d).isBlock = d.isBlock
  BY AgedShape DEF Aged, Shape
<1>3. \A r \in Requests :
        /\ slot'[r] = [slot[r] EXCEPT !.copy = Aged(@)]
        /\ slot[r] \in Slot /\ slot[r].copy \in Shape
  BY <1>1 DEF Tick, TypedInv, Slot
<1>4. \A r \in Requests :
        /\ slot'[r] \in Slot /\ slot'[r].at = slot[r].at /\ slot'[r].kind = slot[r].kind
        /\ slot'[r].arg = slot[r].arg /\ slot'[r].copy = Aged(slot[r].copy)
  BY <1>2, <1>3, ZenonT(60) DEF Slot
<1>5. slot' \in [Requests -> Slot]
  BY <1>4 DEF Tick
<1>a. \A r \in Requests :
        /\ Copy(r)' = Aged(Copy(r)) /\ Copy(r)'.status = Copy(r).status
        /\ Untouched(Copy(r)) => Untouched(Copy(r)')
  <2> SUFFICES ASSUME NEW r \in Requests
               PROVE  /\ Copy(r)' = Aged(Copy(r)) /\ Copy(r)'.status = Copy(r).status
                      /\ Untouched(Copy(r)) => Untouched(Copy(r)')
    OBVIOUS
  <2>1. Copy(r) \in Shape /\ Copy(r)' = Aged(Copy(r))
    BY <1>3, <1>4 DEF Copy
  <2> QED
    BY <1>2, <2>1 DEF Untouched
<1>6. doc' = Aged(doc) /\ doc \in Shape
  BY <1>1 DEF Tick, TypedInv
<1>7. TypedInv'
  BY <1>1, <1>2, <1>5, <1>6 DEF Tick, TypedInv, mail
<1>8. SlotInv'
  BY <1>1, <1>4, <1>a DEF SlotInv
<1>9. AbsentInv'
  <2>1. doc'.status = doc.status /\ (Untouched(doc) => Untouched(doc'))
    BY <1>2, <1>6 DEF Untouched
  <2> QED
    BY <1>1, <1>a, <2>1 DEF AbsentInv, Untouched
<1> QED
  BY <1>2, <1>6, <1>7, <1>8, <1>9 DEF AccessInv

LEMMA BlockRunsOutKeeps ==
    ASSUME AccessInv, BlockRunsOut PROVE AccessInv' /\ doc'.password = doc.password
<1>1. TypedInv /\ SlotInv /\ AbsentInv
  BY DEF AccessInv
<1>2. doc' \in Shape /\ Untouched(doc)' = Untouched(doc) /\ doc'.status = doc.status
      /\ doc'.password = doc.password
  BY <1>1 DEF BlockRunsOut, TypedInv, Shape, Untouched
<1> QED
  BY <1>1, <1>2 DEF AccessInv, TypedInv, SlotInv, AbsentInv, BlockRunsOut, mail, Copy

LEMMA AccessInit == Init => AccessInv
<1> SUFFICES ASSUME Init PROVE AccessInv
  OBVIOUS
<1>1. doc \in Shape /\ (doc.status = "absent" => Untouched(doc))
  <2>1. NoDocument \in Shape /\ Untouched(NoDocument)
    BY IdleIsSlot DEF NoDocument, Untouched
  <2>2. doc = NoDocument \/ doc = [NoDocument EXCEPT !.status = "verified", !.percentage = 1]
    BY DEF Init
  <2>3. CASE doc = NoDocument
    BY <2>1, <2>3
  <2>4. CASE doc = [NoDocument EXCEPT !.status = "verified", !.percentage = 1]
    BY <2>1, <2>4 DEF Shape
  <2> QED
    BY <2>2, <2>3, <2>4
<1>2. TypedInv
  <2>1. slot \in [Requests -> Slot]
    BY IdleIsSlot DEF Init
  <2>2. kindOf \in [1..MaxLinks -> {"none", "activation", "reset"}]
    BY DEF Init
  <2>3. links = 0 /\ codes = 0 /\ strikes = 0 /\ raced = FALSE /\ group \in Groups
    BY DEF Init
  <2>4. links \in Nat /\ codes \in Nat /\ strikes \in 0..StrikeCap
    BY <2>3 DEF StrikeCap
  <2>5. raced \in BOOLEAN
    BY <2>3
  <2> QED
    BY <1>1, <2>1, <2>2, <2>3, <2>4, <2>5, Zenon DEF TypedInv
<1>3. \A r \in Requests : slot[r] = IdleSlot
  BY DEF Init
<1>4. SlotInv /\ AbsentInv
  BY <1>1, <1>3 DEF SlotInv, AbsentInv, Copy, IdleSlot, NoDocument, Untouched
<1> QED
  BY <1>2, <1>4 DEF AccessInv

\* One step of any handler, or of the clock.
LEMMA AccessStep ==
    ASSUME AccessInv, [Next]_vars
    PROVE  AccessInv' /\ doc'.password >= doc.password
<1>1. doc.password \in Nat
  BY DEF AccessInv, TypedInv, Shape
<1>2. CASE UNCHANGED vars
  BY <1>1, <1>2 DEF vars, AccessInv, TypedInv, SlotInv, AbsentInv, Copy
<1>3. ASSUME NEW r \in Requests, Handle(r) PROVE AccessInv' /\ doc'.password >= doc.password
  BY <1>1, <1>3, StartKeeps, RefuseKeeps, RegisterKeeps, ResendMailKeeps, ConfirmMailKeeps,
     LoginUnblockKeeps, WrongPasswordKeeps, SendCodeKeeps, CheckCodeKeeps, SkipCodeKeeps,
     ClearAttemptsKeeps,
     ForgotPasswordKeeps, ResetConfirmMailKeeps, ResetPasswordKeeps, RequestOTPKeeps,
     ChangePasswordKeeps DEF Handle
<1> QED
  BY <1>1, <1>2, <1>3, TickKeeps, BlockRunsOutKeeps DEF Next

\* The inductive invariant of the document and of the copies the handlers hold.
LEMMA AccessInvariant == Spec => []AccessInv
BY AccessInit, AccessStep, PTL DEF Spec

\* No handler brings an earlier password back, however many run at the same time
\* and whatever they had read before it was set (auth.controller.js:1194).
THEOREM PasswordStays == Spec => PasswordNeverReturns
<1>1. AccessInv /\ [Next]_vars => [doc'.password >= doc.password]_vars
  BY AccessStep
<1> QED
  BY <1>1, AccessInvariant, PTL DEF Spec, PasswordNeverReturns
---------------------------------------------------------------------------
\* While handlers run one at a time.
Alone ==
    \A q, r \in Requests : slot[q].at # "idle" /\ slot[r].at # "idle" => q = r

\* The document counts the failures there were, and blocks at the third.
CountOK == /\ doc.isBlock <=> strikes = 3
           /\ doc.login_attempt = IF strikes = 3 THEN 0 ELSE strikes

\* No reset was mailed after this link: the document holds no other.
NoneLater(t, last, kinds) == t = 0 \/ \A l \in (t + 1)..last : kinds[l] # "reset"
NoLaterReset(t) == NoneLater(t, links, kindOf)
LinksOK == NoLaterReset(doc.mailToken) /\ NoLaterReset(doc.conFirmMailToken)

\* What the handler at work has read is what the document says.
CopyFresh(r) ==
    /\ slot[r].kind = "login" =>
         Copy(r).login_attempt = doc.login_attempt /\ Copy(r).isBlock = doc.isBlock
    /\ slot[r].kind \in {"resend", "forgot", "confirmReset"} => Copy(r).mailToken = doc.mailToken
    /\ slot[r].kind \in {"forgot", "confirmReset", "reset"} =>
         Copy(r).conFirmMailToken = doc.conFirmMailToken

LoneInv ==
    /\ \A r \in Requests : slot[r].at = "open" => Copy(r).isBlock
    /\ ~raced => /\ Alone /\ CountOK /\ LinksOK
                 /\ \A r \in Requests : slot[r].at = "read" => CopyFresh(r)

\* A handler that was alone has ended: nothing is left to be compared.
LEMMA LoneDone ==
    ASSUME TypedInv, LoneInv, NEW r \in Requests, slot[r].at # "idle", Done(r), raced' = raced,
           ~raced => CountOK' /\ LinksOK'
    PROVE  LoneInv'
<1>1. slot'[r].at = "idle" /\ \A q \in Requests \ {r} : slot'[q] = slot[q]
  BY DEF TypedInv, Done, IdleSlot
<1>2. \A q \in Requests : slot'[q].at = "open" => Copy(q)'.isBlock
  BY <1>1 DEF LoneInv, Copy
<1>3. ASSUME ~raced PROVE \A q \in Requests : slot'[q].at = "idle"
  BY <1>1, <1>3 DEF LoneInv, Alone
<1> QED
  BY <1>2, <1>3 DEF LoneInv, Alone

\* One that goes on is not reading any more.
LEMMA LoneGoto ==
    ASSUME TypedInv, LoneInv, NEW r \in Requests, slot[r].at # "idle", raced' = raced,
           NEW at \in {"open", "coded"}, Goto(r, at), at = "open" => Copy(r).isBlock,
           ~raced => CountOK' /\ LinksOK'
    PROVE  LoneInv'
<1>1. /\ slot'[r].at = at /\ slot'[r].copy = slot[r].copy
      /\ \A q \in Requests \ {r} : slot'[q] = slot[q]
  BY DEF TypedInv, Goto, Slot
<1>2. \A q \in Requests : slot'[q].at = "open" => Copy(q)'.isBlock
  BY <1>1 DEF LoneInv, Copy
<1>3. ASSUME ~raced PROVE \A q \in Requests \ {r} : slot'[q].at = "idle"
  BY <1>1, <1>3 DEF LoneInv, Alone
<1>4. at # "read"
  OBVIOUS
<1> QED
  BY <1>1, <1>2, <1>3, <1>4 DEF LoneInv, Alone

\* What a save writes, field by field.
LEMMA SavedField ==
    ASSUME TypedInv, NEW r \in Requests, NEW n \in Shape, doc' = Saved(Copy(r), n)
    PROVE  /\ n.login_attempt = Copy(r).login_attempt => doc'.login_attempt = doc.login_attempt
           /\ n.isBlock = Copy(r).isBlock => doc'.isBlock = doc.isBlock
           /\ n.mailToken = Copy(r).mailToken => doc'.mailToken = doc.mailToken
           /\ n.mailToken # Copy(r).mailToken => doc'.mailToken = n.mailToken
           /\ n.conFirmMailToken = Copy(r).conFirmMailToken
                => doc'.conFirmMailToken = doc.conFirmMailToken
           /\ n.conFirmMailToken # Copy(r).conFirmMailToken
                => doc'.conFirmMailToken = n.conFirmMailToken
<1>1. Copy(r) \in Shape /\ doc \in Shape
  BY CopyTyped DEF TypedInv
<1> QED
  BY <1>1 DEF Saved, Shape

\* A link is mailed: those it is no reset for, or that are newer, stay the newest.
LEMMA NewLinkOK ==
    ASSUME TypedInv, NEW k \in {"activation", "reset"}, NewLink(k)
    PROVE  /\ \A t \in Nat : k = "activation" /\ NoneLater(t, links, kindOf)
                => NoneLater(t, links', kindOf')
           /\ NoneLater(links + 1, links', kindOf') /\ NoneLater(0, links', kindOf')
<1>1. /\ links \in Nat /\ links' = links + 1
      /\ kindOf' = [kindOf EXCEPT ![links + 1] = k]
      /\ links + 1 \in DOMAIN kindOf
  BY BoundsAssumption DEF TypedInv, NewLink
<1>2. kindOf'[links + 1] = k /\ \A l \in 1..links : kindOf'[l] = kindOf[l]
  BY <1>1 DEF TypedInv
<1>3. ASSUME NEW t \in Nat, k = "activation", NoneLater(t, links, kindOf), t # 0,
             NEW l \in (t + 1)..(links + 1)
      PROVE  kindOf'[l] # "reset"
  <2>1. CASE l = links + 1
    BY <1>2, <1>3, <2>1
  <2>2. CASE l \in (t + 1)..links
    BY <1>1, <1>2, <1>3, <2>2 DEF NoneLater
  <2> QED
    BY <1>1, <2>1, <2>2
<1> QED
  BY <1>1, <1>3 DEF NoneLater
LEMMA SendCodeLone ==
    ASSUME AccessInv, LoneInv, NEW r \in Requests, SendCode(r) PROVE LoneInv'
<1> DEFINE n == [Copy(r) EXCEPT !.otp = codes + 1, !.otpAge = 0]
<1>1. TypedInv /\ SlotInv /\ AbsentInv
  BY DEF AccessInv
<1>2. n \in Shape
  BY <1>1, NextTyped DEF Shape
<1>3. /\ n.login_attempt = Copy(r).login_attempt /\ n.isBlock = Copy(r).isBlock
      /\ n.mailToken = Copy(r).mailToken /\ n.conFirmMailToken = Copy(r).conFirmMailToken
  BY <1>1, CopyTyped DEF Shape
<1>4. doc' = Saved(Copy(r), n) /\ raced' = raced /\ strikes' = strikes
  BY DEF SendCode
<1> HIDE DEF n
<1>5. doc'.login_attempt = doc.login_attempt /\ doc'.isBlock = doc.isBlock
  BY <1>1, <1>2, <1>3, <1>4, SavedField
<1>6. ASSUME ~raced PROVE CountOK' /\ LinksOK'
  <2>1. CountOK'
    BY <1>4, <1>5, <1>6 DEF LoneInv, CountOK
  <2>2. LinksOK'
    <3>1. doc'.mailToken = doc.mailToken /\ doc'.conFirmMailToken = doc.conFirmMailToken
      BY <1>1, <1>2, <1>3, <1>4, SavedField
    <3>2. links' = links /\ kindOf' = kindOf
      BY DEF SendCode, mail
    <3> QED
      BY <1>6, <3>1, <3>2 DEF LoneInv, LinksOK, NoLaterReset, NoneLater
  <2> QED
    BY <2>1, <2>2
<1> QED
  BY <1>1, <1>4, <1>6, LoneDone DEF SendCode, At, Open

LEMMA CheckCodeLone ==
    ASSUME AccessInv, LoneInv, NEW r \in Requests, CheckCode(r) PROVE LoneInv'
<1> DEFINE n == [Copy(r) EXCEPT !.otp = 0]
<1>1. TypedInv /\ SlotInv /\ AbsentInv
  BY DEF AccessInv
<1>2. n \in Shape
  BY <1>1, NextTyped DEF Shape
<1>3. /\ n.login_attempt = Copy(r).login_attempt /\ n.isBlock = Copy(r).isBlock
      /\ n.mailToken = Copy(r).mailToken /\ n.conFirmMailToken = Copy(r).conFirmMailToken
  BY <1>1, CopyTyped DEF Shape
<1>4. doc' = Saved(Copy(r), n) /\ raced' = raced /\ strikes' = strikes
  BY DEF CheckCode
<1> HIDE DEF n
<1>5. doc'.login_attempt = doc.login_attempt /\ doc'.isBlock = doc.isBlock
  BY <1>1, <1>2, <1>3, <1>4, SavedField
<1>6. ASSUME ~raced PROVE CountOK' /\ LinksOK'
  <2>1. CountOK'
    BY <1>4, <1>5, <1>6 DEF LoneInv, CountOK
  <2>2. LinksOK'
    <3>1. doc'.mailToken = doc.mailToken /\ doc'.conFirmMailToken = doc.conFirmMailToken
      BY <1>1, <1>2, <1>3, <1>4, SavedField
    <3>2. links' = links /\ kindOf' = kindOf
      BY DEF CheckCode, mail
    <3> QED
      BY <1>6, <3>1, <3>2 DEF LoneInv, LinksOK, NoLaterReset, NoneLater
  <2> QED
    BY <2>1, <2>2
<1> QED
  BY <1>1, <1>4, <1>6, LoneGoto DEF CheckCode, CodeAccepted, At, Open

LEMMA RequestOTPLone ==
    ASSUME AccessInv, LoneInv, NEW r \in Requests, RequestOTP(r) PROVE LoneInv'
<1> DEFINE n == [Copy(r) EXCEPT !.emailOTP = codes + 1, !.emailAge = 0]
<1>1. TypedInv /\ SlotInv /\ AbsentInv
  BY DEF AccessInv
<1>2. n \in Shape
  BY <1>1, NextTyped DEF Shape
<1>3. /\ n.login_attempt = Copy(r).login_attempt /\ n.isBlock = Copy(r).isBlock
      /\ n.mailToken = Copy(r).mailToken /\ n.conFirmMailToken = Copy(r).conFirmMailToken
  BY <1>1, CopyTyped DEF Shape
<1>4. doc' = Saved(Copy(r), n) /\ raced' = raced /\ strikes' = strikes
  BY DEF RequestOTP
<1> HIDE DEF n
<1>5. doc'.login_attempt = doc.login_attempt /\ doc'.isBlock = doc.isBlock
  BY <1>1, <1>2, <1>3, <1>4, SavedField
<1>6. ASSUME ~raced PROVE CountOK' /\ LinksOK'
  <2>1. CountOK'
    BY <1>4, <1>5, <1>6 DEF LoneInv, CountOK
  <2>2. LinksOK'
    <3>1. doc'.mailToken = doc.mailToken /\ doc'.conFirmMailToken = doc.conFirmMailToken
      BY <1>1, <1>2, <1>3, <1>4, SavedField
    <3>2. links' = links /\ kindOf' = kindOf
      BY DEF RequestOTP, mail
    <3> QED
      BY <1>6, <3>1, <3>2 DEF LoneInv, LinksOK, NoLaterReset, NoneLater
  <2> QED
    BY <2>1, <2>2
<1> QED
  BY <1>1, <1>4, <1>6, LoneDone DEF RequestOTP, At

LEMMA ChangePasswordLone ==
    ASSUME AccessInv, LoneInv, NEW r \in Requests, ChangePassword(r) PROVE LoneInv'
<1> DEFINE n == [Copy(r) EXCEPT !.password = doc.password + 1, !.emailOTP = 0, !.emailAge = 2]
<1>1. TypedInv /\ SlotInv /\ AbsentInv
  BY DEF AccessInv
<1>2. n \in Shape
  BY <1>1, NextTyped DEF Shape
<1>3. /\ n.login_attempt = Copy(r).login_attempt /\ n.isBlock = Copy(r).isBlock
      /\ n.mailToken = Copy(r).mailToken /\ n.conFirmMailToken = Copy(r).conFirmMailToken
  BY <1>1, CopyTyped DEF Shape
<1>4. doc' = Saved(Copy(r), n) /\ raced' = raced /\ strikes' = strikes
  BY DEF ChangePassword
<1> HIDE DEF n
<1>5. doc'.login_attempt = doc.login_attempt /\ doc'.isBlock = doc.isBlock
  BY <1>1, <1>2, <1>3, <1>4, SavedField
<1>6. ASSUME ~raced PROVE CountOK' /\ LinksOK'
  <2>1. CountOK'
    BY <1>4, <1>5, <1>6 DEF LoneInv, CountOK
  <2>2. LinksOK'
    <3>1. doc'.mailToken = doc.mailToken /\ doc'.conFirmMailToken = doc.conFirmMailToken
      BY <1>1, <1>2, <1>3, <1>4, SavedField
    <3>2. links' = links /\ kindOf' = kindOf
      BY DEF ChangePassword, mail
    <3> QED
      BY <1>6, <3>1, <3>2 DEF LoneInv, LinksOK, NoLaterReset, NoneLater
  <2> QED
    BY <2>1, <2>2
<1> QED
  BY <1>1, <1>4, <1>6, LoneDone DEF ChangePassword, At

LEMMA ResetPasswordLone ==
    ASSUME AccessInv, LoneInv, NEW r \in Requests, ResetPassword(r) PROVE LoneInv'
<1> DEFINE n == [Copy(r) EXCEPT !.password = doc.password + 1, !.conFirmMailToken = 0]
<1>1. TypedInv /\ SlotInv /\ AbsentInv
  BY DEF AccessInv
<1>2. n \in Shape
  BY <1>1, NextTyped DEF Shape
<1>3. /\ n.login_attempt = Copy(r).login_attempt /\ n.isBlock = Copy(r).isBlock
      /\ n.mailToken = Copy(r).mailToken /\ n.conFirmMailToken = 0
  BY <1>1, CopyTyped DEF Shape
<1>4. doc' = Saved(Copy(r), n) /\ raced' = raced /\ strikes' = strikes
  BY DEF ResetPassword
<1> HIDE DEF n
<1>5. doc'.login_attempt = doc.login_attempt /\ doc'.isBlock = doc.isBlock
  BY <1>1, <1>2, <1>3, <1>4, SavedField
<1>6. ASSUME ~raced PROVE CountOK' /\ LinksOK'
  <2>1. CountOK'
    BY <1>4, <1>5, <1>6 DEF LoneInv, CountOK
  <2>2. LinksOK'
    <3>1. /\ doc'.mailToken \in {doc.mailToken, 0}
          /\ doc'.conFirmMailToken \in {doc.conFirmMailToken, 0}
      BY <1>1, <1>2, <1>3, <1>4, SavedField
    <3>2. links' = links /\ kindOf' = kindOf
      BY DEF ResetPassword, mail
    <3> QED
      BY <1>6, <3>1, <3>2 DEF LoneInv, LinksOK, NoLaterReset, NoneLater
  <2> QED
    BY <2>1, <2>2
<1> QED
  BY <1>1, <1>4, <1>6, LoneDone DEF ResetPassword, At

LEMMA ConfirmMailLone ==
    ASSUME AccessInv, LoneInv, NEW r \in Requests, ConfirmMail(r) PROVE LoneInv'
<1> DEFINE n == [Copy(r) EXCEPT !.status = "verified", !.percentage = @ + 1, !.mailToken = 0]
<1>1. TypedInv /\ SlotInv /\ AbsentInv
  BY DEF AccessInv
<1>2. n \in Shape
  BY <1>1, NextTyped DEF Shape
<1>3. /\ n.login_attempt = Copy(r).login_attempt /\ n.isBlock = Copy(r).isBlock
      /\ n.mailToken = 0 /\ n.conFirmMailToken = Copy(r).conFirmMailToken
  BY <1>1, CopyTyped DEF Shape
<1>4. doc' = Saved(Copy(r), n) /\ raced' = raced /\ strikes' = strikes
  BY DEF ConfirmMail
<1> HIDE DEF n
<1>5. doc'.login_attempt = doc.login_attempt /\ doc'.isBlock = doc.isBlock
  BY <1>1, <1>2, <1>3, <1>4, SavedField
<1>6. ASSUME ~raced PROVE CountOK' /\ LinksOK'
  <2>1. CountOK'
    BY <1>4, <1>5, <1>6 DEF LoneInv, CountOK
  <2>2. LinksOK'
    <3>1. /\ doc'.mailToken \in {doc.mailToken, 0}
          /\ doc'.conFirmMailToken \in {doc.conFirmMailToken, 0}
      BY <1>1, <1>2, <1>3, <1>4, SavedField
    <3>2. links' = links /\ kindOf' = kindOf
      BY DEF ConfirmMail, mail
    <3> QED
      BY <1>6, <3>1, <3>2 DEF LoneInv, LinksOK, NoLaterReset, NoneLater
  <2> QED
    BY <2>1, <2>2
<1> QED
  BY <1>1, <1>4, <1>6, LoneDone DEF ConfirmMail, At

LEMMA ResetConfirmMailLone ==
    ASSUME AccessInv, LoneInv, NEW r \in Requests, ResetConfirmMail(r) PROVE LoneInv'
<1> DEFINE n == [Copy(r) EXCEPT !.mailToken = 0, !.conFirmMailToken = slot[r].arg]
<1>1. TypedInv /\ SlotInv /\ AbsentInv
  BY DEF AccessInv
<1>2. n \in Shape
  BY <1>1, NextTyped DEF Shape
<1>3. /\ n.login_attempt = Copy(r).login_attempt /\ n.isBlock = Copy(r).isBlock
      /\ n.mailToken = 0 /\ n.conFirmMailToken = slot[r].arg
  BY <1>1, CopyTyped DEF Shape
<1>4. doc' = Saved(Copy(r), n) /\ raced' = raced /\ strikes' = strikes
  BY DEF ResetConfirmMail
<1> HIDE DEF n
<1>5. doc'.login_attempt = doc.login_attempt /\ doc'.isBlock = doc.isBlock
  BY <1>1, <1>2, <1>3, <1>4, SavedField
<1>6. ASSUME ~raced PROVE CountOK' /\ LinksOK'
  <2>1. CountOK'
    BY <1>4, <1>5, <1>6 DEF LoneInv, CountOK
  <2>2. LinksOK'
    <3>1. slot[r].arg = doc.mailToken
      BY <1>6 DEF LoneInv, CopyFresh, ResetConfirmMail, At
    <3>2. /\ doc'.mailToken \in {doc.mailToken, 0}
          /\ doc'.conFirmMailToken \in {doc.conFirmMailToken, doc.mailToken}
      BY <1>1, <1>2, <1>3, <1>4, <3>1, SavedField
    <3>3. links' = links /\ kindOf' = kindOf
      BY DEF ResetConfirmMail, mail
    <3> QED
      BY <1>6, <3>2, <3>3 DEF LoneInv, LinksOK, NoLaterReset, NoneLater
  <2> QED
    BY <2>1, <2>2
<1> QED
  BY <1>1, <1>4, <1>6, LoneDone DEF ResetConfirmMail, At

LEMMA ResendMailLone ==
    ASSUME AccessInv, LoneInv, NEW r \in Requests, ResendMail(r) PROVE LoneInv'
<1> DEFINE n == [Copy(r) EXCEPT !.mailToken = links + 1]
<1>1. TypedInv /\ SlotInv /\ AbsentInv
  BY DEF AccessInv
<1>2. n \in Shape
  BY <1>1, NextTyped DEF Shape
<1>3. /\ n.login_attempt = Copy(r).login_attempt /\ n.isBlock = Copy(r).isBlock
      /\ n.mailToken = links + 1 /\ n.conFirmMailToken = Copy(r).conFirmMailToken
  BY <1>1, CopyTyped DEF Shape
<1>4. doc' = Saved(Copy(r), n) /\ raced' = raced /\ strikes' = strikes
  BY DEF ResendMail
<1> HIDE DEF n
<1>5. doc'.login_attempt = doc.login_attempt /\ doc'.isBlock = doc.isBlock
  BY <1>1, <1>2, <1>3, <1>4, SavedField
<1>6. ASSUME ~raced PROVE CountOK' /\ LinksOK'
  <2>1. CountOK'
    BY <1>4, <1>5, <1>6 DEF LoneInv, CountOK
  <2>2. LinksOK'
    <3>1. doc'.mailToken = links + 1
      BY <1>1, <1>2, <1>3, <1>4, <1>6, SavedField DEF LoneInv, CopyFresh, ResendMail, At
    <3>2. doc'.conFirmMailToken = doc.conFirmMailToken
      BY <1>1, <1>2, <1>3, <1>4, <1>6, SavedField DEF LoneInv, CopyFresh, ResendMail, At
    <3>3. NewLink("activation")
      BY DEF ResendMail
    <3>4. doc.conFirmMailToken \in Nat
      BY <1>1 DEF TypedInv, Shape
    <3> QED
      BY <1>1, <1>6, <3>1, <3>2, <3>3, <3>4, NewLinkOK DEF LoneInv, LinksOK, NoLaterReset
  <2> QED
    BY <2>1, <2>2
<1> QED
  BY <1>1, <1>4, <1>6, LoneDone DEF ResendMail, At

LEMMA ForgotPasswordLone ==
    ASSUME AccessInv, LoneInv, NEW r \in Requests, ForgotPassword(r) PROVE LoneInv'
<1> DEFINE n == [Copy(r) EXCEPT !.mailToken = links + 1, !.conFirmMailToken = 0, !.otpAge = 0]
<1>1. TypedInv /\ SlotInv /\ AbsentInv
  BY DEF AccessInv
<1>2. n \in Shape
  BY <1>1, NextTyped DEF Shape
<1>3. /\ n.login_attempt = Copy(r).login_attempt /\ n.isBlock = Copy(r).isBlock
      /\ n.mailToken = links + 1 /\ n.conFirmMailToken = 0
  BY <1>1, CopyTyped DEF Shape
<1>4. doc' = Saved(Copy(r), n) /\ raced' = raced /\ strikes' = strikes
  BY DEF ForgotPassword
<1> HIDE DEF n
<1>5. doc'.login_attempt = doc.login_attempt /\ doc'.isBlock = doc.isBlock
  BY <1>1, <1>2, <1>3, <1>4, SavedField
<1>6. ASSUME ~raced PROVE CountOK' /\ LinksOK'
  <2>1. CountOK'
    BY <1>4, <1>5, <1>6 DEF LoneInv, CountOK
  <2>2. LinksOK'
    <3>1. doc'.mailToken = links + 1
      BY <1>1, <1>2, <1>3, <1>4, <1>6, SavedField DEF LoneInv, CopyFresh, ForgotPassword, At
    <3>2. doc'.conFirmMailToken = 0
      BY <1>1, <1>2, <1>3, <1>4, <1>6, SavedField DEF LoneInv, CopyFresh, ForgotPassword, At
    <3>3. NewLink("reset")
      BY DEF ForgotPassword
    <3>4. doc.conFirmMailToken \in Nat
      BY <1>1 DEF TypedInv, Shape
    <3> QED
      BY <1>1, <1>6, <3>1, <3>2, <3>3, <3>4, NewLinkOK DEF LoneInv, LinksOK, NoLaterReset
  <2> QED
    BY <2>1, <2>2
<1> QED
  BY <1>1, <1>4, <1>6, LoneDone DEF ForgotPassword, At
LEMMA RegisterLone ==
    ASSUME AccessInv, LoneInv, NEW r \in Requests, Register(r) PROVE LoneInv'
<1>1. TypedInv
  BY DEF AccessInv
<1>2. /\ doc'.login_attempt = 0 /\ doc'.isBlock = FALSE
      /\ doc'.mailToken = links + 1 /\ doc'.conFirmMailToken = 0
  BY DEF Register, NoDocument
<1>3. ~raced => CountOK'
  <2>1. doc.login_attempt = 0 /\ doc.isBlock = FALSE
    BY DEF Register, AccessInv, AbsentInv, Untouched
  <2> QED
    BY <1>2, <2>1 DEF Register, LoneInv, CountOK
<1>4. NewLink("activation")
  BY DEF Register
<1>5. LinksOK'
  BY <1>1, <1>2, <1>4, NewLinkOK DEF LinksOK, NoLaterReset
<1> QED
  BY <1>1, <1>3, <1>5, LoneDone DEF Register, At

\* Nothing was mailed and no link of the document changed.
LEMMA LinksKept ==
    ASSUME LinksOK, UNCHANGED <<links, kindOf>>, doc'.mailToken = doc.mailToken,
           doc'.conFirmMailToken = doc.conFirmMailToken
    PROVE  LinksOK'
BY DEF LinksOK, NoLaterReset

\* A block that has run out: the count starts over, the copy still says isBlock.
LEMMA LoginUnblockLone ==
    ASSUME AccessInv, LoneInv, NEW r \in Requests, LoginUnblock(r) PROVE LoneInv'
<1>1. TypedInv
  BY DEF AccessInv
<1>2. /\ doc'.login_attempt = 0 /\ doc'.isBlock = FALSE
      /\ doc'.mailToken = doc.mailToken /\ doc'.conFirmMailToken = doc.conFirmMailToken
  BY <1>1 DEF LoginUnblock, TypedInv, Shape
<1>3. CountOK'
  BY <1>2 DEF LoginUnblock, CountOK
<1>4. ~raced => LinksOK'
  BY <1>2, LinksKept DEF LoginUnblock, LoneInv, mail
<1> QED
  BY <1>1, <1>3, <1>4, LoneGoto DEF LoginUnblock, At

\* The third failure in a row blocks, because the copy counts what there were.
LEMMA WrongPasswordLone ==
    ASSUME AccessInv, LoneInv, NEW r \in Requests, WrongPassword(r) PROVE LoneInv'
<1>1. TypedInv
  BY DEF AccessInv
<1>2. doc'.mailToken = doc.mailToken /\ doc'.conFirmMailToken = doc.conFirmMailToken
  BY <1>1 DEF WrongPassword, TypedInv, Shape
<1>3. ~raced => LinksOK'
  BY <1>2, LinksKept DEF WrongPassword, LoneInv, mail
<1>4. ASSUME ~raced PROVE CountOK'
  <2>1. CountOK /\ (slot[r].at = "read" => CopyFresh(r))
    BY <1>4 DEF LoneInv
  <2>2. /\ strikes \in 0..3
        /\ strikes' = IF slot[r].at = "open" \/ strikes = 3 THEN strikes ELSE strikes + 1
    BY <1>1, <1>4 DEF TypedInv, StrikeCap, WrongPassword, Struck
  <2>3. doc.login_attempt \in Nat /\ Copy(r).login_attempt \in Nat
    BY <1>1, CopyTyped DEF TypedInv, Shape
  <2>4. CASE Copy(r).isBlock
    <3>1. doc' = doc /\ slot[r].at = "open"
      BY <2>4 DEF WrongPassword, Open
    <3> QED
      BY <2>1, <2>2, <3>1 DEF CountOK
  <2>5. CASE ~Copy(r).isBlock
    <3>1. slot[r].at = "read" /\ slot[r].kind = "login"
      BY <2>5 DEF WrongPassword, Open, At, LoneInv
    <3>2. Copy(r).login_attempt = doc.login_attempt /\ Copy(r).isBlock = doc.isBlock
      BY <2>1, <3>1 DEF CopyFresh
    <3>5. strikes # 3 /\ doc.login_attempt = strikes
      BY <2>1, <2>5, <3>2 DEF CountOK
    <3>3. CASE Copy(r).login_attempt >= 2
      <4>1. doc'.login_attempt = 0 /\ doc'.isBlock = TRUE
        BY <1>1, <2>5, <3>3 DEF WrongPassword, LOGIN_ATTEMPTS, TypedInv, Shape
      <4>2. strikes' = 3
        BY <2>2, <3>1, <3>2, <3>3, <3>5
      <4> QED
        BY <4>1, <4>2 DEF CountOK
    <3>4. CASE ~(Copy(r).login_attempt >= 2)
      <4>1. /\ doc' = [doc EXCEPT !.login_attempt = Copy(r).login_attempt + 1]
            /\ doc \in Shape
        BY <1>1, <2>5, <3>4 DEF WrongPassword, LOGIN_ATTEMPTS, TypedInv
      <4>2. doc'.login_attempt = doc.login_attempt + 1 /\ doc'.isBlock = doc.isBlock
        BY <3>2, <4>1 DEF Shape
      <4>3. strikes' = strikes + 1 /\ strikes' # 3
        BY <2>2, <2>3, <3>1, <3>2, <3>4, <3>5
      <4>4. doc'.isBlock = FALSE /\ doc'.login_attempt = strikes'
        BY <1>1, <2>5, <3>2, <3>5, <4>2, <4>3 DEF TypedInv, Shape
      <4> QED
        BY <4>3, <4>4 DEF CountOK
    <3> QED
      BY <3>3, <3>4
  <2> QED
    BY <2>4, <2>5
<1> QED
  BY <1>1, <1>3, <1>4, LoneDone DEF WrongPassword, Open, At

LEMMA SkipCodeLone ==
    ASSUME AccessInv, LoneInv, NEW r \in Requests, SkipCode(r) PROVE LoneInv'
<1>1. TypedInv
  BY DEF AccessInv
<1>2. ~raced => CountOK' /\ LinksOK'
  BY LinksKept DEF SkipCode, LoneInv, CountOK, mail
<1> QED
  BY <1>1, <1>2, LoneGoto DEF SkipCode, At, Open

LEMMA ClearAttemptsLone ==
    ASSUME AccessInv, LoneInv, NEW r \in Requests, ClearAttempts(r) PROVE LoneInv'
<1>1. TypedInv
  BY DEF AccessInv
<1>2. /\ doc'.login_attempt = 0 /\ doc'.isBlock = FALSE
      /\ doc'.mailToken = doc.mailToken /\ doc'.conFirmMailToken = doc.conFirmMailToken
  BY <1>1 DEF ClearAttempts, TypedInv, Shape
<1>3. CountOK'
  BY <1>2 DEF ClearAttempts, CountOK
<1>4. ~raced => LinksOK'
  BY <1>2, LinksKept DEF ClearAttempts, LoneInv, mail
<1> QED
  BY <1>1, <1>3, <1>4, LoneDone DEF ClearAttempts

LEMMA RefuseLone ==
    ASSUME AccessInv, LoneInv, NEW r \in Requests, Refuse(r) PROVE LoneInv'
<1>1. TypedInv
  BY DEF AccessInv
<1>2. ~raced => CountOK' /\ LinksOK'
  BY LinksKept DEF Refuse, LoneInv, CountOK, mail
<1> QED
  BY <1>1, <1>2, LoneDone DEF Refuse

\* A handler that starts alone reads the document as it is.
LEMMA StartLone ==
    ASSUME AccessInv, LoneInv, NEW r \in Requests, Start(r) PROVE LoneInv'
<1>1. TypedInv
  BY DEF AccessInv
<1>2. PICK kind, right, arg :
        /\ kind \in group /\ right \in BOOLEAN
        /\ slot' = [slot EXCEPT ![r] =
             [at |-> "read", kind |-> kind, arg |-> arg, right |-> right, copy |-> Read(kind)]]
  BY DEF Start
<1>3. /\ slot'[r].at = "read" /\ slot'[r].kind = kind /\ slot'[r].copy = Read(kind)
      /\ \A q \in Requests \ {r} : slot'[q] = slot[q]
  BY <1>1, <1>2 DEF TypedInv
<1>4. \A q \in Requests : slot'[q].at = "open" => Copy(q)'.isBlock
  BY <1>3 DEF LoneInv, Copy
<1>5. ASSUME ~raced' PROVE /\ ~raced /\ \A q \in Requests \ {r} : slot[q].at = "idle"
  BY <1>5 DEF Start
<1>6. doc' = doc /\ (~raced' => strikes' = strikes) /\ links' = links /\ kindOf' = kindOf
  BY DEF Start, mail
<1>7. ASSUME ~raced' PROVE Alone' /\ CountOK' /\ LinksOK'
  BY <1>3, <1>5, <1>6, <1>7, LinksKept DEF LoneInv, Alone, CountOK
<1>8. CopyFresh(r)'
  <2>1. doc \in Shape
    BY <1>1 DEF TypedInv
  <2>2. /\ kind = "login" => Read(kind).login_attempt = doc.login_attempt
                              /\ Read(kind).isBlock = doc.isBlock
        /\ kind \in {"resend", "forgot", "confirmReset"} => Read(kind).mailToken = doc.mailToken
        /\ kind \in {"forgot", "confirmReset", "reset"}
             => Read(kind).conFirmMailToken = doc.conFirmMailToken
    BY <2>1 DEF Read, Paths, Shape
  <2> QED
    BY <1>3, <1>6, <2>2 DEF CopyFresh, Copy
<1>9. ASSUME ~raced', NEW q \in Requests, slot'[q].at = "read" PROVE CopyFresh(q)'
  BY <1>3, <1>5, <1>8, <1>9
<1> QED
  BY <1>4, <1>7, <1>9 DEF LoneInv

LEMMA TickLone == ASSUME AccessInv, LoneInv, Tick PROVE LoneInv'
<1>1. TypedInv
  BY DEF AccessInv
<1>2. \A d \in Shape :
        /\ Aged(d).login_attempt = d.login_attempt /\ Aged(d).isBlock = d.isBlock
        /\ Aged(d).mailToken = d.mailToken /\ Aged(d).conFirmMailToken = d.conFirmMailToken
  BY DEF Aged, Shape
<1>3. doc \in Shape /\ doc' = Aged(doc) /\ UNCHANGED <<links, kindOf, strikes, raced>>
  BY <1>1 DEF Tick, TypedInv, mail
<1>4. ASSUME NEW r \in Requests
      PROVE  /\ slot'[r].at = slot[r].at /\ slot'[r].kind = slot[r].kind
             /\ Copy(r) \in Shape /\ Copy(r)' = Aged(Copy(r))
  BY <1>1, CopyTyped DEF Tick, TypedInv, Slot, Copy
<1>5. \A r \in Requests : slot'[r].at = "open" => Copy(r)'.isBlock
  BY <1>2, <1>4 DEF LoneInv
<1>6. ASSUME ~raced PROVE Alone' /\ CountOK' /\ LinksOK'
  BY <1>2, <1>3, <1>4, <1>6, LinksKept DEF LoneInv, Alone, CountOK
<1>7. ASSUME ~raced, NEW r \in Requests, slot'[r].at = "read" PROVE CopyFresh(r)'
  <2>1. CopyFresh(r)
    BY <1>4, <1>7 DEF LoneInv
  <2> QED
    BY <1>2, <1>3, <1>4, <2>1 DEF CopyFresh
<1> QED
  BY <1>3, <1>5, <1>6, <1>7 DEF LoneInv

LEMMA BlockRunsOutLone == ASSUME AccessInv, LoneInv, BlockRunsOut PROVE LoneInv'
<1>1. /\ doc'.login_attempt = doc.login_attempt /\ doc'.isBlock = doc.isBlock
      /\ doc'.mailToken = doc.mailToken /\ doc'.conFirmMailToken = doc.conFirmMailToken
  BY DEF BlockRunsOut, AccessInv, TypedInv, Shape
<1>2. UNCHANGED <<slot, links, kindOf, strikes, raced>>
  BY DEF BlockRunsOut, mail
<1>3. LinksOK => LinksOK'
  BY <1>1, <1>2, LinksKept
<1> QED
  BY <1>1, <1>2, <1>3 DEF LoneInv, Alone, CountOK, CopyFresh, Copy

LEMMA LoneInit == Init => LoneInv
<1> SUFFICES ASSUME Init PROVE LoneInv
  OBVIOUS
<1>1. \A r \in Requests : slot[r].at = "idle"
  BY DEF Init, IdleSlot
<1>2. /\ doc.login_attempt = 0 /\ doc.isBlock = FALSE
      /\ doc.mailToken = 0 /\ doc.conFirmMailToken = 0
  <2>1. doc = NoDocument \/ doc = [NoDocument EXCEPT !.status = "verified", !.percentage = 1]
    BY DEF Init
  <2>2. CASE doc = NoDocument
    BY <2>2 DEF NoDocument
  <2>3. CASE doc = [NoDocument EXCEPT !.status = "verified", !.percentage = 1]
    BY <2>3 DEF NoDocument
  <2> QED
    BY <2>1, <2>2, <2>3
<1>3. CountOK /\ LinksOK
  BY <1>2 DEF Init, CountOK, LinksOK, NoLaterReset, NoneLater
<1> QED
  BY <1>1, <1>3 DEF LoneInv, Alone

LEMMA LoneStep == ASSUME AccessInv, LoneInv, [Next]_vars PROVE LoneInv'
<1>1. CASE UNCHANGED vars
  BY <1>1 DEF vars, LoneInv, Alone, CountOK, LinksOK, NoLaterReset, CopyFresh, Copy
<1>2. ASSUME NEW r \in Requests, Handle(r) PROVE LoneInv'
  BY <1>2, StartLone, RefuseLone, RegisterLone, ResendMailLone, ConfirmMailLone,
     LoginUnblockLone, WrongPasswordLone, SendCodeLone, CheckCodeLone, SkipCodeLone,
     ClearAttemptsLone,
     ForgotPasswordLone, ResetConfirmMailLone, ResetPasswordLone, RequestOTPLone,
     ChangePasswordLone DEF Handle
<1> QED
  BY <1>1, <1>2, TickLone, BlockRunsOutLone DEF Next

\* What holds of the account while its handlers do not overlap.
LEMMA LoneInvariant == Spec => [](AccessInv /\ LoneInv)
<1>1. Init => AccessInv /\ LoneInv
  BY AccessInit, LoneInit
<1>2. AccessInv /\ LoneInv /\ [Next]_vars => (AccessInv /\ LoneInv)'
  BY AccessStep, LoneStep
<1> QED
  BY <1>1, <1>2, PTL DEF Spec

\* While handlers run one at a time the third wrong password in a row blocks the account,
\* and no earlier one does (userLogin, auth.controller.js:631); the failure of the login
\* that itself lifts a block is the one that is not counted.
THEOREM BlockedInTime == Spec => []ThirdFailureBlocks
<1>1. LoneInv => ThirdFailureBlocks
  BY DEF LoneInv, CountOK, ThirdFailureBlocks
<1> QED
  BY <1>1, LoneInvariant, PTL

\* Only a reset changes the password in the name of a reset, and only on a document
\* that holds the link it was sent.
LEMMA ResetsWithNewest ==
    ASSUME AccessInv, LoneInv, [Next]_vars, NEW r \in Requests, At(r, "reset"),
           doc'.password # doc.password, slot'[r] # slot[r], ~raced,
           NEW l \in (slot[r].arg + 1)..links
    PROVE  kindOf[l] # "reset"
<1>1. PICK q \in Requests : ResetPassword(q) \/ ChangePassword(q)
  <2>1. ASSUME NEW q \in Requests, Handle(q), ~ResetPassword(q), ~ChangePassword(q)
        PROVE  doc'.password = doc.password
    <3>1. TypedInv
      BY DEF AccessInv
    <3>2. ASSUME NEW n \in Shape, doc' = Saved(Copy(q), n), n.password = Copy(q).password
          PROVE  doc'.password = doc.password
      BY <3>1, <3>2, CopyTyped DEF Saved, Shape, TypedInv
    <3>3. CASE ResendMail(q)
      <4>1. [Copy(q) EXCEPT !.mailToken = links + 1] \in Shape
        BY <3>1, NextTyped DEF Shape
      <4> QED
        BY <3>1, <3>2, <3>3, <4>1, CopyTyped DEF ResendMail, Shape
    <3>4. CASE ConfirmMail(q)
      <4>1. [Copy(q) EXCEPT !.status = "verified", !.percentage = @ + 1, !.mailToken = 0] \in Shape
        BY <3>1, NextTyped DEF Shape
      <4> QED
        BY <3>1, <3>2, <3>4, <4>1, CopyTyped DEF ConfirmMail, Shape
    <3>5. CASE SendCode(q)
      <4>1. [Copy(q) EXCEPT !.otp = codes + 1, !.otpAge = 0] \in Shape
        BY <3>1, NextTyped DEF Shape
      <4> QED
        BY <3>1, <3>2, <3>5, <4>1, CopyTyped DEF SendCode, Shape
    <3>6. CASE CheckCode(q)
      <4>1. [Copy(q) EXCEPT !.otp = 0] \in Shape
        BY <3>1, NextTyped DEF Shape
      <4> QED
        BY <3>1, <3>2, <3>6, <4>1, CopyTyped DEF CheckCode, Shape
    <3>7. CASE ForgotPassword(q)
      <4>1. [Copy(q) EXCEPT !.mailToken = links + 1, !.conFirmMailToken = 0, !.otpAge = 0] \in Shape
        BY <3>1, NextTyped DEF Shape
      <4> QED
        BY <3>1, <3>2, <3>7, <4>1, CopyTyped DEF ForgotPassword, Shape
    <3>8. CASE ResetConfirmMail(q)
      <4>1. [Copy(q) EXCEPT !.mailToken = 0, !.conFirmMailToken = slot[q].arg] \in Shape
        BY <3>1, NextTyped DEF Shape
      <4> QED
        BY <3>1, <3>2, <3>8, <4>1, CopyTyped DEF ResetConfirmMail, Shape
    <3>9. CASE RequestOTP(q)
      <4>1. [Copy(q) EXCEPT !.emailOTP = codes + 1, !.emailAge = 0] \in Shape
        BY <3>1, NextTyped DEF Shape
      <4> QED
        BY <3>1, <3>2, <3>9, <4>1, CopyTyped DEF RequestOTP, Shape
    <3> QED
      BY <2>1, <3>3, <3>4, <3>5, <3>6, <3>7, <3>8, <3>9, StartKeeps, RefuseKeeps, RegisterKeeps,
         LoginUnblockKeeps, WrongPasswordKeeps, SkipCodeKeeps, ClearAttemptsKeeps DEF Handle
  <2>2. ~Tick /\ ~BlockRunsOut /\ ~UNCHANGED vars
    BY TickKeeps, BlockRunsOutKeeps DEF vars
  <2> QED
    BY <2>1, <2>2 DEF Next
<1>2. q = r /\ ResetPassword(r)
  BY <1>1 DEF AccessInv, TypedInv, ResetPassword, ChangePassword, Done, At
<1>3. /\ slot[r].arg # 0 /\ slot[r].arg = doc.conFirmMailToken
      /\ NoLaterReset(doc.conFirmMailToken)
  BY <1>2 DEF ResetPassword, At, AccessInv, SlotInv, LoneInv, CopyFresh, LinksOK
<1> QED
  BY <1>3 DEF NoLaterReset, NoneLater

\* While handlers run one at a time a password is reset with the newest reset link
\* only (checkForgotPassword, auth.controller.js:947).
THEOREM OnlyNewestLink == Spec => NewestLinkResets
<1> DEFINE A == \A r \in Requests :
         At(r, "reset") /\ doc'.password # doc.password /\ slot'[r] # slot[r] /\ ~raced
         => \A l \in (slot[r].arg + 1)..links : kindOf[l] # "reset"
<1>1. AccessInv /\ LoneInv /\ [Next]_vars => [A]_vars
  BY ResetsWithNewest
<1>2. Spec => [][A]_vars
  BY <1>1, LoneInvariant, PTL DEF Spec
<1> QED
  BY <1>2 DEF NewestLinkResets

---------------------------------------------------------------------------
\* The bounds: an account is counted confirmed at most once.
Bounded(d) ==
    /\ d \in Document /\ d.percentage \in 0..1
    /\ d.status # "verified" => d.percentage = 0

BoundsInv ==
    /\ Bounded(doc)
    /\ \A r \in Requests : Bounded(Copy(r)) /\ slot[r].arg \in Link \cup Code
    /\ links \in Link /\ codes \in Code

LEMMA NoDocumentBounded == Bounded(NoDocument) /\ 0 \in Link /\ 0 \in Code
<1>1. 0 \in 0..2 /\ 0 \in 0..1 /\ 2 \in 0..2 /\ 0 \in 0..LOGIN_ATTEMPTS
      /\ 0 \in 0..MaxPasswords /\ 0 \in 0..MaxLinks /\ 0 \in 0..MaxCodes
  BY BoundsAssumption DEF LOGIN_ATTEMPTS
<1> QED
  BY <1>1 DEF Bounded, NoDocument, Document, Link, Code, Age

\* Only a copy that is not confirmed is made so.
Confirms(c, n) ==
    \/ n.status = c.status /\ n.percentage = c.percentage
    \/ n.status = "verified" /\ c.status # "verified" /\ n.percentage \in 0..1

LEMMA SavedBounded ==
    ASSUME NEW c, NEW n \in Document, Bounded(doc), Bounded(c), Confirms(c, n)
    PROVE  Bounded(Saved(c, n))
<1> DEFINE d == Saved(c, n)
<1>1. doc \in Document /\ c \in Document
  BY DEF Bounded
<1>2. d \in Document
  BY <1>1 DEF Saved, Document
<1>3. /\ d.status = IF n.status = c.status THEN doc.status ELSE n.status
      /\ d.percentage = IF n.percentage = c.percentage THEN doc.percentage ELSE n.percentage
  BY <1>1 DEF Saved, Document
<1> HIDE DEF d
<1>4. d.percentage \in 0..1 /\ (d.status # "verified" => d.percentage = 0)
  BY <1>3 DEF Bounded, Confirms
<1> QED
  BY <1>2, <1>4 DEF Bounded, d

LEMMA ReadBounded == ASSUME Bounded(doc), NEW kind \in Kind PROVE Bounded(Read(kind))
<1>1. doc \in Document /\ NoDocument \in Document
  BY NoDocumentBounded DEF Bounded
<1>2. Read(kind) \in Document
  BY <1>1 DEF Read, Document
<1>3. "percentage" \in Paths(kind) => "status" \in Paths(kind)
  BY DEF Paths, Kind
<1>4. /\ Read(kind).status = IF "status" \in Paths(kind) THEN doc.status ELSE NoDocument.status
      /\ Read(kind).percentage =
            IF "percentage" \in Paths(kind) THEN doc.percentage ELSE NoDocument.percentage
  BY <1>1 DEF Read, Document
<1>5. NoDocument.percentage = 0
  BY DEF NoDocument
<1>6. Read(kind).percentage \in 0..1
      /\ (Read(kind).status # "verified" => Read(kind).percentage = 0)
  BY <1>3, <1>4, <1>5 DEF Bounded
<1> QED
  BY <1>2, <1>6 DEF Bounded

LEMMA AgedBounded == ASSUME NEW d, Bounded(d) PROVE Bounded(Aged(d))
<1> DEFINE e == IF d.otpAge = 2 THEN 2 ELSE d.otpAge + 1
<1>1. d \in Document /\ d.otpAge \in 0..2
  BY DEF Bounded, Document, Age
<1>2. e \in Age /\ 2 \in Age
  BY <1>1 DEF Age
<1>3. Aged(d) = [d EXCEPT !.otpAge = e, !.emailAge = 2]
  BY DEF Aged
<1> HIDE DEF e
<1>4. Aged(d) \in Document
  BY <1>1, <1>2, <1>3 DEF Document
<1>5. Aged(d).status = d.status /\ Aged(d).percentage = d.percentage
  BY <1>1, <1>3 DEF Document
<1> QED
  BY <1>4, <1>5 DEF Bounded

LEMMA DoneBounded ==
    ASSUME TypedInv, BoundsInv, NEW r \in Requests,
           Done(r) \/ (\E at \in Places : Goto(r, at)) \/ UNCHANGED slot
    PROVE  (\A q \in Requests : Bounded(Copy(q)) /\ slot[q].arg \in Link \cup Code)'
<1>1. /\ IdleSlot.copy = NoDocument /\ IdleSlot.arg = 0
      /\ Bounded(NoDocument) /\ 0 \in Link
  BY NoDocumentBounded DEF IdleSlot
<1>2. \A q \in Requests : \/ slot'[q] = IdleSlot
                          \/ slot'[q].copy = slot[q].copy /\ slot'[q].arg = slot[q].arg
  BY DEF Done, Goto, TypedInv, Slot
<1>3. \A q \in Requests : Bounded(slot[q].copy) /\ slot[q].arg \in Link \cup Code
  BY DEF BoundsInv, Copy
<1> QED
  BY <1>1, <1>2, <1>3 DEF Copy

\* A handler that saves what differs from its copy.
LEMMA SavingBounded ==
    ASSUME AccessInv, BoundsInv, NEW r \in Requests,
           \/ ResendMail(r) \/ ConfirmMail(r) \/ SendCode(r) \/ CheckCode(r)
           \/ ForgotPassword(r) \/ ResetConfirmMail(r) \/ ResetPassword(r)
           \/ RequestOTP(r) \/ ChangePassword(r)
    PROVE  \E n \in Document : Confirms(Copy(r), n) /\ doc' = Saved(Copy(r), n)
<1> DEFINE c == Copy(r)
<1>1. c \in Document /\ Bounded(c) /\ doc.password \in Nat /\ links \in Nat /\ codes \in Nat
  BY CopyTyped DEF BoundsInv, AccessInv, TypedInv, Bounded
<1>2. /\ 0 \in Link /\ 0 \in Code /\ 0 \in Age /\ 2 \in Age
      /\ NewCode => codes + 1 \in Code
      /\ \A k : NewLink(k) => links + 1 \in Link
      /\ doc.password < MaxPasswords => doc.password + 1 \in 0..MaxPasswords
  BY <1>1, BoundsAssumption, NoDocumentBounded DEF NewCode, NewLink, Link, Code, Age
<1> HIDE DEF c
<1>3. CASE ResendMail(r)
  <2> DEFINE n == [c EXCEPT !.mailToken = links + 1]
  <2>1. n \in Document /\ n.status = c.status /\ n.percentage = c.percentage
    BY <1>1, <1>2, <1>3 DEF ResendMail, Document
  <2>2. doc' = Saved(c, n)
    BY <1>3 DEF ResendMail, c
  <2> QED
    BY <2>1, <2>2 DEF Confirms, c
<1>4. CASE ConfirmMail(r)
  <2> DEFINE n == [c EXCEPT !.status = "verified", !.percentage = 1, !.mailToken = 0]
  <2>1. c.status = "unverified" /\ c.percentage = 0 /\ 1 \in 0..2 /\ 1 \in 0..1
    BY <1>1, <1>4 DEF ConfirmMail, Bounded, c
  <2>2. n \in Document /\ n.status = "verified" /\ n.percentage = 1
    BY <1>1, <1>2, <2>1 DEF Document
  <2>3. doc' = Saved(c, n)
    BY <1>4, <2>1 DEF ConfirmMail, c
  <2> QED
    BY <2>1, <2>2, <2>3 DEF Confirms, c
<1>5. CASE SendCode(r)
  <2> DEFINE n == [c EXCEPT !.otp = codes + 1, !.otpAge = 0]
  <2>1. n \in Document /\ n.status = c.status /\ n.percentage = c.percentage
    BY <1>1, <1>2, <1>5 DEF SendCode, Document
  <2>2. doc' = Saved(c, n)
    BY <1>5 DEF SendCode, c
  <2> QED
    BY <2>1, <2>2 DEF Confirms, c
<1>6. CASE CheckCode(r)
  <2> DEFINE n == [c EXCEPT !.otp = 0]
  <2>1. n \in Document /\ n.status = c.status /\ n.percentage = c.percentage
    BY <1>1, <1>2 DEF Document
  <2>2. doc' = Saved(c, n)
    BY <1>6 DEF CheckCode, c
  <2> QED
    BY <2>1, <2>2 DEF Confirms, c
<1>7. CASE ForgotPassword(r)
  <2> DEFINE n == [c EXCEPT !.mailToken = links + 1, !.conFirmMailToken = 0, !.otpAge = 0]
  <2>1. n \in Document /\ n.status = c.status /\ n.percentage = c.percentage
    BY <1>1, <1>2, <1>7 DEF ForgotPassword, Document
  <2>2. doc' = Saved(c, n)
    BY <1>7 DEF ForgotPassword, c
  <2> QED
    BY <2>1, <2>2 DEF Confirms, c
<1>8. CASE ResetConfirmMail(r)
  <2> DEFINE n == [c EXCEPT !.mailToken = 0, !.conFirmMailToken = slot[r].arg]
  <2>1. slot[r].arg \in Link
    BY <1>1, <1>8 DEF ResetConfirmMail, Document, c
  <2>2. n \in Document /\ n.status = c.status /\ n.percentage = c.percentage
    BY <1>1, <1>2, <2>1 DEF Document
  <2>3. doc' = Saved(c, n)
    BY <1>8 DEF ResetConfirmMail, c
  <2> QED
    BY <2>2, <2>3 DEF Confirms, c
<1>9. CASE ResetPassword(r)
  <2> DEFINE n == [c EXCEPT !.password = doc.password + 1, !.conFirmMailToken = 0]
  <2>1. n \in Document /\ n.status = c.status /\ n.percentage = c.percentage
    BY <1>1, <1>2, <1>9 DEF ResetPassword, Document
  <2>2. doc' = Saved(c, n)
    BY <1>9 DEF ResetPassword, c
  <2> QED
    BY <2>1, <2>2 DEF Confirms, c
<1>10. CASE RequestOTP(r)
  <2> DEFINE n == [c EXCEPT !.emailOTP = codes + 1, !.emailAge = 0]
  <2>1. n \in Document /\ n.status = c.status /\ n.percentage = c.percentage
    BY <1>1, <1>2, <1>10 DEF RequestOTP, Document
  <2>2. doc' = Saved(c, n)
    BY <1>10 DEF RequestOTP, c
  <2> QED
    BY <2>1, <2>2 DEF Confirms, c
<1>11. CASE ChangePassword(r)
  <2> DEFINE n == [c EXCEPT !.password = doc.password + 1, !.emailOTP = 0, !.emailAge = 2]
  <2>1. n \in Document /\ n.status = c.status /\ n.percentage = c.percentage
    BY <1>1, <1>2, <1>11 DEF ChangePassword, Document
  <2>2. doc' = Saved(c, n)
    BY <1>11 DEF ChangePassword, c
  <2> QED
    BY <2>1, <2>2 DEF Confirms, c
<1> QED
  BY <1>3, <1>4, <1>5, <1>6, <1>7, <1>8, <1>9, <1>10, <1>11

\* Every other handler writes the document itself, or not at all.
LEMMA WritingBounded ==
    ASSUME AccessInv, BoundsInv, NEW r \in Requests,
           \/ Register(r) \/ LoginUnblock(r) \/ WrongPassword(r) \/ ClearAttempts(r)
           \/ SkipCode(r) \/ Refuse(r) \/ Start(r)
    PROVE  Bounded(doc')
<1>1. Bounded(doc) /\ doc \in Document /\ Bounded(Copy(r)) /\ Copy(r) \in Document
  BY DEF BoundsInv, Bounded
<1>2. 0 \in 0..LOGIN_ATTEMPTS /\ 0 \in 0..1
  BY DEF LOGIN_ATTEMPTS
<1>3. CASE Register(r)
  <2>1. links + 1 \in Link /\ NoDocument \in Document /\ NoDocument.percentage = 0
    BY <1>3, NoDocumentBounded, BoundsAssumption
       DEF Register, NewLink, BoundsInv, Link, Bounded, NoDocument
  <2>2. doc' = [NoDocument EXCEPT !.status = "unverified", !.mailToken = links + 1]
    BY <1>3 DEF Register
  <2>3. doc' \in Document /\ doc'.percentage = 0
    BY <2>1, <2>2 DEF Document
  <2> QED
    BY <1>2, <2>3 DEF Bounded
<1>4. CASE LoginUnblock(r)
  <2>1. doc' = [doc EXCEPT !.login_attempt = 0, !.isBlock = FALSE]
    BY <1>4 DEF LoginUnblock
  <2>2. doc' \in Document /\ doc'.status = doc.status /\ doc'.percentage = doc.percentage
    BY <1>1, <1>2, <2>1 DEF Document
  <2> QED
    BY <1>1, <2>2 DEF Bounded
<1>5. CASE WrongPassword(r)
  <2> DEFINE m == Copy(r).login_attempt + 1
             e == [doc EXCEPT !.login_attempt = 0, !.isBlock = TRUE, !.lockOver = FALSE]
             f == [doc EXCEPT !.login_attempt = m]
  <2>1. \/ doc' = doc \/ doc' = e
        \/ ~(Copy(r).login_attempt >= LOGIN_ATTEMPTS) /\ doc' = f
    BY <1>5 DEF WrongPassword
  <2>2. ~(Copy(r).login_attempt >= LOGIN_ATTEMPTS) => m \in 0..LOGIN_ATTEMPTS
    BY <1>1 DEF Document, LOGIN_ATTEMPTS
  <2> HIDE DEF m
  <2>3. e \in Document /\ e.status = doc.status /\ e.percentage = doc.percentage
    BY <1>1, <1>2 DEF Document
  <2>4. m \in 0..LOGIN_ATTEMPTS =>
            f \in Document /\ f.status = doc.status /\ f.percentage = doc.percentage
    BY <1>1 DEF Document
  <2> QED
    BY <1>1, <2>1, <2>2, <2>3, <2>4 DEF Bounded
<1>6. CASE ClearAttempts(r)
  <2>1. doc' = [doc EXCEPT !.login_attempt = 0, !.isBlock = FALSE, !.lockOver = TRUE]
    BY <1>6 DEF ClearAttempts
  <2>2. doc' \in Document /\ doc'.status = doc.status /\ doc'.percentage = doc.percentage
    BY <1>1, <1>2, <2>1 DEF Document
  <2> QED
    BY <1>1, <2>2 DEF Bounded
<1>7. CASE SkipCode(r) \/ Refuse(r) \/ Start(r)
  BY <1>1, <1>7 DEF SkipCode, Refuse, Start
<1> QED
  BY <1>3, <1>4, <1>5, <1>6, <1>7

LEMMA MailBounded ==
    ASSUME BoundsInv, NEW r \in Requests, Handle(r) PROVE links' \in Link /\ codes' \in Code
<1>1. \/ NewLink("activation") \/ NewLink("reset") \/ links' = links
  BY DEF Handle, Start, Refuse, Register, ResendMail, ConfirmMail, LoginUnblock, WrongPassword,
         SendCode, CheckCode, SkipCode, ClearAttempts, ForgotPassword, ResetConfirmMail, ResetPassword,
         RequestOTP, ChangePassword, mail
<1>2. NewCode \/ codes' = codes
  BY DEF Handle, Start, Refuse, Register, ResendMail, ConfirmMail, LoginUnblock, WrongPassword,
         SendCode, CheckCode, SkipCode, ClearAttempts, ForgotPassword, ResetConfirmMail, ResetPassword,
         RequestOTP, ChangePassword, mail
<1> QED
  BY <1>1, <1>2, BoundsAssumption DEF BoundsInv, NewLink, NewCode, Link, Code

LEMMA StartBounded ==
    ASSUME AccessInv, BoundsInv, NEW r \in Requests, Start(r)
    PROVE  (\A q \in Requests : Bounded(Copy(q)) /\ slot[q].arg \in Link \cup Code)'
<1>1. PICK kind, right, arg :
        /\ kind \in group /\ right \in BOOLEAN
        /\ arg \in CASE kind \in {"activate", "confirmReset", "reset"} -> 1..links
                      [] kind = "login" -> 0..codes
                      [] kind = "changePassword" -> 1..codes
                      [] OTHER -> {0}
        /\ slot' = [slot EXCEPT ![r] =
             [at |-> "read", kind |-> kind, arg |-> arg, right |-> right, copy |-> Read(kind)]]
  BY DEF Start
<1>2. kind \in Kind
  BY <1>1, GroupsAssumption DEF AccessInv, TypedInv
<1>3. arg \in Link \cup Code
  <2>1. arg \in 1..links \/ arg \in 0..codes \/ arg \in 1..codes \/ arg = 0
    BY <1>1
  <2> QED
    BY <2>1, BoundsAssumption DEF BoundsInv, Link, Code
<1>4. Bounded(Read(kind))
  BY <1>2, ReadBounded DEF BoundsInv
<1>5. \A q \in Requests :
        slot'[q] = IF q = r THEN [at |-> "read", kind |-> kind, arg |-> arg, right |-> right,
                                  copy |-> Read(kind)] ELSE slot[q]
  BY <1>1 DEF AccessInv, TypedInv
<1> QED
  BY <1>3, <1>4, <1>5 DEF Copy, BoundsInv

LEMMA BoundsInvInductive == AccessInv /\ BoundsInv /\ [Next]_vars => BoundsInv'
<1> SUFFICES ASSUME AccessInv, BoundsInv, [Next]_vars PROVE BoundsInv'
  OBVIOUS
<1>1. TypedInv
  BY DEF AccessInv
<1>2. ASSUME NEW r \in Requests, Handle(r) PROVE BoundsInv'
  <2>1. Bounded(doc')
    <3>1. Bounded(doc) /\ Bounded(Copy(r))
      BY DEF BoundsInv
    <3>2. ASSUME NEW n \in Document, Confirms(Copy(r), n), doc' = Saved(Copy(r), n)
          PROVE  Bounded(doc')
      BY <3>1, <3>2, SavedBounded
    <3> QED
      BY <1>2, <3>2, SavingBounded, WritingBounded DEF Handle
  <2>2. (\A q \in Requests : Bounded(Copy(q)) /\ slot[q].arg \in Link \cup Code)'
    <3>1. CASE Start(r)
      BY <3>1, StartBounded
    <3>2. CASE ~Start(r)
      <4>1. Done(r) \/ Goto(r, "open") \/ Goto(r, "coded")
        BY <1>2, <3>2 DEF Handle, Refuse, Register, ResendMail, ConfirmMail, LoginUnblock,
           WrongPassword, SendCode, CheckCode, SkipCode, ClearAttempts, ForgotPassword, ResetConfirmMail,
           ResetPassword, RequestOTP, ChangePassword
      <4> QED
        BY <1>1, <4>1, DoneBounded DEF Places
    <3> QED
      BY <3>1, <3>2
  <2> QED
    BY <1>2, <2>1, <2>2, MailBounded DEF BoundsInv
<1>3. CASE Tick
  <2>1. \A q \in Requests : Copy(q)' = Aged(Copy(q)) /\ slot'[q].arg = slot[q].arg
    BY <1>1, <1>3 DEF Tick, Copy, TypedInv, Slot
  <2>2. Bounded(doc') /\ \A q \in Requests : Bounded(Copy(q)')
    BY <1>3, <2>1, AgedBounded DEF Tick, BoundsInv
  <2> QED
    BY <1>3, <2>1, <2>2 DEF BoundsInv, Tick, mail
<1>4. CASE BlockRunsOut
  <2>1. doc' = [doc EXCEPT !.lockOver = TRUE] /\ doc \in Document
    BY <1>4 DEF BlockRunsOut, BoundsInv, Bounded
  <2>2. doc' \in Document /\ doc'.status = doc.status /\ doc'.percentage = doc.percentage
    BY <2>1 DEF Document
  <2> QED
    BY <1>4, <2>2 DEF BlockRunsOut, BoundsInv, Bounded, Copy, mail
<1>5. CASE UNCHANGED vars
  BY <1>5 DEF vars, BoundsInv, Copy
<1> QED
  BY <1>2, <1>3, <1>4, <1>5 DEF Next

LEMMA BoundsInvInitially == Init => BoundsInv
<1> SUFFICES ASSUME Init PROVE BoundsInv
  OBVIOUS
<1>1. Bounded(doc)
  <2> DEFINE d == [NoDocument EXCEPT !.status = "verified", !.percentage = 1]
  <2>1. doc = d \/ doc = NoDocument
    BY DEF Init
  <2>2. NoDocument \in Document /\ 1 \in 0..2 /\ 1 \in 0..1
    BY NoDocumentBounded DEF Bounded
  <2>3. d \in Document /\ d.status = "verified" /\ d.percentage = 1
    BY <2>2 DEF Document
  <2> QED
    BY <2>1, <2>2, <2>3, NoDocumentBounded DEF Bounded
<1>2. \A r \in Requests : Copy(r) = NoDocument /\ slot[r].arg = 0
  BY DEF Init, Copy, IdleSlot
<1> QED
  BY <1>1, <1>2, NoDocumentBounded DEF BoundsInv, Init

\* Everything has its type: no count passes its bound, and an account that two
\* activations of one link confirm is counted confirmed once, percentage 1 and no more.
THEOREM AccountTyped == Spec => []TypeOK
<1>1. AccessInv /\ BoundsInv => TypeOK
  <2> SUFFICES ASSUME AccessInv, BoundsInv PROVE TypeOK
    OBVIOUS
  <2>1. \A r \in Requests : slot[r] \in Slot /\ slot[r].copy \in Document
                            /\ slot[r].arg \in Link \cup Code
    BY DEF AccessInv, TypedInv, BoundsInv, Bounded, Copy
  <2>2. \A r \in Requests :
          slot[r] \in [at: {"idle", "read", "open", "coded"}, kind: Kind,
                       arg: Link \cup Code, right: BOOLEAN, copy: Document]
    BY <2>1, ZenonT(60) DEF Slot, Places
  <2> QED
    BY <2>2 DEF AccessInv, TypedInv, BoundsInv, Bounded, TypeOK
<1> QED
  BY <1>1, AccessInvariant, BoundsInvInitially, BoundsInvInductive, PTL DEF Spec
=============================================================================
