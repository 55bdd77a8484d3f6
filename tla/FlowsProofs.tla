----------------------------- MODULE FlowsProofs -----------------------------
(***************************************************************************)
(* Theorems about the page flows, for every site, mailbox, way of calling  *)
(* a login and number of rounds and attempts.                              *)
(***************************************************************************)
EXTENDS RegisterFlow, TLAPS

-----------------------------------------------------------------------------
(* The exchange: what it has sent, and been told, from where it stands.    *)
ExchangeFits ==
  /\ exch.pc \in {"post", "next", "read", "done"} => exch.cb = "good"
  /\ exch.pc \in {"read", "done"} => exch.tokens
  /\ exch.pc # "failed" => exch.refused = 0
ExchangeIInv == ExchangeTypeOK /\ ExchangeIsFinal /\ ExchangeFits

LEMMA Tried == Attempts \in Nat /\ 1 \in 1..Attempts
BY ExchangeAssumption DEF ExchangeAssumption

LEMMA ExchangeInit ==
  ASSUME exch = NoExchange
  PROVE  ExchangeIInv
<1>1. ExchangeTypeOK
  BY Tried DEF NoExchange, ExchangeTypeOK, Callback
<1>2. ExchangeIsFinal /\ ExchangeFits
  BY DEF NoExchange, ExchangeIsFinal, ExchangeFits
<1>. QED  BY <1>1, <1>2 DEF ExchangeIInv

LEMMA ExchangeStarts ==
  ASSUME NEW callback \in Callback, StartExchange(callback)
  PROVE  ExchangeIInv'
<1>1. PICK routes \in Routes :
        exch' = [NoExchange EXCEPT !.pc = "validate", !.cb = callback, !.routes = routes]
  BY DEF StartExchange
<1>2. exch' = [pc |-> "validate", cb |-> callback, routes |-> routes, attempt |-> 1,
               turn |-> 1, spent |-> FALSE, posts |-> 0, refused |-> 0,
               tokens |-> FALSE, reason |-> "none"]
  BY <1>1 DEF NoExchange
<1>3. ExchangeTypeOK'
  BY <1>2, Tried DEF ExchangeTypeOK
<1>4. ExchangeIsFinal' /\ ExchangeFits'
  BY <1>2 DEF ExchangeIsFinal, ExchangeFits
<1>. QED  BY <1>3, <1>4 DEF ExchangeIInv

LEMMA ExchangeStepKeeps ==
  ASSUME ExchangeIInv, ExchangeStep
  PROVE  ExchangeIInv'
<1>. USE DEF ExchangeIInv
<1>1. /\ exch.posts \in Nat /\ exch.refused \in Nat /\ exch.tokens \in BOOLEAN
      /\ exch.attempt \in 1..Attempts /\ exch.turn \in Nat
  BY DEF ExchangeTypeOK
<1>2. exch.pc # "failed" => exch.refused = 0
  BY DEF ExchangeFits
<1>3. CASE Validate
  <2>1. exch.pc = "validate"
    BY <1>3 DEF Validate
  <2>2. CASE exch.cb = "good" /\ exch' = [exch EXCEPT !.pc = "post"]
    <3>1. ExchangeTypeOK'
      BY <2>2 DEF ExchangeTypeOK
    <3>2. /\ exch'.pc = "post" /\ exch'.cb = "good" /\ exch'.posts = exch.posts
          /\ exch'.refused = 0 /\ exch'.tokens = exch.tokens
      BY <1>2, <2>1, <2>2 DEF ExchangeTypeOK
    <3>. QED  BY <1>1, <3>1, <3>2 DEF ExchangeIsFinal, ExchangeFits
  <2>3. CASE exch.cb # "good" /\ exch' = [exch EXCEPT !.pc = "failed", !.reason = exch.cb]
    <3>1. ExchangeTypeOK'
      BY <2>3 DEF ExchangeTypeOK
    <3>2. /\ exch'.pc = "failed" /\ exch'.cb = exch.cb /\ exch'.posts = exch.posts
          /\ exch'.refused = 0 /\ exch'.tokens = exch.tokens
      BY <1>2, <2>1, <2>3 DEF ExchangeTypeOK
    <3>. QED  BY <1>1, <3>1, <3>2 DEF ExchangeIsFinal, ExchangeFits
  <2>. QED  BY Zenon, <1>3, <2>2, <2>3 DEF Validate, ExchangeFails
<1>4. CASE Post
  <2>. PICK n \in Nat : n = exch.posts + 1
    BY <1>1
  <2>. DEFINE arrived == [exch EXCEPT !.posts = n]
  <2>1. exch.pc = "post" /\ exch.cb = "good"
    BY <1>4 DEF Post, ExchangeFits
  <2>2. CASE exch' = [exch EXCEPT !.pc = "next"]
    <3>1. ExchangeTypeOK'
      BY <2>2, <1>1 DEF ExchangeTypeOK
    <3>2. /\ exch'.pc = "next" /\ exch'.cb = "good" /\ exch'.posts = exch.posts
          /\ exch'.refused = 0 /\ exch'.tokens = exch.tokens
      BY <1>2, <2>1, <2>2 DEF ExchangeTypeOK
    <3>. QED  BY <1>1, <2>1, <3>1, <3>2 DEF ExchangeIsFinal, ExchangeFits
  <2>3. CASE exch' = [arrived EXCEPT !.pc = "next"]
    <3>1. ExchangeTypeOK'
      BY <2>3, <1>1 DEF ExchangeTypeOK
    <3>2. /\ exch'.pc = "next" /\ exch'.cb = "good" /\ exch'.posts = n
          /\ exch'.refused = 0 /\ exch'.tokens = exch.tokens
      BY <1>2, <2>1, <2>3 DEF ExchangeTypeOK
    <3>. QED  BY <1>1, <2>1, <3>1, <3>2 DEF ExchangeIsFinal, ExchangeFits
  <2>4. CASE exch' = [arrived EXCEPT !.spent = TRUE, !.pc = "next"]
    <3>1. ExchangeTypeOK'
      BY <2>4, <1>1 DEF ExchangeTypeOK
    <3>2. /\ exch'.pc = "next" /\ exch'.cb = "good" /\ exch'.posts = n
          /\ exch'.refused = 0 /\ exch'.tokens = exch.tokens
      BY <1>2, <2>1, <2>4 DEF ExchangeTypeOK
    <3>. QED  BY <1>1, <2>1, <3>1, <3>2 DEF ExchangeIsFinal, ExchangeFits
  <2>5. CASE exch' = [arrived EXCEPT !.spent = TRUE, !.tokens = TRUE, !.pc = "read"]
    <3>1. ExchangeTypeOK'
      BY <2>5, <1>1 DEF ExchangeTypeOK
    <3>2. /\ exch'.pc = "read" /\ exch'.cb = "good" /\ exch'.posts = n
          /\ exch'.refused = 0 /\ exch'.tokens = TRUE
      BY <1>2, <2>1, <2>5 DEF ExchangeTypeOK
    <3>. QED  BY <1>1, <2>1, <3>1, <3>2 DEF ExchangeIsFinal, ExchangeFits
  <2>6. CASE exch' = [arrived EXCEPT !.refused = 1, !.pc = "failed", !.reason = "refused"]
    <3>1. ExchangeTypeOK'
      BY <2>6, <1>1 DEF ExchangeTypeOK
    <3>2. /\ exch'.pc = "failed" /\ exch'.cb = "good" /\ exch'.posts = n
          /\ exch'.refused = 1 /\ exch'.tokens = exch.tokens
      BY <1>2, <2>1, <2>6 DEF ExchangeTypeOK
    <3>. QED  BY <1>1, <2>1, <3>1, <3>2 DEF ExchangeIsFinal, ExchangeFits
  <2>7. arrived.refused = 0
    BY <1>2, <2>1 DEF ExchangeTypeOK
  <2>8. [exch EXCEPT !.posts = @ + 1] = arrived
    BY Zenon
  <2>. HIDE DEF arrived
  <2>9. Refused(arrived) => exch' = [arrived EXCEPT !.refused = 1, !.pc = "failed",
                                               !.reason = "refused"]
    BY <2>7 DEF Refused
  <2>. QED  BY Zenon, <1>4, <2>2, <2>3, <2>4, <2>5, <2>6, <2>8, <2>9 DEF Post
<1>5. CASE NextRoute
  <2>1. exch.pc = "next" /\ exch.cb = "good"
    BY <1>5 DEF NextRoute, ExchangeFits
  <2>. exch.turn \in Nat /\ exch.attempt \in Nat
    BY <1>1, Tried
  <2>. PICK turn \in Nat, attempt \in Nat : turn = exch.turn + 1 /\ attempt = exch.attempt + 1
    OBVIOUS
  <2>2. CASE exch' = [exch EXCEPT !.pc = "post", !.turn = turn]
    <3>1. ExchangeTypeOK'
      BY <2>2, <1>1 DEF ExchangeTypeOK
    <3>2. /\ exch'.pc = "post" /\ exch'.cb = "good" /\ exch'.posts = exch.posts
          /\ exch'.refused = 0 /\ exch'.tokens = exch.tokens
      BY <1>2, <2>1, <2>2 DEF ExchangeTypeOK
    <3>. QED  BY <1>1, <2>1, <3>1, <3>2 DEF ExchangeIsFinal, ExchangeFits
  <2>3. CASE /\ exch.attempt < Attempts
             /\ exch' = [exch EXCEPT !.pc = "post", !.turn = 1, !.attempt = attempt]
    <3>0. attempt \in 1..Attempts
      BY <1>1, <2>3, Tried
    <3>1. ExchangeTypeOK'
      BY <2>3, <3>0 DEF ExchangeTypeOK
    <3>2. /\ exch'.pc = "post" /\ exch'.cb = "good" /\ exch'.posts = exch.posts
          /\ exch'.refused = 0 /\ exch'.tokens = exch.tokens
      BY <1>2, <2>1, <2>3 DEF ExchangeTypeOK
    <3>. QED  BY <1>1, <2>1, <3>1, <3>2 DEF ExchangeIsFinal, ExchangeFits
  <2>4. CASE exch' = [exch EXCEPT !.pc = "failed", !.reason = "gave up"]
    <3>1. ExchangeTypeOK'
      BY <2>4, <1>1 DEF ExchangeTypeOK
    <3>2. /\ exch'.pc = "failed" /\ exch'.cb = "good" /\ exch'.posts = exch.posts
          /\ exch'.refused = 0 /\ exch'.tokens = exch.tokens
      BY <1>2, <2>1, <2>4 DEF ExchangeTypeOK
    <3>. QED  BY <1>1, <2>1, <3>1, <3>2 DEF ExchangeIsFinal, ExchangeFits
  <2>. QED  BY Zenon, <1>5, <2>2, <2>3, <2>4 DEF NextRoute, ExchangeFails
<1>6. CASE ReadTokens
  <2>1. exch.pc = "read" /\ exch.cb = "good" /\ exch.tokens
    BY <1>6 DEF ReadTokens, ExchangeFits
  <2>2. CASE exch' = [exch EXCEPT !.pc = "done"]
    <3>1. ExchangeTypeOK'
      BY <2>2, <1>1 DEF ExchangeTypeOK
    <3>2. /\ exch'.pc = "done" /\ exch'.cb = "good" /\ exch'.posts = exch.posts
          /\ exch'.refused = 0 /\ exch'.tokens = exch.tokens
      BY <1>2, <2>1, <2>2 DEF ExchangeTypeOK
    <3>. QED  BY <1>1, <2>1, <3>1, <3>2 DEF ExchangeIsFinal, ExchangeFits
  <2>3. CASE exch' = [exch EXCEPT !.pc = "failed", !.reason = "incomplete"]
    <3>1. ExchangeTypeOK'
      BY <2>3, <1>1 DEF ExchangeTypeOK
    <3>2. /\ exch'.pc = "failed" /\ exch'.cb = "good" /\ exch'.posts = exch.posts
          /\ exch'.refused = 0 /\ exch'.tokens = exch.tokens
      BY <1>2, <2>1, <2>3 DEF ExchangeTypeOK
    <3>. QED  BY <1>1, <2>1, <3>1, <3>2 DEF ExchangeIsFinal, ExchangeFits
  <2>. QED  BY Zenon, <1>6, <2>2, <2>3 DEF ReadTokens, ExchangeFails
<1>. QED  BY <1>3, <1>4, <1>5, <1>6 DEF ExchangeStep

-----------------------------------------------------------------------------
(* The form. *)
FormIInv == FormTypeOK /\ ForcedIsWanted

LEMMA FormInit == NoForm \in [pc : {"idle"}, mode : {"force"}, hidden : {"none"},
                              sent : {"none"}, by : {"none"}, filled : {FALSE}]
BY DEF NoForm

(* What submits nothing.                                                   *)
LEMMA FormMoves ==
  ASSUME FormIInv, NEW pc \in FormPc, NEW hidden \in {"none", "today", "wanted"},
         NEW filled \in BOOLEAN,
         form' = [form EXCEPT !.pc = pc, !.hidden = hidden, !.filled = filled]
  PROVE  FormIInv'
<1>1. FormTypeOK'
  BY DEF FormIInv, FormTypeOK
<1>2. form'.by = form.by /\ form'.sent = form.sent
  BY DEF FormIInv, FormTypeOK
<1>. QED  BY <1>1, <1>2 DEF FormIInv, ForcedIsWanted

LEMMA FormGoes ==
  ASSUME FormIInv, NEW pc \in FormPc, FormTo(pc)
  PROVE  FormIInv'
<1>1. FormTypeOK'
  BY DEF FormTo, FormIInv, FormTypeOK
<1>2. form'.by = form.by /\ form'.sent = form.sent
  BY DEF FormTo, FormIInv, FormTypeOK
<1>. QED  BY <1>1, <1>2 DEF FormIInv, ForcedIsWanted

LEMMA FormSubmits ==
  ASSUME FormIInv, NEW pc \in FormPc, NEW birthday \in {"none", "today", "wanted"},
         NEW by \in {"native", "click", "force"}, by = "force" => birthday = "wanted",
         Submits(pc, birthday, by)
  PROVE  FormIInv'
<1>1. FormTypeOK'
  BY DEF Submits, FormIInv, FormTypeOK
<1>2. form'.by = by /\ form'.sent = birthday
  BY DEF Submits, FormIInv, FormTypeOK
<1>. QED  BY <1>1, <1>2 DEF FormIInv, ForcedIsWanted

LEMMA FormStepKeeps ==
  ASSUME FormIInv, FormStep \/ FieldResets
  PROVE  FormIInv'
<1>1. /\ form.hidden \in {"none", "today", "wanted"} /\ form.filled \in BOOLEAN
      /\ form.pc \in FormPc
  BY DEF FormIInv, FormTypeOK
<1>. FormPc = {"idle", "begin", "nName", "nBirthday", "nSubmit", "nWait", "fill",
               "refill", "check", "click", "clicked", "force", "forced", "done", "terms"}
  BY DEF FormPc
<1>2. CASE BeginForm
  BY <1>1, <1>2, FormGoes DEF BeginForm
<1>3. CASE NativeName
  BY <1>1, <1>3, FormGoes DEF NativeName
<1>4. CASE NativeBirthday
  <2>1. CASE FormTo("fill")
    BY <1>1, <2>1, FormGoes
  <2>2. CASE form' = [form EXCEPT !.pc = "nSubmit", !.hidden = "wanted"]
    <3>1. FormTypeOK'
      BY <1>1, <2>2 DEF FormIInv, FormTypeOK
    <3>2. form'.by = form.by /\ form'.sent = form.sent
      BY <2>2 DEF FormIInv, FormTypeOK
    <3>. QED  BY <3>1, <3>2 DEF FormIInv, ForcedIsWanted
  <2>. QED  BY Zenon, <1>4, <2>1, <2>2 DEF NativeBirthday
<1>5. CASE NativeFormSubmit
  BY <1>1, <1>5, FormGoes, FormSubmits DEF NativeFormSubmit
<1>6. CASE NativeAdvance
  BY <1>1, <1>6, FormGoes DEF NativeAdvance
<1>7. CASE FillForm
  BY <1>1, <1>7, FormGoes, FormMoves DEF FillForm, FillSegments
<1>8. CASE Refill
  BY <1>1, <1>8, FormGoes, FormMoves DEF Refill, FillSegments
<1>9. CASE CheckTerms
  BY <1>1, <1>9, FormGoes DEF CheckTerms
<1>10. CASE ClickForm
  BY <1>1, <1>10, FormGoes, FormSubmits DEF ClickForm
<1>11. CASE ClickedForm
  BY <1>1, <1>11, FormGoes DEF ClickedForm
<1>12. CASE ForceForm
  BY <1>1, <1>12, FormGoes, FormSubmits DEF ForceForm
<1>13. CASE ForcedForm
  BY <1>1, <1>13, FormGoes DEF ForcedForm
<1>14. CASE FieldResets
  <2>1. form' = [form EXCEPT !.hidden = "today"]
    BY <1>14 DEF FieldResets
  <2>2. FormTypeOK'
    BY <2>1 DEF FormIInv, FormTypeOK
  <2>3. form'.by = form.by /\ form'.sent = form.sent
    BY <2>1 DEF FormIInv, FormTypeOK
  <2>. QED  BY <2>2, <2>3 DEF FormIInv, ForcedIsWanted
<1>. QED  BY <1>2, <1>3, <1>4, <1>5, <1>6, <1>7, <1>8, <1>9, <1>10, <1>11, <1>12, <1>13, <1>14 DEF FormStep

-----------------------------------------------------------------------------
(* The login: the code it is about to enter, what it may report, and when  *)
(* it was called back, from where it stands.                               *)
CodeFits ==
  /\ inbox.old <= inbox.latest /\ (inbox.noted => inbox.old <= inbox.base)
  /\ drive.pc = "note" => drive.entered = {}
  /\ drive.pc \in {"nEnter", "enter"} =>
       drive.code \in 1..MaxMails /\ (inbox.noted => drive.code > inbox.old)
OutcomeFits ==
  /\ drive.pc = "finish" => drive.met
  /\ drive.pc # "failed" => drive.reason = "none"
  /\ drive.error = "none" => drive.returned = "none"
LoginIInv == LoginInv /\ CodeFits /\ OutcomeFits

(* Where nothing of this is at stake.                                      *)
PlainPc == LoginPc \ {"note", "nEnter", "enter", "finish", "ok", "failed"}

LEMMA Places ==
  /\ {"finish", "ok", "failed"} \subseteq LoginPc /\ PlainPc \subseteq LoginPc
  /\ {"open", "nEmail", "fallback", "seek", "lost", "submit", "rounds", "password",
      "otp", "fetch", "back", "late", "failing"} \subseteq PlainPc
BY DEF PlainPc, LoginPc

(* A step that only moves on, whatever it forgets or counts meanwhile.     *)
LEMMA LoginMoves ==
  ASSUME LoginIInv, UNCHANGED <<setting, inbox>>, drive' \in DriveRecord,
         drive'.pc \in PlainPc, drive'.entered = drive.entered,
         \/ drive'.error = drive.error /\ drive'.returned = drive.returned
         \/ drive'.error # "none",
         drive'.reason = "none"
  PROVE  LoginIInv'
<1>1. LoginTypeOK'
  BY DEF LoginIInv, LoginInv, LoginTypeOK
<1>2. SuccessWasMet' /\ ErrorIsPreserved'
  BY DEF SuccessWasMet, ErrorIsPreserved, PlainPc
<1>3. EntersNewCodes'
  BY DEF LoginIInv, LoginInv, EntersNewCodes
<1>4. CodeFits'
  BY DEF LoginIInv, CodeFits, PlainPc
<1>5. OutcomeFits'
  BY DEF LoginIInv, OutcomeFits, PlainPc
<1>. QED  BY <1>1, <1>2, <1>3, <1>4, <1>5 DEF LoginIInv, LoginInv

LEMMA Running ==
  ASSUME LoginIInv, drive.pc # "failed"
  PROVE  drive \in DriveRecord /\ drive.reason = "none"
BY DEF LoginIInv, LoginInv, LoginTypeOK, OutcomeFits

LEMMA LoginGoes ==
  ASSUME LoginIInv, drive.pc # "failed", UNCHANGED <<setting, inbox>>,
         NEW pc \in PlainPc, To(pc)
  PROVE  LoginIInv'
<1>1. drive' \in DriveRecord
  BY Running DEF To, DriveRecord, PlainPc
<1>2. /\ drive'.pc = pc /\ drive'.entered = drive.entered /\ drive'.error = drive.error
      /\ drive'.returned = drive.returned /\ drive'.reason = "none"
  BY Running DEF To, DriveRecord
<1>. QED  BY <1>1, <1>2, LoginMoves

LEMMA LoginFails ==
  ASSUME LoginIInv, UNCHANGED <<setting, inbox>>, drive.pc # "failed",
         NEW reason \in Reason \ {"timeout"}, Fail(reason)
  PROVE  LoginIInv'
<1>1. drive' \in DriveRecord
  BY Running, Places DEF Fail, DriveRecord
<1>2. /\ drive'.pc = "failed" /\ drive'.entered = drive.entered /\ drive'.error = drive.error
      /\ drive'.returned = drive.returned /\ drive'.reason = reason
  BY Running DEF Fail, DriveRecord
<1>3. LoginTypeOK'
  BY <1>1 DEF LoginIInv, LoginInv, LoginTypeOK
<1>4. SuccessWasMet' /\ ErrorIsPreserved'
  BY <1>2 DEF SuccessWasMet, ErrorIsPreserved
<1>5. EntersNewCodes'
  BY <1>2 DEF LoginIInv, LoginInv, EntersNewCodes
<1>6. CodeFits' /\ OutcomeFits'
  BY <1>2 DEF LoginIInv, CodeFits, OutcomeFits
<1>. QED  BY <1>3, <1>4, <1>5, <1>6 DEF LoginIInv, LoginInv

(* ------------------ the stages before the code ------------------------- *)
LEMMA LoginSkips ==
  ASSUME LoginIInv, drive.pc # "failed", UNCHANGED <<setting, inbox>>, Skip
  PROVE  LoginIInv'
<1>1. drive' \in DriveRecord /\ drive'.pc \in PlainPc
  BY Running, Places DEF Skip, DriveRecord
<1>2. /\ drive'.entered = drive.entered /\ drive'.error = drive.error
      /\ drive'.returned = drive.returned /\ drive'.reason = "none"
  BY Running DEF Skip, DriveRecord
<1>. QED  BY <1>1, <1>2, LoginMoves

LEMMA LoginSeeksOn ==
  ASSUME LoginIInv, drive.pc # "failed", UNCHANGED <<setting, inbox>>,
         drive.pc = "seek", NextSeek
  PROVE  LoginIInv'
<1>1. PICK n \in Nat : n = drive.round + 1
  BY Running DEF DriveRecord
<1>2. CASE drive' = [drive EXCEPT !.round = n]
  <2>1. drive' \in DriveRecord /\ drive'.pc \in PlainPc
    BY <1>2, Running, Places DEF DriveRecord
  <2>2. /\ drive'.entered = drive.entered /\ drive'.error = drive.error
        /\ drive'.returned = drive.returned /\ drive'.reason = "none"
    BY <1>2, Running DEF DriveRecord
  <2>. QED  BY <2>1, <2>2, LoginMoves
<1>3. CASE To("lost")
  BY <1>3, LoginGoes DEF PlainPc, LoginPc
<1>. QED  BY <1>1, <1>2, <1>3 DEF NextSeek, To

LEMMA LoginAsks ==
  ASSUME LoginIInv, drive.pc # "failed", UNCHANGED <<setting, inbox>>,
         NEW asked \in BOOLEAN, ToOtp(asked)
  PROVE  LoginIInv'
<1>. "otp" \in LoginPc /\ 1 \in Nat /\ 0 \in 0..3
  BY DEF LoginPc
<1>0. \A pc \in LoginPc, n \in Nat, hits \in 0..3 :
        [drive EXCEPT !.pc = pc, !.round = n, !.hits = hits, !.asked = asked] \in DriveRecord
  BY Running DEF DriveRecord
<1>1. drive' \in DriveRecord
  BY Zenon, <1>0 DEF ToOtp
<1>2. /\ drive'.pc = "otp" /\ drive'.entered = drive.entered /\ drive'.error = drive.error
      /\ drive'.returned = drive.returned /\ drive'.reason = "none"
  BY Running DEF ToOtp, DriveRecord
<1>. QED  BY <1>1, <1>2, LoginMoves DEF PlainPc, LoginPc

LEMMA LoginTriesPassword ==
  ASSUME LoginIInv, drive.pc = "password", UNCHANGED <<setting, inbox>>,
         NEW hits \in 0..3, NextPassword(hits)
  PROVE  LoginIInv'
<1>1. PICK n \in Nat : n = drive.round + 1
  BY Running DEF DriveRecord
<1>2. CASE drive' = [drive EXCEPT !.round = n, !.hits = hits]
  <2>1. drive' \in DriveRecord /\ drive'.pc \in PlainPc
    BY <1>2, Running, Places DEF DriveRecord
  <2>2. /\ drive'.entered = drive.entered /\ drive'.error = drive.error
        /\ drive'.returned = drive.returned /\ drive'.reason = "none"
    BY <1>2, Running DEF DriveRecord
  <2>. QED  BY <2>1, <2>2, LoginMoves
<1>3. CASE ToOtp(FALSE)
  BY <1>3, LoginAsks
<1>. QED  BY <1>1, <1>2, <1>3 DEF NextPassword

LEMMA LoginEntersPassword ==
  ASSUME LoginIInv, drive.pc = "password", UNCHANGED <<setting, inbox>>,
         NEW p, NEW hits \in 0..3, EnterPassword(p, hits)
  PROVE  LoginIInv'
BY LoginAsks, LoginTriesPassword DEF EnterPassword

LEMMA LoginGoesOn ==
  ASSUME LoginIInv, drive.pc = "password", UNCHANGED <<setting, inbox>>,
         NEW p, NEW hits \in 0..3, GoesOn(p, hits)
  PROVE  LoginIInv'
BY LoginEntersPassword, LoginTriesPassword DEF GoesOn

LEMMA PasswordRoundKeeps ==
  ASSUME LoginIInv, UNCHANGED setting, PasswordRound
  PROVE  LoginIInv'
<1>1. drive.pc = "password" /\ UNCHANGED <<setting, inbox>>
  BY DEF PasswordRound, At
<1>2. drive.hits \in 0..3
  BY <1>1, Running DEF DriveRecord
<1>3. CASE NextPassword(drive.hits)
  BY <1>1, <1>2, <1>3, LoginTriesPassword
<1>4. CASE OnPasswordError
  <2>. DEFINE hits == IF drive.hits < 3 THEN drive.hits + 1 ELSE 3
  <2>1. hits \in 0..3
    BY <1>2
  <2>2. (\E p \in Site : GoesOn(p, hits)) \/ NextPassword(hits)
    BY Zenon, <1>4 DEF OnPasswordError
  <2>. HIDE DEF hits
  <2>. QED  BY <1>1, <2>1, <2>2, LoginGoesOn, LoginTriesPassword
<1>5. CASE \E p \in Site : EnterPassword(p, 0)
  BY <1>1, <1>5, LoginEntersPassword
<1>. QED  BY Zenon, <1>3, <1>4, <1>5 DEF PasswordRound

(* ------------------------- codes and ends ------------------------------ *)
LEMMA LoginFetches ==
  ASSUME LoginIInv, drive.pc # "failed", UNCHANGED <<setting, inbox>>,
         NewCodes # {}, NEW next \in {"nEnter", "enter"}, Fetched(next)
  PROVE  LoginIInv'
<1>1. /\ inbox.latest \in 1..MaxMails /\ (inbox.noted => inbox.latest > inbox.old)
      /\ inbox.latest \in 0..MaxMails
  <2>1. /\ inbox.latest \in 0..MaxMails /\ inbox.base \in 0..MaxMails
        /\ inbox.old \in 0..MaxMails /\ (inbox.noted => inbox.old <= inbox.base)
    BY DEF LoginIInv, LoginInv, LoginTypeOK, CodeFits
  <2>2. inbox.base < inbox.latest
    BY <2>1, LoginAssumption DEF NewCodes, LoginAssumption
  <2>. QED  BY <2>1, <2>2, LoginAssumption DEF LoginAssumption
<1>2. next \in LoginPc
  BY DEF LoginPc
<1>3. drive' \in DriveRecord
  BY <1>1, <1>2, Running DEF Fetched, DriveRecord
<1>4. /\ drive'.pc = next /\ drive'.code = inbox.latest /\ drive'.entered = drive.entered
      /\ drive'.error = drive.error /\ drive'.returned = drive.returned
      /\ drive'.reason = "none"
  BY Running DEF Fetched, DriveRecord
<1>5. LoginTypeOK'
  BY <1>3 DEF LoginIInv, LoginInv, LoginTypeOK
<1>6. SuccessWasMet' /\ ErrorIsPreserved'
  BY <1>4 DEF SuccessWasMet, ErrorIsPreserved
<1>7. EntersNewCodes'
  BY <1>4 DEF LoginIInv, LoginInv, EntersNewCodes
<1>8. CodeFits'
  BY <1>1, <1>4 DEF LoginIInv, CodeFits
<1>9. OutcomeFits'
  BY <1>4 DEF LoginIInv, OutcomeFits
<1>. QED  BY <1>5, <1>6, <1>7, <1>8, <1>9 DEF LoginIInv, LoginInv

LEMMA LoginEnters ==
  ASSUME LoginIInv, drive.pc \in {"nEnter", "enter"}, UNCHANGED <<setting, inbox>>,
         NEW next \in {"nBack", "check"}, Entered(next)
  PROVE  LoginIInv'
<1>1. drive.code \in 1..MaxMails /\ (inbox.noted => drive.code > inbox.old)
  BY DEF LoginIInv, CodeFits
<1>2. drive.entered \cup {drive.code} \in SUBSET (1..MaxMails)
  BY <1>1, Running DEF DriveRecord
<1>3. next \in LoginPc /\ 0 \in 0..MaxMails
  BY LoginAssumption DEF LoginPc, LoginAssumption
<1>4. \A codes \in SUBSET (1..MaxMails), none \in 0..MaxMails :
        [drive EXCEPT !.pc = next, !.entered = codes, !.code = none, !.v = "none"]
          \in DriveRecord
  BY <1>3, Running DEF DriveRecord
<1>5. drive' \in DriveRecord
  BY Zenon, <1>2, <1>3, <1>4 DEF Entered
<1>6. /\ drive'.pc = next /\ drive'.entered = drive.entered \cup {drive.code}
      /\ drive'.error = drive.error /\ drive'.returned = drive.returned
      /\ drive'.reason = "none"
  BY Running DEF Entered, DriveRecord
<1>7. LoginTypeOK'
  BY <1>5 DEF LoginIInv, LoginInv, LoginTypeOK
<1>8. SuccessWasMet' /\ ErrorIsPreserved'
  BY <1>6 DEF SuccessWasMet, ErrorIsPreserved
<1>9. EntersNewCodes'
  BY <1>1, <1>6 DEF LoginIInv, LoginInv, EntersNewCodes
<1>10. CodeFits' /\ OutcomeFits'
  BY <1>6 DEF LoginIInv, CodeFits, OutcomeFits
<1>. QED  BY <1>7, <1>8, <1>9, <1>10 DEF LoginIInv, LoginInv

(* A login that has been seen at its target.                               *)
LEMMA LoginSucceeds ==
  ASSUME LoginIInv, drive.pc # "failed", UNCHANGED <<setting, inbox>>,
         NEW pc \in {"finish", "ok"}, drive' \in DriveRecord, drive'.pc = pc, drive'.met,
         drive'.entered = drive.entered, drive'.error = drive.error,
         drive'.returned = drive.returned, drive'.reason = "none"
  PROVE  LoginIInv'
<1>1. LoginTypeOK'
  BY DEF LoginIInv, LoginInv, LoginTypeOK
<1>2. SuccessWasMet' /\ ErrorIsPreserved'
  BY DEF SuccessWasMet, ErrorIsPreserved
<1>3. EntersNewCodes'
  BY DEF LoginIInv, LoginInv, EntersNewCodes
<1>4. CodeFits' /\ OutcomeFits'
  BY DEF LoginIInv, CodeFits, OutcomeFits
<1>. QED  BY <1>1, <1>2, <1>3, <1>4 DEF LoginIInv, LoginInv

LEMMA LoginMeets ==
  ASSUME LoginIInv, drive.pc # "failed", UNCHANGED <<setting, inbox>>, Met
  PROVE  LoginIInv'
<1>1. drive' \in DriveRecord
  BY Running, Places DEF Met, DriveRecord
<1>2. /\ drive'.pc = "finish" /\ drive'.met /\ drive'.entered = drive.entered
      /\ drive'.error = drive.error /\ drive'.returned = drive.returned
      /\ drive'.reason = "none"
  BY Running DEF Met, DriveRecord
<1>. QED  BY <1>1, <1>2, LoginSucceeds

(* An error that was recovered from, or not, is remembered.                *)
LEMMA LoginRecovers ==
  ASSUME LoginIInv, drive.pc \in {"back", "late"}, UNCHANGED <<setting, inbox>>,
         NEW p, NEW next \in PlainPc, NEW unloaded \in PlainPc,
         RecoverError(p, next, unloaded)
  PROVE  LoginIInv'
<1>1. AuthError(p) = "generic"
  <2>1. AuthError(p) # "none" /\ ~IsTerminalError(p)
    BY Zenon DEF RecoverError
  <2>2. AuthError(p) \in {"none", "explicit", "deactivated", "generic"}
    BY DEF AuthError
  <2>. QED  BY <2>1, <2>2 DEF IsTerminalError
<1>2. RecoveredStage \subseteq {"none", "password", "email", "code"}
  <2>1. \A q : SurfaceStage(q, Camoufox) \in {"none", "password", "email", "code"}
    BY DEF SurfaceStage
  <2>. QED  BY Zenon, <2>1 DEF RecoveredStage, Looks
<1>. DEFINE after == [drive EXCEPT !.tried = TRUE, !.error = AuthError(p)]
<1>3. /\ after \in DriveRecord /\ after.entered = drive.entered /\ after.error # "none"
      /\ after.reason = "none"
  BY <1>1, Running DEF DriveRecord
<1>4. \/ \E pc \in {next, unloaded} : drive' = [after EXCEPT !.pc = pc]
      \/ \E stage \in RecoveredStage \ {"none"} :
           drive' = [after EXCEPT !.pc = "failing", !.returned = stage]
  BY Zenon DEF RecoverError
<1>. HIDE DEF after
<1>5. CASE \E pc \in {next, unloaded} : drive' = [after EXCEPT !.pc = pc]
  <2>1. PICK pc \in PlainPc : drive' = [after EXCEPT !.pc = pc]
    BY <1>5
  <2>2. drive' \in DriveRecord
    BY <1>3, <2>1 DEF DriveRecord, PlainPc
  <2>3. /\ drive'.pc = pc /\ drive'.entered = drive.entered /\ drive'.error # "none"
        /\ drive'.reason = "none"
    BY <1>3, <2>1 DEF DriveRecord
  <2>. QED  BY <2>2, <2>3, LoginMoves
<1>6. CASE \E stage \in RecoveredStage \ {"none"} :
             drive' = [after EXCEPT !.pc = "failing", !.returned = stage]
  <2>1. PICK stage \in {"password", "email", "code"} :
          drive' = [after EXCEPT !.pc = "failing", !.returned = stage]
    BY <1>2, <1>6
  <2>2. drive' \in DriveRecord
    BY <1>3, <2>1, Places DEF DriveRecord
  <2>3. /\ drive'.pc = "failing" /\ drive'.entered = drive.entered
        /\ drive'.error # "none" /\ drive'.reason = "none"
    BY <1>3, <2>1 DEF DriveRecord
  <2>. QED  BY <2>2, <2>3, LoginMoves DEF PlainPc, LoginPc
<1>. QED  BY <1>4, <1>5, <1>6

(* ------------------------- one action at a time ------------------------ *)
LEMMA NoteInboxKeeps ==
  ASSUME LoginIInv, UNCHANGED setting, NoteInbox
  PROVE  LoginIInv'
<1>1. drive.pc = "note"
  BY DEF NoteInbox, At
<1>2. "open" \in PlainPc
  BY DEF PlainPc, LoginPc
<1>3. CASE UNCHANGED inbox
  BY <1>1, <1>2, <1>3, LoginGoes DEF NoteInbox
<1>4. CASE inbox' = [inbox EXCEPT !.base = inbox.latest, !.noted = TRUE]
  <2>1. inbox \in [latest : 0..MaxMails, base : 0..MaxMails, old : 0..MaxMails, noted : BOOLEAN]
    BY DEF LoginIInv, LoginInv, LoginTypeOK
  <2>2. /\ inbox' \in [latest : 0..MaxMails, base : 0..MaxMails, old : 0..MaxMails, noted : BOOLEAN]
        /\ inbox'.latest = inbox.latest /\ inbox'.old = inbox.old
        /\ inbox'.base = inbox.latest
    BY <1>4, <2>1
  <2>3. drive' \in DriveRecord
    BY <1>1, Running, Places DEF NoteInbox, To, DriveRecord
  <2>4. /\ drive'.pc = "open" /\ drive'.entered = {} /\ drive'.error = drive.error
        /\ drive'.returned = drive.returned /\ drive'.reason = "none"
    BY <1>1, Running DEF NoteInbox, To, DriveRecord, LoginIInv, CodeFits
  <2>5. LoginTypeOK'
    BY <2>2, <2>3 DEF LoginIInv, LoginInv, LoginTypeOK
  <2>6. SuccessWasMet' /\ ErrorIsPreserved' /\ EntersNewCodes'
    BY <2>4 DEF SuccessWasMet, ErrorIsPreserved, EntersNewCodes
  <2>7. CodeFits'
    BY <2>2, <2>4 DEF LoginIInv, CodeFits
  <2>8. OutcomeFits'
    BY <2>4 DEF LoginIInv, OutcomeFits
  <2>. QED  BY <2>5, <2>6, <2>7, <2>8 DEF LoginIInv, LoginInv
<1>. QED  BY <1>3, <1>4 DEF NoteInbox

LEMMA CodeArrivesKeeps ==
  ASSUME LoginIInv, UNCHANGED setting, CodeArrives
  PROVE  LoginIInv'
<1>1. inbox \in [latest : 0..MaxMails, base : 0..MaxMails, old : 0..MaxMails, noted : BOOLEAN]
  BY DEF LoginIInv, LoginInv, LoginTypeOK
<1>2. PICK n \in 0..MaxMails : n = inbox.latest + 1
  BY <1>1, LoginAssumption DEF CodeArrives, LoginAssumption
<1>3. inbox' = [inbox EXCEPT !.latest = n] /\ UNCHANGED drive
  BY <1>2 DEF CodeArrives
<1>4. /\ inbox' \in [latest : 0..MaxMails, base : 0..MaxMails, old : 0..MaxMails, noted : BOOLEAN]
      /\ inbox'.latest = n /\ inbox'.old = inbox.old /\ inbox'.noted = inbox.noted
      /\ inbox'.base = inbox.base
  BY <1>1, <1>3
<1>5. LoginInv'
  BY <1>3, <1>4 DEF LoginIInv, LoginInv, LoginTypeOK, SuccessWasMet, EntersNewCodes,
     ErrorIsPreserved
<1>6. inbox.latest \in Int /\ inbox.old \in Int /\ n \in Int /\ inbox.old <= inbox.latest
  BY <1>1 DEF LoginIInv, CodeFits
<1>7. CodeFits'
  BY <1>2, <1>3, <1>4, <1>6 DEF LoginIInv, CodeFits
<1>8. OutcomeFits'
  BY <1>3 DEF LoginIInv, OutcomeFits
<1>. QED  BY <1>5, <1>7, <1>8 DEF LoginIInv

(* The native run.                                                         *)
LEMMA NativeKeeps ==
  ASSUME LoginIInv, UNCHANGED setting,
         \/ NativeEmail \/ NativePasswordStage \/ NativePassword
         \/ NativeCodeOrCallback \/ NativeBack
  PROVE  LoginIInv'
<1>1. {"nPassword", "nFill", "nCode", "nDirect", "nFetch", "nEnd", "fallback"} \subseteq PlainPc
  BY DEF PlainPc, LoginPc
<1>2. drive.pc # "failed" /\ UNCHANGED inbox
  BY DEF NativeEmail, NativePasswordStage, NativePassword, NativeCodeOrCallback,
     NativeBack, NativeStep, At
<1>3. \E pc \in {"nPassword", "nFill", "nCode", "nDirect", "nFetch", "nEnd", "fallback"} : To(pc)
  BY DEF NativeEmail, NativePasswordStage, NativePassword, NativeCodeOrCallback,
     NativeBack, NativeStep
<1>. QED  BY <1>1, <1>2, <1>3, LoginGoes

LEMMA Shown == \A p \in Site : p.url \in PageUrl
BY LoginAssumption DEF LoginAssumption, PageRecord

LEMMA NativeEndsKeep ==
  ASSUME LoginIInv, UNCHANGED setting,
         NativeDirect \/ NativeFetch \/ NativeEnter \/ NativeEnd
  PROVE  LoginIInv'
<1>1. drive.pc # "failed" /\ UNCHANGED inbox
  BY DEF NativeDirect, NativeFetch, NativeEnter, NativeEnd, At
<1>2. {"seek", "fallback"} \subseteq PlainPc
  BY DEF PlainPc, LoginPc
<1>3. CASE To("seek") \/ To("fallback")
  BY <1>1, <1>2, <1>3, LoginGoes
<1>4. CASE \E p \in Site : drive' = [drive EXCEPT !.pc = "ok", !.url = p.url, !.met = TRUE]
  <2>1. PICK url \in PageUrl : drive' = [drive EXCEPT !.pc = "ok", !.url = url, !.met = TRUE]
    BY <1>4, Shown
  <2>2. drive' \in DriveRecord
    BY <1>1, <2>1, Running, Places DEF DriveRecord
  <2>3. /\ drive'.pc = "ok" /\ drive'.met /\ drive'.entered = drive.entered
        /\ drive'.error = drive.error /\ drive'.returned = drive.returned
        /\ drive'.reason = "none"
    BY <1>1, <2>1, Running DEF DriveRecord
  <2>. QED  BY <1>1, <2>2, <2>3, LoginSucceeds
<1>5. CASE NewCodes # {} /\ Fetched("nEnter")
  BY <1>1, <1>5, LoginFetches
<1>6. CASE drive.pc = "nEnter" /\ Entered("nBack")
  BY <1>1, <1>6, LoginEnters
<1>. QED
  BY Zenon, <1>3, <1>4, <1>5, <1>6 DEF NativeDirect, NativeFetch, NativeEnter, NativeEnd, At

(* From the page that opens to the password.                               *)
LEMMA OpeningKeeps ==
  ASSUME LoginIInv, UNCHANGED setting, Open \/ Fallback \/ StartRounds \/ SubmitEmail
  PROVE  LoginIInv'
<1>1. drive.pc # "failed" /\ UNCHANGED inbox
  BY DEF Open, Fallback, StartRounds, SubmitEmail, At
<1>2. {"seek", "nEmail"} \subseteq PlainPc
  BY DEF PlainPc, LoginPc
<1>3. {"not reached", "not returned", "unbound", "mismatch"} \subseteq Reason \ {"timeout"}
  BY DEF Reason
<1>4. CASE To("seek") \/ To("nEmail")
  BY <1>1, <1>2, <1>4, LoginGoes
<1>5. CASE \E reason \in {"not reached", "not returned", "unbound", "mismatch"} : Fail(reason)
  BY <1>1, <1>3, <1>5, LoginFails
<1>6. CASE drive' = [drive EXCEPT !.pc = "password", !.round = 1]
  <2>1. drive' \in DriveRecord /\ drive'.pc \in PlainPc
    BY <1>1, <1>6, Running, Places DEF DriveRecord
  <2>2. /\ drive'.entered = drive.entered /\ drive'.error = drive.error
        /\ drive'.returned = drive.returned /\ drive'.reason = "none"
    BY <1>1, <1>6, Running DEF DriveRecord
  <2>. QED  BY <1>1, <2>1, <2>2, LoginMoves
<1>7. CASE drive' = [drive EXCEPT !.pc = "rounds", !.sent = ~drive.skip]
  <2>1. drive' \in DriveRecord /\ drive'.pc \in PlainPc
    BY <1>1, <1>7, Running, Places DEF DriveRecord
  <2>2. /\ drive'.entered = drive.entered /\ drive'.error = drive.error
        /\ drive'.returned = drive.returned /\ drive'.reason = "none"
    BY <1>1, <1>7, Running DEF DriveRecord
  <2>. QED  BY <1>1, <2>1, <2>2, LoginMoves
<1>. QED
  <2>1. CASE Open
    BY Zenon, <2>1, <1>4, <1>5 DEF Open
  <2>2. CASE Fallback
    BY Zenon, <2>2, <1>4, <1>5 DEF Fallback
  <2>3. CASE StartRounds
    BY Zenon, <2>3, <1>5, <1>6 DEF StartRounds
  <2>4. CASE SubmitEmail
    BY Zenon, <2>4, <1>5, <1>7 DEF SubmitEmail
  <2>. QED  BY <2>1, <2>2, <2>3, <2>4

LEMMA EmailStageKeeps ==
  ASSUME LoginIInv, UNCHANGED setting, Seek \/ Lost
  PROVE  LoginIInv'
<1>1. drive.pc \in {"seek", "lost"} /\ UNCHANGED inbox
  BY DEF Seek, Lost, At
<1>2. {"submit", "lost"} \subseteq PlainPc
  BY DEF PlainPc, LoginPc
<1>3. CASE To("submit") \/ To("lost")
  BY <1>1, <1>2, <1>3, LoginGoes
<1>4. CASE Skip
  BY <1>1, <1>4, LoginSkips
<1>5. CASE drive.pc = "seek" /\ NextSeek
  BY <1>1, <1>5, LoginSeeksOn
<1>6. CASE Fail("blocked") \/ Fail("no email")
  BY <1>1, <1>6, LoginFails DEF Reason
<1>. QED
  <2>1. CASE Seek
    <3>1. SeekAfterLanding => Skip \/ To("submit") \/ To("lost") \/ NextSeek
      BY DEF SeekAfterLanding
    <3>2. SeekLonger => SeekAfterLanding \/ To("submit") \/ NextSeek
      BY DEF SeekLonger
    <3>. QED  BY Zenon, <2>1, <3>1, <3>2, <1>3, <1>4, <1>5 DEF Seek, At
  <2>2. CASE Lost
    <3>1. Skip \/ To("submit") \/ Fail("blocked") \/ Fail("no email")
      BY <2>2 DEF Lost
    <3>. QED  BY Zenon, <3>1, <1>3, <1>4, <1>6
  <2>. QED  BY <2>1, <2>2

(* Where the code is asked for.                                            *)
LEMMA LoginLooks ==
  ASSUME LoginIInv, drive.pc # "failed", UNCHANGED <<setting, inbox>>,
         NEW pc \in PlainPc, NEW v \in {"none", "callback", "input", "stage"},
         NEW asked \in BOOLEAN, OtpMoves(pc, v, asked)
  PROVE  LoginIInv'
<1>1. drive' \in DriveRecord
  BY Running DEF OtpMoves, DriveRecord, PlainPc
<1>2. /\ drive'.pc = pc /\ drive'.entered = drive.entered /\ drive'.error = drive.error
      /\ drive'.returned = drive.returned /\ drive'.reason = "none"
  BY Running DEF OtpMoves, DriveRecord
<1>. QED  BY <1>1, <1>2, LoginMoves

LEMMA LocatesKeep ==
  ASSUME LoginIInv, UNCHANGED setting,
         AwaitOtpStage \/ LocateNative \/ Locate \/ StillThere
  PROVE  LoginIInv'
<1>1. drive.pc # "failed" /\ UNCHANGED inbox
  <2>1. CASE AwaitOtpStage
    BY <2>1 DEF AwaitOtpStage, At
  <2>2. CASE LocateNative
    BY <2>2 DEF LocateNative, At
  <2>3. CASE Locate
    BY <2>3 DEF Locate, At
  <2>4. CASE StillThere
    BY <2>4 DEF StillThere, At
  <2>. QED  BY <2>1, <2>2, <2>3, <2>4
<1>. DEFINE Vs == {"none", "callback", "input", "stage"}
<1>2. drive.v \in Vs /\ drive.asked \in BOOLEAN
  BY <1>1, Running DEF DriveRecord
<1>3. {"locateNative", "locate", "still", "back", "fetch", "otp"} \subseteq PlainPc
  BY DEF PlainPc, LoginPc
<1>4. CASE \E reason \in {"no otp stage", "not located", "otp lost"} : Fail(reason)
  BY <1>1, <1>4, LoginFails DEF Reason
<1>5. CASE \E pc \in {"locateNative", "locate", "still", "back", "otp"}, v \in Vs,
              asked \in BOOLEAN : OtpMoves(pc, v, asked)
  BY <1>1, <1>3, <1>5, LoginLooks
<1>6. CASE To("fetch")
  BY <1>1, <1>3, <1>6, LoginGoes
<1>7. CASE AwaitOtpStage
  <2>1. \/ Fail("no otp stage")
        \/ \E pc \in {"locateNative", "locate"}, v \in {"callback", "none"} :
             OtpMoves(pc, v, drive.asked)
        \/ OtpMoves("otp", drive.v, TRUE)
    BY <1>7 DEF AwaitOtpStage
  <2>. QED  BY <1>2, <1>4, <1>5, <2>1
<1>8. CASE LocateNative
  <2>1. \A q : InputOrStage(q) \in {"input", "stage"}
    BY DEF InputOrStage
  <2>2. Looks(InputOrStage) \subseteq {"input", "stage"}
    BY Zenon, <2>1 DEF Looks
  <2>. DEFINE Found(q) == CASE CallbackMatched(q, Needle) -> "callback"
                            [] Stage(q) = "code" -> "code"
                            [] OTHER -> drive.v
  <2>3. \A q : Found(q) \in Vs \cup {"code"}
    BY <1>2
  <2>4. Looks(Found) \subseteq Vs \cup {"code"}
    BY Zenon, <2>3 DEF Looks
  <2>5. PICK v \in Looks(Found), where \in Looks(InputOrStage) :
          OtpMoves("locate", IF v = "code" THEN where ELSE v, drive.asked)
    BY Zenon, <1>8 DEF LocateNative
  <2>. HIDE DEF Found
  <2>6. (IF v = "code" THEN where ELSE v) \in Vs
    BY <2>2, <2>4
  <2>. QED  BY <2>5, <2>6, <1>2, <1>5
<1>9. CASE Locate
  <2>1. \A q, shown : Located(q, shown) \in Vs
    BY DEF Located, InputOrStage
  <2>2. PICK shown \in Looks(HasCodeInput) :
          \/ OtpMoves("still", drive.v, FALSE) \/ Fail("not located")
          \/ \E v \in Looks(LAMBDA p : Located(p, shown)) : OtpMoves("still", v, FALSE)
    <3>1. CASE drive.v # "none"
      BY Zenon, <1>9, <3>1, LoginAssumption DEF Locate, Looks, LoginAssumption
    <3>2. CASE drive.v = "none"
      BY Zenon, <1>9, <3>2, LoginAssumption DEF Locate, Looks, LoginAssumption
    <3>. QED  BY <3>1, <3>2
  <2>3. Looks(LAMBDA p : Located(p, shown)) \subseteq Vs
    BY Zenon, <2>1 DEF Looks
  <2>. QED  BY <1>2, <1>4, <1>5, <2>2, <2>3
<1>10. CASE StillThere
  <2>1. OtpMoves("back", "none", drive.asked) \/ To("fetch") \/ Fail("otp lost")
    BY <1>10 DEF StillThere
  <2>. QED  BY <1>2, <1>4, <1>5, <1>6, <2>1
<1>. QED  BY <1>7, <1>8, <1>9, <1>10

LEMMA CodeStageKeeps ==
  ASSUME LoginIInv, UNCHANGED setting, FetchCode \/ EnterCode \/ CheckCode
  PROVE  LoginIInv'
<1>1. drive.pc # "failed" /\ UNCHANGED inbox
  BY DEF FetchCode, EnterCode, CheckCode, At
<1>2. CASE \E reason \in {"no quota", "otp timeout", "no code", "no input", "otp lost", "rejected"} :
             Fail(reason)
  BY <1>1, <1>2, LoginFails DEF Reason
<1>3. CASE NewCodes # {} /\ Fetched("enter")
  BY <1>1, <1>3, LoginFetches
<1>4. CASE drive.pc = "enter" /\ Entered("check")
  BY <1>1, <1>4, LoginEnters
<1>5. CASE To("back")
  BY <1>1, <1>5, LoginGoes DEF PlainPc, LoginPc
<1>6. CASE FetchCode
  BY Zenon, <1>6, <1>2, <1>3 DEF FetchCode
<1>7. CASE EnterCode
  <2>1. Entered("check") \/ Fail("no input") \/ Fail("otp lost")
    BY <1>7 DEF EnterCode
  <2>. QED  BY Zenon, <1>7, <2>1, <1>2, <1>4 DEF EnterCode, At
<1>8. CASE CheckCode
  BY Zenon, <1>8, <1>2, <1>5 DEF CheckCode
<1>. QED  BY <1>6, <1>7, <1>8

LEMMA CallbackKeeps ==
  ASSUME LoginIInv, UNCHANGED setting, AwaitCallback \/ LateCallback
  PROVE  LoginIInv'
<1>1. drive.pc \in {"back", "late"} /\ UNCHANGED inbox
  BY DEF AwaitCallback, LateCallback, At
<1>2. {"back", "late", "failing"} \subseteq PlainPc
  BY DEF PlainPc, LoginPc
<1>3. CASE To("late") \/ To("failing")
  BY <1>1, <1>2, <1>3, LoginGoes
<1>4. CASE Met
  BY <1>1, <1>4, LoginMeets
<1>5. CASE \E p \in Site : RecoverError(p, "back", "back") \/ RecoverError(p, "back", "failing")
  BY <1>1, <1>2, <1>5, LoginRecovers
<1>6. CASE AwaitCallback
  BY Zenon, <1>6, <1>3, <1>4, <1>5 DEF AwaitCallback, SeesTerminal
<1>7. CASE LateCallback
  BY Zenon, <1>7, <1>3, <1>4, <1>5 DEF LateCallback, SeesTerminal
<1>. QED  BY <1>6, <1>7

LEMMA FailingKeeps ==
  ASSUME LoginIInv, UNCHANGED setting, Failing
  PROVE  LoginIInv'
<1>1. drive.pc = "failing" /\ UNCHANGED inbox
  BY DEF Failing, At
<1>2. CASE Fail("rejected") \/ Fail("auth error")
  BY <1>1, <1>2, LoginFails DEF Reason
<1>3. CASE /\ drive.error = "none"
           /\ \E p \in Site : drive' = [drive EXCEPT !.pc = "failed", !.reason = "timeout",
                                                    !.url = p.url]
  <2>1. PICK url \in PageUrl :
          drive' = [drive EXCEPT !.pc = "failed", !.reason = "timeout", !.url = url]
    BY <1>3, Shown
  <2>2. drive' \in DriveRecord
    BY <1>1, <2>1, Running, Places DEF DriveRecord, Reason
  <2>3. /\ drive'.pc = "failed" /\ drive'.entered = drive.entered
        /\ drive'.error = "none" /\ drive'.returned = "none"
    BY <1>1, <1>3, <2>1, Running DEF DriveRecord, LoginIInv, OutcomeFits
  <2>4. LoginTypeOK'
    BY <1>1, <2>2 DEF LoginIInv, LoginInv, LoginTypeOK
  <2>5. SuccessWasMet' /\ ErrorIsPreserved'
    BY <2>3 DEF SuccessWasMet, ErrorIsPreserved
  <2>6. EntersNewCodes'
    BY <1>1, <2>3 DEF LoginIInv, LoginInv, EntersNewCodes
  <2>7. CodeFits' /\ OutcomeFits'
    BY <1>1, <2>3 DEF LoginIInv, CodeFits, OutcomeFits
  <2>. QED  BY <2>4, <2>5, <2>6, <2>7 DEF LoginIInv, LoginInv
<1>4. \/ Fail("rejected") \/ Fail("auth error")
      \/ /\ drive.error = "none"
         /\ \E p \in Site : drive' = [drive EXCEPT !.pc = "failed", !.reason = "timeout",
                                                  !.url = p.url]
  BY DEF Failing
<1>. QED  BY <1>2, <1>3, <1>4

LEMMA FinishKeeps ==
  ASSUME LoginIInv, UNCHANGED setting, Finish
  PROVE  LoginIInv'
<1>1. drive.pc = "finish" /\ UNCHANGED inbox
  BY DEF Finish, At
<1>2. PICK url \in PageUrl : drive' = [drive EXCEPT !.pc = "ok", !.url = url]
  <2>1. Looks(LAMBDA p : p.url) \subseteq PageUrl
    BY Shown DEF Looks
  <2>. QED  BY <2>1 DEF Finish, Ends
<1>3. drive' \in DriveRecord
  BY <1>1, <1>2, Running, Places DEF DriveRecord
<1>4. /\ drive'.pc = "ok" /\ drive'.met /\ drive'.entered = drive.entered
      /\ drive'.error = drive.error /\ drive'.returned = drive.returned
      /\ drive'.reason = "none"
  BY <1>1, <1>2, Running DEF DriveRecord, LoginIInv, OutcomeFits
<1>. QED  BY <1>1, <1>3, <1>4, LoginSucceeds

LEMMA LoginStepKeeps ==
  ASSUME LoginIInv, UNCHANGED setting, LoginStep
  PROVE  LoginIInv'
<1>1. CASE DriverDies
  <2>1. drive.pc # "failed" /\ UNCHANGED inbox /\ Fail("driver")
    BY <1>1 DEF DriverDies
  <2>. QED  BY <2>1, LoginFails DEF Reason
<1>. QED
  BY <1>1, NoteInboxKeeps, NativeKeeps, NativeEndsKeep, OpeningKeeps, EmailStageKeeps,
     PasswordRoundKeeps, LocatesKeep, CodeStageKeeps, CallbackKeeps, FailingKeeps, FinishKeeps
     DEF LoginStep

-----------------------------------------------------------------------------
(* The registration: what it has behind it, from where it stands.          *)
BeforeCode ==
  {"open", "startup", "nStart", "nPassword", "nFill", "nCode", "nFetch", "nEnter",
   "reopen", "email", "password", "submit", "nOtp", "otp", "again", "fetch", "enter"}
AfterCodePc == {"nAfter", "after", "segments"}
SignUpPc == BeforeCode \cup AfterCodePc
BeforeLogin == SignUpPc \cup {"profile", "callback", "validate"}

RegFits ==
  /\ reg.pc \in AfterCodePc \cup {"profile", "callback", "validate", "handler", "login",
                                  "exchange", "done"} => reg.coded
  /\ reg.pc \in BeforeLogin => reg.logins = 0
  /\ reg.pc = "handler" => reg.logins \in 0..1
  /\ reg.blocked => reg.pc = "failed" \/ (reg.pc = "handler" /\ reg.reason = "terms")
  /\ reg.pc \in {"exchange", "done"} => drive.pc = "ok"
  /\ reg.pc = "done" => exch.pc = "done"
RegIInv == RegTypeOK /\ LoginsAreWarranted /\ RegFits

LEMMA Pcs ==
  /\ SignUpPc \subseteq RegPc /\ {"profile", "failed"} \subseteq RegPc
  /\ SignUpPc \subseteq BeforeLogin
BY DEF SignUpPc, BeforeCode, AfterCodePc, BeforeLogin, RegPc

(* What happens in the sign-up, to the registration's own state.           *)
LEMMA SignUpStays ==
  ASSUME RegIInv, reg.pc \in SignUpPc, UNCHANGED <<drive, exch>>, reg' \in RegRecord,
         reg'.pc \in SignUpPc \cup {"profile", "failed"},
         reg'.pc \in AfterCodePc \cup {"profile"} => reg'.coded,
         reg'.logins = reg.logins, reg'.blocked = reg.blocked
  PROVE  RegIInv'
<1>1. reg.logins = 0 /\ ~reg.blocked
  BY DEF RegIInv, RegFits, RegTypeOK, RegRecord, BeforeLogin, SignUpPc, BeforeCode, AfterCodePc
<1>2. RegTypeOK'
  BY DEF RegTypeOK
<1>3. LoginsAreWarranted'
  BY <1>1 DEF LoginsAreWarranted
<1>4. RegFits'
  BY <1>1 DEF RegFits, BeforeLogin, SignUpPc, BeforeCode, AfterCodePc
<1>. QED  BY <1>2, <1>3, <1>4 DEF RegIInv

LEMMA SignUpGoes ==
  ASSUME RegIInv, reg.pc \in SignUpPc, UNCHANGED <<drive, exch>>,
         NEW pc \in BeforeCode \cup {"profile"},
         pc = "profile" => reg.pc \in AfterCodePc, RegTo(pc)
  PROVE  RegIInv'
<1>1. pc \in RegPc /\ pc \in SignUpPc \cup {"profile"} /\ pc \notin AfterCodePc
  BY DEF RegPc, SignUpPc, BeforeCode, AfterCodePc
<1>2. reg \in RegRecord
  BY DEF RegIInv, RegTypeOK
<1>3. pc = "profile" => reg.coded
  BY DEF RegIInv, RegFits
<1>4. 1 \in Nat /\ 0 \in Nat
  OBVIOUS
<1>5. \A n, hits \in Nat : [reg EXCEPT !.pc = pc, !.round = n, !.hits = hits] \in RegRecord
  BY <1>1, <1>2 DEF RegRecord
<1>6. reg' \in RegRecord
  BY Zenon, <1>4, <1>5 DEF RegTo
<1>7. /\ reg'.pc = pc /\ reg'.coded = reg.coded /\ reg'.logins = reg.logins
      /\ reg'.blocked = reg.blocked
  BY <1>2 DEF RegTo, RegRecord
<1>. QED  BY <1>1, <1>3, <1>6, <1>7, SignUpStays

LEMMA SignUpFails ==
  ASSUME RegIInv, reg.pc \in SignUpPc, UNCHANGED <<drive, exch>>,
         NEW reason \in RegReason, RegFails(reason)
  PROVE  RegIInv'
<1>1. reg \in RegRecord
  BY DEF RegIInv, RegTypeOK
<1>2. reg' \in RegRecord
  BY <1>1, Pcs DEF RegFails, RegRecord
<1>3. /\ reg'.pc = "failed" /\ reg'.logins = reg.logins /\ reg'.blocked = reg.blocked
  BY <1>1 DEF RegFails, RegRecord
<1>. QED  BY <1>2, <1>3, SignUpStays DEF AfterCodePc

LEMMA SignUpCodes ==
  ASSUME RegIInv, reg.pc \in SignUpPc, UNCHANGED <<drive, exch>>,
         NEW next \in AfterCodePc, CodeEntered(next)
  PROVE  RegIInv'
<1>1. reg \in RegRecord
  BY DEF RegIInv, RegTypeOK
<1>2. next \in RegPc /\ next \in SignUpPc
  BY DEF SignUpPc, RegPc, AfterCodePc
<1>3. reg' \in RegRecord
  BY <1>1, <1>2 DEF CodeEntered, RegRecord
<1>4. /\ reg'.pc = next /\ reg'.coded /\ reg'.logins = reg.logins
      /\ reg'.blocked = reg.blocked
  BY <1>1 DEF CodeEntered, RegRecord
<1>. QED  BY <1>2, <1>3, <1>4, SignUpStays

LEMMA SignUpWaits ==
  ASSUME RegIInv, reg.pc \in BeforeCode, UNCHANGED <<drive, exch>>,
         NEW n \in Nat, NEW hits \in Nat,
         \/ reg' = [reg EXCEPT !.round = n, !.hits = hits]
         \/ reg' = [reg EXCEPT !.round = n]
  PROVE  RegIInv'
<1>1. reg \in RegRecord
  BY DEF RegIInv, RegTypeOK
<1>2. reg' \in RegRecord
  BY <1>1 DEF RegRecord
<1>3. /\ reg'.pc = reg.pc /\ reg'.logins = reg.logins /\ reg'.blocked = reg.blocked
  BY <1>1 DEF RegRecord
<1>4. reg'.pc \in SignUpPc /\ reg'.pc \notin AfterCodePc \cup {"profile"}
  BY <1>3 DEF SignUpPc, BeforeCode, AfterCodePc
<1>. QED  BY <1>2, <1>3, <1>4, SignUpStays DEF SignUpPc

LEMMA WaitForPasswordKeeps ==
  ASSUME RegIInv, UNCHANGED <<drive, exch>>, WaitForPassword
  PROVE  RegIInv'
<1>1. reg.pc = "password" /\ reg.pc \in BeforeCode /\ reg.pc \in SignUpPc
  BY DEF WaitForPassword, RegAt, BeforeCode, SignUpPc
<1>2. reg.hits \in Nat /\ reg.round \in Nat
  BY DEF RegIInv, RegTypeOK, RegRecord
<1>3. PICK n \in Nat, more \in Nat : n = reg.round + 1 /\ more = reg.hits + 1
  BY <1>2
<1>4. Looks(LastLook) \subseteq {"field", "blocked", "no password"}
  <2>1. \A q : LastLook(q) \in {"field", "blocked", "no password"}
    BY DEF LastLook
  <2>. QED  BY Zenon, <2>1 DEF Looks
<1>5. \A hits \in Nat : PasswordRoundEnds(hits) => RegIInv'
  <2>. SUFFICES ASSUME NEW hits \in Nat, PasswordRoundEnds(hits) PROVE RegIInv'
    OBVIOUS
  <2>1. CASE reg' = [reg EXCEPT !.round = n, !.hits = hits]
    BY <1>1, <2>1, SignUpWaits
  <2>2. CASE RegTo("submit")
    BY <1>1, <2>2, SignUpGoes DEF BeforeCode
  <2>3. CASE \E reason \in {"blocked", "no password"} : RegFails(reason)
    BY <1>1, <2>3, SignUpFails DEF RegReason
  <2>. QED  BY <1>3, <1>4, <2>1, <2>2, <2>3 DEF PasswordRoundEnds
<1>6. CASE PasswordRoundEnds(0) \/ PasswordRoundEnds(more) \/ PasswordRoundEnds(reg.hits)
  BY <1>2, <1>5, <1>6
<1>7. CASE RegTo("submit")
  BY <1>1, <1>7, SignUpGoes DEF BeforeCode
<1>8. CASE RegFails("blocked")
  BY <1>1, <1>8, SignUpFails DEF RegReason
<1>9. MeetsChallenge => PasswordRoundEnds(0) \/ PasswordRoundEnds(more) \/ RegFails("blocked")
  BY <1>3 DEF MeetsChallenge
<1>10. MeetsChallenge \/ RegTo("submit") \/ PasswordRoundEnds(reg.hits)
  BY DEF WaitForPassword
<1>. QED  BY <1>6, <1>7, <1>8, <1>9, <1>10

LEMMA SignUpStepKeeps ==
  ASSUME RegIInv, UNCHANGED <<drive, exch>>, SignUpStep
  PROVE  RegIInv'
<1>1. CASE OpenSignUp \/ ReopenSignUp
  <2>1. reg.pc \in SignUpPc
    BY <1>1 DEF OpenSignUp, ReopenSignUp, RegAt, SignUpPc, BeforeCode
  <2>2. \/ RegTo("startup") \/ RegTo("email")
        \/ RegFails("network") \/ RegFails("not reached")
    BY <1>1 DEF OpenSignUp, ReopenSignUp
  <2>. QED  BY <2>1, <2>2, SignUpGoes, SignUpFails DEF BeforeCode, RegReason
<1>2. CASE \/ StartSignUp \/ NativeStart \/ NativeSignUpStage \/ NativeSignUpPassword
           \/ NativeSignUpCode
  <2>1. reg.pc \in SignUpPc
    BY <1>2 DEF StartSignUp, NativeStart, NativeSignUpStage, NativeSignUpPassword,
       NativeSignUpCode, RegAt, SignUpPc, BeforeCode
  <2>2. \E pc \in {"nStart", "email", "nCode", "nPassword", "nFill", "nFetch", "reopen"} : RegTo(pc)
    BY <1>2 DEF StartSignUp, NativeStart, NativeSignUpStage, NativeSignUpPassword,
       NativeSignUpCode, NativeReg
  <2>. QED  BY <2>1, <2>2, SignUpGoes DEF BeforeCode
<1>3. CASE NativeSignUpFetch \/ NativeSignUpEnter \/ NativeSignUpAfter
  <2>1. reg.pc \in SignUpPc
    BY <1>3 DEF NativeSignUpFetch, NativeSignUpEnter, NativeSignUpAfter, RegAt, SignUpPc,
       BeforeCode, AfterCodePc
  <2>2. \/ RegTo("nEnter") \/ RegTo("reopen") \/ CodeEntered("nAfter")
        \/ reg.pc \in AfterCodePc /\ RegTo("profile")
    BY <1>3 DEF NativeSignUpFetch, NativeSignUpEnter, NativeSignUpAfter, NativeReg, RegAt,
       AfterCodePc
  <2>. QED  BY <2>1, <2>2, SignUpGoes, SignUpCodes DEF BeforeCode, AfterCodePc
<1>4. CASE SignUpEmail \/ SubmitSignUp
  <2>1. reg.pc \in SignUpPc
    BY <1>4 DEF SignUpEmail, SubmitSignUp, RegAt, SignUpPc, BeforeCode
  <2>2. CASE SignUpEmail
    <3>1. RegTo("password") \/ RegFails("mismatch") \/ RegFails("no email")
      BY <2>2 DEF SignUpEmail
    <3>. QED  BY <2>1, <3>1, SignUpGoes, SignUpFails DEF BeforeCode, RegReason
  <2>3. CASE SubmitSignUp
    <3>1. RegTo("nOtp") \/ RegTo("otp") \/ RegFails("mismatch")
      BY <2>3 DEF SubmitSignUp
    <3>. QED  BY <2>1, <3>1, SignUpGoes, SignUpFails DEF BeforeCode, RegReason
  <2>. QED  BY <1>4, <2>2, <2>3
<1>5. CASE SignUpOtpNative \/ SignUpOtp \/ FetchSignUpCode
  <2>1. reg.pc \in SignUpPc
    BY <1>5 DEF SignUpOtpNative, SignUpOtp, FetchSignUpCode, RegAt, SignUpPc, BeforeCode
  <2>2. \/ RegTo("fetch") \/ RegTo("otp") \/ RegTo("again") \/ RegTo("enter")
        \/ RegFails("no otp stage") \/ RegFails("no code")
    <3>1. CASE SignUpOtpNative
      BY <3>1 DEF SignUpOtpNative
    <3>2. CASE SignUpOtp
      BY <3>2 DEF SignUpOtp
    <3>3. CASE FetchSignUpCode
      BY <3>3 DEF FetchSignUpCode
    <3>. QED  BY <1>5, <3>1, <3>2, <3>3
  <2>. QED  BY <2>1, <2>2, SignUpGoes, SignUpFails DEF BeforeCode, RegReason
<1>6. CASE SignUpAgain
  <2>1. reg.pc \in BeforeCode /\ reg.pc \in SignUpPc
    BY <1>6 DEF SignUpAgain, RegAt, SignUpPc, BeforeCode
  <2>2. reg.round \in Nat
    BY DEF RegIInv, RegTypeOK, RegRecord
  <2>3. PICK n \in Nat : n = reg.round + 1
    BY <2>2
  <2>4. RegTo("fetch") \/ RegFails("no otp stage") \/ reg' = [reg EXCEPT !.round = n]
    BY <1>6, <2>3 DEF SignUpAgain
  <2>5. CASE reg' = [reg EXCEPT !.round = n]
    BY <2>1, <2>5, SignUpWaits
  <2>. QED  BY <2>1, <2>4, <2>5, SignUpGoes, SignUpFails DEF BeforeCode, RegReason
<1>7. CASE EnterSignUpCode
  <2>1. reg.pc \in SignUpPc
    BY <1>7 DEF EnterSignUpCode, RegAt, SignUpPc, BeforeCode
  <2>2. CodeEntered("after") \/ CodeEntered("segments") \/ RegFails("no input")
    BY <1>7 DEF EnterSignUpCode
  <2>. QED  BY <2>1, <2>2, SignUpCodes, SignUpFails DEF AfterCodePc, RegReason
<1>8. CASE AfterSignUpCode
  <2>1. reg.pc \in SignUpPc /\ reg.pc \in AfterCodePc
    BY <1>8 DEF AfterSignUpCode, SignUpPc, AfterCodePc
  <2>2. RegTo("profile") \/ RegFails("rejected") \/ RegFails("not advanced")
    BY <1>8 DEF AfterSignUpCode
  <2>. QED  BY <2>1, <2>2, SignUpGoes, SignUpFails DEF RegReason
<1>. QED
  BY <1>1, <1>2, <1>3, <1>4, <1>5, <1>6, <1>7, <1>8, WaitForPasswordKeeps DEF SignUpStep

-----------------------------------------------------------------------------
(* The flows together.                                                     *)
FlowsIInv == LoginIInv /\ FormIInv /\ ExchangeIInv /\ RegIInv

LEMMA FlowsIInvIsEnough == FlowsIInv => FlowsInv
<1>. SUFFICES ASSUME FlowsIInv PROVE FlowsInv
  OBVIOUS
<1>1. LoginInv /\ FormTypeOK /\ ForcedIsWanted /\ ExchangeTypeOK /\ ExchangeIsFinal
  BY DEF FlowsIInv, LoginIInv, FormIInv, ExchangeIInv
<1>2. RegTypeOK /\ LoginsAreWarranted
  BY DEF FlowsIInv, RegIInv
<1>3. DoneIsAnswered
  BY DEF FlowsIInv, LoginIInv, LoginInv, SuccessWasMet, ExchangeIInv, ExchangeFits, RegIInv,
     RegFits, DoneIsAnswered
<1>. QED  BY <1>1, <1>2, <1>3 DEF FlowsInv

LEMMA FreshFits ==
  ASSUME NEW pc \in {"note", "idle", "ok", "failed"}, NEW met \in BOOLEAN
  PROVE  /\ DriveAt(pc, met) \in DriveRecord /\ DriveAt(pc, met).pc = pc
         /\ DriveAt(pc, met).met = met /\ DriveAt(pc, met).entered = {}
         /\ DriveAt(pc, met).error = "none" /\ DriveAt(pc, met).returned = "none"
         /\ DriveAt(pc, met).reason = "none"
<1>1. /\ pc \in LoginPc /\ "none" \in Reason /\ 0 \in 0..MaxMails /\ 0 \in 0..3
      /\ 1 \in Nat /\ {} \in SUBSET (1..MaxMails) /\ "none" \in PageUrl
  BY LoginAssumption DEF LoginAssumption, LoginPc, Reason, PageUrl
<1>2. DriveAt(pc, met) \in DriveRecord
  BY Zenon, <1>1 DEF DriveAt, DriveRecord
<1>3. /\ DriveAt(pc, met).pc = pc /\ DriveAt(pc, met).met = met
      /\ DriveAt(pc, met).entered = {} /\ DriveAt(pc, met).error = "none"
      /\ DriveAt(pc, met).returned = "none" /\ DriveAt(pc, met).reason = "none"
  BY DEF DriveAt
<1>. QED  BY <1>2, <1>3

LEMMA LoginStarts ==
  ASSUME NEW held \in 0..MaxMails, NEW pc \in {"note", "idle"}, NEW met \in BOOLEAN,
         setting \in Setting, drive = DriveAt(pc, met), inbox = NewInbox(held)
  PROVE  LoginIInv
<1>1. inbox = [latest |-> held, base |-> 0, old |-> held, noted |-> FALSE]
  BY DEF NewInbox
<1>2. /\ drive \in DriveRecord /\ drive.pc = pc /\ drive.entered = {}
      /\ drive.error = "none" /\ drive.returned = "none" /\ drive.reason = "none"
  BY FreshFits
<1>3. LoginTypeOK
  <2>1. 0 \in 0..MaxMails
    BY LoginAssumption DEF LoginAssumption
  <2>. QED  BY <1>1, <1>2, <2>1 DEF LoginTypeOK
<1>4. SuccessWasMet /\ EntersNewCodes /\ ErrorIsPreserved
  BY <1>1, <1>2 DEF SuccessWasMet, EntersNewCodes, ErrorIsPreserved
<1>5. CodeFits /\ OutcomeFits
  BY <1>1, <1>2 DEF CodeFits, OutcomeFits
<1>. QED  BY <1>3, <1>4, <1>5 DEF LoginIInv, LoginInv

(* A login that begins, on what the mailbox holds by then, or has ended.   *)
LEMMA LoginRestarts ==
  ASSUME LoginIInv, UNCHANGED setting, NEW pc \in {"note", "ok", "failed"},
         NEW met \in BOOLEAN, pc = "ok" => met, drive' = DriveAt(pc, met),
         \/ UNCHANGED inbox
         \/ inbox' = [inbox EXCEPT !.old = inbox.latest, !.base = 0, !.noted = FALSE]
  PROVE  LoginIInv'
<1>1. inbox \in [latest : 0..MaxMails, base : 0..MaxMails, old : 0..MaxMails, noted : BOOLEAN]
  BY DEF LoginIInv, LoginInv, LoginTypeOK
<1>2. inbox.latest \in 0..MaxMails /\ 0 \in 0..MaxMails /\ inbox.latest \in Int
  BY <1>1, LoginAssumption DEF LoginAssumption
<1>3. \A l, b \in 0..MaxMails : [inbox EXCEPT !.old = l, !.base = b, !.noted = FALSE]
        \in [latest : 0..MaxMails, base : 0..MaxMails, old : 0..MaxMails, noted : BOOLEAN]
  BY <1>1
<1>4. inbox' \in [latest : 0..MaxMails, base : 0..MaxMails, old : 0..MaxMails, noted : BOOLEAN]
  BY Zenon, <1>1, <1>2, <1>3
<1>5. inbox'.old <= inbox'.latest /\ (inbox'.noted => inbox'.old <= inbox'.base)
  <2>1. CASE UNCHANGED inbox
    BY <2>1 DEF LoginIInv, CodeFits
  <2>2. CASE inbox' = [inbox EXCEPT !.old = inbox.latest, !.base = 0, !.noted = FALSE]
    <3>1. inbox'.old = inbox.latest /\ inbox'.latest = inbox.latest /\ ~inbox'.noted
      BY <1>1, <2>2
    <3>. QED  BY <1>2, <3>1
  <2>. QED  BY <2>1, <2>2
<1>6. /\ drive' \in DriveRecord /\ drive'.pc = pc /\ drive'.met = met /\ drive'.entered = {}
      /\ drive'.error = "none" /\ drive'.returned = "none" /\ drive'.reason = "none"
  BY FreshFits
<1>7. LoginTypeOK'
  BY <1>4, <1>6 DEF LoginIInv, LoginInv, LoginTypeOK
<1>8. SuccessWasMet' /\ EntersNewCodes' /\ ErrorIsPreserved'
  BY <1>6 DEF SuccessWasMet, EntersNewCodes, ErrorIsPreserved
<1>9. CodeFits' /\ OutcomeFits'
  BY <1>5, <1>6 DEF CodeFits, OutcomeFits
<1>. QED  BY <1>7, <1>8, <1>9 DEF LoginIInv, LoginInv

LEMMA FlowsInit ==
  ASSUME RegisterInit
  PROVE  FlowsIInv
<1>. 0..1 \subseteq 0..MaxMails
  BY LoginAssumption DEF LoginAssumption
<1>1. FormIInv
  BY DEF RegisterInit, NoForm, FormIInv, FormTypeOK, FormPc, ForcedIsWanted
<1>2. ExchangeIInv
  BY ExchangeInit DEF RegisterInit
<1>3. LoginIInv
  <2>1. setting \in Setting
    BY DEF RegisterInit
  <2>2. CASE drive = NewDrive /\ \E held \in 0..1 : inbox = NewInbox(held)
    <3>1. PICK held \in 0..1 : inbox = NewInbox(held)
      BY <2>2
    <3>2. drive = DriveAt("note", FALSE) /\ held \in 0..MaxMails
      BY <2>2 DEF NewDrive
    <3>. QED  BY <2>1, <3>1, <3>2, LoginStarts
  <2>3. CASE drive = DriveAt("idle", FALSE) /\ inbox = NewInbox(0)
    <3>1. 0 \in 0..MaxMails
      OBVIOUS
    <3>. QED  BY <2>1, <2>3, <3>1, LoginStarts
  <2>. QED  BY Zenon, <2>2, <2>3 DEF RegisterInit
<1>4. RegIInv
  <2>1. PICK pc \in {"open", "idle"} : 
          reg = [pc |-> pc, round |-> 1, hits |-> 0, coded |-> FALSE,
                 logins |-> 0, reason |-> "none", blocked |-> FALSE]
    BY DEF RegisterInit, NewReg
  <2>2. RegTypeOK
    BY <2>1 DEF RegTypeOK, RegRecord, RegPc, RegReason
  <2>3. LoginsAreWarranted /\ RegFits
    BY <2>1 DEF LoginsAreWarranted, RegFits, AfterCodePc
  <2>. QED  BY <2>2, <2>3 DEF RegIInv
<1>. QED  BY <1>1, <1>2, <1>3, <1>4 DEF FlowsIInv

(* The other flows leave the registration what it counts on.               *)
LEMMA RegStays ==
  ASSUME RegIInv, UNCHANGED reg, drive.pc = "ok" => UNCHANGED drive,
         exch.pc = "done" => UNCHANGED exch
  PROVE  RegIInv'
<1>1. RegTypeOK' /\ LoginsAreWarranted'
  BY DEF RegIInv, RegTypeOK, LoginsAreWarranted
<1>2. RegFits'
  BY DEF RegIInv, RegFits
<1>. QED  BY <1>1, <1>2 DEF RegIInv

LEMMA OverIsOver ==
  /\ LoginStep \/ CodeArrives => drive.pc # "ok"
  /\ ExchangeStep => exch.pc # "done"
<1>1. LoginStep => drive.pc # "ok"
  <2>1. \A pc \in LoginPc \ {"ok"} : At(pc) => drive.pc # "ok"
    BY DEF At
  <2>2. DriverDies => drive.pc # "ok"
    BY DEF DriverDies
  <2>3. LoginStep => DriverDies \/ \E pc \in LoginPc \ {"ok"} : At(pc)
    <3>. {"note", "open", "nEmail", "nPassword", "nFill", "nCode", "nDirect", "nFetch",
          "nEnter", "nBack", "nEnd", "fallback", "seek", "lost", "submit", "rounds",
          "password", "otp", "locateNative", "locate", "still", "fetch", "enter", "check",
          "back", "late", "failing", "finish"} \subseteq LoginPc \ {"ok"}
      BY DEF LoginPc
    <3>1. NoteInbox \/ Open \/ NativeEmail \/ NativePasswordStage \/ NativePassword
            \/ NativeCodeOrCallback \/ NativeDirect \/ NativeFetch \/ NativeEnter
            => \E pc \in LoginPc \ {"ok"} : At(pc)
      BY DEF NoteInbox, Open, NativeEmail, NativePasswordStage, NativePassword,
         NativeCodeOrCallback, NativeDirect, NativeFetch, NativeEnter
    <3>2. NativeBack \/ NativeEnd \/ Fallback \/ Seek \/ Lost \/ SubmitEmail
            \/ StartRounds \/ PasswordRound
            => \E pc \in LoginPc \ {"ok"} : At(pc)
      BY DEF NativeBack, NativeEnd, Fallback, Seek, Lost, SubmitEmail, StartRounds,
         PasswordRound
    <3>3. AwaitOtpStage \/ LocateNative \/ Locate \/ StillThere \/ FetchCode \/ EnterCode
            => \E pc \in LoginPc \ {"ok"} : At(pc)
      BY DEF AwaitOtpStage, LocateNative, Locate, StillThere, FetchCode, EnterCode
    <3>4. CheckCode \/ AwaitCallback \/ LateCallback \/ Failing \/ Finish
            => \E pc \in LoginPc \ {"ok"} : At(pc)
      BY DEF CheckCode, AwaitCallback, LateCallback, Failing, Finish
    <3>. QED  BY Zenon, <3>1, <3>2, <3>3, <3>4 DEF LoginStep
  <2>. QED  BY Zenon, <2>1, <2>2, <2>3
<1>2. CodeArrives => drive.pc # "ok"
  BY DEF CodeArrives
<1>3. ExchangeStep => exch.pc # "done"
  BY DEF ExchangeStep, Validate, Post, NextRoute, ReadTokens
<1>. QED  BY <1>1, <1>2, <1>3

LEMMA LoginStays ==
  ASSUME LoginIInv, UNCHANGED loginVars
  PROVE  LoginIInv'
BY DEF LoginIInv, LoginInv, LoginTypeOK, SuccessWasMet, EntersNewCodes, ErrorIsPreserved,
   CodeFits, OutcomeFits, loginVars, NewCodes

LEMMA FormStays ==
  ASSUME FormIInv, UNCHANGED form
  PROVE  FormIInv'
BY DEF FormIInv, FormTypeOK, ForcedIsWanted

LEMMA ExchangeStays ==
  ASSUME ExchangeIInv, UNCHANGED exch
  PROVE  ExchangeIInv'
BY DEF ExchangeIInv, ExchangeTypeOK, ExchangeIsFinal, ExchangeFits

(* ----------------- the steps of the registration itself ---------------- *)
LEMMA ProfileKeeps ==
  ASSUME FlowsIInv, StartProfile \/ EndProfile
  PROVE  FlowsIInv'
<1>1. /\ LoginIInv /\ FormIInv /\ ExchangeIInv /\ RegIInv /\ reg \in RegRecord
      /\ UNCHANGED <<loginVars, drive, exch>>
  BY DEF FlowsIInv, RegIInv, RegTypeOK, StartProfile, EndProfile, loginVars
<1>2. LoginIInv' /\ ExchangeIInv'
  BY <1>1, LoginStays, ExchangeStays
<1>3. CASE StartProfile
  <2>1. PICK mode \in SubmitMode : form' = [NoForm EXCEPT !.pc = "begin", !.mode = mode]
    BY <1>3 DEF StartProfile
  <2>2. FormIInv'
    BY <2>1 DEF NoForm, FormIInv, FormTypeOK, FormPc, ForcedIsWanted
  <2>3. RegIInv'
    BY <1>1, <1>3, RegStays DEF StartProfile
  <2>. QED  BY <1>2, <2>2, <2>3 DEF FlowsIInv
<1>4. CASE EndProfile
  <2>1. FormIInv'
    BY <1>4 DEF EndProfile, NoForm, FormIInv, FormTypeOK, FormPc, ForcedIsWanted
  <2>2. /\ reg.pc = "profile" /\ reg.coded /\ reg.logins = 0 /\ ~reg.blocked
    BY <1>1, <1>4 DEF EndProfile, RegAt, RegIInv, RegFits, BeforeLogin
  <2>3. CASE RegTo("callback")
    <3>1. \A n, hits \in Nat : [reg EXCEPT !.pc = "callback", !.round = n, !.hits = hits] \in RegRecord
      BY <1>1 DEF RegRecord, RegPc
    <3>2. reg' \in RegRecord
      BY <2>3, <3>1 DEF RegTo
    <3>3. reg'.pc = "callback" /\ reg'.coded /\ reg'.logins = 0 /\ ~reg'.blocked
      BY <1>1, <2>2, <2>3 DEF RegTo, RegRecord
    <3>4. RegTypeOK' /\ LoginsAreWarranted' /\ RegFits'
      BY <3>2, <3>3 DEF RegTypeOK, LoginsAreWarranted, RegFits
    <3>. QED  BY <1>2, <2>1, <3>4 DEF FlowsIInv, RegIInv
  <2>4. CASE reg' = [reg EXCEPT !.pc = "failed", !.reason = "terms", !.blocked = TRUE]
    <3>1. reg' \in RegRecord
      BY <1>1, <2>4 DEF RegRecord, RegPc, RegReason
    <3>2. reg'.pc = "failed" /\ reg'.logins = 0
      BY <1>1, <2>2, <2>4 DEF RegRecord
    <3>3. RegTypeOK' /\ LoginsAreWarranted' /\ RegFits'
      BY <3>1, <3>2 DEF RegTypeOK, LoginsAreWarranted, RegFits, AfterCodePc, BeforeLogin,
         SignUpPc, BeforeCode
    <3>. QED  BY <1>2, <2>1, <3>3 DEF FlowsIInv, RegIInv
  <2>. QED  BY <1>4, <2>3, <2>4 DEF EndProfile
<1>. QED  BY <1>3, <1>4

(* What goes wrong before the first login is over is handled once.         *)
LEMMA RaisesFits ==
  ASSUME RegIInv, reg.pc \in {"callback", "validate", "login", "exchange"},
         reg.logins \in 0..1, NEW reason \in RegReason, Raises(reason)
  PROVE  RegIInv'
<1>1. reg \in RegRecord /\ reg.coded /\ ~reg.blocked
  BY DEF RegIInv, RegTypeOK, RegFits
<1>2. \A n \in Nat : [reg EXCEPT !.pc = "handler", !.reason = reason, !.round = n,
                                 !.blocked = (reason = "terms")] \in RegRecord
  BY <1>1 DEF RegRecord, RegPc
<1>3. reg' = [reg EXCEPT !.pc = "handler", !.reason = reason, !.round = 1,
                         !.blocked = (reason = "terms")]
  BY <1>1 DEF Raises, RegRecord
<1>4. reg' \in RegRecord
  BY <1>2, <1>3
<1>5. /\ reg'.pc = "handler" /\ reg'.reason = reason /\ reg'.coded
      /\ reg'.blocked = (reason = "terms") /\ reg'.logins = reg.logins
  BY <1>1, <1>3 DEF RegRecord
<1>6. RegTypeOK' /\ LoginsAreWarranted' /\ RegFits'
  BY <1>4, <1>5 DEF RegTypeOK, LoginsAreWarranted, RegFits, BeforeLogin, SignUpPc,
     BeforeCode, AfterCodePc
<1>. QED  BY <1>6 DEF RegIInv

LEMMA RegFailsFits ==
  ASSUME RegIInv, reg.coded, NEW reason \in RegReason, RegFails(reason)
  PROVE  RegIInv'
<1>1. reg \in RegRecord
  BY DEF RegIInv, RegTypeOK
<1>2. reg' \in RegRecord
  BY <1>1 DEF RegFails, RegRecord, RegPc
<1>3. reg'.pc = "failed" /\ reg'.coded
  BY <1>1 DEF RegFails, RegRecord
<1>4. RegTypeOK' /\ LoginsAreWarranted' /\ RegFits'
  BY <1>2, <1>3 DEF RegTypeOK, LoginsAreWarranted, RegFits, BeforeLogin, SignUpPc,
     BeforeCode, AfterCodePc
<1>. QED  BY <1>4 DEF RegIInv

LEMMA CallbackStageKeeps ==
  ASSUME FlowsIInv, WaitForCallback
  PROVE  FlowsIInv'
<1>1. /\ LoginIInv /\ FormIInv /\ ExchangeIInv /\ RegIInv /\ reg \in RegRecord
      /\ UNCHANGED <<loginVars, drive, form, exch>>
  BY DEF FlowsIInv, RegIInv, RegTypeOK, WaitForCallback, loginVars
<1>2. LoginIInv' /\ FormIInv' /\ ExchangeIInv'
  BY <1>1, LoginStays, FormStays, ExchangeStays
<1>3. reg.pc = "callback" /\ reg.coded /\ reg.logins = 0 /\ ~reg.blocked
  BY <1>1 DEF WaitForCallback, RegAt, RegIInv, RegFits, BeforeLogin
<1>. PICK n \in Nat : n = reg.round + 1
  BY <1>1 DEF RegRecord
<1>4. CASE \E reason \in {"phone", "terms", "web login", "callback timeout"} : Raises(reason)
  <2>1. RegIInv'
    <3>1. PICK reason \in RegReason : Raises(reason)
      BY <1>4 DEF RegReason
    <3>. QED  BY <1>1, <1>3, <3>1, RaisesFits
  <2>. QED  BY <1>2, <2>1 DEF FlowsIInv
<1>5. CASE RegTo("validate")
  <2>1. \A k, hits \in Nat : [reg EXCEPT !.pc = "validate", !.round = k, !.hits = hits] \in RegRecord
    BY <1>1 DEF RegRecord, RegPc
  <2>2. reg' \in RegRecord
    BY <1>5, <2>1 DEF RegTo
  <2>3. reg'.pc = "validate" /\ reg'.coded /\ reg'.logins = 0 /\ ~reg'.blocked
    BY <1>1, <1>3, <1>5 DEF RegTo, RegRecord
  <2>4. RegTypeOK' /\ LoginsAreWarranted' /\ RegFits'
    BY <2>2, <2>3 DEF RegTypeOK, LoginsAreWarranted, RegFits
  <2>. QED  BY <1>2, <2>4 DEF FlowsIInv, RegIInv
<1>6. CASE reg' = [reg EXCEPT !.round = n]
  <2>1. reg' \in RegRecord
    BY <1>1, <1>6 DEF RegRecord
  <2>2. reg'.pc = "callback" /\ reg'.coded /\ reg'.logins = 0 /\ ~reg'.blocked
    BY <1>1, <1>3, <1>6 DEF RegRecord
  <2>3. RegTypeOK' /\ LoginsAreWarranted' /\ RegFits'
    BY <2>1, <2>2 DEF RegTypeOK, LoginsAreWarranted, RegFits
  <2>. QED  BY <1>2, <2>3 DEF FlowsIInv, RegIInv
<1>7. \/ \E reason \in {"phone", "terms", "web login", "callback timeout"} : Raises(reason)
      \/ RegTo("validate") \/ reg' = [reg EXCEPT !.round = n]
  BY DEF WaitForCallback
<1>. QED  BY <1>4, <1>5, <1>6, <1>7

(* Where a login is warranted.                                             *)
LEMMA BeginLoginKeeps ==
  ASSUME FlowsIInv, reg.pc \in {"validate", "handler"}, ~reg.blocked, BeginLogin
  PROVE  FlowsIInv'
<1>1. LoginIInv /\ FormIInv /\ ExchangeIInv /\ RegIInv /\ reg \in RegRecord
  BY DEF FlowsIInv, RegIInv, RegTypeOK
<1>2. FormIInv' /\ ExchangeIInv'
  BY <1>1, FormStays, ExchangeStays DEF BeginLogin
<1>3. LoginIInv'
  <2>1. PICK pc \in {"note", "ok", "failed"}, met \in BOOLEAN :
          (pc = "ok" => met) /\ drive' = DriveAt(pc, met)
    BY DEF BeginLogin, NewDrive
  <2>2. /\ UNCHANGED setting
        /\ inbox' = [inbox EXCEPT !.old = inbox.latest, !.base = 0, !.noted = FALSE]
    BY DEF BeginLogin
  <2>. QED  BY <1>1, <2>1, <2>2, LoginRestarts
<1>4. reg.coded /\ reg.logins \in 0..1
  BY <1>1 DEF RegIInv, RegFits, BeforeLogin
<1>5. PICK n \in 0..2 : n = reg.logins + 1
  BY <1>4
<1>6. reg' = [reg EXCEPT !.pc = "login", !.logins = n, !.reason = "none"]
  BY <1>5 DEF BeginLogin
<1>7. reg' \in RegRecord
  BY <1>1, <1>6 DEF RegRecord, RegPc, RegReason
<1>8. reg'.pc = "login" /\ reg'.coded /\ ~reg'.blocked
  BY <1>1, <1>4, <1>6 DEF RegRecord
<1>9. RegTypeOK' /\ LoginsAreWarranted' /\ RegFits'
  BY <1>7, <1>8 DEF RegTypeOK, LoginsAreWarranted, RegFits, BeforeLogin, SignUpPc,
     BeforeCode, AfterCodePc
<1>. QED  BY <1>2, <1>3, <1>9 DEF FlowsIInv, RegIInv

LEMMA HandleKeeps ==
  ASSUME FlowsIInv, ValidateStage1 \/ Handle
  PROVE  FlowsIInv'
<1>1. LoginIInv /\ FormIInv /\ ExchangeIInv /\ RegIInv /\ reg \in RegRecord
  BY DEF FlowsIInv, RegIInv, RegTypeOK
<1>2. CASE ValidateStage1
  <2>1. reg.pc = "validate" /\ ~reg.blocked /\ reg.logins = 0
    BY <1>1, <1>2 DEF ValidateStage1, RegAt, RegIInv, RegFits, BeforeLogin
  <2>2. CASE BeginLogin
    BY <2>1, <2>2, BeginLoginKeeps
  <2>3. CASE Raises("invalid") /\ UNCHANGED <<loginVars, form, exch>>
    <3>1. LoginIInv' /\ FormIInv' /\ ExchangeIInv'
      BY <1>1, <2>3, LoginStays, FormStays, ExchangeStays
    <3>2. RegIInv'
      BY <1>1, <2>1, <2>3, RaisesFits DEF RegReason
    <3>. QED  BY <3>1, <3>2 DEF FlowsIInv
  <2>. QED  BY <1>2, <2>2, <2>3 DEF ValidateStage1
<1>3. CASE Handle
  <2>1. reg.pc = "handler" /\ reg.coded /\ reg.reason \in RegReason
    BY <1>1, <1>3 DEF Handle, RegAt, RegIInv, RegFits, RegRecord
  <2>2. CASE BeginLogin /\ reg.reason # "terms"
    <3>1. ~reg.blocked
      BY <1>1, <2>1, <2>2 DEF RegIInv, RegFits
    <3>. QED  BY <2>1, <2>2, <3>1, BeginLoginKeeps
  <2>3. CASE RegFails(reg.reason) /\ UNCHANGED <<loginVars, form, exch>>
    <3>1. LoginIInv' /\ FormIInv' /\ ExchangeIInv'
      BY <1>1, <2>3, LoginStays, FormStays, ExchangeStays
    <3>2. RegIInv'
      BY <1>1, <2>1, <2>3, RegFailsFits
    <3>. QED  BY <3>1, <3>2 DEF FlowsIInv
  <2>4. \/ BeginLogin /\ reg.reason # "terms"
        \/ RegFails(reg.reason) /\ UNCHANGED <<loginVars, form, exch>>
    BY <1>3 DEF Handle, Handles
  <2>. QED  BY <2>2, <2>3, <2>4
<1>. QED  BY <1>2, <1>3

LEMMA RaisesOnceFits ==
  ASSUME RegIInv, reg.pc \in {"login", "exchange"}, NEW reason \in RegReason,
         RaisesOnce(reason)
  PROVE  RegIInv'
<1>1. reg.coded
  BY DEF RegIInv, RegFits
<1>. QED  BY <1>1, RaisesFits, RegFailsFits DEF RaisesOnce

LEMMA EndLoginKeeps ==
  ASSUME FlowsIInv, EndLogin
  PROVE  FlowsIInv'
<1>1. /\ LoginIInv /\ FormIInv /\ ExchangeIInv /\ RegIInv /\ reg \in RegRecord
      /\ drive \in DriveRecord
  BY DEF FlowsIInv, RegIInv, RegTypeOK, LoginIInv, LoginInv, LoginTypeOK
<1>2. FormIInv'
  BY <1>1, FormStays DEF EndLogin
<1>3. /\ reg.pc = "login" /\ reg.coded /\ ~reg.blocked /\ drive.pc \in {"ok", "failed"}
  BY <1>1 DEF EndLogin, RegAt, RegIInv, RegFits
<1>4. LoginIInv'
  <2>1. drive.met \in BOOLEAN /\ (drive.pc = "ok" => drive.met)
    BY <1>1 DEF DriveRecord, LoginIInv, LoginInv, SuccessWasMet
  <2>2. UNCHANGED <<setting, inbox>> /\ drive' = DriveAt(drive.pc, drive.met)
    BY DEF EndLogin
  <2>. QED  BY <1>1, <1>3, <2>1, <2>2, LoginRestarts
<1>5. CASE drive.pc = "ok"
  <2>1. PICK callback \in Callback : StartExchange(callback)
    BY <1>5 DEF EndLogin
  <2>2. ExchangeIInv'
    BY <2>1, ExchangeStarts
  <2>3. reg' = [reg EXCEPT !.pc = "exchange"]
    BY <1>5 DEF EndLogin
  <2>4. reg' \in RegRecord
    BY <1>1, <2>3 DEF RegRecord, RegPc
  <2>5. reg'.pc = "exchange" /\ reg'.coded /\ ~reg'.blocked
    BY <1>1, <1>3, <2>3 DEF RegRecord
  <2>6. drive'.pc = "ok"
    BY <1>5 DEF EndLogin, DriveAt
  <2>7. RegTypeOK' /\ LoginsAreWarranted' /\ RegFits'
    BY <2>4, <2>5, <2>6 DEF RegTypeOK, LoginsAreWarranted, RegFits, BeforeLogin, SignUpPc,
       BeforeCode, AfterCodePc
  <2>. QED  BY <1>2, <1>4, <2>2, <2>7 DEF FlowsIInv, RegIInv
<1>6. CASE drive.pc = "failed"
  <2>1. UNCHANGED exch
    BY <1>6 DEF EndLogin
  <2>2. RegFails("driver") \/ RaisesOnce("phone") \/ RaisesOnce("login")
    BY <1>6 DEF EndLogin
  <2>3. {"driver", "phone", "login"} \subseteq RegReason
    BY DEF RegReason
  <2>4. RegIInv'
    BY <1>1, <1>3, <2>2, <2>3, RaisesOnceFits, RegFailsFits
  <2>. QED  BY <1>1, <1>2, <1>4, <2>1, <2>4, ExchangeStays DEF FlowsIInv
<1>. QED  BY <1>3, <1>5, <1>6

LEMMA EndExchangeKeeps ==
  ASSUME FlowsIInv, EndExchange
  PROVE  FlowsIInv'
<1>1. /\ LoginIInv /\ FormIInv /\ ExchangeIInv /\ RegIInv /\ reg \in RegRecord
      /\ UNCHANGED <<loginVars, drive, form>>
  BY DEF FlowsIInv, RegIInv, RegTypeOK, EndExchange, loginVars
<1>2. LoginIInv' /\ FormIInv'
  BY <1>1, LoginStays, FormStays
<1>3. reg.pc = "exchange" /\ reg.coded /\ ~reg.blocked /\ drive.pc = "ok"
  BY <1>1 DEF EndExchange, RegAt, RegIInv, RegFits
<1>4. CASE exch.pc = "done"
  <2>1. reg' = [reg EXCEPT !.pc = "done"] /\ UNCHANGED exch
    BY <1>4 DEF EndExchange
  <2>2. reg' \in RegRecord
    BY <1>1, <2>1 DEF RegRecord, RegPc
  <2>3. reg'.pc = "done" /\ reg'.coded /\ ~reg'.blocked
    BY <1>1, <1>3, <2>1 DEF RegRecord
  <2>4. RegTypeOK' /\ LoginsAreWarranted' /\ RegFits'
    BY <1>1, <1>3, <1>4, <2>1, <2>2, <2>3 DEF RegTypeOK, LoginsAreWarranted, RegFits,
       BeforeLogin, SignUpPc, BeforeCode, AfterCodePc
  <2>. QED  BY <1>1, <1>2, <2>1, <2>4, ExchangeStays DEF FlowsIInv, RegIInv
<1>5. CASE exch.pc # "done"
  <2>1. exch' = NoExchange /\ RaisesOnce("exchange")
    BY <1>5 DEF EndExchange
  <2>2. ExchangeIInv'
    <3>1. ExchangeTypeOK'
      BY <2>1, Tried DEF NoExchange, ExchangeTypeOK, Callback
    <3>2. ExchangeIsFinal' /\ ExchangeFits'
      BY <2>1 DEF NoExchange, ExchangeIsFinal, ExchangeFits
    <3>. QED  BY <3>1, <3>2 DEF ExchangeIInv
  <2>3. RegIInv'
    BY <1>1, <1>3, <2>1, RaisesOnceFits DEF RegReason
  <2>. QED  BY <1>2, <2>2, <2>3 DEF FlowsIInv
<1>. QED  BY <1>4, <1>5

-----------------------------------------------------------------------------
(* Whatever the pages show and in whatever order the flows move: a login   *)
(* succeeds on what it has seen and enters only new codes, the form forces *)
(* only the wanted birthday, a code is sent once for this request and for  *)
(* no other, and a registration logs in only where that is warranted.      *)
THEOREM FlowsAreSafe == RegisterSpec => []FlowsInv
<1>1. RegisterInit => FlowsIInv
  BY FlowsInit
<1>2. FlowsIInv /\ [RegisterNext]_regVars => FlowsIInv'
  <2>. SUFFICES ASSUME FlowsIInv, [RegisterNext]_regVars PROVE FlowsIInv'
    OBVIOUS
  <2>. /\ LoginIInv /\ FormIInv /\ ExchangeIInv /\ RegIInv
    BY DEF FlowsIInv
  <2>1. CASE SignUpStep /\ UNCHANGED <<loginVars, form, exch>>
    <3>1. RegIInv'
      BY <2>1, SignUpStepKeeps DEF loginVars
    <3>. QED  BY <2>1, <3>1, LoginStays, FormStays, ExchangeStays DEF FlowsIInv
  <2>2. CASE (FormStep \/ FieldResets) /\ UNCHANGED <<loginVars, exch, reg>>
    <3>1. FormIInv' /\ RegIInv'
      BY <2>2, FormStepKeeps, RegStays DEF loginVars
    <3>. QED  BY <2>2, <3>1, LoginStays, ExchangeStays DEF FlowsIInv
  <2>3. CASE (LoginStep \/ CodeArrives) /\ UNCHANGED <<setting, form, exch, reg>>
    <3>1. LoginIInv' /\ RegIInv'
      BY <2>3, LoginStepKeeps, CodeArrivesKeeps, OverIsOver, RegStays
    <3>. QED  BY <2>3, <3>1, FormStays, ExchangeStays DEF FlowsIInv
  <2>4. CASE ExchangeStep /\ UNCHANGED <<loginVars, form, reg>>
    <3>1. ExchangeIInv' /\ RegIInv'
      BY <2>4, ExchangeStepKeeps, OverIsOver, RegStays DEF loginVars
    <3>. QED  BY <2>4, <3>1, LoginStays, FormStays DEF FlowsIInv
  <2>5. CASE UNCHANGED regVars
    <3>1. RegIInv'
      BY <2>5, RegStays DEF regVars, loginVars
    <3>. QED  BY <2>5, <3>1, LoginStays, FormStays, ExchangeStays DEF FlowsIInv, regVars
  <2>. QED
    BY <2>1, <2>2, <2>3, <2>4, <2>5, ProfileKeeps, CallbackStageKeeps, HandleKeeps,
       EndLoginKeeps, EndExchangeKeeps DEF RegisterNext, RegisterStep
<1>. QED  BY <1>1, <1>2, FlowsIInvIsEnough, PTL DEF RegisterSpec

=============================================================================
