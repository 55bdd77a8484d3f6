---------------------------- MODULE RegisterFlow ----------------------------
(***************************************************************************)
(* run_register_flow: an account is created through the web channel, and   *)
(* then logged in to through another one, whose callback is exchanged for  *)
(* tokens.  The login is that of LoginFlow, the form in between that of    *)
(* AboutYou and the exchange that of OAuthExchange.  What stops the first  *)
(* of them after the account was made may lead to a second login.          *)
(***************************************************************************)
EXTENDS AboutYou, OAuthExchange

CONSTANTS
  PasswordWaits,   \* rounds of the waits on the page for the password
  CallbackWaits    \* retries of wait_for_callback_navigation

ASSUME RegisterAssumption ==
  PasswordWaits \in Nat \ {0} /\ CallbackWaits \in Nat \ {0}

VARIABLE reg

\* logins counts the logins; coded: the code of the account was entered;
\* blocked: a page said that the terms rule it out.
RegPc == {"idle", "open", "startup", "nStart", "nPassword", "nFill", "nCode",
          "nFetch", "nEnter", "nAfter", "reopen", "email", "password", "submit",
          "nOtp", "otp", "again", "fetch", "enter", "after", "segments", "profile",
          "callback", "validate", "handler", "login", "exchange", "done", "failed"}
RegReason == {"none", "network", "not reached", "no email", "mismatch", "blocked",
              "no password", "no otp stage", "no code", "no input", "rejected",
              "not advanced", "terms", "phone", "web login", "callback timeout",
              "invalid", "login", "driver", "exchange"}
NewReg == [pc |-> "open", round |-> 1, hits |-> 0, coded |-> FALSE,
           logins |-> 0, reason |-> "none", blocked |-> FALSE]

regVars == <<loginVars, form, exch, reg>>

RegAt(pc) == reg.pc = pc
RegTo(pc) == reg' = [reg EXCEPT !.pc = pc, !.round = 1, !.hits = 0]
RegFails(reason) == reg' = [reg EXCEPT !.pc = "failed", !.reason = reason]
Raises(reason) ==
  reg' = [reg EXCEPT !.pc = "handler", !.reason = reason, !.round = 1,
                     !.blocked = @ \/ reason = "terms"]

(* ------------------------ the account's page flow ---------------------- *)
(* The request is made in the browser itself, by two calls that may fail.  *)
OpenSignUp ==
  /\ RegAt("open")
  /\ \/ RegFails("network")
     \/ \E p \in Site : IF OnAuth(p) THEN RegTo("startup") ELSE RegFails("not reached")

(* What a page that is in the way is turned into by its button, by solving *)
(* or sitting out its challenge, or by another address.                    *)
Recovers(p, q) ==
  \/ IsTryAgainSurface(p) /\ ClicksAuthRetry(p) /\ ~IsTryAgainSurface(q) /\ ~IsBrokenSurface(q)
  \/ IsSecurityVerification(p)
  \/ ~IsSecurityVerification(p) /\ IsBrokenSurface(p) /\ ~IsBrokenSurface(q)

(* Up to three rounds that end on a stage or on whatever there is then.    *)
StartSignUp ==
  /\ RegAt("startup")
  /\ RegTo(IF Camoufox THEN "nStart" ELSE "email")

(* run_native_register_auth_flow: whatever goes wrong, the flow starts over. *)
NativeReg(good, next) == RegTo(IF good THEN next ELSE "reopen")

NativeStart ==
  /\ RegAt("nStart")
  /\ \E p \in Site :
       NativeReg(Stage(p) \in {"password", "code"} \/ NativeFillsEmail(p),
                 IF Stage(p) = "code" THEN "nCode" ELSE "nPassword")
NativeSignUpStage ==
  RegAt("nPassword") /\ \E p \in Site : NativeReg(Stage(p) = "password", "nFill")
NativeSignUpPassword ==
  RegAt("nFill") /\ \E p \in Site : NativeReg(NativeFillsPassword(p), "nCode")
NativeSignUpCode ==
  /\ RegAt("nCode")
  /\ \E p \in Site :
       NativeReg(Stage(p) = "code" /\ ~CallbackMatched(p, "webCallback"), "nFetch")

(* The mailbox is new, so that any code in it is taken.                    *)
NativeSignUpFetch ==
  /\ RegAt("nFetch")
  /\ (inbox.latest > 0 /\ RegTo("nEnter")) \/ RegTo("reopen")

CodeEntered(next) == reg' = [reg EXCEPT !.pc = next, !.coded = TRUE]
NativeSignUpEnter ==
  /\ RegAt("nEnter")
  /\ \E p \in Site : IF NativeSubmitsCode(p) THEN CodeEntered("nAfter") ELSE RegTo("reopen")

NativeSignUpAfter ==
  /\ RegAt("nAfter")
  /\ \E progress \in Looks(LAMBDA p : NativeProgress(p, "webCallback")) :
       NativeReg(progress \in {"callback", "about-you", "advanced"}, "profile")

ReopenSignUp ==
  /\ RegAt("reopen")
  /\ \E p \in Site : IF OnAuth(p) THEN RegTo("email") ELSE RegFails("not reached")

(* The email is skipped when its page is already past.  The rounds after   *)
(* it, which submit it again on a page that has not moved, change nothing  *)
(* that is kept.                                                           *)
SignUpEmail ==
  /\ RegAt("email")
  /\ \E p, q \in Site :
       CASE \/ Camoufox /\ NativeFillsEmail(p)
            \/ IsPasswordStage(p, Camoufox)
            \/ /\ ~IsEmailStage(p, Camoufox) /\ Recovers(p, q)
               /\ IsPasswordStage(q, Camoufox) -> RegTo("password")
         [] OTHER -> IF HasEmailInput(q) THEN RegTo("password") \/ RegFails("mismatch")
                     ELSE RegFails("no email")

(* After the last round whatever has the focus is taken for the field.     *)
LastLook(p) ==
  CASE p.inputs \ {"email"} # {} -> "field"
    [] p.inputs \ {"email"} = {} /\ BlocksSignUp(p, Camoufox) -> "blocked"
    [] OTHER -> "no password"
PasswordRoundEnds(hits) ==
  IF reg.round < PasswordWaits THEN reg' = [reg EXCEPT !.round = @ + 1, !.hits = hits]
  ELSE \E last \in Looks(LastLook) :
         IF last = "field" THEN RegTo("submit") ELSE RegFails(last)

(* A page that stays blocked for as many rounds as there are ends the flow. *)
MeetsChallenge ==
  \/ PasswordRoundEnds(0)
  \/ IF reg.hits + 1 < PasswordWaits THEN PasswordRoundEnds(reg.hits + 1)
     ELSE RegFails("blocked")

PasswordLook(p) ==
  CASE BlocksSignUp(p, Camoufox) -> "blocked"
    [] ~BlocksSignUp(p, Camoufox) /\ HasPasswordInput(p) -> "field"
    [] OTHER -> "neither"

WaitForPassword ==
  /\ RegAt("password")
  /\ \E look, later \in Looks(PasswordLook) :
       CASE look = "blocked" -> MeetsChallenge
         [] look # "blocked" /\ later = "field" -> RegTo("submit")
         [] look # "blocked" /\ later = "blocked" -> MeetsChallenge
         [] OTHER -> PasswordRoundEnds(reg.hits)

SubmitSignUp ==
  /\ RegAt("submit")
  /\ \/ RegTo(IF Camoufox THEN "nOtp" ELSE "otp")
     \/ \E p \in Site : ~(Camoufox /\ NativeFillsPassword(p)) /\ RegFails("mismatch")

(* The native wait looks for the callback of the other channel.            *)
SignUpOtpNative ==
  /\ RegAt("nOtp")
  /\ \E p \in Site :
       RegTo(IF CallbackMatched(p, "callback") \/ Stage(p) = "code" THEN "fetch" ELSE "otp")

SignUpOtp ==
  /\ RegAt("otp")
  /\ \E p \in Site :
       CASE OtpStageOfSignUp(p, Camoufox) -> RegTo("fetch")
         [] ~OtpStageOfSignUp(p, Camoufox) /\ FailedToCreate(p) -> RegTo("again")
         [] OTHER -> RegFails("no otp stage")

(* A failure that passes is tried again, by a code or by the button.       *)
SignUpAgain ==
  /\ RegAt("again")
  /\ \E p, q \in Site :
       IF (ClicksOneTimeRecovery(p) \/ RetriesContinue(p)) /\ OtpStageOfSignUp(q, Camoufox)
       THEN RegTo("fetch")
       ELSE IF reg.round < PasswordWaits THEN reg' = [reg EXCEPT !.round = @ + 1]
       ELSE RegFails("no otp stage")

FetchSignUpCode ==
  /\ RegAt("fetch")
  /\ (inbox.latest > 0 /\ RegTo("enter")) \/ RegFails("no code")

(* Mutant: a field that was not found is not looked into.                  *)
EnterSignUpCodeBlindly ==
  /\ RegAt("enter")
  /\ \E p \in Site :
       IF HasCodeInput(p) THEN CodeEntered("after") ELSE RegTo("after")

(* A field that does not turn up in time may come as six boxes.            *)
EnterSignUpCode ==
  /\ RegAt("enter")
  /\ \E p, q \in Site :
       IF HasCodeInput(p) THEN CodeEntered("after")
       ELSE IF HasCodeInput(q) THEN CodeEntered("segments") ELSE RegFails("no input")

(* The boxes are not looked at for a rejection.                            *)
AfterSignUpCode ==
  /\ reg.pc \in {"after", "segments"}
  /\ \E p \in Site :
       CASE RegAt("after") /\ RejectsCode(p) -> RegFails("rejected")
         [] ~(RegAt("after") /\ RejectsCode(p)) /\ AfterCode(p) = "accepted" -> RegTo("profile")
         [] OTHER -> RegFails("not advanced")

SignUpStep ==
  \/ OpenSignUp \/ StartSignUp \/ NativeStart \/ NativeSignUpStage
  \/ NativeSignUpPassword \/ NativeSignUpCode \/ NativeSignUpFetch
  \/ NativeSignUpEnter \/ NativeSignUpAfter \/ ReopenSignUp \/ SignUpEmail
  \/ WaitForPassword \/ SubmitSignUp \/ SignUpOtpNative \/ SignUpOtp
  \/ SignUpAgain \/ FetchSignUpCode \/ EnterSignUpCode \/ AfterSignUpCode

-----------------------------------------------------------------------------
(* The form runs between these two.                                        *)
StartProfile ==
  /\ RegAt("profile") /\ form.pc = "idle"
  /\ \E mode \in SubmitMode : form' = [NoForm EXCEPT !.pc = "begin", !.mode = mode]
  /\ UNCHANGED <<loginVars, exch, reg>>

EndProfile ==
  /\ RegAt("profile") /\ form.pc \in {"done", "terms"}
  /\ IF form.pc = "done" THEN RegTo("callback")
     ELSE reg' = [reg EXCEPT !.pc = "failed", !.reason = "terms", !.blocked = TRUE]
  /\ form' = NoForm
  /\ UNCHANGED <<loginVars, exch>>

(* Each round looks for what rules the callback out before it waits; a tab *)
(* that went to the terms is taken back first.                             *)
WaitForCallback ==
  /\ RegAt("callback")
  /\ \E p, q \in Site :
       CASE IsPhoneWall(p) -> Raises("phone")
         [] ~IsPhoneWall(p) /\ IsTermsBlocked(p) -> Raises("terms")
         [] ~IsPhoneWall(p) /\ ~IsTermsBlocked(p) /\ CallbackMatched(q, "webCallback") ->
              RegTo("validate")
         [] ~IsPhoneWall(p) /\ ~IsTermsBlocked(p) /\ IsChatGptHome(q) -> Raises("web login")
         [] OTHER -> IF reg.round < CallbackWaits THEN reg' = [reg EXCEPT !.round = @ + 1]
                     ELSE Raises("callback timeout")
  /\ UNCHANGED <<loginVars, form, exch>>

(* A login begins on what the mailbox holds now, with a request of its own. *)
BeginLogin ==
  /\ reg' = [reg EXCEPT !.pc = "login", !.logins = @ + 1, !.reason = "none"]
  /\ drive' = NewDrive
  /\ inbox' = [inbox EXCEPT !.old = inbox.latest, !.base = 0, !.noted = FALSE]
  /\ UNCHANGED <<setting, form, exch>>

(* The address is read again; the tokens of this callback are not needed.  *)
ValidateStage1 ==
  /\ RegAt("validate")
  /\ \/ BeginLogin
     \/ Raises("invalid") /\ UNCHANGED <<loginVars, form, exch>>

(* Mutant: the terms are an error like the others.                         *)
HandlesAny(reason, home) == reason = "phone" \/ home

(* Which errors a second login may help with: whether the account has met  *)
(* a wall for phone numbers, or is logged in already.                      *)
Handles(reason, home) == reason # "terms" /\ (reason = "phone" \/ home)

Handle ==
  /\ RegAt("handler")
  /\ \E p \in Site :
       IF Handles(reg.reason, IsChatGptHome(p)) THEN BeginLogin
       ELSE RegFails(reg.reason) /\ UNCHANGED <<loginVars, form, exch>>

(* Mutant: the handler is gone through again for the second login.         *)
RaisesAgain(reason) == Raises(reason)

\* An error of the second login is not caught.
RaisesOnce(reason) == IF reg.logins = 1 THEN Raises(reason) ELSE RegFails(reason)

(* Some errors of a login are not RuntimeErrors; a time-out says where it  *)
(* ended, which may be the page that asks for a phone number.              *)
EndLogin ==
  /\ RegAt("login") /\ drive.pc \in {"ok", "failed"}
  /\ CASE drive.pc = "ok" ->
            /\ \E callback \in Callback :
                 /\ drive.url = "callback" \/ callback = "no code"
                 /\ StartExchange(callback)
            /\ reg' = [reg EXCEPT !.pc = "exchange"]
       [] drive.pc = "failed" /\ drive.reason \in {"unbound", "driver"} ->
            RegFails("driver") /\ UNCHANGED exch
       [] OTHER ->
            /\ RaisesOnce(IF drive.reason = "timeout" /\ drive.url = "phone" THEN "phone" ELSE "login")
            /\ UNCHANGED exch
  /\ drive' = DriveAt(drive.pc, drive.met)
  /\ UNCHANGED <<setting, inbox, form>>

EndExchange ==
  /\ RegAt("exchange") /\ exch.pc \in {"done", "failed"}
  /\ IF exch.pc = "done"
     THEN reg' = [reg EXCEPT !.pc = "done"]
     ELSE RaisesOnce("exchange")
  /\ exch' = IF exch.pc = "done" THEN exch ELSE NoExchange
  /\ UNCHANGED <<loginVars, form>>

RegisterStep ==
  \/ SignUpStep /\ UNCHANGED <<loginVars, form, exch>>
  \/ FormStep /\ UNCHANGED <<loginVars, exch, reg>>
  \/ StartProfile \/ EndProfile \/ WaitForCallback \/ ValidateStage1 \/ Handle
  \/ EndLogin \/ EndExchange
  \/ LoginStep /\ UNCHANGED <<setting, form, exch, reg>>
  \/ ExchangeStep /\ UNCHANGED <<loginVars, form, reg>>

RegisterNext ==
  \/ RegisterStep
  \/ CodeArrives /\ UNCHANGED <<setting, form, exch, reg>>
  \/ FieldResets /\ UNCHANGED <<loginVars, exch, reg>>

\* A registration, or a login by itself; the sign-up has no login yet.
RegisterInit ==
  /\ setting \in Setting /\ form = NoForm /\ exch = NoExchange
  /\ \/ /\ reg = [NewReg EXCEPT !.pc = "idle"] /\ drive = NewDrive
        /\ \E held \in 0..1 : inbox = NewInbox(held)
     \/ /\ setting.password /\ ~setting.web /\ ~setting.community
        /\ reg = NewReg /\ drive = DriveAt("idle", FALSE) /\ inbox = NewInbox(0)

\* Every wait in these flows has a deadline and every loop a last round.
RegisterSpec == RegisterInit /\ [][RegisterNext]_regVars /\ WF_regVars(RegisterStep)

-----------------------------------------------------------------------------
(* Properties. *)

RegRecord ==
  [pc : RegPc, round : Nat, hits : Nat, coded : BOOLEAN, logins : 0..2,
   reason : RegReason, blocked : BOOLEAN]
RegTypeOK == reg \in RegRecord

(* A registration logs in twice at most, only after the account's code was *)
(* entered, and never once the terms have ruled the account out            *)
(* (register_orchestrator.py:180-285).                                     *)
LoginsAreWarranted ==
  /\ reg.logins > 0 => reg.coded
  /\ reg.blocked => reg.pc \notin {"login", "exchange", "done"}

(* It ends well only with the tokens of its last request, whose callback a *)
(* login has waited for (register_orchestrator.py:196-240).                *)
DoneIsAnswered ==
  reg.pc = "done" => drive.met /\ exch.tokens /\ exch.cb = "good"

(* All that a registration and its login must never do, for one run.       *)
FlowsInv ==
  /\ LoginInv /\ FormTypeOK /\ ForcedIsWanted /\ ExchangeTypeOK /\ ExchangeIsFinal
  /\ RegTypeOK /\ LoginsAreWarranted /\ DoneIsAnswered

(* Every registration and every login ends, whatever the pages do.         *)
FlowsEnd ==
  <>(reg.pc \in {"done", "failed"} \/ (reg.pc = "idle" /\ drive.pc \in {"ok", "failed"}))
=============================================================================
