----------------------------- MODULE LoginFlow -----------------------------
(***************************************************************************)
(* repairer_drive_login_and_get_callback_url: a login that is driven page  *)
(* by page until it is called back, with a native run first on camoufox.   *)
(* The site answers as it likes: whatever is read between two waits is     *)
(* read off one page, and after a wait the page may be any other.  A wait  *)
(* ends on what it waits for or, at any time, at its deadline; a look that *)
(* finds nothing is a stutter.  A click on something offered works, a      *)
(* challenge may or may not be solved.                                     *)
(***************************************************************************)
EXTENDS AuthPages, Integers

CONSTANTS
  Site,            \* the pages the site may show
  Setting,         \* how logins are called for
  EmailRounds,     \* email_wait_rounds
  PasswordRounds,  \* bound: the code goes through 60 rounds
  MaxMails         \* bound on the codes that come in

ASSUME LoginAssumption ==
  /\ Site \subseteq PageRecord /\ DeadPage \in Site
  /\ Setting \subseteq [camoufox : BOOLEAN, web : BOOLEAN,
                        community : BOOLEAN, password : BOOLEAN]
  /\ EmailRounds \in Nat \ {0} /\ PasswordRounds \in Nat \ {0}
  /\ MaxMails \in Nat \ {0}

VARIABLES
  setting,  \* how this login was called for
  drive,     \* where it is and what it has found out
  inbox     \* the codes in its mailbox, numbered as they came in

loginVars == <<setting, drive, inbox>>

LoginPc ==
  {"idle", "note", "open", "nEmail", "nPassword", "nFill", "nCode", "nDirect",
   "nFetch", "nEnter", "nBack", "nEnd", "fallback", "seek", "lost", "submit",
   "rounds", "password", "otp", "locateNative", "locate", "still", "fetch",
   "enter", "check", "back", "late", "failing", "finish", "ok", "failed"}
Reason ==
  {"none", "not reached", "not returned", "blocked", "no email", "mismatch",
   "unbound", "no otp stage", "not located", "otp lost", "no input", "no quota",
   "otp timeout", "no code", "rejected", "auth error", "timeout", "driver"}

\* The locals of a stage are forgotten when it is left.
\* v: where the code goes; error: last_post_otp_auth_error_state; returned: the
\* stage a reload went back to; entered and met are what the properties ask for:
\* the codes entered, and whether a wait saw the target.
DriveAt(pc, met) ==
  [pc |-> pc, round |-> 1, skip |-> FALSE, sent |-> FALSE, asked |-> FALSE,
   hits |-> 0, v |-> "none", code |-> 0, entered |-> {}, tried |-> FALSE,
   error |-> "none", returned |-> "none", url |-> "none", reason |-> "none",
   met |-> met]
NewDrive == DriveAt("note", FALSE)
NewInbox(held) == [latest |-> held, base |-> 0, old |-> held, noted |-> FALSE]

At(pc) == drive.pc = pc
To(pc) == drive' = [drive EXCEPT !.pc = pc]
Fail(reason) == drive' = [drive EXCEPT !.pc = "failed", !.reason = reason]
Ends(url) == drive' = [drive EXCEPT !.pc = "ok", !.url = url]

Camoufox == setting.camoufox
\* A web login waits for no address, only for a page that users are shown.
Needle == IF setting.web THEN "" ELSE "callback"
Native == Camoufox /\ ~setting.web
Matches(p) == IsSuccessTarget(p, Needle, setting.web)

(* What one look may find, whichever page the site shows.                  *)
Looks(Found(_)) == { Found(p) : p \in Site }

(* What a wait for the surface to recover returns: a stage that it saw, or *)
(* none at its deadline.                                                   *)
RecoveredStage == Looks(LAMBDA p : SurfaceStage(p, Camoufox)) \cup {"none"}

-----------------------------------------------------------------------------
(* A lookup that fails leaves no baseline.                                 *)
NoteInbox ==
  /\ At("note")
  /\ \/ inbox' = [inbox EXCEPT !.base = inbox.latest, !.noted = TRUE]
     \/ UNCHANGED inbox
  /\ To("open")

(* A login from the community's site takes a click there, and has the      *)
(* browser warmed up on another site before.                               *)
OpensAuth(first, second) ==
  \/ OnAuth(first)
  \/ setting.community /\ "log in" \in first.buttons /\ OnAuth(second)
Opened == { OpensAuth(first, second) : first, second \in Site }

Open ==
  /\ At("open")
  /\ \E opened \in Opened :
       IF opened
       THEN To(IF Native /\ setting.password THEN "nEmail" ELSE "seek")
       ELSE Fail("not reached")
  /\ UNCHANGED inbox

(* ------------------- run_native_repair_login_flow ---------------------- *)
(* Whatever goes wrong in it, the login starts over without it.            *)
NativeStep(good, next) ==
  To(IF good THEN next ELSE "fallback") /\ UNCHANGED inbox

NativeEmail ==
  At("nEmail") /\ \E filled \in Looks(NativeFillsEmail) : NativeStep(filled, "nPassword")
NativePasswordStage ==
  At("nPassword") /\ \E stage \in Looks(Stage) : NativeStep(stage = "password", "nFill")
NativePassword ==
  At("nFill") /\ \E filled \in Looks(NativeFillsPassword) : NativeStep(filled, "nCode")

NativeCodeOrCallback ==
  /\ At("nCode")
  /\ \E p \in Site :
       NativeStep(CallbackMatched(p, Needle) \/ Stage(p) = "code",
                  IF CallbackMatched(p, Needle) THEN "nDirect" ELSE "nFetch")

(* The address is read again; when that fails the login goes on as if it   *)
(* had not been called back, on the page it is on.                         *)
NativeDirect ==
  /\ At("nDirect")
  /\ \E p \in Site :
       IF p.url = "none" THEN To("seek")
       ELSE drive' = [drive EXCEPT !.pc = "ok", !.url = p.url, !.met = TRUE]
  /\ UNCHANGED inbox

\* Mutant: the latest code is taken, whenever it came in.
AnyCodes == 1..inbox.latest

NewCodes == (inbox.base + 1)..inbox.latest

Fetched(next) == drive' = [drive EXCEPT !.pc = next, !.code = inbox.latest]

NativeFetch ==
  /\ At("nFetch")
  /\ \/ NewCodes # {} /\ Fetched("nEnter")
     \/ To("fallback")
  /\ UNCHANGED inbox

Entered(next) ==
  drive' = [drive EXCEPT !.pc = next, !.entered = @ \cup {drive.code}, !.code = 0, !.v = "none"]

NativeEnter ==
  /\ At("nEnter")
  /\ \E submitted \in Looks(NativeSubmitsCode) :
       IF submitted THEN Entered("nBack") ELSE To("fallback")
  /\ UNCHANGED inbox

NativeBack ==
  /\ At("nBack")
  /\ \E back \in Looks(LAMBDA p : CallbackMatched(p, Needle)) : NativeStep(back, "nEnd")

(* The address is read again, off the browser when the page has none.      *)
NativeEnd ==
  /\ At("nEnd")
  /\ \E p \in Site :
       IF CallbackMatched(p, Needle)
       THEN drive' = [drive EXCEPT !.pc = "ok", !.url = p.url, !.met = TRUE]
       ELSE To("fallback")
  /\ UNCHANGED inbox

Fallback ==
  /\ At("fallback")
  /\ \E returned \in Looks(OnAuth) : IF returned THEN To("seek") ELSE Fail("not returned")
  /\ UNCHANGED inbox

(* ------------------------- the email stage ----------------------------- *)
Skip == drive' = [drive EXCEPT !.pc = "submit", !.skip = TRUE]
NextSeek ==
  drive' = IF drive.round < EmailRounds THEN [drive EXCEPT !.round = @ + 1]
          ELSE [drive EXCEPT !.pc = "lost"]

(* What a look for the email field tells apart.                            *)
EmailLook(p) ==
  [password |-> IsPasswordStage(p, Camoufox), human |-> IsHumanVerify(p, Camoufox),
   email |-> HasEmailInput(p), landing |-> ClicksLanding(p)]

(* A landing page is clicked away in the first and in the last round; a    *)
(* round may end the loop on an email field that is gone by then.          *)
SeekAfterLanding ==
  \E stage \in RecoveredStage, email \in Looks(HasEmailInput) :
    CASE stage = "password" -> Skip
      [] stage # "password" /\ email -> To("submit")
      [] stage = "email" /\ ~email -> To("lost")
      [] OTHER -> NextSeek

(* A field that does not turn up in the round.                             *)
SeekLonger ==
  \E later \in Looks(EmailLook) :
    CASE later.email -> To("submit")
      [] ~later.email /\ later.landing /\ drive.round \in {1, EmailRounds} -> SeekAfterLanding
      [] OTHER -> NextSeek

Seek ==
  /\ At("seek")
  /\ \E look \in Looks(EmailLook) :
       IF look.password THEN Skip
       ELSE \/ look.human /\ NextSeek
            \/ IF look.email THEN To("submit") ELSE SeekLonger
  /\ UNCHANGED inbox

LostLook(p) ==
  CASE IsBlankShell(p) -> "blank"
    [] ~IsBlankShell(p) /\ ClicksLanding(p) -> "landing"
    [] OTHER -> "other"

(* A blank page is refreshed, reloaded and replaced until a stage shows.   *)
Lost ==
  /\ At("lost")
  /\ \E page \in Looks(LostLook), stage \in RecoveredStage, look \in Looks(EmailLook) :
       CASE page = "blank" /\ stage # "none" /\ look.password -> Skip
         [] page = "landing" /\ stage = "password" -> Skip
         [] /\ look.email
            /\ \/ page = "blank" /\ stage # "none" /\ ~look.password
               \/ page = "landing" /\ stage # "password" -> To("submit")
         [] OTHER -> Fail(IF page = "blank" THEN "blocked" ELSE "no email")
  /\ UNCHANGED inbox

(* When its submission was skipped, the time of it is never set.           *)
SubmitEmail ==
  /\ At("submit")
  /\ \/ drive' = [drive EXCEPT !.pc = "rounds", !.sent = ~drive.skip]
     \/ \E native \in Looks(NativeFillsEmail) :
          ~drive.skip /\ ~(Camoufox /\ native) /\ Fail("mismatch")
  /\ UNCHANGED inbox

(* last_email_submit_at is read.                                           *)
StartRounds ==
  /\ At("rounds")
  /\ IF drive.sent THEN drive' = [drive EXCEPT !.pc = "password", !.round = 1]
     ELSE Fail("unbound")
  /\ UNCHANGED inbox

(* ------------------------ the password stage --------------------------- *)
ToOtp(asked) ==
  drive' = [drive EXCEPT !.pc = "otp", !.round = 1, !.hits = 0, !.asked = asked]

(* After the last round the login goes on as if there had been a password. *)
NextPassword(hits) ==
  IF drive.round < PasswordRounds
  THEN drive' = [drive EXCEPT !.round = @ + 1, !.hits = hits]
  ELSE ToOtp(FALSE)

EnterPassword(p, hits) ==
  CASE /\ ~IsPasswordStage(p, Camoufox)
       /\ HasEmailInput(p) /\ InUnifiedContext(p) -> NextPassword(hits)
    [] OffersOneTimeCode(p) -> ToOtp(TRUE)
    [] ~OffersOneTimeCode(p) /\ HasPasswordInput(p) -> ToOtp(FALSE)
    [] OTHER -> NextPassword(hits)

(* The page is gone on with: by its button, by the email once more, and if *)
(* there is nothing to click or to submit as if it had no error.           *)
GoesOn(p, hits) ==
  IF ClicksTryAgain(p) THEN NextPassword(hits)
  ELSE \/ InUnifiedContext(p) /\ NextPassword(hits)
       \/ ~(InUnifiedContext(p) /\ Resubmits(p)) /\ EnterPassword(p, hits)

(* From the third page in a row with an error on, the login is opened anew; *)
(* the count stops where it makes no difference any more.                  *)
OnPasswordError ==
  LET hits == IF drive.hits < 3 THEN drive.hits + 1 ELSE 3
  IN  IF hits < 3 THEN \E p \in Site : PrePasswordError(p) /\ GoesOn(p, hits)
      ELSE \E error \in Looks(PrePasswordError), opened \in Opened :
             error /\ IF opened THEN NextPassword(hits) ELSE \E p \in Site : GoesOn(p, hits)

PasswordRound ==
  /\ At("password")
  /\ \/ \E human \in Looks(LAMBDA p : IsHumanVerify(p, Camoufox)) :
          human /\ NextPassword(drive.hits)
     \/ OnPasswordError
     \/ \E p \in Site : ~PrePasswordError(p) /\ EnterPassword(p, 0)
  /\ UNCHANGED inbox

(* --------------------------- the code stage ---------------------------- *)
OtpMoves(pc, v, asked) ==
  drive' = [drive EXCEPT !.pc = pc, !.v = v, !.asked = asked]

AwaitOtpStage ==
  /\ At("otp")
  /\ \/ \E p \in Site :
          LET reason == OtpStageReason(p, Camoufox, Needle, drive.asked)
          IN  \/ /\ reason # "none"
                 /\ OtpMoves(IF Camoufox THEN "locateNative" ELSE "locate",
                             IF reason = "callback" THEN "callback" ELSE "none", drive.asked)
              \/ /\ reason = "none" /\ OnPasswordPage(p) /\ OffersOneTimeCode(p)
                 /\ OtpMoves("otp", drive.v, TRUE)
     \/ Fail("no otp stage")
  /\ UNCHANGED inbox

InputOrStage(p) == IF HasCodeInput(p) THEN "input" ELSE "stage"

LocateNative ==
  /\ At("locateNative")
  /\ \E v \in Looks(LAMBDA p : CASE CallbackMatched(p, Needle) -> "callback"
                                 [] Stage(p) = "code" -> "code"
                                 [] OTHER -> drive.v),
        where \in Looks(InputOrStage) :
       OtpMoves("locate", IF v = "code" THEN where ELSE v, drive.asked)
  /\ UNCHANGED inbox

(* A page that only hints at a code has one sent; shown is whether a field *)
(* for it is there then.                                                   *)
Located(p, shown) ==
  CASE Matches(p) -> "callback"
    [] Camoufox /\ Stage(p) = "code" -> InputOrStage(p)
    [] HasCodeInput(p) -> "input"
    [] HintsAtCode(p, drive.asked) /\ shown -> "input"
    [] OTHER -> "none"

Locate ==
  /\ At("locate")
  /\ IF drive.v # "none" THEN OtpMoves("still", drive.v, FALSE)
     ELSE \/ \E shown \in Looks(HasCodeInput) :
               \E v \in Looks(LAMBDA p : Located(p, shown)) \ {"none"} : OtpMoves("still", v, FALSE)
          \/ Fail("not located")
  /\ UNCHANGED inbox

(* Mutant: an address that a look has taken for the callback is the end.    *)
CalledBackIsOver ==
  /\ At("still")
  /\ IF drive.v = "callback" THEN drive' = [drive EXCEPT !.pc = "finish", !.v = "none"]
     ELSE \E p \in Site :
            IF OtpStillPresent(p) THEN To("fetch") ELSE Fail("otp lost")
  /\ UNCHANGED inbox

StillThere ==
  /\ At("still")
  /\ IF drive.v = "callback" THEN OtpMoves("back", "none", drive.asked)
     ELSE \E p \in Site :
            IF OtpStillPresent(p) THEN To("fetch") ELSE Fail("otp lost")
  /\ UNCHANGED inbox

FetchCode ==
  /\ At("fetch")
  /\ \/ NewCodes # {} /\ Fetched("enter")
     \/ \E reason \in {"no quota", "otp timeout", "no code"} : Fail(reason)
  /\ UNCHANGED inbox

EnterCode ==
  /\ At("enter")
  /\ \E p \in Site :
       CASE Camoufox /\ NativeSubmitsCode(p) -> Entered("check")
         [] ~(Camoufox /\ NativeSubmitsCode(p)) /\ drive.v = "stage" ->
              IF HasCodeInput(p) THEN Entered("check") ELSE Fail("no input")
         [] OTHER -> IF OtpStillPresent(p) THEN Entered("check") ELSE Fail("otp lost")
  /\ UNCHANGED inbox

CheckCode ==
  /\ At("check")
  /\ \E incorrect \in Looks(SaysIncorrect), rejected \in Looks(RejectsCode) :
       IF incorrect /\ rejected THEN Fail("rejected") ELSE To("back")
  /\ UNCHANGED inbox

(* ------------------------- the callback -------------------------------- *)
Met == drive' = [drive EXCEPT !.pc = "finish", !.met = TRUE]

(* Mutant: every error is answered.                                        *)
RecoversAlways(p, next, unloaded) ==
  LET after == [drive EXCEPT !.tried = TRUE, !.error = AuthError(p)]
  IN  /\ AuthError(p) # "none" /\ ~IsTerminalError(p)
      /\ drive' = [after EXCEPT !.pc = next]

(* The first error is answered by its button, and else by a reload, which  *)
(* may lead back to the stages before or fail; there is no second answer.  *)
RecoverError(p, next, unloaded) ==
  LET after == [drive EXCEPT !.tried = TRUE, !.error = AuthError(p)]
  IN  /\ AuthError(p) # "none" /\ ~IsTerminalError(p) /\ ~drive.tried
      /\ \/ ClicksTryAgain(p) /\ drive' = [after EXCEPT !.pc = next]
         \/ \E stage \in RecoveredStage :
              drive' = IF stage = "none" THEN [after EXCEPT !.pc = next]
                      ELSE [after EXCEPT !.pc = "failing", !.returned = stage]
         \/ drive' = [after EXCEPT !.pc = unloaded]

(* The terminal error goes to a variable of the inner function only.       *)
SeesTerminal(p) ==
  IsTerminalError(p) /\ To("failing")

AwaitCallback ==
  /\ At("back")
  /\ \/ \E p \in Site :
          IF Matches(p) THEN Met
          ELSE /\ ~ClicksConsent(p)
               /\ SeesTerminal(p) \/ RecoverError(p, "back", "back")
     \/ To("late")
  /\ UNCHANGED inbox

(* After the deadline: one more wait for the address, one more consent, one *)
(* more look for an error.                                                 *)
LateCallback ==
  /\ At("late")
  /\ \/ \E met \in Looks(Matches) : met /\ Met
     \/ \E consents \in Looks(ClicksConsent), p \in Site :
          IF consents /\ Matches(p) THEN Met
          ELSE \/ SeesTerminal(p)
               \/ RecoverError(p, "back", "failing")
               \/ (AuthError(p) = "none" \/ drive.tried) /\ ~IsTerminalError(p) /\ To("failing")
  /\ UNCHANGED inbox

(* Mutant: only the page that is there now is looked at.                   *)
FailingByPage ==
  /\ At("failing")
  /\ \E p \in Site :
       CASE RejectsCode(p) -> Fail("rejected")
         [] ~RejectsCode(p) /\ AuthError(p) # "none" -> Fail("auth error")
         [] OTHER -> drive' = [drive EXCEPT !.pc = "failed", !.reason = "timeout",
                                          !.url = p.url]
  /\ UNCHANGED inbox

(* Why the login failed: what the page says now, and else what it said; a  *)
(* time-out is reported with the address.                                  *)
Failing ==
  /\ At("failing")
  /\ \E p \in Site :
       CASE RejectsCode(p) -> Fail("rejected")
         [] ~RejectsCode(p) /\ (AuthError(p) # "none" \/ drive.error # "none") ->
              Fail("auth error")
         [] OTHER -> drive' = [drive EXCEPT !.pc = "failed", !.reason = "timeout",
                                          !.url = p.url]
  /\ UNCHANGED inbox

(* The address is read again once the wait is over.                        *)
Finish ==
  /\ At("finish")
  /\ \E url \in Looks(LAMBDA p : p.url) : Ends(url)
  /\ UNCHANGED inbox

(* The browser is lost in a call that nothing guards.                      *)
DriverDies ==
  /\ drive.pc \in {"open", "fallback", "submit", "password", "enter"}
  /\ Fail("driver")
  /\ UNCHANGED inbox

CodeArrives ==
  /\ drive.pc \notin {"ok", "failed"}
  /\ inbox.latest < MaxMails
  /\ inbox' = [inbox EXCEPT !.latest = @ + 1]
  /\ UNCHANGED drive

LoginStep ==
  \/ NoteInbox \/ Open \/ NativeEmail \/ NativePasswordStage \/ NativePassword
  \/ NativeCodeOrCallback \/ NativeDirect \/ NativeFetch \/ NativeEnter
  \/ NativeBack \/ NativeEnd \/ Fallback \/ Seek \/ Lost \/ SubmitEmail
  \/ StartRounds \/ PasswordRound \/ AwaitOtpStage \/ LocateNative \/ Locate
  \/ StillThere \/ FetchCode \/ EnterCode \/ CheckCode \/ AwaitCallback
  \/ LateCallback \/ Failing \/ Finish \/ DriverDies

-----------------------------------------------------------------------------
(* Properties. *)

DriveRecord ==
  [pc : LoginPc, round : Nat, skip : BOOLEAN, sent : BOOLEAN, asked : BOOLEAN,
   hits : 0..3, v : {"none", "callback", "input", "stage"}, code : 0..MaxMails,
   entered : SUBSET (1..MaxMails), tried : BOOLEAN, error : {"none", "generic"},
   returned : {"none", "password", "email", "code"}, url : PageUrl,
   reason : Reason, met : BOOLEAN]

LoginTypeOK ==
  /\ setting \in Setting /\ drive \in DriveRecord
  /\ inbox \in [latest : 0..MaxMails, base : 0..MaxMails,
               old : 0..MaxMails, noted : BOOLEAN]

(* A login that succeeds has been seen at its target by one of its waits,  *)
(* whichever way it got there (repairer_flow.py:1957-2192).                *)
SuccessWasMet == drive.pc = "ok" => drive.met

(* If the mailbox could be looked at, no code of an earlier login is       *)
(* entered, on neither of the two ways (repairer_flow.py:771-787).         *)
EntersNewCodes ==
  inbox.noted => \A c \in drive.entered : c > inbox.old

(* A login that an error sent back to an earlier stage does not report a   *)
(* time-out, though that page is gone (repairer_flow.py:2146-2163).        *)
ErrorIsPreserved ==
  drive.reason = "timeout" => drive.error = "none" /\ drive.returned = "none"

(* The safety properties of a login, for one run.                          *)
LoginInv == LoginTypeOK /\ SuccessWasMet /\ EntersNewCodes /\ ErrorIsPreserved
=============================================================================
