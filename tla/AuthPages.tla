----------------------------- MODULE AuthPages -----------------------------
(***************************************************************************)
(* What the page flows of browser_runtime read off a page.  A page is      *)
(*   [url : the place it is at, inputs : the fields that are visible,      *)
(*    buttons : the labels that can be clicked, texts : what else it says] *)
(* and every predicate below says what one look of the code finds there:   *)
(* the selectors, the regular expressions and the scripts are abstracted   *)
(* to the members of these sets that they tell apart.  A page whose script *)
(* fails is at "none" and has nothing on it, which is what the code's      *)
(* except branches make of it.                                             *)
(***************************************************************************)
EXTENDS FiniteSets

AuthUrl == {"login", "unified", "password", "create", "verify", "about",
            "phone", "error", "consent", "challenge"}
PageUrl == AuthUrl \cup {"callback", "webCallback", "home", "community",
                         "none"}
Field   == {"email", "password", "code", "name", "birthday"}
Button  == {"log in", "continue", "with password", "one-time code",
            "email me a code", "send code", "resend", "try again", "agree",
            "sign up", "finish"}
Text    == {"password", "enter your password", "create a password",
            "check your inbox", "email a code", "incorrect code",
            "max attempts", "human", "challenge", "session ended", "oops",
            "timed out", "auth error", "auth error (code)", "deactivated",
            "terms", "phone required", "broken", "route error",
            "failed to create", "about-you form"}
PageRecord == [url : PageUrl, inputs : SUBSET Field,
               buttons : SUBSET Button, texts : SUBSET Text]
DeadPage == [url |-> "none", inputs |-> {}, buttons |-> {}, texts |-> {}]

\* The text of a page holds the labels of its buttons.
Says(p) == p.texts \cup p.buttons
Has(p, some) == some \cap Says(p) # {}
OnAuth(p) == p.url \in AuthUrl

(* ------------------- the native surface of camoufox -------------------- *)
HasChallenge(p) == Has(p, {"human", "challenge"})
Stage(p) ==
  CASE HasChallenge(p) /\ p.inputs \cap {"password", "email"} = {} -> "challenge"
    [] "password" \in p.inputs -> "password"
    [] "code" \in p.inputs     -> "code"
    [] "email" \in p.inputs    -> "email"
    [] OTHER                   -> "unknown"

\* The three primitives fill the first visible field of their kind and submit
\* it by a button, the form or the Enter key, whichever is there.
NativeFillsEmail(p)    == "email" \in p.inputs
NativeFillsPassword(p) == "password" \in p.inputs
NativeSubmitsCode(p)   == "code" \in p.inputs
NativeClicks(p, labels) == p.buttons \cap labels # {}
NativeConsents(p) == NativeClicks(p, {"continue", "agree"})

\* The needle of a callback: "" matches nothing.
CallbackMatched(p, needle) == needle # "" /\ p.url = needle
OnConsentPage(p) == p.url = "consent"

(* ------------------------- the repair login ---------------------------- *)
IsPasswordStage(p, camoufox) ==
  \/ camoufox /\ Stage(p) = "password"
  \/ "password" \in p.inputs
  \/ Has(p, {"password", "enter your password", "create a password",
             "with password"})
IsHumanVerify(p, camoufox) ==
  \/ camoufox /\ HasChallenge(p) /\ Stage(p) \notin {"email", "password", "code"}
  \/ "human" \in p.texts
  \/ p.url = "challenge"
\* "log-in" is also the beginning of the address of the password page.
InUnifiedContext(p) == p.url \in {"login", "unified", "password"}

\* A snapshot is None when the script fails.
HasContent(p) == Says(p) # {} \/ p.inputs # {}
IsBlankShell(p) == InUnifiedContext(p) /\ ~HasContent(p)
IsLandingShell(p) ==
  InUnifiedContext(p) /\ Has(p, {"session ended", "log in"})
ClicksLanding(p) == IsLandingShell(p) /\ "log in" \in p.buttons

HasEmailInput(p) == "email" \in p.inputs
HasPasswordInput(p) == "password" \in p.inputs
HasCodeInput(p) == "code" \in p.inputs
\* What the wait for a surface to recover takes a page for.
SurfaceStage(p, camoufox) ==
  CASE IsPasswordStage(p, camoufox) -> "password"
    [] HasEmailInput(p)             -> "email"
    [] HasCodeInput(p)              -> "code"
    [] OTHER                        -> "none"

\* A script that fails resubmits nothing; any other says what it clicked.
Resubmits(p) == p.url # "none"

OnPasswordPage(p) ==
  p.url = "password" \/ "enter your password" \in p.texts
OffersOneTimeCode(p) ==
  /\ OnPasswordPage(p) \/ Has(p, {"password", "create a password",
                                  "with password"})
  /\ p.buttons \cap {"one-time code", "email me a code"} # {}
PrePasswordError(p) ==
  \/ Has(p, {"oops", "timed out"})
  \/ "try again" \in p.buttons /\ InUnifiedContext(p)

\* The page that sends the code, and waits for it without a field.
IsSendSurface(p, asked) ==
  /\ ~HasCodeInput(p)
  /\ Has(p, {"send code", "email me a code", "resend", "check your inbox"})
  /\ \/ Has(p, {"resend", "check your inbox"})
     \/ asked /\ ~HasPasswordInput(p)
     \/ p.url = "verify"
HintsAtCode(p, asked) ==
  \/ Has(p, {"check your inbox", "email a code", "send code", "resend"})
  \/ IsSendSurface(p, asked)
OtpStillPresent(p) ==
  p.url = "verify" \/ HasCodeInput(p)
    \/ Has(p, {"check your inbox", "resend", "email a code"})

\* Why the stage of the code is taken to be reached: "localhost:1455" is
\* looked for whatever the login waits for.
OtpStageReason(p, camoufox, needle, asked) ==
  CASE p.url = "callback" -> "callback"
    [] p.url = "verify"   -> "code"
    [] camoufox /\ Stage(p) = "code" -> "code"
    [] camoufox /\ CallbackMatched(p, needle) -> "callback"
    [] IsSendSurface(p, asked) -> "code"
    [] ~OnPasswordPage(p) /\ Has(p, {"check your inbox", "resend", "email a code"}) -> "code"
    [] HasCodeInput(p) -> "code"
    [] OTHER -> "none"

RejectsCode(p) == Has(p, {"incorrect code", "max attempts"})
SaysIncorrect(p) == "incorrect code" \in p.texts
ClicksConsent(p) == OnConsentPage(p) /\ p.buttons \cap {"continue", "agree"} # {}

\* The code of the error a page shows: generic ones may pass, others may not.
AuthError(p) ==
  CASE Has(p, {"auth error (code)", "max attempts"}) -> "explicit"
    [] "deactivated" \in p.texts -> "deactivated"
    [] Has(p, {"auth error", "oops"}) -> "generic"
    [] OTHER -> "none"
IsTerminalError(p) == AuthError(p) \in {"explicit", "deactivated"}
ClicksTryAgain(p) == "try again" \in p.buttons

\* A login ends on the callback, or for a web login on a page of the site
\* that is only shown to users.
IsLoggedInWeb(p) == p.url \in {"home", "community"}
IsSuccessTarget(p, needle, web) ==
  CallbackMatched(p, needle) \/ (web /\ IsLoggedInWeb(p))

(* ------------------------- the registration ---------------------------- *)
\* The address counts as text: "email-verification" makes an email stage.
IsEmailStage(p, camoufox) ==
  /\ ~IsPasswordStage(p, camoufox)
  /\ \/ HasEmailInput(p)
     \/ OnAuth(p) /\ (p.url = "verify" \/ Has(p, {"continue", "sign up",
                          "email a code", "email me a code"}))
IsSecurityVerification(p) == "human" \in p.texts
IsBrokenSurface(p) == Has(p, {"broken", "route error"})
IsTryAgainSurface(p) == Has(p, {"oops", "try again", "route error"})
ClicksAuthRetry(p) == p.buttons \cap {"try again", "continue"} # {}
\* A page with its password field visible is not blocked, whatever it says.
BlocksSignUp(p, camoufox) ==
  \/ camoufox /\ HasChallenge(p) /\ Stage(p) # "password"
  \/ ~HasPasswordInput(p) /\ (p.url = "challenge" \/ "human" \in p.texts)

OnCreatePassword(p) == p.url = "create" \/ "create a password" \in p.texts
OtpStageOfSignUp(p, camoufox) ==
  \/ p.url = "verify"
  \/ camoufox /\ Stage(p) = "code"
  \/ ~OnCreatePassword(p) /\ Has(p, {"check your inbox", "resend"})
  \/ HasCodeInput(p)
FailedToCreate(p) == OnCreatePassword(p) /\ "failed to create" \in p.texts
ClicksOneTimeRecovery(p) == "one-time code" \in p.buttons
RetriesContinue(p) == p.url # "none"

\* What the wait after the code makes of a page: any page of the auth site
\* but the one of the code counts as accepted.
AfterCode(p) ==
  CASE p.url = "callback" -> "accepted"
    [] OnAuth(p) /\ p.url # "verify" -> "accepted"
    [] "birthday" \in p.inputs -> "accepted"
    [] SaysIncorrect(p) -> "rejected"
    [] OTHER -> "waiting"
NativeProgress(p, needle) ==
  CASE CallbackMatched(p, needle) -> "callback"
    [] OnConsentPage(p) /\ NativeConsents(p) -> "waiting"
    [] p.url = "about" \/ "about-you form" \in p.texts
         \/ p.inputs \cap {"name", "birthday"} # {} -> "about-you"
    [] OnAuth(p) /\ p.url # "verify" -> "advanced"
    [] RejectsCode(p) -> "rejected"
    [] OTHER -> "waiting"

(* ----------------------- about-you and after it ------------------------ *)
OnAboutYou(p) == p.url = "about" \/ "about-you form" \in p.texts
SaysTerms(p) == "terms" \in p.texts
\* A page that cannot be read counts as one that has moved on.
AboutYouIsOver(p) == ~OnAboutYou(p)
IsTermsBlocked(p) == p.url = "about" /\ SaysTerms(p)
IsPhoneWall(p) == p.url = "phone" \/ "phone required" \in p.texts
IsChatGptHome(p) == p.url = "home"
=============================================================================
