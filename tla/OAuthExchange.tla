--------------------------- MODULE OAuthExchange ---------------------------
(***************************************************************************)
(* submit_callback_url: the address a login was called back at is checked, *)
(* and its code is exchanged for tokens over the routes there are.  The    *)
(* site takes a code once: an answer that is lost on the way back leaves   *)
(* a code behind that the next try is turned down for.                     *)
(***************************************************************************)
EXTENDS Integers, Sequences

CONSTANTS
  Attempts,   \* max_retries
  Routes      \* the orders of the routes: with a proxy and without

ASSUME ExchangeAssumption ==
  /\ Attempts \in Nat \ {0}
  /\ Routes \subseteq Seq({"direct", "proxy"}) /\ <<>> \notin Routes

VARIABLE exch

\* What the address of a callback carries; "other" is another request's state.
Callback == {"good", "error", "no code", "no state", "other"}

\* spent: the site has issued tokens for the code; posts and refused count the
\* requests that reached it, and those it turned down.
NoExchange == [pc |-> "idle", cb |-> "good", routes |-> <<"direct">>, attempt |-> 1,
               turn |-> 1, spent |-> FALSE, posts |-> 0, refused |-> 0,
               tokens |-> FALSE, reason |-> "none"]

StartExchange(callback) ==
  \E routes \in Routes :
    exch' = [NoExchange EXCEPT !.pc = "validate", !.cb = callback, !.routes = routes]

ExchangeFails(from, reason) ==
  exch' = [from EXCEPT !.pc = "failed", !.reason = reason]

(* Mutant: the state of the callback is there, but not compared.           *)
ValidatePresence ==
  /\ exch.pc = "validate"
  /\ IF exch.cb \in {"good", "other"} THEN exch' = [exch EXCEPT !.pc = "post"]
     ELSE ExchangeFails(exch, exch.cb)

Validate ==
  /\ exch.pc = "validate"
  /\ IF exch.cb = "good" THEN exch' = [exch EXCEPT !.pc = "post"]
     ELSE ExchangeFails(exch, exch.cb)

(* Mutant: a refusal is one more exception to continue after.              *)
RefusedAndRetried(arrived) ==
  exch' = [arrived EXCEPT !.refused = @ + 1, !.pc = "next"]

Refused(arrived) ==
  exch' = [arrived EXCEPT !.refused = @ + 1, !.pc = "failed", !.reason = "refused"]

(* What goes wrong on the way, or with the answer, is tried again on the   *)
(* next route; a refusal is not.                                           *)
Post ==
  /\ exch.pc = "post"
  /\ LET arrived == [exch EXCEPT !.posts = @ + 1]
     IN  \/ exch' = [exch EXCEPT !.pc = "next"]
         \/ exch' = [arrived EXCEPT !.pc = "next"]
         \/ /\ ~exch.spent
            /\ \/ exch' = [arrived EXCEPT !.spent = TRUE, !.pc = "next"]
               \/ exch' = [arrived EXCEPT !.spent = TRUE, !.tokens = TRUE, !.pc = "read"]
         \/ Refused(arrived)

NextRoute ==
  /\ exch.pc = "next"
  /\ CASE exch.turn < Len(exch.routes) -> exch' = [exch EXCEPT !.pc = "post", !.turn = @ + 1]
       [] exch.turn = Len(exch.routes) /\ exch.attempt < Attempts ->
            exch' = [exch EXCEPT !.pc = "post", !.turn = 1, !.attempt = @ + 1]
       [] OTHER -> ExchangeFails(exch, "gave up")

(* All three tokens, and an address among the claims of one, or nothing.   *)
ReadTokens ==
  /\ exch.pc = "read"
  /\ \/ exch' = [exch EXCEPT !.pc = "done"]
     \/ ExchangeFails(exch, "incomplete")

ExchangeStep == Validate \/ Post \/ NextRoute \/ ReadTokens

-----------------------------------------------------------------------------
(* Properties. *)

ExchangeTypeOK ==
  exch \in
    [pc : {"idle", "validate", "post", "next", "read", "done", "failed"},
     cb : Callback, routes : Routes \cup {<<"direct">>}, attempt : 1..Attempts,
     turn : Nat, spent : BOOLEAN, posts : Nat, refused : Nat, tokens : BOOLEAN,
     reason : (Callback \ {"good"}) \cup {"none", "refused", "gave up", "incomplete"}]

(* Only the code of this request is ever sent to the site, a refusal is    *)
(* the last thing that is heard of it, and a success has tokens to show    *)
(* (oauth_flow.py:308-345, 428-440).                                       *)
ExchangeIsFinal ==
  /\ exch.posts > 0 => exch.cb = "good"
  /\ exch.refused > 0 => exch.pc = "failed" /\ exch.refused = 1
  /\ exch.pc = "done" => exch.tokens /\ exch.refused = 0
=============================================================================
