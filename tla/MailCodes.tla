----------------------------- MODULE MailCodes -----------------------------
(***************************************************************************)
(* How a login waits for the code it was mailed: it notes what each        *)
(* mailbox already holds, has a code sent, and polls the mailboxes one     *)
(* after the other until one shows a newer code.  A direct mailbox is read *)
(* mail by mail; others are read through the mail service, which shows the *)
(* latest code with the second it came in.  Other logins share mailboxes,  *)
(* so mail with and without codes comes in at any time.                    *)
(***************************************************************************)
EXTENDS Integers, Sequences, FiniteSets, FiniteSetsExt

CONSTANTS
  Mailbox,        \* mailboxes that may belong to the account
  DirectMailbox,  \* those read without the mail service
  Candidates,     \* mailbox_ref_candidates, in their order
  MaxSecond,      \* bound on the clock
  MaxMails        \* bound on the mails of a mailbox

(* A login has an address, and with it at least one mailbox to look in.    *)
ASSUME MailAssumption ==
  /\ DirectMailbox \subseteq Mailbox
  /\ Candidates \in Seq(Mailbox) /\ Candidates # <<>>
  /\ MaxSecond \in Nat \ {0} /\ MaxMails \in Nat

VARIABLES
  second,    \* the clock
  mails,     \* what came in, oldest first: when, and whether it has a code
  baseline,  \* otp_min_mail_id_by_ref
  login      \* where the login is, whose turn it is and what it has found

mailVars == <<second, mails, baseline, login>>

Here == Candidates[login.turn]

(* errors: the last error of each mailbox; read: which mail the code was   *)
(* taken from; held: how many mails a mailbox held at the lookup.          *)
LoginRecord ==
  [pc : {"note", "wait", "read", "timeout", "failed", "no quota"},
   turn : DOMAIN Candidates, sawTimeout : BOOLEAN, read : Nat,
   errors : [Mailbox -> {"none", "error", "quota"}], held : [Mailbox -> Nat]]

MailInit ==
  /\ second = 1
  /\ mails \in [Mailbox -> {<<>>, <<[at |-> 1, code |-> TRUE]>>}]
  /\ baseline = [m \in Mailbox |-> 0]
  /\ login = [pc |-> "note", turn |-> 1, sawTimeout |-> FALSE, read |-> 0,
              errors |-> [m \in Mailbox |-> "none"], held |-> [m \in Mailbox |-> 0]]

(* Mails with a code; 0 stands for none.                                   *)
Coded(m) == {0} \union { i \in DOMAIN mails[m] : mails[m][i].code }

Latest(m) == Max(Coded(m))

(* get_mailbox_latest_message_id: the newest mail, or when the mail        *)
(* service saw the newest code.                                            *)
Marker(m) ==
  IF m \in DirectMailbox THEN Len(mails[m])
  ELSE IF Latest(m) = 0 THEN 0 ELSE mails[m][Latest(m)].at

(* A lookup that fails leaves no baseline.                                 *)
NoteMailbox ==
  /\ login.pc = "note"
  /\ LET next == IF login.turn < Len(Candidates)
                 THEN [login EXCEPT !.turn = @ + 1]
                 ELSE [login EXCEPT !.pc = "wait", !.turn = 1]
     IN  \/ /\ baseline' = [baseline EXCEPT ![Here] = Marker(Here)]
            /\ login' = [next EXCEPT !.held[Here] = Len(mails[Here])]
         \/ login' = next /\ UNCHANGED baseline
  /\ UNCHANGED <<second, mails>>

(* Mutant: what was there at the lookup counts as new.                     *)
NewCodesFrom(m) ==
  IF m \in DirectMailbox THEN { i \in Coded(m) \ {0} : i >= baseline[m] }
  ELSE { i \in {Latest(m)} \ {0} : baseline[m] = 0 \/ mails[m][i].at >= baseline[m] }

(* The codes that a poll accepts.                                          *)
NewCodes(m) ==
  IF m \in DirectMailbox THEN { i \in Coded(m) : i > baseline[m] }
  ELSE { i \in {Latest(m)} \ {0} : baseline[m] = 0 \/ mails[m][i].at > baseline[m] }

(* Mutant: the mails are gone through as they came in.                     *)
OldestOf(codes) == Min(codes)

(* _fetch_sorted_mails puts the newest first.                              *)
ChosenOf(codes) == Max(codes)

ReadCode ==
  /\ login.pc = "wait" /\ NewCodes(Here) # {}
  /\ login' = [login EXCEPT !.pc = "read", !.read = ChosenOf(NewCodes(Here))]
  /\ UNCHANGED <<second, mails, baseline>>

(* Mutant: one turn too many.                                              *)
NextTurnPast(late, error) ==
  LET after == [login EXCEPT !.sawTimeout = @ \/ late, !.errors[Here] = error]
  IN  login' = IF login.turn <= Len(Candidates) THEN [after EXCEPT !.turn = @ + 1]
               ELSE [after EXCEPT !.pc = IF after.sawTimeout THEN "timeout" ELSE "failed"]

(* _wait_code_try_candidates: the next mailbox, and after the last one the *)
(* reason, which is a time-out if any of them ended in one.                *)
NextTurn(late, error) ==
  LET after == [login EXCEPT !.sawTimeout = @ \/ late, !.errors[Here] = error]
  IN  login' = IF login.turn < Len(Candidates) THEN [after EXCEPT !.turn = @ + 1]
               ELSE [after EXCEPT !.pc = IF after.sawTimeout THEN "timeout" ELSE "failed"]

NoQuota == login' = [login EXCEPT !.pc = "no quota", !.errors[Here] = "quota"]

(* Mutant: a time-out is looked for before a used-up quota.                *)
GivenUpLate(late, error) ==
  IF error = "quota" /\ ~late THEN NoQuota ELSE NextTurn(late, error)

(* A used-up quota ends the login at once, also when it is the last thing  *)
(* that was heard before the time ran out.                                 *)
GivenUp(late, error) ==
  IF error = "quota" THEN NoQuota ELSE NextTurn(late, error)

(* A direct mailbox is asked again after an error; the mail service is not. *)
PollFails ==
  /\ login.pc = "wait" /\ Here \in DirectMailbox
  /\ \E error \in {"error", "quota"} : login' = [login EXCEPT !.errors[Here] = error]
  /\ UNCHANGED <<second, mails, baseline>>

PollRaises ==
  /\ login.pc = "wait"
  /\ \E error \in {"error", "quota"} :
       /\ Here \in DirectMailbox => error = "error"
       /\ GivenUp(FALSE, error)
  /\ UNCHANGED <<second, mails, baseline>>

(* Mutant: only an answered poll is followed by a look at the clock.       *)
DeadlinePassesAnswered ==
  /\ login.pc = "wait" /\ login.errors[Here] = "none"
  /\ GivenUp(TRUE, login.errors[Here])
  /\ UNCHANGED <<second, mails, baseline>>

DeadlinePasses ==
  /\ login.pc = "wait"
  /\ GivenUp(TRUE, login.errors[Here])
  /\ UNCHANGED <<second, mails, baseline>>

Waiting == login.pc \in {"note", "wait"}

(* Mail that comes in later matters to nobody here.                        *)
MailArrives(m) ==
  /\ Waiting /\ Len(mails[m]) < MaxMails
  /\ \E code \in BOOLEAN : mails' = [mails EXCEPT ![m] = Append(@, [at |-> second, code |-> code])]
  /\ UNCHANGED <<second, baseline, login>>

Tick == Waiting /\ second < MaxSecond /\ second' = second + 1 /\ UNCHANGED <<mails, baseline, login>>

MailNext ==
  \/ NoteMailbox \/ ReadCode \/ PollFails \/ PollRaises \/ DeadlinePasses
  \/ Tick \/ \E m \in Mailbox : MailArrives(m)

MailSpec == MailInit /\ [][MailNext]_mailVars

(* Every request to a mailbox has a time limit and every wait a deadline.  *)
MailFairness == WF_mailVars(NoteMailbox) /\ WF_mailVars(DeadlinePasses)

-----------------------------------------------------------------------------
(* Properties. *)

(* Type correctness of the login.                                          *)
MailTypeOK ==
  /\ second \in 1..MaxSecond
  /\ \A m \in Mailbox : \A i \in DOMAIN mails[m] : mails[m][i] \in [at : 1..MaxSecond, code : BOOLEAN]
  /\ baseline \in [Mailbox -> Nat]
  /\ login \in LoginRecord

(* The code is one that came in after the mailbox was looked at, hence not *)
(* one of an earlier login, unless that look failed; times are in whole    *)
(* seconds, and a mailbox may fill up within one (repairer_flow.py:764-788, *)
(* easy_email_client.py:444).                                              *)
ReadIsNew == login.pc = "read" => login.read > login.held[Here]

(* Of several codes the last one is taken, the only one that still works.  *)
NewestIsRead == login.pc = "read" => login.read = Latest(Here)

(* A login that failed for want of quota says so, whichever way the error  *)
(* came out: other reasons count against the account                       *)
(* (repairer_flow.py:208-210).                                             *)
QuotaIsNotBlamed ==
  login.pc \in {"timeout", "failed"} => \A m \in Mailbox : login.errors[m] # "quota"

(* Every login ends, whatever the mailboxes answer.                        *)
LoginsEnd == <>~Waiting

(* A login takes the right code, and when it has none says why             *)
(* (repairer_flow.py:192-261, 769-787).                                    *)
MailInv == MailTypeOK /\ ReadIsNew /\ NewestIsRead /\ QuotaIsNotBlamed

=============================================================================
