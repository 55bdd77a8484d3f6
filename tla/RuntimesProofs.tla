---------------------------- MODULE RuntimesProofs ----------------------------
(***************************************************************************)
(* Theorems about what runs behind a runtime's pipes and in the Python     *)
(* package, for every set of sessions, callers, pages, clients and types   *)
(* and every bound: sessions own their browsers and steps keep theirs, a   *)
(* process answers each task once and knows its pages, and executions are  *)
(* booked and their contexts closed.                                       *)
(***************************************************************************)
EXTENDS SessionRuntime, StdioRuntime, TaskExecutor, WellFoundedInduction, TLAPS

-----------------------------------------------------------------------------
(***************************************************************************)
(* The keys of session.state: none is of a later run than those it was     *)
(* made from, and all are of runs that have begun.                         *)
(***************************************************************************)
Follows(p) ==
  /\ p.full <= p.result /\ p.result <= p.finalize /\ p.finalize <= p.auth
  /\ p.finalize > 0 => p.profile > 0
  /\ p.repairedFull <= p.repaired /\ p.repaired <= p.login

(* The states with no key of a run after the n-th.                         *)
UpTo(n) ==
  [auth : 0..n, profile : 0..n, finalize : 0..n, result : 0..n, full : 0..n,
   login : 0..n, repaired : 0..n, repairedFull : 0..n, web : 0..n]

LEMMA UpToGrows ==
  ASSUME NEW n \in Nat, NEW m \in Nat, m <= n
  PROVE  UpTo(m) \subseteq UpTo(n)
<1>1. 0..m \subseteq 0..n OBVIOUS
<1> QED BY <1>1 DEF UpTo

StepOp == (RegisterOp \union RepairOp) \union {"renew"}

(* Every state a step may leave, that of a failed one included, follows.   *)
LEMMA OutcomesFollow ==
  ASSUME NEW op \in StepOp, NEW m \in Nat, NEW n \in Nat,
         n = IF StartsRun(op) THEN m + 1 ELSE m,
         NEW p \in UpTo(m), Follows(p), NEW o \in Outcomes(op, p, n)
  PROVE  o \in UpTo(n) /\ Follows(o)
<1>1. n \in Nat /\ m <= n /\ n \in 0..n OBVIOUS
<1>2. p \in UpTo(n) BY <1>1, UpToGrows
<1>3. p.auth \in 0..m /\ p.login \in 0..m BY DEF UpTo
<1>4. CASE op = "register_auth"
  <2>1. n = m + 1 BY <1>4 DEF StartsRun
  <2>2. o = p \/ o = [p EXCEPT !.auth = n] BY <1>4 DEF Outcomes, RegisterAuth
  <2> QED BY <1>1, <1>2, <1>3, <2>1, <2>2 DEF UpTo, Follows
<1>5. CASE op = "register_profile"
  <2>1. n = m + 1 BY <1>5 DEF StartsRun
  <2>2. o = p \/ o = [p EXCEPT !.profile = IF p.auth > 0 THEN p.auth ELSE n]
    BY <1>5 DEF Outcomes, RegisterProfile
  <2> QED BY <1>1, <1>2, <1>3, <2>1, <2>2 DEF UpTo, Follows
<1>6. CASE op = "register_finalize"
  <2>1. \/ o = p
        \/ /\ p.auth # 0 /\ p.profile # 0
           /\ \/ o = [p EXCEPT !.finalize = p.auth]
              \/ o = [p EXCEPT !.finalize = p.auth, !.result = p.auth]
    BY <1>6 DEF Outcomes, RegisterFinalize
  <2>2. /\ p.auth \in 0..n /\ p.profile \in 0..n /\ p.finalize \in 0..n /\ p.result \in 0..n
        /\ p.full \in 0..n
    BY <1>2 DEF UpTo
  <2>3. CASE o = p BY <1>2, <2>3
  <2>4. CASE p.auth # 0 /\ p.profile # 0 /\ o = [p EXCEPT !.finalize = p.auth]
    BY <1>1, <1>2, <2>2, <2>4 DEF UpTo, Follows
  <2>5. CASE p.auth # 0 /\ p.profile # 0 /\ o = [p EXCEPT !.finalize = p.auth, !.result = p.auth]
    <3>1. o \in UpTo(n) BY <1>2, <2>2, <2>5 DEF UpTo
    <3>2. /\ o.auth = p.auth /\ o.profile = p.profile /\ o.finalize = p.auth /\ o.result = p.auth
          /\ o.full = p.full /\ o.login = p.login /\ o.repaired = p.repaired
          /\ o.repairedFull = p.repairedFull
      BY <1>2, <2>5 DEF UpTo
    <3> QED BY <1>2, <2>2, <2>5, <3>1, <3>2 DEF Follows
  <2> QED BY <2>1, <2>3, <2>4, <2>5
<1>7. CASE op = "register_full"
  <2> DEFINE clear == RegisterCleared(p)
             made == [clear EXCEPT !.auth = n, !.profile = n, !.finalize = n]
  <2>1. n = m + 1 BY <1>7 DEF StartsRun
  <2>2. o = clear \/ o = made \/ o = [made EXCEPT !.result = n, !.full = n]
    BY <1>7 DEF Outcomes, RegisterFull
  <2>3. clear \in UpTo(n) /\ Follows(clear)
        /\ clear.auth = 0 /\ clear.profile = 0 /\ clear.finalize = 0 /\ clear.result = 0
        /\ clear.full = 0
    <3>1. 0 \in 0..n OBVIOUS
    <3>2. clear \in UpTo(n) BY <1>2, <3>1 DEF UpTo, RegisterCleared
    <3>3. /\ clear.auth = 0 /\ clear.profile = 0 /\ clear.finalize = 0 /\ clear.result = 0
          /\ clear.full = 0 /\ clear.login = p.login /\ clear.repaired = p.repaired
          /\ clear.repairedFull = p.repairedFull
      BY <1>2 DEF UpTo, RegisterCleared
    <3> HIDE DEF clear
    <3> QED BY <3>2, <3>3 DEF Follows
  <2> HIDE DEF clear
  <2>4. /\ made \in UpTo(n) /\ Follows(made) /\ made.auth = n /\ made.profile = n
        /\ made.finalize = n /\ made.result = 0 /\ made.full = 0
    <3>1. made \in UpTo(n) BY <1>1, <2>3 DEF UpTo
    <3>2. /\ made.auth = n /\ made.profile = n /\ made.finalize = n /\ made.result = 0
          /\ made.full = 0 /\ made.login = clear.login /\ made.repaired = clear.repaired
          /\ made.repairedFull = clear.repairedFull
      BY <2>3 DEF UpTo
    <3> HIDE DEF made
    <3> QED BY <2>1, <2>3, <3>1, <3>2 DEF Follows
  <2> HIDE DEF made
  <2>5. CASE o = [made EXCEPT !.result = n, !.full = n]
    <3>1. o \in UpTo(n) BY <1>1, <2>4, <2>5 DEF UpTo
    <3>2. /\ o.auth = n /\ o.profile = n /\ o.finalize = n /\ o.result = n /\ o.full = n
          /\ o.login = made.login /\ o.repaired = made.repaired
          /\ o.repairedFull = made.repairedFull
      BY <2>4, <2>5 DEF UpTo
    <3> QED BY <2>1, <2>4, <3>1, <3>2 DEF Follows
  <2> QED BY <2>2, <2>3, <2>4, <2>5
<1>8. CASE op = "repair_login"
  <2>1. n = m + 1 BY <1>8 DEF StartsRun
  <2>2. o = p \/ o = [p EXCEPT !.login = n] BY <1>8 DEF Outcomes, RepairLogin
  <2> QED BY <1>1, <1>2, <1>3, <2>1, <2>2 DEF UpTo, Follows
<1>9. CASE op = "repair_finalize"
  <2>1. o = p \/ o = [p EXCEPT !.repaired = p.login]
    BY <1>9 DEF Outcomes, RepairFinalize
  <2> QED BY <1>1, <1>2, <1>3, <2>1 DEF UpTo, Follows
<1>10. CASE op = "repair_full"
  <2> DEFINE clear == RepairCleared(p)
  <2>1. n = m + 1 BY <1>10 DEF StartsRun
  <2>2. \/ o = clear \/ o = [clear EXCEPT !.login = n]
        \/ o = [clear EXCEPT !.login = n, !.repaired = n, !.repairedFull = n]
    BY <1>10 DEF Outcomes, RepairFull
  <2>3. clear \in UpTo(n) /\ Follows(clear)
        /\ clear.login = 0 /\ clear.repaired = 0 /\ clear.repairedFull = 0
    <3>1. 0 \in 0..n OBVIOUS
    <3>2. clear \in UpTo(n) BY <1>2, <3>1 DEF UpTo, RepairCleared
    <3>3. /\ clear.auth = p.auth /\ clear.profile = p.profile /\ clear.finalize = p.finalize
          /\ clear.result = p.result /\ clear.full = p.full /\ clear.login = 0
          /\ clear.repaired = 0 /\ clear.repairedFull = 0
      BY <1>2 DEF UpTo, RepairCleared
    <3> HIDE DEF clear
    <3> QED BY <3>2, <3>3 DEF Follows
  <2> HIDE DEF clear
  <2>4. CASE o = [clear EXCEPT !.login = n]
    BY <1>1, <2>1, <2>3, <2>4 DEF UpTo, Follows
  <2>5. CASE o = [clear EXCEPT !.login = n, !.repaired = n, !.repairedFull = n]
    <3>1. o \in UpTo(n) BY <1>1, <2>3, <2>5 DEF UpTo
    <3>2. /\ o.auth = clear.auth /\ o.profile = clear.profile /\ o.finalize = clear.finalize
          /\ o.result = clear.result /\ o.full = clear.full /\ o.login = n /\ o.repaired = n
          /\ o.repairedFull = n
      BY <2>3, <2>5 DEF UpTo
    <3> QED BY <2>1, <2>3, <3>1, <3>2 DEF Follows
  <2> QED BY <2>2, <2>3, <2>4, <2>5
<1>11. CASE op = "openai_web_login"
  <2>1. o = p \/ o = [p EXCEPT !.web = n] BY <1>11 DEF Outcomes, OpenaiWebLogin
  <2> QED BY <1>1, <1>2, <2>1 DEF UpTo, Follows
<1>12. CASE op = "renew"
  BY <1>2, <1>12 DEF Outcomes
<1> QED
  BY <1>4, <1>5, <1>6, <1>7, <1>8, <1>9, <1>10, <1>11, <1>12
  DEF StepOp, RegisterOp, RepairOp

-----------------------------------------------------------------------------
(***************************************************************************)
(* Sessions.  The sessions and the calls agree: a call that works holds    *)
(* the lock of its session, one past the first release has a session whose *)
(* browser was started, and one that quits has a session to quit.          *)
(***************************************************************************)
CallFits(c) ==
  /\ CallAt(c, "work") => call[c].session \in Session /\ keeper[call[c].session] = c
  /\ call[c].pc \in {"work", "enter"} => call[c].op \in StepOp
  /\ CallAt(c, "lookup") => call[c].op \in StepOp \union {"page"}
  /\ call[c].pc \in {"enter", "lookup", "page", "enlist"} => call[c].session \in Session
  /\ CallAt(c, "quit") => call[c].popped \in Session
  /\ CallAt(c, "reap") \/ (CallAt(c, "quit") /\ call[c].op # "close") =>
       \/ call[c].op \in {"open", "list"}
       \/ call[c].op \in StepOp \union {"page"} /\ call[c].session \in Session
  /\ call[c].session \in Session => driver[call[c].session] # "none"

CallsFit == \A c \in Caller : CallFits(c)

(* session.state of every session, in terms of the runs so far.            *)
StatesFollow == \A s \in Session : progress[s] \in UpTo(runs) /\ Follows(progress[s])

SessionRuntimeIInv ==
  SessionRuntimeTypeOK /\ BrowsersAreOwned /\ CallsFit /\ StatesFollow

LEMMA SessionOps == SessionOp = {"open", "close", "list", "page"} \union StepOp
BY DEF SessionOp, StepOp

LEMMA MaxRunsIsNat == MaxRuns \in Nat
BY SessionRuntimeAssumption

LEMMA StatesAreTyped ==
  ASSUME NEW n \in 0..MaxRuns, NEW p \in UpTo(n)
  PROVE  p \in ProgressRecord
<1>1. MaxRuns \in Nat BY SessionRuntimeAssumption
<1>2. UpTo(n) \subseteq UpTo(MaxRuns) BY <1>1, UpToGrows
<1> QED BY <1>2 DEF UpTo, ProgressRecord

LEMMA BlankFollows ==
  ASSUME NEW n \in Nat
  PROVE  Blank \in UpTo(n) /\ Follows(Blank)
<1>1. 0 \in 0..n OBVIOUS
<1>2. Blank \in UpTo(n) BY <1>1 DEF Blank, UpTo
<1>3. Follows(Blank) BY DEF Blank, Follows
<1> QED BY <1>2, <1>3

(* A call's record changes, and nothing else that the calls are about.     *)
LEMMA OtherCallsFit ==
  ASSUME SessionRuntimeTypeOK, CallsFit, NEW c \in Caller, NEW r \in SessionCall, SetCall(c, r),
         NEW d \in Caller \ {c}, UNCHANGED <<keeper, driver>>
  PROVE  CallFits(d)'
<1>1. call'[d] = call[d] BY DEF SetCall, SessionRuntimeTypeOK
<1> QED BY <1>1 DEF CallsFit, CallFits, CallAt

LEMMA SessionRuntimeStarts == SessionRuntimeInit => SessionRuntimeIInv
<1> SUFFICES ASSUME SessionRuntimeInit PROVE SessionRuntimeIInv
  OBVIOUS
<1> USE DEF SessionRuntimeInit
<1>1. MaxRuns \in Nat /\ NoSession \notin Session BY SessionRuntimeAssumption
<1>2. menu.calls \in Nat BY SessionRuntimeAssumption
<1>3. 0 \in 0..MaxRuns /\ 0 \in 0..menu.calls BY <1>1, <1>2
<1>4. Blank \in UpTo(0) /\ Follows(Blank) BY BlankFollows
<1>5. Blank \in ProgressRecord BY <1>3, <1>4, StatesAreTyped
<1>6. NoCall \in SessionCall BY DEF NoCall, SessionCall, CallPc
<1>7. SessionRuntimeTypeOK BY <1>3, <1>5, <1>6 DEF SessionRuntimeTypeOK
<1>8. BrowsersAreOwned BY DEF BrowsersAreOwned
<1>9. CallsFit BY <1>1 DEF CallsFit, CallFits, CallAt, NoCall
<1>10. StatesFollow BY <1>4 DEF StatesFollow
<1> QED BY <1>7, <1>8, <1>9, <1>10 DEF SessionRuntimeIInv

(* One call moves on, and may change the table, the lock and the browser   *)
(* of one session: what is left to show of it.                             *)
LEMMA CallMovesOn ==
  ASSUME SessionRuntimeIInv, NEW c \in Caller, NEW r \in SessionCall, SetCall(c, r),
         UNCHANGED <<menu, progress, runs, keeper, driver, expired>>,
         calls' \in 0..menu.calls, listed' \subseteq Session,
         CallFits(c)',
         \A s \in listed : s \in listed' \/ (r.pc = "quit" /\ r.popped = s),
         CallAt(c, "enlist") => call[c].session \in listed' \/ r = call[c],
         CallAt(c, "quit") => r = call[c]
  PROVE  SessionRuntimeIInv'
<1> USE DEF SessionRuntimeIInv
<1>1. call' = [call EXCEPT ![c] = r] /\ call \in [Caller -> SessionCall]
  BY DEF SetCall, SessionRuntimeTypeOK
<1>2. call' \in [Caller -> SessionCall] BY <1>1
<1>3. SessionRuntimeTypeOK' BY <1>2 DEF SessionRuntimeTypeOK
<1>4. CallsFit'
  <2>1. \A d \in Caller \ {c} : CallFits(d)' BY OtherCallsFit
  <2> QED BY <2>1 DEF CallsFit
<1>5. StatesFollow' BY DEF StatesFollow
<1>6. BrowsersAreOwned'
  <2> SUFFICES ASSUME NEW s \in Session, driver[s] = "open"
               PROVE  \/ s \in listed'
                      \/ \E d \in Caller : \/ call'[d].pc = "enlist" /\ call'[d].session = s
                                           \/ call'[d].pc = "quit" /\ call'[d].popped = s
    BY DEF BrowsersAreOwned, CallAt
  <2>1. call'[c] = r /\ \A d \in Caller \ {c} : call'[d] = call[d] BY <1>1
  <2>2. CASE s \in listed BY <2>1, <2>2
  <2>3. CASE \E d \in Caller : \/ CallAt(d, "enlist") /\ call[d].session = s
                               \/ CallAt(d, "quit") /\ call[d].popped = s
    <3>1. PICK d \in Caller : \/ CallAt(d, "enlist") /\ call[d].session = s
                              \/ CallAt(d, "quit") /\ call[d].popped = s
      BY <2>3
    <3>2. CASE d = c BY <2>1, <3>1, <3>2 DEF CallAt
    <3>3. CASE d # c BY <2>1, <3>1, <3>3 DEF CallAt
    <3> QED BY <3>2, <3>3
  <2> QED BY <2>2, <2>3 DEF BrowsersAreOwned
<1> QED BY <1>3, <1>4, <1>5, <1>6

LEMMA CallBegins ==
  ASSUME SessionRuntimeIInv, NEW c \in Caller, NEW op \in SessionOp,
         NEW s \in Session \union {NoSession}, BeginCall(c, op, s)
  PROVE  SessionRuntimeIInv'
<1> DEFINE popped == [NoCall EXCEPT !.pc = "quit", !.op = op, !.popped = s]
           reaping == [NoCall EXCEPT !.pc = "reap", !.op = op, !.session = s,
                                     !.stale = listed \intersect expired]
<1>1. call[c] \in SessionCall /\ listed \subseteq Session /\ menu \in Menu
      /\ calls \in 0..menu.calls /\ NoSession \notin Session /\ call \in [Caller -> SessionCall]
  BY SessionRuntimeAssumption DEF SessionRuntimeIInv, SessionRuntimeTypeOK
<1>2. calls' \in 0..menu.calls
  <2>1. menu.calls \in Nat BY <1>1, SessionRuntimeAssumption
  <2> QED BY <1>1, <2>1 DEF BeginCall
<1>3. UNCHANGED <<menu, progress, runs, keeper, driver, expired>> /\ CallAt(c, "idle")
  BY DEF BeginCall
<1>4. CASE op = "close" /\ s \in listed
  <2>1. SetCall(c, popped) /\ listed' = listed \ {s} BY <1>4 DEF BeginCall
  <2>2. popped \in SessionCall /\ popped.pc = "quit" /\ popped.op = "close" /\ popped.popped = s
        /\ popped.session = NoSession
    BY <1>1, <1>4 DEF SessionCall, NoCall, CallPc
  <2> HIDE DEF popped
  <2>3. call'[c] = popped BY <1>1, <2>1 DEF SetCall
  <2>4. CallFits(c)' BY <1>1, <1>4, <2>2, <2>3 DEF CallFits, CallAt
  <2> QED BY <1>1, <1>2, <1>3, <2>1, <2>2, <2>4, CallMovesOn DEF CallAt
<1>5. CASE op = "close" /\ s \notin listed
  <2>1. SetCall(c, NoCall) /\ listed' = listed BY <1>5 DEF BeginCall
  <2>2. NoCall \in SessionCall BY DEF NoCall, SessionCall, CallPc
  <2>3. call'[c] = NoCall BY <1>1, <2>1 DEF SetCall
  <2>4. CallFits(c)' BY <1>1, <2>3 DEF CallFits, CallAt, NoCall
  <2> QED BY <1>1, <1>2, <1>3, <2>1, <2>2, <2>4, CallMovesOn DEF CallAt
<1>6. CASE op # "close"
  <2>1. SetCall(c, reaping) /\ listed' = listed
        /\ (op \notin {"open", "list"} => s # NoSession /\ driver[s] # "none")
        /\ (op \in {"open", "list"} => s = NoSession)
    BY <1>6 DEF BeginCall
  <2>2. /\ reaping \in SessionCall /\ reaping.pc = "reap" /\ reaping.op = op
        /\ reaping.session = s
    BY <1>1, <1>6 DEF SessionCall, NoCall, CallPc
  <2> HIDE DEF reaping
  <2>3. call'[c] = reaping BY <1>1, <2>1 DEF SetCall
  <2>4. op \in {"open", "list", "page"} \union StepOp BY <1>6, SessionOps
  <2>5. CallFits(c)'
    BY <1>1, <1>3, <1>6, <2>1, <2>2, <2>3, <2>4 DEF CallFits, CallAt
  <2> QED BY <1>1, <1>2, <1>3, <2>1, <2>2, <2>5, CallMovesOn DEF CallAt
<1> QED BY <1>4, <1>5, <1>6

LEMMA CallReturns ==
  ASSUME SessionRuntimeIInv, NEW c \in Caller, SetCall(c, NoCall),
         UNCHANGED <<menu, progress, runs, keeper, driver, expired, calls>>,
         listed \subseteq listed', listed' \subseteq Session,
         CallAt(c, "enlist") => call[c].session \in listed', ~CallAt(c, "quit")
  PROVE  SessionRuntimeIInv'
<1>1. call \in [Caller -> SessionCall] /\ calls \in 0..menu.calls /\ NoSession \notin Session
  BY SessionRuntimeAssumption DEF SessionRuntimeIInv, SessionRuntimeTypeOK
<1>2. NoCall \in SessionCall BY DEF NoCall, SessionCall, CallPc
<1>3. call'[c] = NoCall BY <1>1 DEF SetCall
<1>4. CallFits(c)' BY <1>1, <1>3 DEF CallFits, CallAt, NoCall
<1> QED BY <1>1, <1>2, <1>4, CallMovesOn

LEMMA StaleIsPopped ==
  ASSUME SessionRuntimeIInv, NEW c \in Caller, PopStale(c)
  PROVE  SessionRuntimeIInv'
<1>1. call[c] \in SessionCall /\ listed \subseteq Session /\ call \in [Caller -> SessionCall]
      /\ calls \in 0..menu.calls /\ CallAt(c, "reap")
  BY DEF SessionRuntimeIInv, SessionRuntimeTypeOK, PopStale
<1>2. PICK s \in call[c].stale :
        /\ listed' = listed \ {s}
        /\ SetCall(c, IF s \in listed
                      THEN [call[c] EXCEPT !.pc = "quit", !.popped = s, !.stale = @ \ {s}]
                      ELSE [call[c] EXCEPT !.stale = @ \ {s}])
  BY DEF PopStale
<1>3. s \in Session BY <1>1 DEF SessionCall
<1> DEFINE r == IF s \in listed
                THEN [call[c] EXCEPT !.pc = "quit", !.popped = s, !.stale = @ \ {s}]
                ELSE [call[c] EXCEPT !.stale = @ \ {s}]
<1>4. SetCall(c, r) BY <1>2
<1>5. r \in SessionCall BY <1>1, <1>3 DEF SessionCall, CallPc
<1>6. /\ r.op = call[c].op /\ r.session = call[c].session
      /\ s \in listed => r.pc = "quit" /\ r.popped = s
      /\ s \notin listed => r.pc = "reap"
  BY <1>1 DEF SessionCall, CallAt
<1> HIDE DEF r
<1>7. call'[c] = r BY <1>1, <1>4 DEF SetCall
<1>8. CallFits(c) /\ UNCHANGED <<driver, keeper>>
  BY DEF SessionRuntimeIInv, CallsFit, PopStale
<1>9. CallFits(c)'
  BY <1>1, <1>3, <1>6, <1>7, <1>8 DEF CallFits, CallAt
<1>10. \A t \in listed : t \in listed' \/ (r.pc = "quit" /\ r.popped = t)
  BY <1>2, <1>6
<1>11. UNCHANGED <<menu, progress, runs, keeper, driver, expired, calls>> BY DEF PopStale
<1>12. ~CallAt(c, "enlist") /\ ~CallAt(c, "quit") BY <1>1 DEF CallAt
<1>13. listed' \subseteq Session BY <1>1, <1>2
<1>14. calls' \in 0..menu.calls BY <1>1, <1>11
<1> QED BY <1>4, <1>5, <1>9, <1>10, <1>11, <1>12, <1>13, <1>14, CallMovesOn

LEMMA CallsGoOn ==
  ASSUME SessionRuntimeIInv, NEW c \in Caller,
         Reaped(c) \/ LaunchRaises(c) \/ Enlist(c) \/ Lookup(c) \/ PageAction(c)
  PROVE  SessionRuntimeIInv'
<1>1. call[c] \in SessionCall /\ listed \subseteq Session /\ call \in [Caller -> SessionCall]
      /\ calls \in 0..menu.calls /\ CallFits(c)
  BY DEF SessionRuntimeIInv, SessionRuntimeTypeOK, CallsFit
<1>2. UNCHANGED <<menu, progress, runs, keeper, driver, expired, calls>>
  BY DEF Reaped, LaunchRaises, Enlist, Lookup, PageAction
<1>3. ASSUME NEW pc \in {"launch", "lookup", "enter", "page"},
             SetCall(c, [call[c] EXCEPT !.pc = pc]), UNCHANGED listed,
             call[c].pc \in {"reap", "lookup"},
             pc = "enter" => call[c].op \in StepOp,
             pc = "lookup" => call[c].op \in StepOp \union {"page"},
             pc # "launch" => call[c].session \in Session
      PROVE  SessionRuntimeIInv'
  <2> DEFINE r == [call[c] EXCEPT !.pc = pc]
  <2>1. r \in SessionCall BY <1>1 DEF SessionCall, CallPc
  <2>2. r.pc = pc /\ r.op = call[c].op /\ r.session = call[c].session BY <1>1 DEF SessionCall
  <2>3. SetCall(c, r) BY <1>3
  <2> HIDE DEF r
  <2>4. call'[c] = r BY <1>1, <2>3 DEF SetCall
  <2>5. CallFits(c)' BY <1>1, <1>2, <1>3, <2>2, <2>4 DEF CallFits, CallAt
  <2>6. ~CallAt(c, "enlist") /\ ~CallAt(c, "quit") BY <1>3 DEF CallAt
  <2> QED BY <1>1, <1>2, <1>3, <2>1, <2>3, <2>5, <2>6, CallMovesOn
<1>4. CASE Reaped(c)
  <2>1. CallAt(c, "reap") /\ UNCHANGED listed BY <1>4 DEF Reaped
  <2>2. \/ call[c].op \in {"open", "list"}
        \/ call[c].op \in StepOp \union {"page"} /\ call[c].session \in Session
    BY <1>1, <2>1 DEF CallFits
  <2>3. ~CallAt(c, "enlist") /\ ~CallAt(c, "quit") BY <2>1 DEF CallAt
  <2>4. CASE call[c].op = "open"
    BY <1>3, <1>4, <2>1, <2>4 DEF Reaped, CallAt
  <2>5. CASE call[c].op = "list"
    <3>1. SetCall(c, NoCall) BY <1>4, <2>5 DEF Reaped, Return
    <3> QED BY <1>1, <1>2, <2>1, <2>3, <3>1, CallReturns
  <2>6. CASE call[c].op \in StepOp \union {"page"} /\ call[c].session \in Session
    <3>1. call[c].op # "open" /\ call[c].op # "list"
      BY <2>6 DEF StepOp, RegisterOp, RepairOp
    <3>2. SetCall(c, [call[c] EXCEPT !.pc = "lookup"]) BY <1>4, <3>1 DEF Reaped
    <3> QED BY <1>3, <2>1, <2>6, <3>2 DEF CallAt
  <2> QED BY <2>2, <2>4, <2>5, <2>6
<1>5. CASE LaunchRaises(c) \/ PageAction(c)
  <2>1. /\ SetCall(c, NoCall) /\ UNCHANGED listed
        /\ ~CallAt(c, "enlist") /\ ~CallAt(c, "quit")
    BY <1>5 DEF LaunchRaises, PageAction, Return, CallAt
  <2> QED BY <1>1, <1>2, <2>1, CallReturns
<1>6. CASE Enlist(c)
  <2>1. /\ SetCall(c, NoCall) /\ listed' = listed \union {call[c].session}
        /\ ~CallAt(c, "quit") /\ CallAt(c, "enlist")
    BY <1>6 DEF Enlist, Return, CallAt
  <2>2. call[c].session \in Session BY <1>1, <2>1 DEF CallFits, CallAt
  <2> QED BY <1>1, <1>2, <2>1, <2>2, CallReturns
<1>7. CASE Lookup(c)
  <2>1. CallAt(c, "lookup") /\ UNCHANGED listed BY <1>7 DEF Lookup
  <2>2. /\ call[c].session \in Session /\ call[c].op \in StepOp \union {"page"}
    BY <1>1, <2>1 DEF CallFits, CallAt
  <2>3. ~CallAt(c, "enlist") /\ ~CallAt(c, "quit") BY <2>1 DEF CallAt
  <2>4. CASE call[c].session \notin listed
    <3>1. SetCall(c, NoCall) BY <1>7, <2>4 DEF Lookup, Return
    <3> QED BY <1>1, <1>2, <2>1, <2>3, <3>1, CallReturns
  <2>5. CASE call[c].session \in listed /\ call[c].op = "page"
    <3>1. SetCall(c, [call[c] EXCEPT !.pc = "page"]) BY <1>7, <2>5 DEF Lookup
    <3> QED BY <1>3, <2>1, <2>2, <3>1 DEF CallAt
  <2>6. CASE call[c].session \in listed /\ call[c].op # "page"
    <3>1. SetCall(c, [call[c] EXCEPT !.pc = "enter"]) BY <1>7, <2>6 DEF Lookup
    <3> QED BY <1>3, <2>1, <2>2, <2>6, <3>1 DEF CallAt
  <2> QED BY <2>4, <2>5, <2>6
<1> QED BY <1>4, <1>5, <1>6, <1>7

(* Nobody holds the lock of a session whose browser is quit, and a browser *)
(* starts with its session.                                                *)
LEMMA BrowserQuits ==
  ASSUME SessionRuntimeIInv, NEW c \in Caller, QuitPopped(c)
  PROVE  SessionRuntimeIInv'
<1> DEFINE s == call[c].popped
           r == IF call[c].op = "close" THEN NoCall
                ELSE [call[c] EXCEPT !.pc = "reap", !.popped = NoSession]
<1>1. /\ call[c] \in SessionCall /\ call \in [Caller -> SessionCall] /\ CallFits(c)
      /\ driver \in [Session -> {"none", "open", "quit"}]
      /\ progress \in [Session -> ProgressRecord] /\ NoSession \notin Session
      /\ runs \in 0..MaxRuns /\ MaxRuns \in Nat
  BY SessionRuntimeAssumption DEF SessionRuntimeIInv, SessionRuntimeTypeOK, CallsFit
<1>2. /\ CallAt(c, "quit") /\ keeper[s] = Nobody
      /\ driver' = [driver EXCEPT ![s] = "quit"] /\ progress' = [progress EXCEPT ![s] = Blank]
      /\ UNCHANGED <<menu, listed, expired, keeper, calls, runs>>
  BY DEF QuitPopped
<1>3. SetCall(c, r) BY DEF QuitPopped, Return
<1>4. s \in Session BY <1>1, <1>2 DEF CallFits
<1>5. NoCall \in SessionCall BY DEF NoCall, SessionCall, CallPc
<1>6. r \in SessionCall BY <1>1, <1>5 DEF SessionCall, CallPc
<1>7. /\ r.pc \in {"idle", "reap"}
      /\ r.pc = "reap" => r.op = call[c].op /\ r.session = call[c].session
                          /\ call[c].op # "close"
      /\ r.pc = "idle" => r.session = NoSession
  BY <1>1 DEF SessionCall, NoCall
<1> HIDE DEF r
<1>8. call' = [call EXCEPT ![c] = r] BY <1>3 DEF SetCall
<1>9. call'[c] = r /\ \A d \in Caller \ {c} : call'[d] = call[d] BY <1>1, <1>8
<1>10. Blank \in UpTo(runs) /\ Follows(Blank) BY <1>1, BlankFollows
<1>11. Blank \in ProgressRecord BY <1>1, <1>10, StatesAreTyped
<1>12. SessionRuntimeTypeOK'
  <2>1. call' \in [Caller -> SessionCall] BY <1>1, <1>6, <1>8
  <2>2. driver' \in [Session -> {"none", "open", "quit"}]
        /\ progress' \in [Session -> ProgressRecord]
    BY <1>1, <1>2, <1>11
  <2> QED BY <1>2, <2>1, <2>2 DEF SessionRuntimeIInv, SessionRuntimeTypeOK
<1>13. \A t \in Session : t # s => driver'[t] = driver[t] /\ progress'[t] = progress[t]
  BY <1>1, <1>2
<1>14. driver'[s] = "quit" /\ progress'[s] = Blank BY <1>1, <1>2, <1>4
<1>15. BrowsersAreOwned'
  <2> SUFFICES ASSUME NEW t \in Session, driver'[t] = "open"
               PROVE  \/ t \in listed'
                      \/ \E d \in Caller : \/ call'[d].pc = "enlist" /\ call'[d].session = t
                                           \/ call'[d].pc = "quit" /\ call'[d].popped = t
    BY DEF BrowsersAreOwned, CallAt
  <2>1. t # s /\ driver[t] = "open" BY <1>13, <1>14
  <2>2. \/ t \in listed
        \/ \E d \in Caller : \/ CallAt(d, "enlist") /\ call[d].session = t
                             \/ CallAt(d, "quit") /\ call[d].popped = t
    BY <2>1 DEF SessionRuntimeIInv, BrowsersAreOwned
  <2>3. \A d \in Caller : CallAt(d, "enlist") \/ (CallAt(d, "quit") /\ call[d].popped = t)
          => d # c
    BY <1>2, <2>1 DEF CallAt
  <2> QED BY <1>2, <1>9, <2>2, <2>3 DEF CallAt
<1>16. CallsFit'
  <2> SUFFICES ASSUME NEW d \in Caller PROVE CallFits(d)'
    BY DEF CallsFit
  <2>1. CallFits(d) BY DEF SessionRuntimeIInv, CallsFit
  <2>2. CASE d = c
    BY <1>1, <1>2, <1>7, <1>9, <1>13, <1>14, <2>2 DEF CallFits, CallAt
  <2>3. CASE d # c
    BY <1>2, <1>9, <1>13, <1>14, <2>1, <2>3 DEF CallFits, CallAt
  <2> QED BY <2>2, <2>3
<1>17. StatesFollow' BY <1>2, <1>10, <1>13, <1>14 DEF SessionRuntimeIInv, StatesFollow
<1> QED BY <1>12, <1>15, <1>16, <1>17 DEF SessionRuntimeIInv

LEMMA BrowserStarts ==
  ASSUME SessionRuntimeIInv, NEW c \in Caller, LaunchSession(c)
  PROVE  SessionRuntimeIInv'
<1>1. /\ call[c] \in SessionCall /\ call \in [Caller -> SessionCall] /\ menu \in Menu
      /\ driver \in [Session -> {"none", "open", "quit"}] /\ NoSession \notin Session
  BY SessionRuntimeAssumption DEF SessionRuntimeIInv, SessionRuntimeTypeOK
<1>2. PICK s \in menu.sessions :
        /\ driver[s] = "none" /\ driver' = [driver EXCEPT ![s] = "open"]
        /\ SetCall(c, [call[c] EXCEPT !.pc = "enlist", !.session = s])
  BY DEF LaunchSession
<1>3. s \in Session BY <1>1, SessionRuntimeAssumption
<1>4. CallAt(c, "launch") /\ UNCHANGED <<menu, listed, expired, keeper, progress, calls, runs>>
  BY DEF LaunchSession
<1> DEFINE r == [call[c] EXCEPT !.pc = "enlist", !.session = s]
<1>5. r \in SessionCall BY <1>1, <1>3 DEF SessionCall, CallPc
<1>6. r.pc = "enlist" /\ r.session = s BY <1>1 DEF SessionCall
<1>7. call' = [call EXCEPT ![c] = r] BY <1>2 DEF SetCall
<1> HIDE DEF r
<1>8. call'[c] = r /\ \A d \in Caller \ {c} : call'[d] = call[d] BY <1>1, <1>7
<1>9. driver'[s] = "open" /\ \A t \in Session : t # s => driver'[t] = driver[t]
  BY <1>1, <1>2, <1>3
<1>10. SessionRuntimeTypeOK'
  <2>1. call' \in [Caller -> SessionCall] BY <1>1, <1>5, <1>7
  <2>2. driver' \in [Session -> {"none", "open", "quit"}] BY <1>1, <1>2
  <2> QED BY <1>4, <2>1, <2>2 DEF SessionRuntimeIInv, SessionRuntimeTypeOK
<1>11. BrowsersAreOwned'
  <2> SUFFICES ASSUME NEW t \in Session, driver'[t] = "open"
               PROVE  \/ t \in listed'
                      \/ \E d \in Caller : \/ call'[d].pc = "enlist" /\ call'[d].session = t
                                           \/ call'[d].pc = "quit" /\ call'[d].popped = t
    BY DEF BrowsersAreOwned, CallAt
  <2>1. CASE t = s BY <1>6, <1>8, <2>1
  <2>2. CASE t # s
    <3>1. \/ t \in listed
          \/ \E d \in Caller : \/ CallAt(d, "enlist") /\ call[d].session = t
                               \/ CallAt(d, "quit") /\ call[d].popped = t
      BY <1>9, <2>2 DEF SessionRuntimeIInv, BrowsersAreOwned
    <3>2. \A d \in Caller : CallAt(d, "enlist") \/ CallAt(d, "quit") => d # c
      BY <1>4 DEF CallAt
    <3> QED BY <1>4, <1>8, <3>1, <3>2 DEF CallAt
  <2> QED BY <2>1, <2>2
<1>12. CallsFit'
  <2> SUFFICES ASSUME NEW d \in Caller PROVE CallFits(d)'
    BY DEF CallsFit
  <2>1. CallFits(d) BY DEF SessionRuntimeIInv, CallsFit
  <2>2. CASE d = c BY <1>3, <1>6, <1>8, <1>9, <2>2 DEF CallFits, CallAt
  <2>3. CASE d # c BY <1>4, <1>8, <1>9, <2>1, <2>3 DEF CallFits, CallAt
  <2> QED BY <2>2, <2>3
<1>13. StatesFollow' BY <1>4 DEF SessionRuntimeIInv, StatesFollow
<1> QED BY <1>10, <1>11, <1>12, <1>13 DEF SessionRuntimeIInv

LEMMA StepEnters ==
  ASSUME SessionRuntimeIInv, NEW c \in Caller, EnterSession(c)
  PROVE  SessionRuntimeIInv'
<1> DEFINE s == call[c].session
           r == [call[c] EXCEPT !.pc = "work"]
<1>1. /\ call[c] \in SessionCall /\ call \in [Caller -> SessionCall] /\ CallFits(c)
      /\ keeper \in [Session -> Caller \union {Nobody}] /\ Nobody \notin Caller
  BY SessionRuntimeAssumption DEF SessionRuntimeIInv, SessionRuntimeTypeOK, CallsFit
<1>2. /\ CallAt(c, "enter") /\ keeper[s] = Nobody /\ keeper' = [keeper EXCEPT ![s] = c]
      /\ SetCall(c, r)
      /\ UNCHANGED <<menu, listed, expired, driver, progress, calls, runs>>
  BY DEF EnterSession
<1>3. s \in Session /\ call[c].op \in StepOp BY <1>1, <1>2 DEF CallFits, CallAt
<1>4. r \in SessionCall BY <1>1 DEF SessionCall, CallPc
<1>5. r.pc = "work" /\ r.session = s /\ r.op = call[c].op BY <1>1 DEF SessionCall
<1>6. call' = [call EXCEPT ![c] = r] BY <1>2 DEF SetCall
<1> HIDE DEF r
<1>7. call'[c] = r /\ \A d \in Caller \ {c} : call'[d] = call[d] BY <1>1, <1>6
<1>8. keeper'[s] = c /\ \A t \in Session : t # s => keeper'[t] = keeper[t]
  BY <1>1, <1>2, <1>3
<1>9. SessionRuntimeTypeOK'
  <2>1. call' \in [Caller -> SessionCall] BY <1>1, <1>4, <1>6
  <2>2. keeper' \in [Session -> Caller \union {Nobody}] BY <1>1, <1>2
  <2> QED BY <1>2, <2>1, <2>2 DEF SessionRuntimeIInv, SessionRuntimeTypeOK
<1>10. BrowsersAreOwned'
  <2>1. \A d \in Caller : CallAt(d, "enlist") \/ CallAt(d, "quit") => d # c
    BY <1>2 DEF CallAt
  <2> QED BY <1>2, <1>7, <2>1 DEF SessionRuntimeIInv, BrowsersAreOwned, CallAt
<1>11. CallsFit'
  <2> SUFFICES ASSUME NEW d \in Caller PROVE CallFits(d)'
    BY DEF CallsFit
  <2>1. CallFits(d) BY DEF SessionRuntimeIInv, CallsFit
  <2>2. CASE d = c BY <1>1, <1>2, <1>3, <1>5, <1>7, <1>8, <2>2 DEF CallFits, CallAt
  <2>3. CASE d # c
    <3>1. CallAt(d, "work") => call[d].session \in Session /\ call[d].session # s
      BY <1>1, <1>2, <2>1 DEF CallFits
    <3> QED BY <1>2, <1>7, <1>8, <2>1, <2>3, <3>1 DEF CallFits, CallAt
  <2> QED BY <2>2, <2>3
<1>12. StatesFollow' BY <1>2 DEF SessionRuntimeIInv, StatesFollow
<1> QED BY <1>9, <1>10, <1>11, <1>12 DEF SessionRuntimeIInv

(* A step leaves one of its outcomes, or what it found.                    *)
LEMMA StepEnds ==
  ASSUME SessionRuntimeIInv, NEW c \in Caller, FinishStep(c)
  PROVE  SessionRuntimeIInv'
<1> DEFINE s == call[c].session
           n == IF StartsRun(call[c].op) THEN runs + 1 ELSE runs
<1>1. /\ call[c] \in SessionCall /\ call \in [Caller -> SessionCall] /\ CallFits(c)
      /\ keeper \in [Session -> Caller \union {Nobody}] /\ Nobody \notin Caller
      /\ progress \in [Session -> ProgressRecord] /\ NoSession \notin Session
      /\ runs \in 0..MaxRuns /\ MaxRuns \in Nat /\ expired \subseteq Session
  BY SessionRuntimeAssumption DEF SessionRuntimeIInv, SessionRuntimeTypeOK, CallsFit
<1>2. /\ CallAt(c, "work") /\ keeper' = [keeper EXCEPT ![s] = Nobody]
      /\ expired' = IF call[c].op = "renew" THEN expired \ {s} ELSE expired
      /\ runs' = IF n <= MaxRuns THEN n ELSE runs
      /\ SetCall(c, NoCall) /\ UNCHANGED <<menu, listed, driver, calls>>
  BY DEF FinishStep, Return
<1>3. PICK p \in IF n <= MaxRuns THEN After(c, s, n) ELSE {progress[s]} :
        progress' = [progress EXCEPT ![s] = p]
  BY DEF FinishStep
<1>4. s \in Session /\ call[c].op \in StepOp /\ keeper[s] = c
  BY <1>1, <1>2 DEF CallFits, CallAt
<1>5. /\ n \in Nat /\ runs \in Nat /\ runs' \in 0..MaxRuns /\ runs <= runs' /\ runs' \in Nat
      /\ n <= MaxRuns => runs' = n
  BY <1>1, <1>2
<1>6. progress[s] \in UpTo(runs) /\ Follows(progress[s])
  BY <1>4 DEF SessionRuntimeIInv, StatesFollow
<1>7. progress[s] \in UpTo(runs') BY <1>5, <1>6, UpToGrows
<1>8. p \in UpTo(runs') /\ Follows(p)
  <2>1. CASE p = progress[s] BY <1>6, <1>7, <2>1
  <2>2. CASE n <= MaxRuns /\ p \in Outcomes(call[c].op, progress[s], n)
    <3>1. n = IF StartsRun(call[c].op) THEN runs + 1 ELSE runs OBVIOUS
    <3> HIDE DEF n
    <3> QED BY <1>4, <1>5, <1>6, <2>2, <3>1, OutcomesFollow
  <2> QED BY <1>3, <2>1, <2>2 DEF After
<1> HIDE DEF n
<1>9. p \in ProgressRecord BY <1>5, <1>8, StatesAreTyped
<1>10. NoCall \in SessionCall BY DEF NoCall, SessionCall, CallPc
<1>11. call' = [call EXCEPT ![c] = NoCall] BY <1>2 DEF SetCall
<1>12. call'[c] = NoCall /\ \A d \in Caller \ {c} : call'[d] = call[d] BY <1>1, <1>11
<1>13. SessionRuntimeTypeOK'
  <2>1. call' \in [Caller -> SessionCall] BY <1>1, <1>10, <1>11
  <2>2. keeper' \in [Session -> Caller \union {Nobody}] BY <1>1, <1>2
  <2>3. progress' \in [Session -> ProgressRecord] BY <1>1, <1>3, <1>9
  <2>4. expired' \subseteq Session BY <1>1, <1>2
  <2> QED BY <1>2, <1>5, <2>1, <2>2, <2>3, <2>4 DEF SessionRuntimeIInv, SessionRuntimeTypeOK
<1>14. BrowsersAreOwned'
  <2>1. \A d \in Caller : CallAt(d, "enlist") \/ CallAt(d, "quit") => d # c
    BY <1>2 DEF CallAt
  <2> QED BY <1>2, <1>12, <2>1 DEF SessionRuntimeIInv, BrowsersAreOwned, CallAt
<1>15. CallsFit'
  <2> SUFFICES ASSUME NEW d \in Caller PROVE CallFits(d)'
    BY DEF CallsFit
  <2>1. CallFits(d) BY DEF SessionRuntimeIInv, CallsFit
  <2>2. CASE d = c BY <1>1, <1>12, <2>2 DEF CallFits, CallAt, NoCall
  <2>3. CASE d # c
    <3>1. CallAt(d, "work") => call[d].session \in Session /\ call[d].session # s
      BY <1>4, <2>1, <2>3 DEF CallFits
    <3>2. \A t \in Session : t # s => keeper'[t] = keeper[t] BY <1>1, <1>2
    <3> QED BY <1>2, <1>12, <2>1, <2>3, <3>1, <3>2 DEF CallFits, CallAt
  <2> QED BY <2>2, <2>3
<1>16. StatesFollow'
  <2> SUFFICES ASSUME NEW t \in Session PROVE progress'[t] \in UpTo(runs') /\ Follows(progress'[t])
    BY DEF StatesFollow
  <2>1. CASE t = s
    <3>1. progress'[t] = p BY <1>1, <1>3, <2>1
    <3> QED BY <1>8, <3>1
  <2>2. CASE t # s
    <3>1. progress'[t] = progress[t] BY <1>1, <1>3, <2>2
    <3>2. progress[t] \in UpTo(runs) /\ Follows(progress[t])
      BY DEF SessionRuntimeIInv, StatesFollow
    <3>3. progress[t] \in UpTo(runs') BY <1>5, <3>2, UpToGrows
    <3> QED BY <3>1, <3>2, <3>3
  <2> QED BY <2>1, <2>2
<1> QED BY <1>13, <1>14, <1>15, <1>16 DEF SessionRuntimeIInv

LEMMA SessionRuntimeSteps ==
  ASSUME SessionRuntimeIInv, [SessionRuntimeNext]_sessionVars
  PROVE  SessionRuntimeIInv'
<1>1. CASE UNCHANGED sessionVars
  BY <1>1 DEF sessionVars, SessionRuntimeIInv, SessionRuntimeTypeOK, BrowsersAreOwned, CallsFit,
     CallFits, StatesFollow, CallAt
<1>2. CASE \E c \in Caller : CallStep(c)
  <2>1. PICK c \in Caller : CallStep(c) BY <1>2
  <2> QED
    BY <2>1, StaleIsPopped, BrowserQuits, CallsGoOn, BrowserStarts, StepEnters, StepEnds
    DEF CallStep
<1>3. CASE \E c \in Caller, op \in SessionOp, s \in Session \union {NoSession} :
             BeginCall(c, op, s)
  BY <1>3, CallBegins
<1>4. CASE \E s \in Session : Expires(s)
  <2>1. /\ expired' \subseteq Session
        /\ UNCHANGED <<menu, listed, keeper, driver, progress, call, calls, runs>>
    BY <1>4 DEF Expires, SessionRuntimeIInv, SessionRuntimeTypeOK
  <2> QED
    BY <2>1 DEF SessionRuntimeIInv, SessionRuntimeTypeOK, BrowsersAreOwned, CallsFit, CallFits,
       StatesFollow, CallAt
<1> QED BY <1>1, <1>2, <1>3, <1>4 DEF SessionRuntimeNext

LEMMA SessionRuntimeHolds == SessionRuntimeSpec => []SessionRuntimeIInv
BY SessionRuntimeStarts, SessionRuntimeSteps, PTL DEF SessionRuntimeSpec

(* However expiry, releases and launches race and in whatever order steps  *)
(* are called, no browser runs without an owner and no key of a session's  *)
(* state is of a later run than those it was made from, for every number   *)
(* of callers, sessions, calls and runs (session_runtime.py:294-375,       *)
(* 464-1272).                                                              *)
THEOREM SessionsOwnTheirBrowsers == SessionRuntimeSpec => []SessionRuntimeInv
<1>1. SessionRuntimeIInv => SessionRuntimeInv
  BY DEF SessionRuntimeIInv, SessionRuntimeInv, StatesFollow, Follows, KeysFollow
<1> QED BY <1>1, SessionRuntimeHolds, PTL

LEMMA BrowsersStay ==
  ASSUME SessionRuntimeIInv, [SessionRuntimeNext]_sessionVars, NEW c \in Caller,
         CallAt(c, "work"), CallAt(c, "work")'
  PROVE  driver'[call[c].session] = driver[call[c].session]
<1> DEFINE s == call[c].session
<1>1. /\ s \in Session /\ keeper[s] = c /\ driver[s] # "none" /\ Nobody \notin Caller
      /\ driver \in [Session -> {"none", "open", "quit"}]
  BY SessionRuntimeAssumption
  DEF SessionRuntimeIInv, SessionRuntimeTypeOK, CallsFit, CallFits, CallAt
<1>2. CASE UNCHANGED driver BY <1>2
<1>3. CASE \E d \in Caller : QuitPopped(d)
  <2>1. PICK d \in Caller : QuitPopped(d) BY <1>3
  <2>2. keeper[call[d].popped] = Nobody /\ driver' = [driver EXCEPT ![call[d].popped] = "quit"]
    BY <2>1 DEF QuitPopped
  <2> QED BY <1>1, <2>2
<1>4. CASE \E d \in Caller : LaunchSession(d)
  <2>1. PICK t : driver[t] = "none" /\ driver' = [driver EXCEPT ![t] = "open"]
    BY <1>4 DEF LaunchSession
  <2> QED BY <1>1, <2>1
<1>5. \/ UNCHANGED driver
      \/ \E d \in Caller : QuitPopped(d)
      \/ \E d \in Caller : LaunchSession(d)
  BY DEF SessionRuntimeNext, sessionVars, CallStep, PopStale, Reaped, LaunchRaises, Enlist,
     Lookup, PageAction, EnterSession, FinishStep, BeginCall, Expires
<1> QED BY <1>2, <1>3, <1>4, <1>5

(* A step keeps the browser it began with: a release waits for the lock it *)
(* holds, and no launch takes a session twice (session_runtime.py:369-374).*)
THEOREM StepsKeepBrowsers == SessionRuntimeSpec => StepsKeepTheirBrowser
<1>1. SessionRuntimeIInv /\ [SessionRuntimeNext]_sessionVars =>
        [\A c \in Caller : CallAt(c, "work") /\ CallAt(c, "work")' =>
           driver'[call[c].session] = driver[call[c].session]]_sessionVars
  BY BrowsersStay
<1> QED BY <1>1, SessionRuntimeHolds, PTL DEF SessionRuntimeSpec, StepsKeepTheirBrowser

-----------------------------------------------------------------------------
(***************************************************************************)
(* A process.  Between reading a task and answering it exactly one task is *)
(* open; what runs beside the process is what its kind and the connects    *)
(* that failed account for.                                                *)
(***************************************************************************)
Starting == main.pc \in {"launch", "server", "playwright"}

TasksFit ==
  /\ {sent, begun, answered} \subseteq Nat
  /\ AnsweredOnce
  /\ Starting \/ MainAt("read") => begun = answered

HelpersFit ==
  /\ kind = "chrome" =>
       /\ ~server /\ openPages = {} /\ ~Starting
       /\ helpers.playwright = 0 /\ helpers.profile = 0
  /\ kind = "camoufox" =>
       /\ helpers.profile = 0 /\ helpers.playwright <= 1
       /\ main.pc \in {"launch", "server"} => helpers.playwright = 0
  /\ kind = "geekez" =>
       /\ helpers.playwright <= failed + 1 /\ helpers.profile <= failed + 1
       /\ ~browser => helpers.playwright <= failed /\ helpers.profile <= failed
  /\ Starting => ~browser

(* An id is bound to an open page that has its close handler, and a close  *)
(* handler on an open page is that of an id bound to the page, or in       *)
(* geekez of one that has been closed without it.                          *)
BindingsFit ==
  /\ \A i \in Page : table[i] # NoPage =>
       i \in used /\ table[i] \in openPages /\ i \in handlers[table[i]]
  /\ \A p \in openPages : \A i \in handlers[p] :
       table[i] = p \/ (kind = "geekez" /\ table[i] = NoPage)
  /\ openPages \subseteq used
  /\ \A p \in Page : handlers[p] \subseteq used /\ (p \notin used => handlers[p] = {})

PagesFit ==
  BindingsFit /\ PagesAreKnown /\ main.target \in used \union {NoPage}

StdioIInv == StdioTypeOK /\ TasksFit /\ HelpersFit /\ NothingLeftRunning /\ PagesFit

LEMMA StdioStarts == StdioInit => StdioIInv
<1> SUFFICES ASSUME StdioInit PROVE StdioIInv
  OBVIOUS
<1> USE StdioAssumption DEF StdioInit
<1>1. StdioTypeOK
  <2>1. PICK pc \in {"read", "launch"} :
          main = [pc |-> pc, op |-> "other", target |-> NoPage, ok |-> FALSE]
    OBVIOUS
  <2>2. main \in Main BY <2>1 DEF Main, Op
  <2>3. helpers \in [playwright : Nat, profile : Nat] OBVIOUS
  <2>4. /\ {server, browser} \subseteq BOOLEAN /\ asked \in {"no", "line", "signal"}
        /\ kind \in Kind
    OBVIOUS
  <2>5. /\ openPages \subseteq Page /\ used \subseteq Page
        /\ table \in [Page -> Page \union {NoPage}] /\ handlers \in [Page -> SUBSET Page]
    OBVIOUS
  <2>6. /\ failed \in 0..MaxFailures
        /\ answered <= begun /\ begun <= sent /\ sent <= MaxTasks
    OBVIOUS
  <2> QED BY <2>2, <2>3, <2>4, <2>5, <2>6 DEF StdioTypeOK
<1>2. TasksFit BY DEF TasksFit, AnsweredOnce, Starting, MainAt
<1>3. HelpersFit BY DEF HelpersFit, Starting
<1>4. NothingLeftRunning BY DEF NothingLeftRunning, MainAt
<1>5. PagesFit BY DEF PagesFit, BindingsFit, PagesAreKnown
<1> QED BY <1>1, <1>2, <1>3, <1>4, <1>5 DEF StdioIInv

(* Steps that leave the pages alone.                                       *)
LEMMA PagesRest ==
  ASSUME StdioIInv, UNCHANGED <<kind, pageVars>>, main'.target \in used \union {NoPage}
  PROVE  PagesFit'
BY DEF StdioIInv, PagesFit, BindingsFit, PagesAreKnown, pageVars

LEMMA ProcessStarts ==
  ASSUME StdioIInv, StartServer \/ StartPlaywright \/ BecomeReady \/ StartFails
  PROVE  StdioIInv'
<1>1. /\ main \in Main /\ helpers \in [playwright : Nat, profile : Nat]
      /\ {server, browser} \subseteq BOOLEAN /\ Starting
      /\ UNCHANGED <<kind, pageVars, failed, asked, taskVars>>
  BY DEF StdioIInv, StdioTypeOK, Starting, MainAt, StartServer, StartPlaywright, BecomeReady,
     StartFails, processVars
<1>2. PICK pc \in {"server", "playwright", "read", "stop"} : main' = [main EXCEPT !.pc = pc]
  BY DEF StartServer, StartPlaywright, BecomeReady, StartFails
<1>3. main' \in Main /\ main'.pc = pc /\ main'.target = main.target BY <1>1, <1>2 DEF Main
<1>4. UNCHANGED <<openPages, table, handlers, used, sent, begun, answered>>
  BY <1>1 DEF pageVars, taskVars
<1>5. /\ helpers' \in [playwright : Nat, profile : Nat] /\ {server', browser'} \subseteq BOOLEAN
      /\ HelpersFit' /\ (pc = "read" \/ pc = "stop" \/ Starting')
  <2>1. CASE StartServer
    <3>1. /\ MainAt("launch") /\ server' = TRUE /\ UNCHANGED <<browser, helpers>>
          /\ main' = [main EXCEPT !.pc = "server"]
      BY <2>1 DEF StartServer
    <3>2. main'.pc = "server" BY <1>1, <3>1 DEF Main
    <3> QED BY <1>1, <1>4, <3>1, <3>2 DEF StdioIInv, HelpersFit, Starting, MainAt
  <2>2. CASE StartPlaywright
    <3>1. /\ MainAt("server") /\ kind = "camoufox" /\ UNCHANGED <<server, browser>>
          /\ main' = [main EXCEPT !.pc = "playwright"]
          /\ helpers' = [helpers EXCEPT !.playwright = @ + 1]
      BY <2>2 DEF StartPlaywright
    <3>2. main'.pc = "playwright" BY <1>1, <3>1 DEF Main
    <3>3. /\ helpers' \in [playwright : Nat, profile : Nat]
          /\ helpers'.playwright = helpers.playwright + 1 /\ helpers'.profile = helpers.profile
      BY <1>1, <3>1
    <3> QED BY <1>1, <1>4, <3>1, <3>2, <3>3 DEF StdioIInv, HelpersFit, Starting, MainAt
  <2>3. CASE BecomeReady
    <3>1. /\ browser' = (kind = "camoufox") /\ UNCHANGED <<server, helpers>>
          /\ main' = [main EXCEPT !.pc = "read"]
      BY <2>3 DEF BecomeReady
    <3>2. main'.pc = "read" BY <1>1, <3>1 DEF Main
    <3>3. browser' \in BOOLEAN /\ (kind # "camoufox" => ~browser') BY <3>1
    <3>4. ~Starting' BY <3>2 DEF Starting
    <3>5. HelpersFit' BY <1>1, <1>4, <3>1, <3>2, <3>3, <3>4 DEF StdioIInv, HelpersFit, Starting
    <3> QED BY <1>1, <1>2, <3>1, <3>2, <3>3, <3>5, <1>3
  <2>4. CASE StartFails
    <3>1. main' = [main EXCEPT !.pc = "stop"] /\ UNCHANGED <<server, browser, helpers>>
      BY <2>4 DEF StartFails, processVars
    <3>2. main'.pc = "stop" BY <1>1, <3>1 DEF Main
    <3> QED BY <1>1, <1>3, <1>4, <3>1, <3>2 DEF StdioIInv, HelpersFit, Starting
  <2> QED BY <2>1, <2>2, <2>3, <2>4
<1>6. StdioTypeOK' BY <1>1, <1>3, <1>4, <1>5 DEF StdioIInv, StdioTypeOK
<1>7. TasksFit'
  BY <1>1, <1>3, <1>4, <1>5 DEF StdioIInv, TasksFit, AnsweredOnce, Starting, MainAt
<1>9. NothingLeftRunning' BY <1>3 DEF NothingLeftRunning, MainAt
<1>8. PagesFit' BY <1>1, <1>3, PagesRest DEF StdioIInv, PagesFit
<1> QED BY <1>5, <1>6, <1>7, <1>8, <1>9 DEF StdioIInv

(* Steps within a task that leave the processes alone.                     *)
LEMMA TaskGoesOn ==
  ASSUME StdioIInv, main' \in Main, {main.pc, main'.pc} \subseteq {"run", "goto", "answer"},
         UNCHANGED <<kind, asked, sent, begun, answered, server, browser, helpers, failed>>,
         openPages' \subseteq Page, used' \subseteq Page,
         table' \in [Page -> Page \union {NoPage}], handlers' \in [Page -> SUBSET Page],
         kind = "chrome" => openPages' = {}, PagesFit'
  PROVE  StdioIInv'
<1>1. StdioTypeOK' BY DEF StdioIInv, StdioTypeOK
<1>2. TasksFit' BY DEF StdioIInv, TasksFit, AnsweredOnce, Starting, MainAt
<1>3. HelpersFit' BY DEF StdioIInv, HelpersFit, Starting
<1>4. NothingLeftRunning' BY DEF NothingLeftRunning, MainAt
<1> QED BY <1>1, <1>2, <1>3, <1>4 DEF StdioIInv

LEMMA TrueOrFalse == \A b \in BOOLEAN : b = TRUE \/ b = FALSE
OBVIOUS

LEMMA TaskIsDone ==
  ASSUME main \in Main, NEW ok, ok \in BOOLEAN, Done(ok)
  PROVE  main' \in Main /\ main'.pc = "answer" /\ main'.target = main.target
<1>1. main' = [main EXCEPT !.pc = "answer", !.ok = TRUE]
      \/ main' = [main EXCEPT !.pc = "answer", !.ok = FALSE]
  <2>1. ok = TRUE \/ ok = FALSE BY TrueOrFalse, Zenon
  <2> QED BY <2>1 DEF Done
<1> QED BY <1>1 DEF Main

LEMMA PageChoices ==
  ASSUME StdioIInv
  PROVE  /\ Records(main.target) \subseteq openPages
         /\ \A p \in Records(main.target) :
              /\ main.target \in used /\ main.target \in Page /\ p \in Page
              /\ \/ table[main.target] = p
                 \/ kind = "camoufox" /\ table[main.target] = NoPage
<1>1. main.target \in used \union {NoPage} /\ used \subseteq Page /\ openPages \subseteq Page
  BY DEF StdioIInv, PagesFit, StdioTypeOK
<1>2. CASE main.target = NoPage
  <2>1. main.target \notin used BY <1>1, <1>2, StdioAssumption
  <2> QED BY <1>2, <2>1 DEF Records
<1>3. CASE main.target \in used /\ table[main.target] # NoPage
  <2>1. main.target # NoPage BY <1>1, <1>3, StdioAssumption
  <2>2. Records(main.target) = {table[main.target]} BY <1>3, <2>1 DEF Records
  <2>3. table[main.target] \in openPages BY <1>1, <1>3 DEF StdioIInv, PagesFit, BindingsFit
  <2> QED BY <1>1, <1>3, <2>2, <2>3
<1>4. CASE main.target \in used /\ table[main.target] = NoPage
  <2>1. main.target # NoPage BY <1>1, <1>4, StdioAssumption
  <2>2. Records(main.target) = IF kind = "camoufox" THEN openPages ELSE {}
    BY <1>4, <2>1 DEF Records
  <2> QED BY <1>1, <1>4, <2>2
<1> QED BY <1>1, <1>2, <1>3, <1>4

LEMMA TasksRun ==
  ASSUME StdioIInv, OtherAction \/ OpenFails \/ LoadPage \/ Unknown \/ Unwritable
  PROVE  StdioIInv'
<1>1. main \in Main BY DEF StdioIInv, StdioTypeOK
<1>2. UNCHANGED <<kind, asked, sent, begun, answered, server, browser, helpers, failed,
                  openPages, table, handlers, used>>
  BY DEF OtherAction, OpenFails, LoadPage, Unknown, Unwritable, processVars, pageVars, taskVars
<1>3. main.pc \in {"run", "goto", "answer"}
  BY DEF OtherAction, OpenFails, LoadPage, Unknown, Unwritable, MainAt, Runs
<1>4. main' \in Main /\ main'.pc = "answer" /\ main'.target = main.target
  <2>1. CASE OtherAction BY <1>1, <2>1, TaskIsDone DEF OtherAction
  <2>2. CASE OpenFails
    <3>1. Done(FALSE) /\ FALSE \in BOOLEAN BY <2>2 DEF OpenFails
    <3> QED BY <1>1, <3>1, TaskIsDone
  <2>3. CASE LoadPage BY <1>1, <2>3, TaskIsDone DEF LoadPage
  <2>4. CASE Unknown
    <3>1. Done(FALSE) /\ FALSE \in BOOLEAN BY <2>4 DEF Unknown
    <3> QED BY <1>1, <3>1, TaskIsDone
  <2>5. CASE Unwritable
    <3>1. main' = [main EXCEPT !.ok = FALSE] /\ main.pc = "answer"
      BY <2>5 DEF Unwritable, MainAt
    <3> QED BY <1>1, <3>1 DEF Main
  <2> QED BY <2>1, <2>2, <2>3, <2>4, <2>5
<1>5. PagesFit' BY <1>2, <1>4, PagesRest DEF pageVars, StdioIInv, PagesFit
<1>6. /\ openPages' \subseteq Page /\ used' \subseteq Page
      /\ table' \in [Page -> Page \union {NoPage}] /\ handlers' \in [Page -> SUBSET Page]
      /\ kind = "chrome" => openPages' = {}
  BY <1>2 DEF StdioIInv, StdioTypeOK, HelpersFit
<1> QED BY <1>2, <1>3, <1>4, <1>5, <1>6, TaskGoesOn

LEMMA PageOpens ==
  ASSUME StdioIInv, OpenPage
  PROVE  StdioIInv'
<1>1. /\ main \in Main /\ openPages \subseteq Page /\ used \subseteq Page /\ NoPage \notin Page
      /\ table \in [Page -> Page \union {NoPage}] /\ handlers \in [Page -> SUBSET Page]
  BY StdioAssumption DEF StdioIInv, StdioTypeOK
<1>2. PICK p \in Page \ used :
        /\ used' = used \union {p} /\ openPages' = openPages \union {p} /\ Bind(p, p)
        /\ main' = [main EXCEPT !.pc = "goto", !.target = p]
  BY DEF OpenPage
<1>3. /\ main' \in Main /\ main'.pc = "goto" /\ main'.target = p BY <1>1, <1>2 DEF Main
<1>4. /\ main.pc = "run" /\ kind # "chrome"
      /\ UNCHANGED <<kind, asked, sent, begun, answered, server, browser, helpers, failed>>
  BY DEF OpenPage, Runs, MainAt, processVars, taskVars
<1>5. /\ table' = [table EXCEPT ![p] = p] /\ handlers' = [handlers EXCEPT ![p] = @ \union {p}]
  BY <1>2 DEF Bind
<1>6. /\ table' \in [Page -> Page \union {NoPage}] /\ handlers' \in [Page -> SUBSET Page]
      /\ table'[p] = p /\ handlers'[p] = handlers[p] \union {p}
      /\ \A q \in Page : q # p => table'[q] = table[q] /\ handlers'[q] = handlers[q]
  BY <1>1, <1>5
<1>7. BindingsFit /\ PagesAreKnown BY DEF StdioIInv, PagesFit
<1>8. table[p] = NoPage BY <1>2, <1>7 DEF BindingsFit
<1>9. BindingsFit'
  <2>1. \A i \in Page : table'[i] # NoPage =>
          i \in used' /\ table'[i] \in openPages' /\ i \in handlers'[table'[i]]
    <3> SUFFICES ASSUME NEW i \in Page, table'[i] # NoPage
                 PROVE  i \in used' /\ table'[i] \in openPages' /\ i \in handlers'[table'[i]]
      OBVIOUS
    <3>1. CASE i = p BY <1>2, <1>6, <3>1
    <3>2. CASE i # p
      <4>1. /\ table'[i] = table[i] /\ i \in used /\ table[i] \in openPages
            /\ i \in handlers[table[i]]
        BY <1>6, <1>7, <3>2 DEF BindingsFit
      <4> QED BY <1>1, <1>2, <1>6, <4>1
    <3> QED BY <3>1, <3>2
  <2>2. \A q \in openPages' : \A i \in handlers'[q] :
          table'[i] = q \/ (kind = "geekez" /\ table'[i] = NoPage)
    <3> SUFFICES ASSUME NEW q \in openPages', NEW i \in handlers'[q]
                 PROVE  table'[i] = q \/ (kind = "geekez" /\ table'[i] = NoPage)
      OBVIOUS
    <3>1. q \in Page /\ handlers[q] \subseteq used /\ handlers[p] \subseteq used
      BY <1>1, <1>2, <1>7 DEF BindingsFit
    <3>2. CASE i = p
      <4>1. q = p BY <1>2, <1>6, <3>1, <3>2
      <4> QED BY <1>6, <3>2, <4>1
    <3>3. CASE i # p
      <4>1. i \in handlers[q] /\ i \in used /\ table'[i] = table[i] BY <1>1, <1>6, <3>1, <3>3
      <4>2. CASE q = p
        <5>1. handlers[p] = {} BY <1>2, <1>7 DEF BindingsFit
        <5> QED BY <4>1, <4>2, <5>1
      <4>3. CASE q # p BY <1>2, <1>7, <4>1, <4>3 DEF BindingsFit
      <4> QED BY <4>2, <4>3
    <3> QED BY <3>2, <3>3
  <2>3. openPages' \subseteq used' BY <1>2, <1>7 DEF BindingsFit
  <2>4. \A q \in Page : handlers'[q] \subseteq used' /\ (q \notin used' => handlers'[q] = {})
    BY <1>2, <1>6, <1>7 DEF BindingsFit
  <2> QED BY <1>4, <2>1, <2>2, <2>3, <2>4 DEF BindingsFit
<1>10. PagesAreKnown'
  <2> SUFFICES ASSUME kind = "camoufox", NEW q \in openPages'
               PROVE  \E i \in Page : table'[i] = q
    BY <1>4 DEF PagesAreKnown
  <2>1. CASE q = p BY <1>6, <2>1
  <2>2. CASE q # p
    <3>1. PICK i \in Page : table[i] = q BY <1>2, <1>7, <2>2 DEF PagesAreKnown
    <3>2. i # p BY <1>1, <1>2, <1>8, <2>2, <3>1
    <3> QED BY <1>6, <3>1, <3>2
  <2> QED BY <2>1, <2>2
<1>11. PagesFit' BY <1>2, <1>3, <1>9, <1>10 DEF PagesFit
<1>12. openPages' \subseteq Page /\ used' \subseteq Page BY <1>1, <1>2
<1> QED BY <1>3, <1>4, <1>6, <1>11, <1>12, TaskGoesOn

(* An id that has no page is bound to an open one: no other id loses its   *)
(* page by it.                                                             *)
LEMMA IdIsBound ==
  ASSUME StdioIInv, NEW p \in Records(main.target), Bind(main.target, p),
         UNCHANGED <<kind, openPages, used>>
  PROVE  /\ table' \in [Page -> Page \union {NoPage}] /\ handlers' \in [Page -> SUBSET Page]
         /\ BindingsFit' /\ PagesAreKnown'
         /\ \A j \in Page : table[j] \in openPages => table'[j] = table[j]
<1> DEFINE i == main.target
<1>1. /\ i \in used /\ i \in Page /\ p \in openPages /\ p \in Page
      /\ \/ table[i] = p
         \/ kind = "camoufox" /\ table[i] = NoPage
  BY PageChoices
<1>2. /\ openPages \subseteq Page /\ used \subseteq Page /\ NoPage \notin Page
      /\ table \in [Page -> Page \union {NoPage}] /\ handlers \in [Page -> SUBSET Page]
  BY StdioAssumption DEF StdioIInv, StdioTypeOK
<1>3. /\ table' = [table EXCEPT ![i] = p] /\ handlers' = [handlers EXCEPT ![p] = @ \union {i}]
  BY DEF Bind
<1> HIDE DEF i
<1>4. /\ table' \in [Page -> Page \union {NoPage}] /\ handlers' \in [Page -> SUBSET Page]
      /\ table'[i] = p /\ handlers'[p] = handlers[p] \union {i}
      /\ \A j \in Page : j # i => table'[j] = table[j]
      /\ \A q \in Page : q # p => handlers'[q] = handlers[q]
  BY <1>1, <1>2, <1>3
<1>5. BindingsFit /\ PagesAreKnown BY DEF StdioIInv, PagesFit
<1>6. \A j \in Page : table[j] \in openPages => table'[j] = table[j]
  BY <1>1, <1>2, <1>4
<1>7. BindingsFit'
  <2>1. \A j \in Page : table'[j] # NoPage =>
          j \in used /\ table'[j] \in openPages /\ j \in handlers'[table'[j]]
    <3> SUFFICES ASSUME NEW j \in Page, table'[j] # NoPage
                 PROVE  j \in used /\ table'[j] \in openPages /\ j \in handlers'[table'[j]]
      OBVIOUS
    <3>1. CASE j = i BY <1>1, <1>4, <3>1
    <3>2. CASE j # i
      <4>1. /\ table'[j] = table[j] /\ j \in used /\ table[j] \in openPages
            /\ j \in handlers[table[j]]
        BY <1>4, <1>5, <3>2 DEF BindingsFit
      <4> QED BY <1>2, <1>4, <4>1
    <3> QED BY <3>1, <3>2
  <2>2. \A q \in openPages : \A j \in handlers'[q] :
          table'[j] = q \/ (kind = "geekez" /\ table'[j] = NoPage)
    <3> SUFFICES ASSUME NEW q \in openPages, NEW j \in handlers'[q]
                 PROVE  table'[j] = q \/ (kind = "geekez" /\ table'[j] = NoPage)
      OBVIOUS
    <3>1. j \in Page /\ q \in Page BY <1>2, <1>4
    <3>2. CASE j = i /\ q = p BY <1>4, <3>2
    <3>3. CASE ~(j = i /\ q = p)
      <4>1. j \in handlers[q] BY <1>4, <3>1, <3>3
      <4>2. table[j] = q \/ (kind = "geekez" /\ table[j] = NoPage)
        BY <1>5, <4>1 DEF BindingsFit
      <4>3. CASE j = i BY <1>1, <1>2, <3>3, <4>2, <4>3
      <4>4. CASE j # i BY <1>4, <3>1, <4>2, <4>4
      <4> QED BY <4>3, <4>4
    <3> QED BY <3>2, <3>3
  <2>3. \A q \in Page : handlers'[q] \subseteq used /\ (q \notin used => handlers'[q] = {})
    BY <1>1, <1>4, <1>5 DEF BindingsFit
  <2> QED BY <2>1, <2>2, <2>3, <1>5 DEF BindingsFit
<1>8. PagesAreKnown'
  <2> SUFFICES ASSUME kind = "camoufox", NEW q \in openPages
               PROVE  \E j \in Page : table'[j] = q
    BY DEF PagesAreKnown
  <2>1. PICK j \in Page : table[j] = q BY <1>5 DEF PagesAreKnown
  <2> QED BY <1>6, <2>1
<1> QED BY <1>4, <1>6, <1>7, <1>8

(* A page goes, and the ids on which its handlers hang with it: the ids of *)
(* the other pages stay.                                                   *)
LEMMA PageLeaves ==
  ASSUME StdioIInv, NEW p \in openPages, NEW I \in SUBSET used,
         \A i \in I : table[i] \in {p, NoPage},
         UNCHANGED <<kind, used>>, openPages' = openPages \ {p},
         handlers' \in [Page -> SUBSET Page], table' \in [Page -> Page \union {NoPage}],
         handlers'[p] = handlers[p] \union I,
         \A q \in Page \ {p} : handlers'[q] = handlers[q],
         \A j \in Page : table'[j] = IF j \in handlers[p] \union I THEN NoPage ELSE table[j]
  PROVE  /\ BindingsFit' /\ PagesAreKnown'
         /\ \A j \in Page : table[j] \in openPages' => table'[j] = table[j]
<1>1. /\ openPages \subseteq Page /\ used \subseteq Page /\ NoPage \notin Page /\ p \in Page
      /\ table \in [Page -> Page \union {NoPage}] /\ handlers \in [Page -> SUBSET Page]
  BY StdioAssumption DEF StdioIInv, StdioTypeOK
<1>2. BindingsFit /\ PagesAreKnown BY DEF StdioIInv, PagesFit
<1>3. \A j \in Page : table[j] \in openPages' => table'[j] = table[j]
  <2> SUFFICES ASSUME NEW j \in Page, table[j] \in openPages' PROVE j \notin handlers[p] \union I
    OBVIOUS
  <2>1. table[j] # p /\ table[j] # NoPage BY <1>1
  <2> QED BY <1>2, <2>1 DEF BindingsFit
<1>4. \A j \in Page : table'[j] # NoPage => table'[j] = table[j] /\ table[j] \in openPages'
  <2> SUFFICES ASSUME NEW j \in Page, table'[j] # NoPage
               PROVE  table'[j] = table[j] /\ table[j] \in openPages'
    OBVIOUS
  <2>1. table'[j] = table[j] /\ j \notin handlers[p] OBVIOUS
  <2>2. table[j] \in openPages /\ j \in handlers[table[j]] BY <1>2, <2>1 DEF BindingsFit
  <2> QED BY <2>1, <2>2
<1>5. BindingsFit'
  <2>1. \A j \in Page : table'[j] # NoPage =>
          j \in used' /\ table'[j] \in openPages' /\ j \in handlers'[table'[j]]
    <3> SUFFICES ASSUME NEW j \in Page, table'[j] # NoPage
                 PROVE  j \in used /\ table'[j] \in openPages' /\ j \in handlers'[table'[j]]
      OBVIOUS
    <3>1. table'[j] = table[j] /\ table[j] \in openPages' /\ table[j] # NoPage BY <1>4
    <3>2. j \in used /\ j \in handlers[table[j]] BY <1>2, <3>1 DEF BindingsFit
    <3> QED BY <1>1, <3>1, <3>2
  <2>2. \A q \in openPages' : \A j \in handlers'[q] :
          table'[j] = q \/ (kind' = "geekez" /\ table'[j] = NoPage)
    <3> SUFFICES ASSUME NEW q \in openPages', NEW j \in handlers'[q]
                 PROVE  table'[j] = q \/ (kind = "geekez" /\ table'[j] = NoPage)
      OBVIOUS
    <3>1. j \in Page /\ q \in openPages /\ q # p /\ j \in handlers[q] BY <1>1
    <3>2. table[j] = q \/ (kind = "geekez" /\ table[j] = NoPage)
      BY <1>2, <3>1 DEF BindingsFit
    <3>3. table[j] = NoPage => table'[j] = NoPage BY <3>1
    <3> QED BY <1>3, <3>1, <3>2, <3>3
  <2>3. openPages' \subseteq used' BY <1>2 DEF BindingsFit
  <2>4. \A q \in Page : handlers'[q] \subseteq used' /\ (q \notin used' => handlers'[q] = {})
    <3>1. p \in used BY <1>2 DEF BindingsFit
    <3> QED BY <1>2, <3>1 DEF BindingsFit
  <2> QED BY <2>1, <2>2, <2>3, <2>4 DEF BindingsFit
<1>6. PagesAreKnown'
  <2> SUFFICES ASSUME kind = "camoufox", NEW q \in openPages'
               PROVE  \E j \in Page : table'[j] = q
    BY DEF PagesAreKnown
  <2>1. PICK j \in Page : table[j] = q BY <1>2 DEF PagesAreKnown
  <2> QED BY <1>3, <2>1
<1> QED BY <1>3, <1>5, <1>6

(* An id loses an open page that stays open only when it is closed.        *)
IdsKept ==
  \A i \in Page :
    table[i] \in openPages \intersect openPages' /\ table'[i] # table[i] =>
      main.op = "close" /\ main.target = i

LEMMA PageIsUsed ==
  ASSUME StdioIInv, UsePage
  PROVE  StdioIInv' /\ IdsKept
<1>1. main \in Main /\ openPages \subseteq Page /\ used \subseteq Page
  BY DEF StdioIInv, StdioTypeOK
<1>2. PICK p \in Records(main.target) : Bind(main.target, p) BY DEF UsePage
<1>3. /\ main.pc = "run" /\ kind # "chrome"
      /\ UNCHANGED <<kind, asked, sent, begun, answered, server, browser, helpers, failed,
                     openPages, used>>
  BY DEF UsePage, Runs, MainAt, processVars, taskVars
<1>4. main' \in Main /\ main'.pc = "answer" /\ main'.target = main.target
  BY <1>1, TaskIsDone DEF UsePage
<1>5. /\ table' \in [Page -> Page \union {NoPage}] /\ handlers' \in [Page -> SUBSET Page]
      /\ BindingsFit' /\ PagesAreKnown'
      /\ \A j \in Page : table[j] \in openPages => table'[j] = table[j]
  BY <1>2, <1>3, IdIsBound
<1>6. PagesFit' BY <1>3, <1>4, <1>5 DEF StdioIInv, PagesFit
<1>7. StdioIInv' BY <1>1, <1>3, <1>4, <1>5, <1>6, TaskGoesOn
<1>8. IdsKept BY <1>5 DEF IdsKept
<1> QED BY <1>7, <1>8

LEMMA PageCloses ==
  ASSUME StdioIInv, ClosePage
  PROVE  StdioIInv' /\ IdsKept
<1> DEFINE i == main.target
<1>1. /\ main \in Main /\ openPages \subseteq Page /\ used \subseteq Page /\ NoPage \notin Page
      /\ table \in [Page -> Page \union {NoPage}] /\ handlers \in [Page -> SUBSET Page]
  BY StdioAssumption DEF StdioIInv, StdioTypeOK
<1>2. /\ main.pc = "run" /\ main.op = "close" /\ kind # "chrome"
      /\ UNCHANGED <<kind, asked, sent, begun, answered, server, browser, helpers, failed, used>>
  BY DEF ClosePage, Runs, MainAt, processVars, taskVars
<1>3. PICK p \in Records(i) :
        LET bound == [handlers EXCEPT ![p] = @ \union {i}]
        IN  \/ /\ openPages' = openPages \ {p}
               /\ table' = [Unbound(p, bound) EXCEPT ![i] = NoPage]
               /\ handlers' = bound /\ Done(TRUE)
            \/ /\ kind = "camoufox"
               /\ Bind(i, p) /\ UNCHANGED openPages /\ Done(FALSE)
            \/ /\ kind = "geekez"
               /\ table' = [table EXCEPT ![i] = NoPage]
               /\ UNCHANGED <<openPages, handlers>> /\ Done(TRUE)
  BY DEF ClosePage
<1>4. /\ i \in used /\ i \in Page /\ p \in openPages /\ p \in Page
      /\ table[i] = p \/ table[i] = NoPage
  BY PageChoices
<1>5. main' \in Main /\ main'.pc = "answer" /\ main'.target = main.target
  <2>1. TRUE \in BOOLEAN /\ FALSE \in BOOLEAN OBVIOUS
  <2>2. Done(TRUE) \/ Done(FALSE) BY <1>3
  <2> QED BY <1>1, <2>1, <2>2, TaskIsDone
<1>6. SUFFICES /\ table' \in [Page -> Page \union {NoPage}] /\ handlers' \in [Page -> SUBSET Page]
               /\ BindingsFit' /\ PagesAreKnown' /\ openPages' \subseteq openPages
               /\ \A j \in Page \ {i} : table[j] \in openPages' => table'[j] = table[j]
  <2>1. PagesFit' BY <1>2, <1>5, <1>6 DEF StdioIInv, PagesFit
  <2>2. openPages' \subseteq Page /\ used' \subseteq Page BY <1>1, <1>2, <1>6
  <2>3. StdioIInv' BY <1>2, <1>5, <1>6, <2>1, <2>2, TaskGoesOn
  <2>4. IdsKept BY <1>2, <1>6 DEF IdsKept
  <2> QED BY <2>3, <2>4
<1>7. CASE /\ openPages' = openPages \ {p}
           /\ table' = [Unbound(p, [handlers EXCEPT ![p] = @ \union {i}]) EXCEPT ![i] = NoPage]
           /\ handlers' = [handlers EXCEPT ![p] = @ \union {i}]
  <2> HIDE DEF i
  <2>1. /\ handlers' \in [Page -> SUBSET Page] /\ handlers'[p] = handlers[p] \union {i}
        /\ \A q \in Page \ {p} : handlers'[q] = handlers[q]
    BY <1>1, <1>4, <1>7
  <2>2. table' = [[j \in Page |-> IF j \in handlers[p] \union {i} THEN NoPage ELSE table[j]]
                    EXCEPT ![i] = NoPage]
    BY <1>7, <2>1 DEF Unbound
  <2>3. /\ table' \in [Page -> Page \union {NoPage}]
        /\ \A j \in Page : table'[j] = IF j \in handlers[p] \union {i} THEN NoPage ELSE table[j]
    BY <1>1, <1>4, <2>2
  <2>4. {i} \in SUBSET used /\ \A k \in {i} : table[k] \in {p, NoPage} BY <1>4
  <2>5. /\ BindingsFit' /\ PagesAreKnown'
        /\ \A j \in Page : table[j] \in openPages' => table'[j] = table[j]
    BY <1>2, <1>4, <1>7, <2>1, <2>3, <2>4, PageLeaves
  <2> QED BY <1>7, <2>1, <2>3, <2>5
<1>8. CASE Bind(i, p) /\ UNCHANGED openPages
  BY <1>2, <1>8, IdIsBound
<1>9. CASE /\ kind = "geekez" /\ table' = [table EXCEPT ![i] = NoPage]
           /\ UNCHANGED <<openPages, handlers>>
  <2> HIDE DEF i
  <2>1. BindingsFit BY DEF StdioIInv, PagesFit
  <2>2. /\ table' \in [Page -> Page \union {NoPage}] /\ table'[i] = NoPage
        /\ \A j \in Page : j # i => table'[j] = table[j]
    BY <1>1, <1>4, <1>9
  <2>3. BindingsFit'
    <3>1. \A q \in openPages : \A j \in handlers[q] : j \in Page BY <1>1
    <3> QED BY <1>2, <1>9, <2>1, <2>2, <3>1 DEF BindingsFit
  <2>4. PagesAreKnown' BY <1>2, <1>9 DEF PagesAreKnown
  <2> QED BY <1>1, <1>9, <2>2, <2>3, <2>4
<1> QED BY <1>3, <1>7, <1>8, <1>9

LEMMA PageGoes ==
  ASSUME StdioIInv, NEW p \in Page, PageGone(p)
  PROVE  StdioIInv' /\ IdsKept
<1>1. /\ main \in Main /\ openPages \subseteq Page /\ used \subseteq Page /\ NoPage \notin Page
      /\ table \in [Page -> Page \union {NoPage}] /\ handlers \in [Page -> SUBSET Page]
  BY StdioAssumption DEF StdioIInv, StdioTypeOK
<1>2. /\ main.pc \in {"run", "goto"} /\ p \in openPages /\ openPages' = openPages \ {p}
      /\ UNCHANGED <<kind, main, asked, sent, begun, answered, server, browser, helpers, failed,
                     used, handlers>>
  BY DEF PageGone, processVars, taskVars
<1>3. table' = [j \in Page |-> IF j \in handlers[p] THEN NoPage ELSE table[j]]
  BY DEF PageGone, Unbound
<1>4. /\ table' \in [Page -> Page \union {NoPage}]
      /\ \A j \in Page : table'[j] = IF j \in handlers[p] \union {} THEN NoPage ELSE table[j]
  BY <1>1, <1>3
<1>5. /\ BindingsFit' /\ PagesAreKnown'
      /\ \A j \in Page : table[j] \in openPages' => table'[j] = table[j]
  <2>1. /\ {} \in SUBSET used /\ handlers'[p] = handlers[p] \union {}
        /\ \A k \in {} : table[k] \in {p, NoPage}
        /\ handlers' \in [Page -> SUBSET Page] /\ \A q \in Page \ {p} : handlers'[q] = handlers[q]
    BY <1>1, <1>2
  <2> QED BY <1>2, <1>4, <2>1, PageLeaves
<1>6. PagesFit' BY <1>2, <1>5 DEF StdioIInv, PagesFit
<1>7. /\ {main.pc, main'.pc} \subseteq {"run", "goto", "answer"} /\ main' \in Main
      /\ openPages' \subseteq Page /\ used' \subseteq Page /\ (kind = "chrome" => openPages' = {})
      /\ handlers' \in [Page -> SUBSET Page]
  BY <1>1, <1>2 DEF StdioIInv, HelpersFit
<1>8. StdioIInv' BY <1>2, <1>4, <1>6, <1>7, TaskGoesOn
<1>9. IdsKept BY <1>5 DEF IdsKept
<1> QED BY <1>8, <1>9

(* The loop and the control plane: the pages and what runs are left alone. *)
LEMMA LoopGoesOn ==
  ASSUME StdioIInv, ReadLine \/ Answer \/ SendTask \/ AskToEnd \/ Signal
  PROVE  StdioIInv'
<1>1. /\ main \in Main /\ used \subseteq Page /\ {sent, begun, answered} \subseteq Nat
      /\ main.target \in used \union {NoPage} /\ MaxTasks \in Nat
  BY StdioAssumption DEF StdioIInv, StdioTypeOK, TasksFit, PagesFit
<1>2. UNCHANGED <<kind, server, browser, helpers, failed, openPages, table, handlers, used>>
  BY DEF ReadLine, Answer, SendTask, AskToEnd, Signal, processVars, pageVars
<1>3. SUFFICES /\ main' \in Main /\ main'.target \in used \union {NoPage}
               /\ {sent', begun', answered'} \subseteq Nat /\ asked' \in {"no", "line", "signal"}
               /\ answered' <= begun' /\ begun' <= sent' /\ sent' <= MaxTasks /\ TasksFit'
               /\ \/ main'.pc = main.pc
                  \/ main'.pc \in {"read", "run", "stop"}
  <2>1. StdioTypeOK' BY <1>2, <1>3 DEF StdioIInv, StdioTypeOK
  <2>2. Starting' => Starting /\ main'.pc = main.pc BY <1>3 DEF Starting
  <2>3. HelpersFit' BY <1>2, <1>3, <2>2 DEF StdioIInv, HelpersFit
  <2>4. NothingLeftRunning' BY <1>2, <1>3 DEF StdioIInv, NothingLeftRunning, MainAt
  <2>5. PagesFit' BY <1>2, <1>3, PagesRest DEF pageVars
  <2> QED BY <1>3, <2>1, <2>3, <2>4, <2>5 DEF StdioIInv
<1>4. CASE ReadLine
  <2>1. MainAt("read") /\ UNCHANGED <<asked, sent, answered>> BY <1>4 DEF ReadLine
  <2>2. CASE /\ begun < sent /\ begun' = begun + 1
             /\ \E op \in Op, target \in used \union {NoPage} :
                  main' = [main EXCEPT !.pc = "run", !.op = op, !.target = target]
    <3>1. PICK op \in Op, target \in used \union {NoPage} :
            main' = [main EXCEPT !.pc = "run", !.op = op, !.target = target]
      BY <2>2
    <3>2. main' \in Main /\ main'.pc = "run" /\ main'.target = target
      BY <1>1, <3>1 DEF Main
    <3>3. begun = answered BY <2>1 DEF StdioIInv, TasksFit
    <3>4. sent <= MaxTasks /\ asked \in {"no", "line", "signal"} BY DEF StdioIInv, StdioTypeOK
    <3>5. TasksFit'
      BY <1>1, <2>1, <2>2, <3>2, <3>3 DEF TasksFit, AnsweredOnce, Starting, MainAt
    <3> QED BY <1>1, <2>1, <2>2, <3>2, <3>3, <3>4, <3>5
  <2>3. CASE /\ asked = "line" /\ begun = sent /\ main' = [main EXCEPT !.pc = "stop"]
             /\ UNCHANGED begun
    <3>1. main' \in Main /\ main'.pc = "stop" /\ main'.target = main.target
      BY <1>1, <2>3 DEF Main
    <3>2. begun = answered /\ sent <= MaxTasks
      BY <2>1 DEF StdioIInv, StdioTypeOK, TasksFit
    <3>3. TasksFit'
      BY <1>1, <2>1, <2>3, <3>1, <3>2 DEF TasksFit, AnsweredOnce, Starting, MainAt
    <3> QED BY <1>1, <2>1, <2>3, <3>1, <3>2, <3>3
  <2> QED BY <1>4, <2>2, <2>3 DEF ReadLine
<1>5. CASE Answer
  <2>1. /\ MainAt("answer") /\ answered' = answered + 1 /\ UNCHANGED <<sent, begun, asked>>
        /\ main' = [main EXCEPT !.pc = "read", !.op = "other", !.target = NoPage, !.ok = FALSE]
    BY <1>5 DEF Answer
  <2>2. main' \in Main /\ main'.pc = "read" /\ main'.target = NoPage
    BY <1>1, <2>1 DEF Main, Op
  <2>3. begun = answered + 1 BY <2>1 DEF StdioIInv, TasksFit, AnsweredOnce, MainAt
  <2>4. begun <= sent /\ sent <= MaxTasks /\ asked \in {"no", "line", "signal"}
    BY DEF StdioIInv, StdioTypeOK
  <2>5. TasksFit' BY <1>1, <2>1, <2>2, <2>3 DEF TasksFit, AnsweredOnce, Starting, MainAt
  <2> QED BY <1>1, <2>1, <2>2, <2>3, <2>4, <2>5
<1>6. CASE SendTask
  <2>1. sent < MaxTasks /\ sent' = sent + 1 /\ UNCHANGED <<main, asked, begun, answered>>
    BY <1>6 DEF SendTask
  <2>2. answered <= begun /\ begun <= sent /\ asked \in {"no", "line", "signal"}
    BY DEF StdioIInv, StdioTypeOK
  <2>3. TasksFit' BY <1>1, <2>1 DEF StdioIInv, TasksFit, AnsweredOnce, Starting, MainAt
  <2>4. main' = main /\ asked' = asked /\ begun' = begun /\ answered' = answered BY <2>1
  <2>5. begun' <= sent' /\ sent' <= MaxTasks /\ sent' \in Nat BY <1>1, <2>1, <2>2
  <2> QED BY <1>1, <2>2, <2>3, <2>4, <2>5
<1>7. CASE AskToEnd
  <2>1. asked = "no" /\ asked' = "line" /\ UNCHANGED <<main, sent, begun, answered>>
    BY <1>7 DEF AskToEnd, taskVars
  <2>2. answered <= begun /\ begun <= sent /\ sent <= MaxTasks BY DEF StdioIInv, StdioTypeOK
  <2>3. TasksFit' BY <2>1 DEF StdioIInv, TasksFit, AnsweredOnce, Starting, MainAt
  <2>4. main' = main /\ sent' = sent /\ begun' = begun /\ answered' = answered BY <2>1
  <2> QED BY <1>1, <2>1, <2>2, <2>3, <2>4
<1>8. CASE Signal
  <2>1. /\ asked' = "signal" /\ main' = [main EXCEPT !.pc = "stop"]
        /\ UNCHANGED <<sent, begun, answered>>
    BY <1>8 DEF Signal, taskVars
  <2>2. main' \in Main /\ main'.pc = "stop" /\ main'.target = main.target
    BY <1>1, <2>1 DEF Main
  <2>3. answered <= begun /\ begun <= sent /\ sent <= MaxTasks BY DEF StdioIInv, StdioTypeOK
  <2>4. TasksFit' BY <2>1, <2>2 DEF StdioIInv, TasksFit, AnsweredOnce, Starting, MainAt
  <2> QED BY <1>1, <2>1, <2>2, <2>3, <2>4
<1> QED BY <1>4, <1>5, <1>6, <1>7, <1>8

LEMMA GeekezConnects ==
  ASSUME StdioIInv, ConnectSucceeds \/ ConnectFails
  PROVE  StdioIInv'
<1>1. /\ main \in Main /\ helpers \in [playwright : Nat, profile : Nat]
      /\ failed \in 0..MaxFailures /\ MaxFailures \in Nat /\ {server, browser} \subseteq BOOLEAN
  BY StdioAssumption DEF StdioIInv, StdioTypeOK
<1>2. /\ kind = "geekez" /\ ~browser /\ main.pc = "run"
      /\ UNCHANGED <<kind, server, asked, sent, begun, answered, openPages, table, handlers, used>>
  BY DEF ConnectSucceeds, ConnectFails, Connects, MainAt, pageVars, taskVars
<1>3. helpers.playwright <= failed /\ helpers.profile <= failed
  BY <1>2 DEF StdioIInv, HelpersFit
<1>4. /\ main' \in Main /\ main'.pc \in {"run", "answer"} /\ main'.target = main.target
      /\ helpers' \in [playwright : Nat, profile : Nat] /\ failed' \in 0..MaxFailures
      /\ {server', browser'} \subseteq BOOLEAN
      /\ helpers'.playwright <= failed' + 1 /\ helpers'.profile <= failed' + 1
      /\ ~browser' => helpers'.playwright <= failed' /\ helpers'.profile <= failed'
  <2>1. CASE ConnectSucceeds
    <3>1. /\ browser' = TRUE /\ UNCHANGED <<main, failed>>
          /\ helpers' = [playwright |-> helpers.playwright + 1, profile |-> helpers.profile + 1]
      BY <2>1 DEF ConnectSucceeds
    <3>2. {server', browser'} \subseteq BOOLEAN BY <1>1, <1>2, <3>1
    <3>3. helpers' \in [playwright : Nat, profile : Nat] BY <1>1, <3>1
    <3> QED BY <1>1, <1>2, <1>3, <3>1, <3>2, <3>3
  <2>2. CASE ConnectFails
    <3>1. failed < MaxFailures /\ failed' = failed + 1 /\ UNCHANGED browser /\ Done(FALSE)
      BY <2>2 DEF ConnectFails
    <3>2. PICK started \in {<<0, 0>>, <<1, 0>>, <<1, 1>>} :
            helpers' = [profile |-> helpers.profile + started[1],
                        playwright |-> helpers.playwright + started[2]]
      BY <2>2 DEF ConnectFails
    <3>3. started[1] \in {0, 1} /\ started[2] \in {0, 1} OBVIOUS
    <3>4. FALSE \in BOOLEAN OBVIOUS
    <3>5. main' \in Main /\ main'.pc = "answer" /\ main'.target = main.target
      BY <1>1, <3>1, <3>4, TaskIsDone
    <3>6. /\ helpers' \in [playwright : Nat, profile : Nat]
          /\ helpers'.profile <= helpers.profile + 1
          /\ helpers'.playwright <= helpers.playwright + 1
      BY <1>1, <3>2, <3>3
    <3>7. failed' \in 0..MaxFailures /\ {server', browser'} \subseteq BOOLEAN
      BY <1>1, <1>2, <3>1
    <3> QED BY <1>1, <1>3, <3>1, <3>5, <3>6, <3>7
  <2> QED BY <2>1, <2>2
<1>5. StdioTypeOK' BY <1>2, <1>4 DEF StdioIInv, StdioTypeOK
<1>6. TasksFit' BY <1>2, <1>4 DEF StdioIInv, TasksFit, AnsweredOnce, Starting, MainAt
<1>7. ~Starting' BY <1>4 DEF Starting
<1>8. HelpersFit' BY <1>2, <1>4, <1>7 DEF HelpersFit
<1>9. NothingLeftRunning' BY <1>4 DEF NothingLeftRunning, MainAt
<1>10. PagesFit' BY <1>2, <1>4, PagesRest DEF StdioIInv, PagesFit, pageVars
<1> QED BY <1>5, <1>6, <1>8, <1>9, <1>10 DEF StdioIInv

(* A stop ends what runs but for what failed connects have left.           *)
LEMMA ProcessStops ==
  ASSUME StdioIInv, StopBrowser
  PROVE  StdioIInv'
<1>1. /\ main \in Main /\ helpers \in [playwright : Nat, profile : Nat] /\ NoPage \notin Page
      /\ {server, browser} \subseteq BOOLEAN /\ main.pc = "stop" /\ failed \in Nat
      /\ kind \in {"camoufox", "geekez", "chrome"}
  BY StdioAssumption DEF StdioIInv, StdioTypeOK, StopBrowser, MainAt
<1>2. /\ UNCHANGED <<kind, failed, handlers, used, asked, sent, begun, answered>>
      /\ main' = [main EXCEPT !.pc = "exited"]
  BY DEF StopBrowser, taskVars
<1>3. main' \in Main /\ main'.pc = "exited" /\ main'.target = main.target
  BY <1>1, <1>2 DEF Main
<1>4. /\ helpers' \in [playwright : Nat, profile : Nat] /\ {server', browser'} \subseteq BOOLEAN
      /\ ~server' /\ openPages' = {} /\ table' \in [Page -> Page \union {NoPage}]
      /\ helpers'.playwright <= failed /\ helpers'.profile <= failed
      /\ kind = "chrome" => helpers'.playwright = 0 /\ helpers'.profile = 0
      /\ kind = "camoufox" => helpers'.playwright <= 1 /\ helpers'.profile = 0
      /\ \A i \in Page : table'[i] = NoPage
  <2>1. CASE kind = "chrome"
    <3>1. UNCHANGED <<openPages, table, server, browser, helpers>> BY <2>1 DEF StopBrowser
    <3>2. /\ ~server /\ openPages = {} /\ helpers.playwright = 0 /\ helpers.profile = 0
      BY <2>1 DEF StdioIInv, HelpersFit
    <3>3. table \in [Page -> Page \union {NoPage}] BY DEF StdioIInv, StdioTypeOK
    <3>4. \A i \in Page : table[i] = NoPage BY <3>2 DEF StdioIInv, PagesFit, BindingsFit
    <3> QED BY <1>1, <2>1, <3>1, <3>2, <3>3, <3>4
  <2>2. CASE kind # "chrome"
    <3>1. /\ openPages' = {} /\ table' = [i \in Page |-> NoPage]
          /\ server' = FALSE /\ browser' = FALSE
          /\ helpers' = [playwright |-> Fewer(helpers.playwright),
                         profile |-> Fewer(helpers.profile)]
      BY <2>2 DEF StopBrowser
    <3>2. helpers.playwright <= failed + 1 /\ helpers.profile <= failed + 1
      BY <1>1, <2>2 DEF StdioIInv, HelpersFit
    <3>3. /\ helpers'.playwright = Fewer(helpers.playwright)
          /\ helpers'.profile = Fewer(helpers.profile)
      BY <3>1
    <3>4. \A n \in Nat : /\ Fewer(n) \in Nat /\ (n <= failed + 1 => Fewer(n) <= failed)
                         /\ (n <= 1 => Fewer(n) = 0)
      BY <1>1 DEF Fewer
    <3>5. helpers.playwright \in Nat /\ helpers.profile \in Nat BY <1>1
    <3>6. helpers' \in [playwright : Nat, profile : Nat] BY <3>1, <3>4, <3>5
    <3>7. kind = "camoufox" => helpers.profile = 0 /\ helpers.playwright <= 1
      BY DEF StdioIInv, HelpersFit
    <3>8. kind = "camoufox" => helpers'.playwright = 0 /\ helpers'.profile = 0
      BY <3>3, <3>4, <3>5, <3>7
    <3>9. helpers'.playwright <= failed /\ helpers'.profile <= failed
      BY <3>2, <3>3, <3>4, <3>5
    <3>10. {server', browser'} \subseteq BOOLEAN /\ ~server' BY <3>1
    <3> QED BY <2>2, <3>1, <3>6, <3>8, <3>9, <3>10
  <2> QED BY <2>1, <2>2
<1>5. StdioTypeOK' BY <1>2, <1>3, <1>4 DEF StdioIInv, StdioTypeOK
<1>6. TasksFit' BY <1>2, <1>3 DEF StdioIInv, TasksFit, AnsweredOnce, Starting, MainAt
<1>7. ~Starting' BY <1>3 DEF Starting
<1>8. HelpersFit' BY <1>1, <1>2, <1>3, <1>4, <1>7 DEF HelpersFit
<1>9. NothingLeftRunning' BY <1>2, <1>4 DEF NothingLeftRunning
<1>10. PagesFit' BY <1>2, <1>3, <1>4 DEF StdioIInv, PagesFit, BindingsFit, PagesAreKnown
<1> QED BY <1>5, <1>6, <1>8, <1>9, <1>10 DEF StdioIInv

LEMMA StdioSteps ==
  ASSUME StdioIInv, [StdioNext]_stdioVars
  PROVE  StdioIInv'
<1>1. CASE UNCHANGED stdioVars
  BY <1>1
  DEF stdioVars, StdioIInv, StdioTypeOK, TasksFit, AnsweredOnce, Starting, MainAt, HelpersFit,
      NothingLeftRunning, PagesFit, BindingsFit, PagesAreKnown
<1>2. CASE \E p \in Page : PageGone(p) BY <1>2, PageGoes
<1>3. CASE MainStep
  BY <1>3, ProcessStarts, LoopGoesOn, TasksRun, GeekezConnects, PageOpens, PageIsUsed,
     PageCloses, ProcessStops DEF MainStep
<1>4. CASE SendTask \/ AskToEnd \/ Signal BY <1>4, LoopGoesOn
<1> QED BY <1>1, <1>2, <1>3, <1>4 DEF StdioNext

LEMMA StdioHolds == StdioSpec => []StdioIInv
BY StdioStarts, StdioSteps, PTL DEF StdioSpec

(* Every kind of runtime process answers each task once, finds its pages,  *)
(* and leaves at its end only what failed connects account for, for every  *)
(* number of tasks, pages and failures (camoufox/runtime.py:368-444,       *)
(* 943-1058, geekez/runtime.py:495-525, 894-923, runtime_entry.py:653-677).*)
THEOREM ProcessesAnswerOnce == StdioSpec => []StdioInv
<1>1. StdioIInv => StdioInv BY DEF StdioIInv, StdioInv, TasksFit, PagesFit
<1> QED BY <1>1, StdioHolds, PTL

LEMMA IdsStay ==
  ASSUME StdioIInv, [StdioNext]_stdioVars
  PROVE  IdsKept
<1>1. NoPage \notin Page /\ openPages \subseteq Page /\ used \subseteq Page
  BY StdioAssumption DEF StdioIInv, StdioTypeOK
<1>2. CASE UNCHANGED table BY <1>2 DEF IdsKept
<1>3. CASE OpenPage
  <2>1. PICK p \in Page \ used : Bind(p, p) BY <1>3 DEF OpenPage
  <2>2. table' = [table EXCEPT ![p] = p] /\ table \in [Page -> Page \union {NoPage}]
    BY <2>1 DEF Bind, StdioIInv, StdioTypeOK
  <2>3. table[p] = NoPage BY <2>1 DEF StdioIInv, PagesFit, BindingsFit
  <2> QED BY <1>1, <2>1, <2>2, <2>3 DEF IdsKept
<1>4. CASE openPages' = {} BY <1>4 DEF IdsKept
<1>5. CASE StopBrowser BY <1>2, <1>4, <1>5 DEF StopBrowser
<1>6. CASE \E p \in Page : PageGone(p) BY <1>6, PageGoes
<1>7. CASE UsePage \/ ClosePage BY <1>7, PageIsUsed, PageCloses
<1>8. \/ UNCHANGED table \/ OpenPage \/ StopBrowser \/ UsePage \/ ClosePage
      \/ \E p \in Page : PageGone(p)
  BY DEF StdioNext, MainStep, stdioVars, pageVars, StartServer, StartPlaywright, BecomeReady,
     StartFails, ReadLine, OtherAction, ConnectSucceeds, ConnectFails, OpenFails, LoadPage,
     Unknown, Unwritable, Answer, SendTask, AskToEnd, Signal
<1> QED BY <1>2, <1>3, <1>5, <1>6, <1>7, <1>8

(* While its page is open an id means that page until it is closed by that *)
(* id, whichever ids recovery binds and pages close                        *)
(* (camoufox/runtime.py:368-444, geekez/runtime.py:495-525).               *)
THEOREM IdsKeepPages == StdioSpec => IdsKeepTheirPage
<1>1. StdioIInv /\ [StdioNext]_stdioVars =>
        [\A i \in Page :
           table[i] \in openPages \intersect openPages' /\ table'[i] # table[i] =>
             main.op = "close" /\ main.target = i]_stdioVars
  BY IdsStay DEF IdsKept
<1> QED BY <1>1, StdioHolds, PTL DEF StdioSpec, IdsKeepTheirPage

-----------------------------------------------------------------------------
(***************************************************************************)
(* Executions.  Scores are compared by cross-multiplying, which is a       *)
(* strict order on records: a selection among providers finds a best one.  *)
(***************************************************************************)
LEMMA ProductsKeepOrder ==
  \A a, b \in Int, n \in Nat \ {0} : a > b <=> a * n > b * n
OBVIOUS

LEMMA ProductsCommute ==
  \A a, b, n \in Int : (a * b) * n = (a * n) * b
OBVIOUS

LEMMA CrossProducts ==
  ASSUME NEW x \in Int, NEW y \in Int, NEW z \in Int,
         NEW a \in Nat \ {0}, NEW b \in Nat \ {0}, NEW c \in Nat \ {0},
         x * b > y * a, y * c > z * b
  PROVE  x * c > z * a
<1>1. /\ x * b \in Int /\ y * a \in Int /\ y * c \in Int /\ z * b \in Int
      /\ x * c \in Int /\ z * a \in Int
  OBVIOUS
<1>2. (x * b) * c > (y * a) * c BY <1>1, ProductsKeepOrder
<1>3. (y * c) * a > (z * b) * a BY <1>1, ProductsKeepOrder
<1>4. (x * b) * c = (x * c) * b /\ (y * a) * c = (y * c) * a /\ (z * b) * a = (z * a) * b
  BY ProductsCommute
<1>5. (x * c) * b > (z * a) * b
  <2>1. /\ (x * b) * c \in Int /\ (y * a) * c \in Int /\ (z * b) * a \in Int
    BY <1>1
  <2> QED BY <1>2, <1>3, <1>4, <2>1
<1> QED BY <1>1, <1>5, ProductsKeepOrder

LEMMA ScoresAreNumbers ==
  ASSUME NEW r \in AffinityRecord
  PROVE  Points(r) \in Int /\ Total(r) \in Nat \ {0}
<1>1. r.successes \in Nat /\ r.failures \in Nat /\ r.recent \in Nat BY DEF AffinityRecord
<1>2. Total(r) \in Nat \ {0} BY <1>1 DEF Total
<1>3. \A m, n \in Nat : 30 * m * n \in Int OBVIOUS
<1> QED BY <1>1, <1>2, <1>3 DEF Points

LEMMA ScoresAreOrdered ==
  ASSUME NEW r \in AffinityRecord, NEW q \in AffinityRecord, NEW s \in AffinityRecord
  PROVE  /\ ~Outscores(r, r)
         /\ Outscores(r, q) /\ Outscores(q, s) => Outscores(r, s)
<1>1. /\ Points(r) \in Int /\ Total(r) \in Nat \ {0} /\ Points(q) \in Int /\ Total(q) \in Nat \ {0}
      /\ Points(s) \in Int /\ Total(s) \in Nat \ {0}
  BY ScoresAreNumbers
<1>2. ~Outscores(r, r)
  <2>1. Points(r) * Total(r) \in Int BY <1>1
  <2> QED BY <2>1 DEF Outscores
<1>3. ASSUME Outscores(r, q), Outscores(q, s)
      PROVE  Outscores(r, s)
  <2>1. Points(r) * Total(q) > Points(q) * Total(r) /\ Points(q) * Total(s) > Points(s) * Total(q)
    BY <1>3 DEF Outscores
  <2>2. Points(r) * Total(s) > Points(s) * Total(r) BY <1>1, <2>1, CrossProducts
  <2> QED BY <2>2 DEF Outscores
<1> QED BY <1>2, <1>3

LEMMA Engines == Engine = {"browserbase", "camoufox", "chrome", "geekez"}
<1>1. Len(ProviderNames) = 4 /\ DOMAIN ProviderNames = 1..4
  BY DEF ProviderNames
<1>2. /\ ProviderNames[1] = "browserbase" /\ ProviderNames[2] = "camoufox"
      /\ ProviderNames[3] = "chrome" /\ ProviderNames[4] = "geekez"
  BY DEF ProviderNames
<1>3. 1..4 = {1, 2, 3, 4} OBVIOUS
<1> QED BY <1>1, <1>2, <1>3 DEF Engine, ToSet

(* Four names cannot outdo each other in a circle.                         *)
LEMMA BestOfFour ==
  ASSUME NEW S \in SUBSET Engine, S # {}, NEW R,
         \A x \in S : <<x, x>> \notin R,
         \A x, y, z \in S : <<x, y>> \in R /\ <<y, z>> \in R => <<x, z>> \in R
  PROVE  \E x \in S : \A y \in S : <<y, x>> \notin R
<1> DEFINE Top(T) == \E x \in T : \A y \in T : <<y, x>> \notin R
<1>1. ASSUME NEW T, T \subseteq S, NEW e \in S, T = {} \/ Top(T)
      PROVE  Top(T \union {e})
  <2>1. CASE T = {} BY <2>1
  <2>2. CASE Top(T)
    <3>1. PICK x \in T : \A y \in T : <<y, x>> \notin R BY <2>2
    <3>2. CASE <<e, x>> \in R
      <4>1. \A y \in T \union {e} : <<y, e>> \notin R BY <1>1, <3>1, <3>2
      <4> QED BY <4>1
    <3>3. CASE <<e, x>> \notin R
      <4>1. \A y \in T \union {e} : <<y, x>> \notin R BY <3>1, <3>3
      <4> QED BY <3>1, <4>1
    <3> QED BY <3>2, <3>3
  <2> QED BY <1>1, <2>1, <2>2
<1> HIDE DEF Top
<1> DEFINE a == "browserbase"
           b == "camoufox"
           c == "chrome"
           d == "geekez"
           A == S \intersect {a}
           B == S \intersect {a, b}
           C == S \intersect {a, b, c}
<1>2. A = {} \/ Top(A)
  <2>1. a \in S => A = {} \union {a} OBVIOUS
  <2>2. a \notin S => A = {} OBVIOUS
  <2>3. a \in S => Top({} \union {a}) BY <1>1
  <2> QED BY <2>1, <2>2, <2>3
<1>3. B = {} \/ Top(B)
  <2>1. b \in S => B = A \union {b} OBVIOUS
  <2>2. b \notin S => B = A OBVIOUS
  <2>3. b \in S => Top(A \union {b}) BY <1>1, <1>2
  <2> QED BY <1>2, <2>1, <2>2, <2>3
<1>4. C = {} \/ Top(C)
  <2>1. c \in S => C = B \union {c} OBVIOUS
  <2>2. c \notin S => C = B OBVIOUS
  <2>3. c \in S => Top(B \union {c}) BY <1>1, <1>3
  <2> QED BY <1>3, <2>1, <2>2, <2>3
<1>5. S = {} \/ Top(S)
  <2>1. d \in S => S = C \union {d} BY Engines
  <2>2. d \notin S => S = C BY Engines
  <2>3. d \in S => Top(C \union {d}) BY <1>1, <1>4
  <2> QED BY <1>4, <2>1, <2>2, <2>3
<1> QED BY <1>5 DEF Top

LEMMA SomeAreBest ==
  ASSUME NEW rs \in [Engine -> AffinityRecord], NEW ps \in SUBSET Engine, ps # {}
  PROVE  Best(rs, ps) # {}
<1> DEFINE R == {e \in ps \X ps : Outscores(rs[e[1]], rs[e[2]])}
<1>1. \A x, y \in ps : <<x, y>> \in R <=> Outscores(rs[x], rs[y])
  <2> SUFFICES ASSUME NEW x \in ps, NEW y \in ps
               PROVE  <<x, y>> \in R <=> Outscores(rs[x], rs[y])
    OBVIOUS
  <2>1. <<x, y>> \in ps \X ps /\ <<x, y>>[1] = x /\ <<x, y>>[2] = y OBVIOUS
  <2> QED BY <2>1, Zenon
<1>2. \A x \in ps : rs[x] \in AffinityRecord OBVIOUS
<1> HIDE DEF R
<1>3. \A x \in ps : <<x, x>> \notin R
  <2> SUFFICES ASSUME NEW x \in ps PROVE <<x, x>> \notin R
    OBVIOUS
  <2>1. ~Outscores(rs[x], rs[x]) BY <1>2, ScoresAreOrdered
  <2> QED BY <1>1, <2>1
<1>4. \A x, y, z \in ps : <<x, y>> \in R /\ <<y, z>> \in R => <<x, z>> \in R
  <2> SUFFICES ASSUME NEW x \in ps, NEW y \in ps, NEW z \in ps, <<x, y>> \in R, <<y, z>> \in R
               PROVE  <<x, z>> \in R
    OBVIOUS
  <2>1. Outscores(rs[x], rs[y]) /\ Outscores(rs[y], rs[z]) BY <1>1
  <2>2. Outscores(rs[x], rs[z]) BY <1>2, <2>1, ScoresAreOrdered
  <2> QED BY <1>1, <2>2
<1>5. \E x \in ps : \A y \in ps : <<y, x>> \notin R BY <1>3, <1>4, BestOfFour
<1>6. PICK x \in ps : \A y \in ps : <<y, x>> \notin R BY <1>5
<1>7. ~\E y \in ps : Outscores(rs[y], rs[x]) BY <1>1, <1>6
<1> QED BY <1>7 DEF Best

LEMMA FirstIsThere ==
  ASSUME NEW ps \in SUBSET Engine, ps # {}
  PROVE  First(ps) \in ps
<1> DEFINE T == {i \in DOMAIN ProviderNames : ProviderNames[i] \in ps}
<1>1. DOMAIN ProviderNames = 1..4 BY DEF ProviderNames
<1>2. T \subseteq Nat BY <1>1
<1>3. T # {}
  <2>1. PICK p \in ps : p \in Engine OBVIOUS
  <2>2. PICK i \in DOMAIN ProviderNames : p = ProviderNames[i] BY <2>1 DEF Engine, ToSet
  <2> QED BY <2>1, <2>2
<1> HIDE DEF T
<1>4. \E x \in T : \A y \in T : ~(<<y, x>> \in OpToRel(<, Nat))
  BY <1>2, <1>3, WFMin, NatLessThanWellFounded
<1>5. PICK x \in T : \A y \in T : ~(<<y, x>> \in OpToRel(<, Nat)) BY <1>4
<1>6. \A y \in T : ~(y < x) BY <1>2, <1>5 DEF OpToRel
<1>7. \A y \in T : x <= y BY <1>2, <1>6
<1>8. Min(T) \in T BY <1>7 DEF Min
<1> QED BY <1>8 DEF First, T

(* Recovery and forced release keep what counts, and leave no provider     *)
(* with failures enough to cool and no cooldown.                           *)
Fits(r) == r \in AffinityRecord /\ (r.recent >= given.threshold => r.cooled # "no")

Counted(r) == r.successes + r.failures

LEMMA RecordChanges ==
  ASSUME given \in Registry, NEW r, Fits(r)
  PROVE  /\ Fits(Recovered(r)) /\ Counted(Recovered(r)) = Counted(r)
         /\ Fits(ReleasedByForce(r)) /\ Counted(ReleasedByForce(r)) = Counted(r)
         /\ Recovered(r).cooled = "running" <=> r.cooled = "running"
         /\ Fits(Credited(r)) /\ Counted(Credited(r)) = Counted(r) + 1
         /\ Fits(Blamed(r)) /\ Counted(Blamed(r)) = Counted(r) + 1
         /\ r.cooled = "running" => Credited(r).cooled = "running" /\ Blamed(r).cooled = "running"
<1>1. given.threshold \in Nat \ {0} BY TaskExecutorAssumption
<1>2. /\ r \in AffinityRecord /\ r.successes \in Nat /\ r.failures \in Nat /\ r.recent \in Nat
      /\ r.cooled \in {"no", "running", "over"}
  BY DEF Fits, AffinityRecord
<1>3. ASSUME NEW q, q = [r EXCEPT !.cooled = "no", !.recent = 0]
      PROVE  Fits(q) /\ Counted(q) = Counted(r) /\ q.cooled = "no"
  <2>1. q \in AffinityRecord BY <1>2, <1>3 DEF AffinityRecord
  <2>2. /\ q.successes = r.successes /\ q.failures = r.failures /\ q.recent = 0
        /\ q.cooled = "no"
    BY <1>2, <1>3 DEF AffinityRecord
  <2> QED BY <1>1, <2>1, <2>2 DEF Fits, Counted
<1>4. /\ Fits(Recovered(r)) /\ Counted(Recovered(r)) = Counted(r)
      /\ Recovered(r).cooled = "running" <=> r.cooled = "running"
  <2>1. CASE r.cooled = "over"
    <3>1. Recovered(r) = [r EXCEPT !.cooled = "no", !.recent = 0] BY <2>1 DEF Recovered
    <3> QED BY <1>3, <2>1, <3>1
  <2>2. CASE r.cooled # "over"
    <3>1. Recovered(r) = r BY <2>2 DEF Recovered
    <3> QED BY <3>1
  <2> QED BY <2>1, <2>2
<1>5. Fits(ReleasedByForce(r)) /\ Counted(ReleasedByForce(r)) = Counted(r)
  BY <1>3 DEF ReleasedByForce
<1>6. /\ Fits(Credited(r)) /\ Counted(Credited(r)) = Counted(r) + 1
      /\ Credited(r).cooled = r.cooled
  <2> DEFINE n == r.successes + 1
             q == [r EXCEPT !.successes = n, !.recent = 0]
  <2>1. n \in Nat /\ 0 \in Nat BY <1>2
  <2>2. Credited(r) = q BY <1>2 DEF Credited
  <2> HIDE DEF n
  <2>3. q \in AffinityRecord BY <1>2, <2>1 DEF AffinityRecord
  <2>4. /\ q.successes = n /\ q.failures = r.failures /\ q.recent = 0
        /\ q.cooled = r.cooled
    BY <1>2 DEF AffinityRecord
  <2> HIDE DEF q
  <2>5. Fits(q) /\ Counted(q) = Counted(r) + 1
    BY <1>1, <1>2, <2>3, <2>4 DEF Fits, Counted, n
  <2> QED BY <2>4, <2>5, <2>2
<1>7. /\ Fits(Blamed(r)) /\ Counted(Blamed(r)) = Counted(r) + 1
      /\ r.cooled = "running" => Blamed(r).cooled = "running"
  <2> DEFINE m == r.failures + 1
             n == r.recent + 1
             q == [r EXCEPT !.failures = m, !.recent = n]
             z == [q EXCEPT !.cooled = "running"]
  <2>1. m \in Nat /\ n \in Nat BY <1>2
  <2>2. Blamed(r) = IF ShouldCool(q) THEN z ELSE q BY DEF Blamed
  <2> HIDE DEF m, n
  <2>3. q \in AffinityRecord BY <1>2, <2>1 DEF AffinityRecord
  <2>4. /\ q.successes = r.successes /\ q.failures = m /\ q.recent = n
        /\ q.cooled = r.cooled
    BY <1>2 DEF AffinityRecord
  <2> HIDE DEF q
  <2>5. /\ z \in AffinityRecord /\ z.successes = q.successes /\ z.failures = q.failures
        /\ z.recent = q.recent /\ z.cooled = "running"
    BY <2>3 DEF AffinityRecord
  <2> HIDE DEF z
  <2>6. CASE ShouldCool(q)
    <3>1. Fits(z) /\ Counted(z) = Counted(r) + 1
      BY <1>2, <2>4, <2>5 DEF Fits, Counted, m
    <3> QED BY <2>2, <2>5, <2>6, <3>1
  <2>7. CASE ~ShouldCool(q)
    <3>1. q.cooled = "running" \/ ~(q.recent >= given.threshold) BY <2>7 DEF ShouldCool
    <3>2. Fits(q) /\ Counted(q) = Counted(r) + 1
      BY <1>1, <1>2, <2>3, <2>4, <3>1 DEF Fits, Counted, m
    <3> QED BY <2>4, <2>2, <2>7, <3>2
  <2> QED BY <2>6, <2>7
<1> QED BY <1>4, <1>5, <1>6, <1>7

(* The records of one type, by provider.                                   *)
AllFit(rs) == rs \in [Engine -> AffinityRecord] /\ \A p \in Engine : Fits(rs[p])

LEMMA SelectionsKeepRecords ==
  ASSUME given \in Registry, NEW rs, AllFit(rs)
  PROVE  /\ AllFit(RecoveredAll(rs)) /\ AllFit(ReleasedIfAll(rs))
         /\ \A p \in Engine : /\ Counted(RecoveredAll(rs)[p]) = Counted(rs[p])
                              /\ Counted(ReleasedIfAll(rs)[p]) = Counted(rs[p])
                              /\ RecoveredAll(rs)[p].cooled = "running" <=>
                                   rs[p].cooled = "running"
         /\ \A p \in Engine :
              rs[p].cooled = "running" /\ ReleasedIfAll(rs)[p].cooled # "running" =>
                \A q \in given.providers : rs[q].cooled = "running"
         /\ \E q \in given.providers : ReleasedIfAll(rs)[q].cooled # "running"
<1>1. given.providers \subseteq Engine /\ given.providers # {} BY TaskExecutorAssumption
<1>2. \A p \in Engine : Fits(rs[p]) BY DEF AllFit
<1>3. \A p \in Engine :
        /\ RecoveredAll(rs)[p] = IF p \in given.providers THEN Recovered(rs[p]) ELSE rs[p]
        /\ Fits(RecoveredAll(rs)[p]) /\ Counted(RecoveredAll(rs)[p]) = Counted(rs[p])
        /\ RecoveredAll(rs)[p].cooled = "running" <=> rs[p].cooled = "running"
  <2> SUFFICES ASSUME NEW p \in Engine
      PROVE  /\ RecoveredAll(rs)[p] = IF p \in given.providers THEN Recovered(rs[p]) ELSE rs[p]
             /\ Fits(RecoveredAll(rs)[p]) /\ Counted(RecoveredAll(rs)[p]) = Counted(rs[p])
             /\ RecoveredAll(rs)[p].cooled = "running" <=> rs[p].cooled = "running"
    OBVIOUS
  <2>1. RecoveredAll(rs)[p] = IF p \in given.providers THEN Recovered(rs[p]) ELSE rs[p]
    BY DEF RecoveredAll
  <2>2. Fits(rs[p]) BY <1>2
  <2>3. /\ Fits(Recovered(rs[p])) /\ Counted(Recovered(rs[p])) = Counted(rs[p])
        /\ Recovered(rs[p]).cooled = "running" <=> rs[p].cooled = "running"
    BY <2>2, RecordChanges
  <2> QED BY <2>1, <2>2, <2>3
<1>4. AllFit(RecoveredAll(rs))
  <2>1. \A p \in Engine : RecoveredAll(rs)[p] \in AffinityRecord BY <1>3 DEF Fits
  <2>2. RecoveredAll(rs) = [p \in Engine |-> RecoveredAll(rs)[p]] BY DEF RecoveredAll
  <2>3. RecoveredAll(rs) \in [Engine -> AffinityRecord] BY <2>1, <2>2
  <2> QED BY <1>3, <2>3 DEF AllFit
<1>5. CASE \A p \in given.providers : rs[p].cooled = "running"
  <2> DEFINE f == [p \in Engine |-> IF p \in given.providers THEN ReleasedByForce(rs[p])
                                    ELSE rs[p]]
  <2>1. ReleasedIfAll(rs) = f BY <1>5 DEF ReleasedIfAll
  <2>2. \A p \in Engine : Fits(f[p]) /\ Counted(f[p]) = Counted(rs[p])
    <3> SUFFICES ASSUME NEW p \in Engine
                 PROVE  Fits(f[p]) /\ Counted(f[p]) = Counted(rs[p])
      OBVIOUS
    <3>1. f[p] = IF p \in given.providers THEN ReleasedByForce(rs[p]) ELSE rs[p] OBVIOUS
    <3>2. Fits(rs[p]) BY <1>2
    <3>3. Fits(ReleasedByForce(rs[p])) /\ Counted(ReleasedByForce(rs[p])) = Counted(rs[p])
      BY <3>2, RecordChanges
    <3> HIDE DEF f
    <3> QED BY <3>1, <3>2, <3>3
  <2>3. \A p \in given.providers : f[p].cooled # "running"
    <3> SUFFICES ASSUME NEW p \in given.providers PROVE f[p].cooled # "running"
      OBVIOUS
    <3>1. f[p] = ReleasedByForce(rs[p]) BY <1>1
    <3>2. rs[p] \in AffinityRecord BY <1>1, <1>2 DEF Fits
    <3>3. ReleasedByForce(rs[p]).cooled = "no" BY <3>2 DEF ReleasedByForce, AffinityRecord
    <3> HIDE DEF f
    <3> QED BY <3>1, <3>3
  <2>4. \A p \in Engine : f[p] \in AffinityRecord BY <2>2 DEF Fits
  <2>5. f = [p \in Engine |-> f[p]] OBVIOUS
  <2> HIDE DEF f
  <2>6. AllFit(f) BY <2>2, <2>4, <2>5 DEF AllFit
  <2> QED BY <1>1, <1>3, <1>4, <1>5, <2>1, <2>2, <2>3, <2>6
<1>6. CASE ~\A p \in given.providers : rs[p].cooled = "running"
  <2>1. ReleasedIfAll(rs) = rs BY <1>6 DEF ReleasedIfAll
  <2> QED BY <1>3, <1>4, <1>6, <2>1
<1> QED BY <1>5, <1>6

(* A selection takes a provider that does not cool.                        *)
LEMMA SelectionAvoidsCooled ==
  ASSUME given \in Registry, NEW rs, AllFit(rs),
         \E q \in given.providers : rs[q].cooled # "running"
  PROVE  /\ BestOf(rs) \in given.providers /\ BestOf(rs) \in Engine
         /\ rs[BestOf(rs)].cooled # "running"
<1> DEFINE ps == {p \in given.providers : rs[p].cooled # "running"}
<1>1. given.providers \subseteq Engine BY TaskExecutorAssumption
<1>2. ps \in SUBSET Engine /\ ps # {} /\ ps \subseteq given.providers BY <1>1
<1>3. \A p \in ps : rs[p].cooled # "running" OBVIOUS
<1>4. BestOf(rs) = First(Best(rs, ps)) BY DEF BestOf
<1> HIDE DEF ps
<1>5. rs \in [Engine -> AffinityRecord] BY DEF AllFit
<1>6. Best(rs, ps) # {} BY <1>2, <1>5, SomeAreBest
<1>7. Best(rs, ps) \subseteq ps BY DEF Best
<1>8. Best(rs, ps) \in SUBSET Engine BY <1>2, <1>7
<1>9. First(Best(rs, ps)) \in Best(rs, ps) BY <1>6, <1>8, FirstIsThere
<1> QED BY <1>1, <1>2, <1>3, <1>4, <1>7, <1>9

(* An execution has a type, a provider and a number of its own; past its   *)
(* launch it has a context, which in Chrome and Browserbase has its number.*)
JobFits(j) ==
  /\ j.pc # "idle" => j.type \in TaskType /\ j.provider \in Engine /\ j.number \in 1..MaxExecutions
  /\ j.pc \in {"spawned", "ready"} => j.provider # "chrome"
  /\ j.pc \in {"page", "run", "close"} /\ j.provider \in {"chrome", "browserbase"} =>
       j.context = j.number

(* The books: every count is kept, and what failed too often cools.        *)
BooksFit ==
  \A t \in TaskType : AllFit(affinity[t])

ExecutorIInv ==
  ExecutorTypeOK /\ ResultsAreBooked /\ BooksFit /\ ContextsAreClosed
  /\ \A c \in Client : JobFits(job[c])

LEMMA ExecutorStarts == ExecutorInit => ExecutorIInv
<1> SUFFICES ASSUME ExecutorInit PROVE ExecutorIInv
  OBVIOUS
<1>1. given \in Registry /\ given.threshold \in Nat \ {0} /\ 0 \in Number
  BY TaskExecutorAssumption DEF ExecutorInit, Number
<1>2. NewAffinity \in AffinityRecord BY DEF NewAffinity, AffinityRecord
<1>3. NoJob \in JobRecord BY <1>1 DEF NoJob, JobRecord
<1>4. ExecutorTypeOK BY <1>1, <1>2, <1>3 DEF ExecutorInit, ExecutorTypeOK
<1>5. Fits(NewAffinity) BY <1>1, <1>2 DEF Fits, NewAffinity
<1>6. BooksFit BY <1>2, <1>5 DEF BooksFit, AllFit, ExecutorInit
<1>7. ResultsAreBooked BY DEF ResultsAreBooked, ExecutorInit, NewAffinity
<1>8. ContextsAreClosed BY DEF ContextsAreClosed, ExecutorInit
<1>9. \A c \in Client : JobFits(job[c]) BY DEF JobFits, ExecutorInit, NoJob
<1> QED BY <1>4, <1>6, <1>7, <1>8, <1>9 DEF ExecutorIInv

(* The router's records change, and every count with what is booked.       *)
LEMMA BooksChange ==
  ASSUME ExecutorIInv, UNCHANGED <<given, job, executions, backends, held, endpoint, contexts>>,
         affinity' \in [TaskType -> [Engine -> AffinityRecord]],
         booked' \in [TaskType -> [Engine -> Nat]],
         \A t \in TaskType, p \in Engine :
           Fits(affinity'[t][p]) /\ Counted(affinity'[t][p]) = booked'[t][p]
  PROVE  ExecutorIInv'
<1>1. ExecutorTypeOK' BY DEF ExecutorIInv, ExecutorTypeOK
<1>2. ResultsAreBooked' BY DEF ResultsAreBooked, Counted
<1>3. BooksFit' BY DEF BooksFit, AllFit, Fits
<1>4. ContextsAreClosed' BY DEF ExecutorIInv, ContextsAreClosed
<1> QED BY <1>1, <1>2, <1>3, <1>4 DEF ExecutorIInv, JobFits

LEMMA BooksAreFit ==
  ASSUME ExecutorIInv, NEW t \in TaskType
  PROVE  /\ AllFit(affinity[t]) /\ given \in Registry
         /\ \A p \in Engine :
              /\ affinity[t][p] \in AffinityRecord /\ Fits(affinity[t][p])
              /\ Counted(affinity[t][p]) = booked[t][p]
BY DEF ExecutorIInv, ExecutorTypeOK, BooksFit, AllFit, ResultsAreBooked, Counted

LEMMA RankingsAreRead ==
  ASSUME ExecutorIInv, NEW t \in TaskType, GetRankings(t)
  PROVE  ExecutorIInv'
<1> DEFINE rs == RecoveredAll(affinity[t])
<1>1. /\ affinity' = [affinity EXCEPT ![t] = rs]
      /\ UNCHANGED <<given, booked, job, executions, backends, held, endpoint, contexts>>
  BY DEF GetRankings
<1>2. /\ affinity \in [TaskType -> [Engine -> AffinityRecord]]
      /\ booked \in [TaskType -> [Engine -> Nat]]
  BY DEF ExecutorIInv, ExecutorTypeOK
<1>3. AllFit(rs) /\ \A p \in Engine : Counted(rs[p]) = booked[t][p]
  BY BooksAreFit, SelectionsKeepRecords
<1> HIDE DEF rs
<1>4. affinity' \in [TaskType -> [Engine -> AffinityRecord]] BY <1>1, <1>2, <1>3 DEF AllFit
<1>5. \A u \in TaskType, p \in Engine :
        Fits(affinity'[u][p]) /\ Counted(affinity'[u][p]) = booked[u][p]
  <2> SUFFICES ASSUME NEW u \in TaskType, NEW p \in Engine
               PROVE  Fits(affinity'[u][p]) /\ Counted(affinity'[u][p]) = booked[u][p]
    OBVIOUS
  <2>1. CASE u = t
    <3>1. affinity'[u] = rs BY <1>1, <1>2, <2>1
    <3> QED BY <1>3, <2>1, <3>1 DEF AllFit
  <2>2. CASE u # t
    <3>1. affinity'[u] = affinity[u] BY <1>1, <1>2, <2>2
    <3> QED BY <3>1, BooksAreFit
  <2> QED BY <2>1, <2>2
<1> QED BY <1>1, <1>2, <1>4, <1>5, BooksChange

LEMMA BooksAreReset ==
  ASSUME ExecutorIInv, ResetAll
  PROVE  ExecutorIInv'
<1>1. given \in Registry /\ given.threshold \in Nat \ {0}
  BY TaskExecutorAssumption DEF ExecutorIInv, ExecutorTypeOK
<1>2. NewAffinity \in AffinityRecord /\ Counted(NewAffinity) = 0
  BY DEF NewAffinity, AffinityRecord, Counted
<1>3. Fits(NewAffinity) BY <1>1, <1>2 DEF Fits, NewAffinity
<1>4. /\ affinity' = [t \in TaskType |-> [p \in Engine |-> NewAffinity]]
      /\ booked' = [t \in TaskType |-> [p \in Engine |-> 0]]
      /\ UNCHANGED <<given, job, executions, backends, held, endpoint, contexts>>
  BY DEF ResetAll
<1>5. /\ affinity' \in [TaskType -> [Engine -> AffinityRecord]]
      /\ booked' \in [TaskType -> [Engine -> Nat]]
      /\ \A t \in TaskType, p \in Engine : affinity'[t][p] = NewAffinity /\ booked'[t][p] = 0
  BY <1>2, <1>4
<1> QED BY <1>2, <1>3, <1>4, <1>5, BooksChange

LEMMA AffinityCooldownEnds ==
  ASSUME ExecutorIInv, NEW t \in TaskType, NEW p \in Engine, AffinityCooldownElapses(t, p)
  PROVE  ExecutorIInv'
<1> DEFINE r == [affinity[t][p] EXCEPT !.cooled = "over"]
<1>1. /\ affinity \in [TaskType -> [Engine -> AffinityRecord]]
      /\ booked \in [TaskType -> [Engine -> Nat]]
      /\ UNCHANGED <<given, booked, job, executions, backends, held, endpoint, contexts>>
      /\ affinity' = [affinity EXCEPT ![t] = [affinity[t] EXCEPT ![p] = r]]
  BY DEF ExecutorIInv, ExecutorTypeOK, AffinityCooldownElapses
<1>2. affinity[t][p] \in AffinityRecord /\ Counted(affinity[t][p]) = booked[t][p]
  BY BooksAreFit
<1>3. r \in AffinityRecord BY <1>2 DEF AffinityRecord
<1>4. /\ r.cooled = "over" /\ r.successes = affinity[t][p].successes
      /\ r.failures = affinity[t][p].failures
  BY <1>2 DEF AffinityRecord
<1> HIDE DEF r
<1>5. Fits(r) /\ Counted(r) = booked[t][p] BY <1>2, <1>3, <1>4 DEF Fits, Counted
<1>6. affinity' \in [TaskType -> [Engine -> AffinityRecord]] BY <1>1, <1>3
<1>7. \A u \in TaskType, q \in Engine :
        affinity'[u][q] = IF u = t /\ q = p THEN r ELSE affinity[u][q]
  BY <1>1
<1>8. \A u \in TaskType, q \in Engine :
        Fits(affinity'[u][q]) /\ Counted(affinity'[u][q]) = booked[u][q]
  BY <1>5, <1>7, BooksAreFit
<1> QED BY <1>1, <1>6, <1>8, BooksChange

InContext(j) == j.pc \in {"page", "run", "close"}

(* One execution moves on: each context that is open afterwards is its own *)
(* or another's.                                                           *)
LEMMA ExecutionMovesOn ==
  ASSUME ExecutorIInv, NEW c \in Client, NEW j \in JobRecord, JobFits(j),
         job' = [job EXCEPT ![c] = j], UNCHANGED given,
         affinity' \in [TaskType -> [Engine -> AffinityRecord]],
         booked' \in [TaskType -> [Engine -> Nat]],
         \A t \in TaskType, p \in Engine :
           Fits(affinity'[t][p]) /\ Counted(affinity'[t][p]) = booked'[t][p],
         executions' \in Number, backends' \subseteq 1..MaxExecutions,
         contexts' \subseteq 1..MaxExecutions,
         held' \in [Engine -> Number], endpoint' \in [Engine -> Number],
         \A x \in contexts' :
           \/ InContext(j) /\ j.context = x
           \/ x \in contexts /\ ~(InContext(job[c]) /\ job[c].context = x)
  PROVE  ExecutorIInv'
<1>1. job \in [Client -> JobRecord] BY DEF ExecutorIInv, ExecutorTypeOK
<1>2. job' \in [Client -> JobRecord] BY <1>1
<1>3. job'[c] = j /\ \A d \in Client \ {c} : job'[d] = job[d] BY <1>1
<1>4. ExecutorTypeOK' BY <1>2 DEF ExecutorIInv, ExecutorTypeOK
<1>5. ResultsAreBooked' BY DEF ResultsAreBooked, Counted
<1>6. BooksFit' BY DEF BooksFit, AllFit, Fits
<1>7. ContextsAreClosed'
  <2> SUFFICES ASSUME NEW x \in contexts'
               PROVE  \E d \in Client : InContext(job'[d]) /\ job'[d].context = x
    BY DEF ContextsAreClosed, InContext
  <2>1. CASE InContext(j) /\ j.context = x BY <1>3, <2>1
  <2>2. CASE x \in contexts /\ ~(InContext(job[c]) /\ job[c].context = x)
    <3>1. PICK d \in Client : InContext(job[d]) /\ job[d].context = x
      BY <2>2 DEF ExecutorIInv, ContextsAreClosed, InContext
    <3>2. d # c BY <2>2, <3>1
    <3> QED BY <1>3, <3>1, <3>2
  <2> QED BY <2>1, <2>2
<1>8. \A d \in Client : JobFits(job'[d]) BY <1>3 DEF ExecutorIInv
<1> QED BY <1>4, <1>5, <1>6, <1>7, <1>8 DEF ExecutorIInv, JobFits

LEMMA BooksStay ==
  ASSUME ExecutorIInv, UNCHANGED <<given, affinity, booked>>
  PROVE  /\ UNCHANGED given
         /\ affinity' \in [TaskType -> [Engine -> AffinityRecord]]
         /\ booked' \in [TaskType -> [Engine -> Nat]]
         /\ \A t \in TaskType, p \in Engine :
              Fits(affinity'[t][p]) /\ Counted(affinity'[t][p]) = booked'[t][p]
BY BooksAreFit DEF ExecutorIInv, ExecutorTypeOK

LEMMA ExecutionBegins ==
  ASSUME ExecutorIInv, NEW c \in Client, NEW t \in TaskType,
         NEW p \in given.providers \union {"any"}, BeginExecution(c, t, p)
  PROVE  /\ ExecutorIInv'
         /\ job'[c].routed => affinity'[job'[c].type][job'[c].provider].cooled # "running"
<1> DEFINE n == executions + 1
           rs == ReleasedIfAll(RecoveredAll(affinity[t]))
<1>1. /\ given \in Registry /\ job \in [Client -> JobRecord] /\ executions \in Number
      /\ affinity \in [TaskType -> [Engine -> AffinityRecord]]
      /\ booked \in [TaskType -> [Engine -> Nat]] /\ MaxExecutions \in Nat
      /\ backends \subseteq 1..MaxExecutions /\ contexts \subseteq 1..MaxExecutions
      /\ held \in [Engine -> Number] /\ endpoint \in [Engine -> Number]
  BY TaskExecutorAssumption DEF ExecutorIInv, ExecutorTypeOK
<1>2. given.providers \subseteq Engine /\ "any" \notin Engine
  BY <1>1, TaskExecutorAssumption, Engines
<1>3. /\ JobAt(c, "idle") /\ executions < MaxExecutions /\ executions' = n
      /\ UNCHANGED <<given, booked, backends, held, endpoint, contexts>>
  BY DEF BeginExecution
<1>4. n \in 1..MaxExecutions /\ n \in Number /\ 0 \in Number BY <1>1, <1>3 DEF Number
<1> HIDE DEF n
<1>5. /\ AllFit(rs) /\ \A q \in Engine : Counted(rs[q]) = booked[t][q]
      /\ \E q \in given.providers : rs[q].cooled # "running"
  <2>1. /\ AllFit(RecoveredAll(affinity[t]))
        /\ \A q \in Engine : Counted(RecoveredAll(affinity[t])[q]) = booked[t][q]
    BY <1>1, BooksAreFit, SelectionsKeepRecords
  <2> QED BY <1>1, <2>1, SelectionsKeepRecords
<1>6. /\ BestOf(rs) \in Engine /\ rs[BestOf(rs)].cooled # "running"
  BY <1>1, <1>5, SelectionAvoidsCooled
<1> HIDE DEF rs
<1>7. ASSUME NEW q \in Engine, NEW b \in {TRUE, FALSE},
             job' = [job EXCEPT ![c] = [NoJob EXCEPT !.pc = "launch", !.type = t, !.provider = q,
                                                     !.number = n, !.routed = b]],
             affinity' \in [TaskType -> [Engine -> AffinityRecord]],
             \A u \in TaskType, o \in Engine :
               Fits(affinity'[u][o]) /\ Counted(affinity'[u][o]) = booked'[u][o]
      PROVE  ExecutorIInv' /\ job'[c].type = t /\ job'[c].provider = q /\ job'[c].routed = b
  <2> DEFINE j == [NoJob EXCEPT !.pc = "launch", !.type = t, !.provider = q, !.number = n,
                                !.routed = b]
  <2>1. j \in JobRecord
    <3>1. b = TRUE \/ b = FALSE BY <1>7
    <3>2. CASE b = TRUE BY <1>4, <3>2 DEF JobRecord, NoJob
    <3>3. CASE b = FALSE BY <1>4, <3>3 DEF JobRecord, NoJob
    <3> QED BY <3>1, <3>2, <3>3
  <2>2. /\ j.pc = "launch" /\ j.type = t /\ j.provider = q /\ j.number = n /\ j.routed = b
    BY DEF NoJob
  <2>3. job' = [job EXCEPT ![c] = j] BY <1>7
  <2> HIDE DEF j
  <2>4. JobFits(j) BY <1>4, <2>2 DEF JobFits
  <2>5. job'[c] = j BY <1>1, <2>3
  <2>6. \A x \in contexts' : x \in contexts /\ ~(InContext(job[c]) /\ job[c].context = x)
    BY <1>3 DEF InContext, JobAt
  <2>7. UNCHANGED given /\ booked' \in [TaskType -> [Engine -> Nat]] /\ executions' \in Number
        /\ backends' \subseteq 1..MaxExecutions /\ contexts' \subseteq 1..MaxExecutions
        /\ held' \in [Engine -> Number] /\ endpoint' \in [Engine -> Number]
    BY <1>1, <1>3, <1>4
  <2>8. ExecutorIInv' BY <1>7, <2>1, <2>3, <2>4, <2>6, <2>7, ExecutionMovesOn
  <2> QED BY <2>2, <2>5, <2>8
<1>8. CASE p = "any"
  <2>1. /\ affinity' = [affinity EXCEPT ![t] = rs]
        /\ job' = [job EXCEPT ![c] = [NoJob EXCEPT !.pc = "launch", !.type = t,
                                        !.provider = BestOf(rs), !.number = n, !.routed = TRUE]]
    BY <1>8 DEF BeginExecution, rs, n
  <2>2. affinity' \in [TaskType -> [Engine -> AffinityRecord]] BY <1>1, <1>5, <2>1 DEF AllFit
  <2>3. affinity'[t] = rs /\ \A u \in TaskType : u # t => affinity'[u] = affinity[u]
    BY <1>1, <2>1
  <2>4. \A u \in TaskType, o \in Engine :
          Fits(affinity'[u][o]) /\ Counted(affinity'[u][o]) = booked'[u][o]
    <3> SUFFICES ASSUME NEW u \in TaskType, NEW o \in Engine
                 PROVE  Fits(affinity'[u][o]) /\ Counted(affinity'[u][o]) = booked[u][o]
      BY <1>3
    <3>1. CASE u = t BY <1>5, <2>3, <3>1 DEF AllFit
    <3>2. CASE u # t
      <4>1. affinity'[u] = affinity[u] BY <2>3, <3>2
      <4> QED BY <4>1, BooksAreFit
    <3> QED BY <3>1, <3>2
  <2>5. TRUE \in {TRUE, FALSE} OBVIOUS
  <2>6. ExecutorIInv' /\ job'[c].type = t /\ job'[c].provider = BestOf(rs)
    BY <1>6, <1>7, <2>1, <2>2, <2>4, <2>5
  <2> QED BY <1>6, <2>3, <2>6
<1>9. CASE p # "any"
  <2>1. /\ UNCHANGED affinity /\ p \in Engine
        /\ job' = [job EXCEPT ![c] = [NoJob EXCEPT !.pc = "launch", !.type = t,
                                        !.provider = p, !.number = n, !.routed = FALSE]]
    BY <1>2, <1>9 DEF BeginExecution, n
  <2>2. /\ affinity' \in [TaskType -> [Engine -> AffinityRecord]]
        /\ \A u \in TaskType, o \in Engine :
             Fits(affinity'[u][o]) /\ Counted(affinity'[u][o]) = booked'[u][o]
    BY <1>3, <2>1, BooksStay
  <2>3. FALSE \in {TRUE, FALSE} OBVIOUS
  <2>4. ExecutorIInv' /\ job'[c].routed = FALSE BY <1>7, <2>1, <2>2, <2>3
  <2> QED BY <2>4
<1> QED BY <1>8, <1>9

(* Launches: a provider object shares what it holds, not the numbers.      *)
LEMMA LaunchesGoOn ==
  ASSUME ExecutorIInv, NEW c \in Client,
         LaunchChrome(c) \/ SpawnBackend(c) \/ NoteEndpoint(c) \/ ConnectContext(c)
         \/ ExecutionRaises(c)
  PROVE  ExecutorIInv'
<1>1. /\ job \in [Client -> JobRecord] /\ executions \in Number /\ MaxExecutions \in Nat
      /\ backends \subseteq 1..MaxExecutions /\ contexts \subseteq 1..MaxExecutions
      /\ held \in [Engine -> Number] /\ endpoint \in [Engine -> Number]
      /\ job[c] \in JobRecord /\ JobFits(job[c])
  BY TaskExecutorAssumption DEF ExecutorIInv, ExecutorTypeOK
<1>2. /\ UNCHANGED given
      /\ affinity' \in [TaskType -> [Engine -> AffinityRecord]]
      /\ booked' \in [TaskType -> [Engine -> Nat]]
      /\ \A t \in TaskType, p \in Engine :
           Fits(affinity'[t][p]) /\ Counted(affinity'[t][p]) = booked'[t][p]
  BY BooksStay DEF LaunchChrome, SpawnBackend, NoteEndpoint, ConnectContext, ExecutionRaises,
     routerVars
<1>3. /\ executions' \in Number /\ job[c].pc \in {"launch", "spawned", "ready"}
      /\ ~InContext(job[c])
  BY <1>1 DEF LaunchChrome, SpawnBackend, NoteEndpoint, ConnectContext, ExecutionRaises, JobAt,
     InContext
<1>4. /\ job[c].provider \in Engine /\ job[c].number \in 1..MaxExecutions
      /\ job[c].number \in Number
  BY <1>1, <1>3 DEF JobFits, Number
<1>5. NoJob \in JobRecord /\ JobFits(NoJob)
  BY <1>1 DEF NoJob, JobRecord, JobFits, Number
<1>6. CASE UNCHANGED contexts /\ Leaves(c) /\ backends' \subseteq 1..MaxExecutions
           /\ held' \in [Engine -> Number] /\ UNCHANGED endpoint
  <2>1. job' = [job EXCEPT ![c] = NoJob] BY <1>6 DEF Leaves
  <2>2. \A x \in contexts' : x \in contexts /\ ~(InContext(job[c]) /\ job[c].context = x)
    BY <1>3, <1>6
  <2> QED BY <1>1, <1>2, <1>3, <1>5, <1>6, <2>1, <2>2, ExecutionMovesOn
<1>7. CASE ExecutionRaises(c)
  BY <1>1, <1>6, <1>7 DEF ExecutionRaises
<1>8. CASE LaunchChrome(c)
  <2>1. /\ job[c].provider = "chrome" /\ backends' = backends \union {job[c].number}
        /\ held' = [held EXCEPT !["chrome"] = job[c].number] /\ UNCHANGED endpoint
    BY <1>8 DEF LaunchChrome
  <2>2. backends' \subseteq 1..MaxExecutions /\ held' \in [Engine -> Number]
    BY <1>1, <1>4, <2>1
  <2>3. CASE Leaves(c) /\ UNCHANGED contexts BY <1>6, <2>1, <2>2, <2>3
  <2>4. CASE /\ contexts' = contexts \union {job[c].number}
             /\ job' = [job EXCEPT ![c].pc = "page", ![c].context = job[c].number]
    <3> DEFINE j == [job[c] EXCEPT !.pc = "page", !.context = job[c].number]
    <3>1. job' = [job EXCEPT ![c] = j] BY <2>4
    <3>2. j \in JobRecord BY <1>1, <1>4 DEF JobRecord
    <3>3. /\ j.pc = "page" /\ j.context = job[c].number /\ j.number = job[c].number
          /\ j.type = job[c].type /\ j.provider = job[c].provider
      BY <1>1 DEF JobRecord
    <3> HIDE DEF j
    <3>4. JobFits(j) BY <1>1, <1>3, <3>3 DEF JobFits
    <3>5. \A x \in contexts' :
            \/ InContext(j) /\ j.context = x
            \/ x \in contexts /\ ~(InContext(job[c]) /\ job[c].context = x)
      BY <1>3, <2>4, <3>3 DEF InContext
    <3>6. contexts' \subseteq 1..MaxExecutions /\ endpoint' \in [Engine -> Number]
      BY <1>1, <1>4, <2>1, <2>4
    <3> QED BY <1>2, <1>3, <2>2, <3>1, <3>2, <3>4, <3>5, <3>6, ExecutionMovesOn
  <2> QED BY <1>8, <2>3, <2>4 DEF LaunchChrome
<1>9. ASSUME NEW pc \in {"spawned", "ready"}, Goes(c, pc), job[c].provider # "chrome",
             UNCHANGED contexts, backends' \subseteq 1..MaxExecutions,
             held' \in [Engine -> Number], endpoint' \in [Engine -> Number]
      PROVE  ExecutorIInv'
  <2> DEFINE j == [job[c] EXCEPT !.pc = pc]
  <2>1. job' = [job EXCEPT ![c] = j] BY <1>9 DEF Goes
  <2>2. j \in JobRecord BY <1>1 DEF JobRecord
  <2>3. j.pc = pc /\ j.number = job[c].number /\ j.type = job[c].type
        /\ j.provider = job[c].provider
    BY <1>1 DEF JobRecord
  <2> HIDE DEF j
  <2>4. JobFits(j) BY <1>1, <1>3, <1>9, <2>3 DEF JobFits
  <2>5. \A x \in contexts' : x \in contexts /\ ~(InContext(job[c]) /\ job[c].context = x)
    BY <1>3, <1>9
  <2> QED BY <1>1, <1>2, <1>3, <1>9, <2>1, <2>2, <2>4, <2>5, ExecutionMovesOn
<1>10. CASE SpawnBackend(c)
  <2>1. /\ backends' = backends \union {job[c].number} /\ UNCHANGED <<contexts, endpoint>>
        /\ held' = [held EXCEPT ![job[c].provider] = job[c].number]
        /\ Goes(c, "spawned") /\ job[c].provider # "chrome"
    BY <1>10 DEF SpawnBackend
  <2>2. backends' \subseteq 1..MaxExecutions /\ held' \in [Engine -> Number]
    BY <1>1, <1>4, <2>1
  <2> QED BY <1>1, <1>9, <2>1, <2>2
<1>11. CASE NoteEndpoint(c)
  <2>1. /\ endpoint' = [endpoint EXCEPT ![job[c].provider] = job[c].number]
        /\ UNCHANGED <<contexts, backends, held>> /\ Goes(c, "ready") /\ JobAt(c, "spawned")
    BY <1>11 DEF NoteEndpoint
  <2>2. endpoint' \in [Engine -> Number] /\ job[c].provider # "chrome"
    BY <1>1, <1>4, <2>1 DEF JobFits, JobAt
  <2> QED BY <1>1, <1>9, <2>1, <2>2
<1>12. CASE ConnectContext(c)
  <2> DEFINE context == IF job[c].provider = "camoufox" THEN job[c].number ELSE Address(c)
             j == [job[c] EXCEPT !.pc = "page", !.context = context]
  <2>1. /\ JobAt(c, "ready") /\ Address(c) \in backends /\ contexts' = contexts \union {context}
        /\ job' = [job EXCEPT ![c].pc = "page", ![c].context = context]
        /\ UNCHANGED <<backends, held, endpoint>>
    BY <1>12 DEF ConnectContext
  <2>2. /\ context \in 1..MaxExecutions /\ context \in Number
        /\ job[c].provider = "browserbase" => context = job[c].number
    <3>1. context \in 1..MaxExecutions BY <1>1, <1>4, <2>1
    <3>2. job[c].provider = "browserbase" => context = job[c].number BY DEF Address
    <3> QED BY <3>1, <3>2, <1>1 DEF Number
  <2> HIDE DEF context
  <2>3. job' = [job EXCEPT ![c] = j] BY <2>1
  <2>4. j \in JobRecord BY <1>1, <2>2 DEF JobRecord
  <2>5. /\ j.pc = "page" /\ j.context = context /\ j.number = job[c].number
        /\ j.type = job[c].type /\ j.provider = job[c].provider
    BY <1>1 DEF JobRecord
  <2> HIDE DEF j
  <2>6. JobFits(j) BY <1>1, <1>3, <2>1, <2>2, <2>5 DEF JobFits, JobAt
  <2>7. \A x \in contexts' :
          \/ InContext(j) /\ j.context = x
          \/ x \in contexts /\ ~(InContext(job[c]) /\ job[c].context = x)
    BY <1>3, <2>1, <2>5 DEF InContext
  <2>8. contexts' \subseteq 1..MaxExecutions BY <1>1, <2>1, <2>2
  <2> QED BY <1>1, <1>2, <1>3, <2>1, <2>3, <2>4, <2>6, <2>7, <2>8, ExecutionMovesOn
<1> QED BY <1>7, <1>8, <1>10, <1>11, <1>12

(* The page, the handler and its result: a context outlives all of them.   *)
LEMMA HandlersEnd ==
  ASSUME ExecutorIInv, NEW c \in Client,
         NewPage(c) \/ HandlerEnds(c) \/ HandlerCancelled(c)
  PROVE  ExecutorIInv'
<1>1. /\ job \in [Client -> JobRecord] /\ job[c] \in JobRecord /\ JobFits(job[c])
      /\ affinity \in [TaskType -> [Engine -> AffinityRecord]]
      /\ booked \in [TaskType -> [Engine -> Nat]]
      /\ \A d \in Client : JobFits(job[d])
  BY DEF ExecutorIInv, ExecutorTypeOK
<1>2. /\ job[c].pc \in {"page", "run"} /\ InContext(job[c])
      /\ UNCHANGED <<given, executions, backends, held, endpoint, contexts>>
  BY DEF NewPage, HandlerEnds, HandlerCancelled, JobAt, InContext, routerVars
<1>3. PICK pc \in {"run", "close"} : Goes(c, pc)
  BY DEF NewPage, HandlerEnds, HandlerCancelled
<1> DEFINE j == [job[c] EXCEPT !.pc = pc]
<1>4. job' = [job EXCEPT ![c] = j] BY <1>3 DEF Goes
<1>5. j \in JobRecord BY <1>1 DEF JobRecord
<1>6. j.pc = pc /\ j.number = job[c].number /\ j.type = job[c].type
      /\ j.provider = job[c].provider /\ j.context = job[c].context
  BY <1>1 DEF JobRecord
<1> HIDE DEF j
<1>7. JobFits(j) BY <1>1, <1>2, <1>6 DEF JobFits
<1>8. \A x \in contexts' :
        \/ InContext(j) /\ j.context = x
        \/ x \in contexts /\ ~(InContext(job[c]) /\ job[c].context = x)
  BY <1>2, <1>6 DEF InContext
<1>9. SUFFICES /\ affinity' \in [TaskType -> [Engine -> AffinityRecord]]
               /\ booked' \in [TaskType -> [Engine -> Nat]]
               /\ \A t \in TaskType, p \in Engine :
                    Fits(affinity'[t][p]) /\ Counted(affinity'[t][p]) = booked'[t][p]
  <2>1. /\ executions' \in Number /\ backends' \subseteq 1..MaxExecutions
        /\ contexts' \subseteq 1..MaxExecutions
        /\ held' \in [Engine -> Number] /\ endpoint' \in [Engine -> Number]
    BY <1>2 DEF ExecutorIInv, ExecutorTypeOK
  <2> QED BY <1>2, <1>4, <1>5, <1>7, <1>8, <1>9, <2>1, ExecutionMovesOn
<1>10. CASE UNCHANGED <<affinity, booked>> BY <1>2, <1>10, BooksStay
<1>11. CASE HandlerEnds(c)
  <2> DEFINE t == job[c].type
             p == job[c].provider
  <2>1. t \in TaskType /\ p \in Engine BY <1>1, <1>2 DEF JobFits
  <2>2. PICK r \in {Credited(affinity[t][p]), Blamed(affinity[t][p])} :
          affinity' = [affinity EXCEPT ![t][p] = r]
    BY <1>11 DEF HandlerEnds
  <2>3. booked' = [booked EXCEPT ![t][p] = @ + 1] BY <1>11 DEF HandlerEnds
  <2> HIDE DEF t, p
  <2>4. Fits(r) /\ Counted(r) = booked[t][p] + 1 /\ r \in AffinityRecord
    <3>1. /\ Fits(affinity[t][p]) /\ given \in Registry
          /\ Counted(affinity[t][p]) = booked[t][p]
      BY <2>1, BooksAreFit
    <3>2. Fits(r) /\ Counted(r) = booked[t][p] + 1 BY <3>1, RecordChanges
    <3> QED BY <3>2 DEF Fits
  <2>5. affinity' \in [TaskType -> [Engine -> AffinityRecord]] BY <1>1, <2>2, <2>4
  <2>6. booked' \in [TaskType -> [Engine -> Nat]] BY <1>1, <2>1, <2>3
  <2>7. \A u \in TaskType, q \in Engine :
          affinity'[u][q] = IF u = t /\ q = p THEN r ELSE affinity[u][q]
    BY <1>1, <2>1, <2>2
  <2>8. \A u \in TaskType, q \in Engine :
          booked'[u][q] = IF u = t /\ q = p THEN booked[t][p] + 1 ELSE booked[u][q]
    BY <1>1, <2>1, <2>3
  <2>9. \A u \in TaskType, q \in Engine :
          Fits(affinity'[u][q]) /\ Counted(affinity'[u][q]) = booked'[u][q]
    BY <2>4, <2>7, <2>8, BooksAreFit, <1>2 DEF Fits
  <2> QED BY <2>5, <2>6, <2>9
<1> QED BY <1>10, <1>11 DEF NewPage, HandlerCancelled, routerVars

LEMMA ContextCloses ==
  ASSUME ExecutorIInv, NEW c \in Client, CloseContext(c)
  PROVE  ExecutorIInv'
<1>1. /\ backends \subseteq 1..MaxExecutions /\ contexts \subseteq 1..MaxExecutions
      /\ held \in [Engine -> Number] /\ endpoint \in [Engine -> Number]
      /\ executions \in Number /\ MaxExecutions \in Nat
  BY TaskExecutorAssumption DEF ExecutorIInv, ExecutorTypeOK
<1>2. /\ contexts' = contexts \ {job[c].context} /\ job' = [job EXCEPT ![c] = NoJob]
      /\ backends' \subseteq backends
      /\ UNCHANGED <<executions, held, endpoint, given, affinity, booked>>
  BY DEF CloseContext, Leaves, routerVars
<1>3. NoJob \in JobRecord /\ JobFits(NoJob)
  BY <1>1 DEF NoJob, JobRecord, JobFits, Number
<1>4. \A x \in contexts' : x \in contexts /\ ~(InContext(job[c]) /\ job[c].context = x)
  BY <1>2
<1>5. /\ backends' \subseteq 1..MaxExecutions /\ contexts' \subseteq 1..MaxExecutions
      /\ held' \in [Engine -> Number] /\ endpoint' \in [Engine -> Number]
      /\ executions' \in Number
  BY <1>1, <1>2
<1> QED BY <1>2, <1>3, <1>4, <1>5, BooksStay, ExecutionMovesOn

LEMMA ProviderCloses ==
  ASSUME ExecutorIInv, NEW p \in Engine, CloseProvider(p)
  PROVE  ExecutorIInv'
<1>1. /\ backends' \subseteq backends /\ UNCHANGED <<job, executions, contexts, routerVars>>
      /\ held' = [held EXCEPT ![p] = 0] /\ endpoint' = [endpoint EXCEPT ![p] = 0]
  BY DEF CloseProvider
<1>2. 0 \in Number BY TaskExecutorAssumption DEF Number
<1>3. ExecutorTypeOK' BY <1>1, <1>2 DEF ExecutorIInv, ExecutorTypeOK, routerVars
<1> QED
  BY <1>1, <1>3 DEF ExecutorIInv, ResultsAreBooked, BooksFit, AllFit, Fits, ContextsAreClosed,
     JobFits, routerVars

LEMMA ExecutorSteps ==
  ASSUME ExecutorIInv, [ExecutorNext]_executorVars
  PROVE  ExecutorIInv'
<1>1. CASE UNCHANGED executorVars
  BY <1>1
  DEF executorVars, ExecutorIInv, ExecutorTypeOK, ResultsAreBooked, BooksFit, AllFit, Fits,
      ContextsAreClosed, JobFits
<1>2. CASE ResetAll BY <1>2, BooksAreReset
<1>3. CASE \E t \in TaskType : GetRankings(t) \/ \E p \in Engine : AffinityCooldownElapses(t, p)
  BY <1>3, RankingsAreRead, AffinityCooldownEnds
<1>4. CASE \E p \in Engine : CloseProvider(p) BY <1>4, ProviderCloses
<1>5. CASE \E c \in Client, t \in TaskType, p \in given.providers \union {"any"} :
             BeginExecution(c, t, p)
  BY <1>5, ExecutionBegins
<1>6. CASE \E c \in Client :
             \/ LaunchChrome(c) \/ SpawnBackend(c) \/ NoteEndpoint(c) \/ ConnectContext(c)
             \/ ExecutionRaises(c) \/ NewPage(c) \/ HandlerEnds(c) \/ HandlerCancelled(c)
             \/ CloseContext(c)
  BY <1>6, LaunchesGoOn, HandlersEnd, ContextCloses
<1> QED BY <1>1, <1>2, <1>3, <1>4, <1>5, <1>6 DEF ExecutorNext

LEMMA ExecutorHolds == ExecutorSpec => []ExecutorIInv
BY ExecutorStarts, ExecutorSteps, PTL DEF ExecutorSpec

(* Every result is booked once, what fails too often cools, and contexts   *)
(* and own browsers belong to their executions, for every number of        *)
(* clients, types and executions (executor.py:60-133, router.py:59-111,    *)
(* cooldown.py:43-74).                                                     *)
THEOREM ExecutionsAreBooked == ExecutorSpec => []ExecutorInv
<1>1. ExecutorIInv => ExecutorInv
  BY DEF ExecutorIInv, ExecutorInv, ThresholdCools, BooksFit, AllFit, Fits, OwnBrowser, JobFits
<1> QED BY <1>1, ExecutorHolds, PTL

LEMMA CooldownsEnd ==
  ASSUME ExecutorIInv, [ExecutorNext]_executorVars, NEW t \in TaskType, NEW p \in Engine,
         affinity[t][p].cooled = "running", affinity'[t][p].cooled = "no"
  PROVE  \/ affinity' = [u \in TaskType |-> [q \in Engine |-> NewAffinity]]
         \/ \A q \in given.providers : affinity[t][q].cooled = "running"
<1>1. /\ affinity \in [TaskType -> [Engine -> AffinityRecord]] /\ given \in Registry
      /\ \A c \in Client : JobFits(job[c])
  BY DEF ExecutorIInv, ExecutorTypeOK
<1>2. CASE UNCHANGED affinity BY <1>2
<1>3. CASE ResetAll BY <1>3 DEF ResetAll
<1>4. ASSUME NEW u \in TaskType, GetRankings(u)
      PROVE  FALSE
  <2>1. affinity' = [affinity EXCEPT ![u] = RecoveredAll(affinity[u])]
    BY <1>4 DEF GetRankings
  <2>2. CASE u # t
    <3>1. affinity'[t] = affinity[t] BY <1>1, <2>1, <2>2
    <3> QED BY <3>1
  <2>3. CASE u = t
    <3>1. affinity'[t] = RecoveredAll(affinity[t]) BY <1>1, <2>1, <2>3
    <3>2. RecoveredAll(affinity[t])[p].cooled = "running"
      BY <1>1, BooksAreFit, SelectionsKeepRecords
    <3> QED BY <3>1, <3>2
  <2> QED BY <2>2, <2>3
<1>5. ASSUME NEW u \in TaskType, NEW q \in Engine, AffinityCooldownElapses(u, q)
      PROVE  FALSE
  <2> DEFINE r == [affinity[u][q] EXCEPT !.cooled = "over"]
  <2>1. affinity' = [affinity EXCEPT ![u] = [affinity[u] EXCEPT ![q] = r]]
    BY <1>5 DEF AffinityCooldownElapses
  <2>2. affinity[u][q] \in AffinityRecord BY <1>1
  <2>3. r.cooled = "over" BY <2>2 DEF AffinityRecord
  <2> HIDE DEF r
  <2>4. affinity'[t][p] = IF u = t /\ q = p THEN r ELSE affinity[t][p] BY <1>1, <2>1
  <2> QED BY <2>3, <2>4
<1>6. ASSUME NEW c \in Client, NEW u \in TaskType, NEW q \in given.providers \union {"any"},
             BeginExecution(c, u, q)
      PROVE  \A o \in given.providers : affinity[t][o].cooled = "running"
  <2> DEFINE rs == RecoveredAll(affinity[u])
  <2>1. affinity' = [affinity EXCEPT ![u] = ReleasedIfAll(rs)] \/ UNCHANGED affinity
    BY <1>6 DEF BeginExecution
  <2>2. affinity'[t] = ReleasedIfAll(rs) /\ u = t BY <1>1, <2>1
  <2>3. /\ AllFit(rs)
        /\ \A o \in Engine : rs[o].cooled = "running" <=> affinity[t][o].cooled = "running"
    BY <1>1, <2>2, BooksAreFit, SelectionsKeepRecords
  <2> HIDE DEF rs
  <2>4. rs[p].cooled = "running" /\ ReleasedIfAll(rs)[p].cooled # "running" BY <2>2, <2>3
  <2>5. \A o \in given.providers : rs[o].cooled = "running"
    BY <1>1, <2>3, <2>4, SelectionsKeepRecords
  <2>6. given.providers \subseteq Engine BY <1>1, TaskExecutorAssumption
  <2> QED BY <2>3, <2>5, <2>6
<1>7. ASSUME NEW c \in Client, HandlerEnds(c)
      PROVE  FALSE
  <2> DEFINE u == job[c].type
             q == job[c].provider
  <2>1. PICK r \in {Credited(affinity[u][q]), Blamed(affinity[u][q])} :
          affinity' = [affinity EXCEPT ![u][q] = r]
    BY <1>7 DEF HandlerEnds
  <2>2. u \in TaskType /\ q \in Engine
    BY <1>1, <1>7 DEF HandlerEnds, JobAt, JobFits
  <2> HIDE DEF u, q
  <2>3. affinity[u][q].cooled = "running" => r.cooled = "running"
    BY <2>2, BooksAreFit, RecordChanges
  <2>4. affinity'[t][p] = IF u = t /\ q = p THEN r ELSE affinity[t][p] BY <1>1, <2>1
  <2> QED BY <2>3, <2>4
<1>8. \/ UNCHANGED affinity \/ ResetAll \/ \E u \in TaskType : GetRankings(u)
      \/ \E u \in TaskType, q \in Engine : AffinityCooldownElapses(u, q)
      \/ \E c \in Client, u \in TaskType, q \in given.providers \union {"any"} :
           BeginExecution(c, u, q)
      \/ \E c \in Client : HandlerEnds(c)
  BY DEF ExecutorNext, executorVars, routerVars, LaunchChrome, SpawnBackend, NoteEndpoint,
     ConnectContext, ExecutionRaises, NewPage, HandlerCancelled, CloseContext, CloseProvider
<1> QED BY <1>2, <1>3, <1>4, <1>5, <1>6, <1>7, <1>8

LEMMA SelectionsSpare ==
  ASSUME ExecutorIInv, [ExecutorNext]_executorVars, NEW c \in Client,
         JobAt(c, "idle"), JobAt(c, "launch")', job'[c].routed
  PROVE  affinity'[job'[c].type][job'[c].provider].cooled # "running"
<1>1. job \in [Client -> JobRecord] BY DEF ExecutorIInv, ExecutorTypeOK
<1>2. job'[c] # job[c] BY DEF JobAt
<1>3. CASE UNCHANGED job BY <1>2, <1>3
<1>4. CASE \E d \in Client :
             \/ LaunchChrome(d) \/ SpawnBackend(d) \/ NoteEndpoint(d) \/ ConnectContext(d)
             \/ ExecutionRaises(d) \/ NewPage(d) \/ HandlerEnds(d) \/ HandlerCancelled(d)
             \/ CloseContext(d)
  <2>1. PICK d \in Client :
             \/ LaunchChrome(d) \/ SpawnBackend(d) \/ NoteEndpoint(d) \/ ConnectContext(d)
             \/ ExecutionRaises(d) \/ NewPage(d) \/ HandlerEnds(d) \/ HandlerCancelled(d)
             \/ CloseContext(d)
    BY <1>4
  <2>2. ~JobAt(d, "idle")
    BY <2>1 DEF LaunchChrome, SpawnBackend, NoteEndpoint, ConnectContext, ExecutionRaises,
       NewPage, HandlerEnds, HandlerCancelled, CloseContext, JobAt
  <2>3. PICK j : job' = [job EXCEPT ![d] = j]
    BY <2>1 DEF LaunchChrome, SpawnBackend, NoteEndpoint, ConnectContext, ExecutionRaises,
       NewPage, HandlerEnds, HandlerCancelled, CloseContext, Goes, Leaves
  <2> QED BY <1>1, <1>2, <2>2, <2>3
<1>5. CASE \E d \in Client, t \in TaskType, p \in given.providers \union {"any"} :
             BeginExecution(d, t, p)
  <2>1. PICK d \in Client, t \in TaskType, p \in given.providers \union {"any"} :
          BeginExecution(d, t, p)
    BY <1>5
  <2>2. PICK j : job' = [job EXCEPT ![d] = j] BY <2>1 DEF BeginExecution
  <2>3. d = c BY <1>1, <1>2, <2>2
  <2>4. job'[d].routed => affinity'[job'[d].type][job'[d].provider].cooled # "running"
    BY <2>1, ExecutionBegins
  <2> QED BY <2>3, <2>4
<1>6. \/ UNCHANGED job
      \/ \E d \in Client :
             \/ LaunchChrome(d) \/ SpawnBackend(d) \/ NoteEndpoint(d) \/ ConnectContext(d)
             \/ ExecutionRaises(d) \/ NewPage(d) \/ HandlerEnds(d) \/ HandlerCancelled(d)
             \/ CloseContext(d)
      \/ \E d \in Client, t \in TaskType, p \in given.providers \union {"any"} :
           BeginExecution(d, t, p)
  BY DEF ExecutorNext, executorVars, ResetAll, GetRankings, AffinityCooldownElapses, CloseProvider
<1> QED BY <1>3, <1>4, <1>5, <1>6

(* A provider that cools is chosen by no selection that could choose       *)
(* another, and its cooldown ends by time, by a reset, or by a selection   *)
(* that finds every provider cooled, however executions overlap            *)
(* (router.py:72-91, cooldown.py:43-74).                                   *)
THEOREM CooledProvidersRest == ExecutorSpec => CooldownsHold
<1>1. ExecutorIInv /\ [ExecutorNext]_executorVars =>
        [\A t \in TaskType, p \in Engine :
           affinity[t][p].cooled = "running" /\ affinity'[t][p].cooled = "no" =>
             \/ affinity' = [u \in TaskType |-> [q \in Engine |-> NewAffinity]]
             \/ \A q \in given.providers : affinity[t][q].cooled = "running"]_executorVars
  BY CooldownsEnd
<1>2. ExecutorIInv /\ [ExecutorNext]_executorVars =>
        [\A c \in Client :
           JobAt(c, "idle") /\ JobAt(c, "launch")' /\ job'[c].routed =>
             affinity'[job'[c].type][job'[c].provider].cooled # "running"]_executorVars
  BY SelectionsSpare
<1> QED
  BY <1>1, <1>2, ExecutorHolds, PTL
  DEF ExecutorSpec, CooldownsHold, CooldownsRunOut, CooledAreSpared
=============================================================================
