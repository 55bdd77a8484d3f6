------------------------------ MODULE MCRuntimes ------------------------------
(* The parts of a runtime process for TLC: the sessions of one, the loop   *)
(* of one, and the flows that the steps of a session go through.  What a   *)
(* step of a session comes to is an outcome there, so one of the parts     *)
(* runs in a behaviour and the others rest.                                *)
EXTENDS SessionRuntime, StdioRuntime, MCLogins

CONSTANTS c1, c2, s1, s2, p1, p2, p3

VARIABLE active

runtimesVars == <<active, sessionVars, stdioVars, regVars>>

(* Sessions that open, close and expire; steps that register; that repair. *)
Menus ==
  {[ops |-> {"open", "close", "list", "renew", "page"}, sessions |-> {s1, s2}, calls |-> 5],
   [ops |-> {"open"} \union RegisterOp, sessions |-> {s1}, calls |-> 6],
   [ops |-> {"open", "close"} \union RepairOp, sessions |-> {s1}, calls |-> 5]}

RuntimesInit ==
  /\ active \in {"sessions", "process", "flows"}
  /\ SessionRuntimeInit
  /\ active # "sessions" => menu.sessions = {s1, s2}
  /\ StdioInit
  /\ active # "process" => kind = "chrome"
  /\ IF active = "flows" THEN RegisterInit
     ELSE /\ setting = Asked(TRUE, FALSE, FALSE, TRUE) /\ form = NoForm
          /\ drive = DriveAt("idle", FALSE) /\ inbox = NewInbox(0)
          /\ exch = NoExchange /\ reg = [NewReg EXCEPT !.pc = "failed"]

Sessions == active = "sessions" /\ SessionRuntimeNext
              /\ UNCHANGED <<active, stdioVars, regVars>>
Process == active = "process" /\ StdioNext
              /\ UNCHANGED <<active, sessionVars, regVars>>

Flows == active = "flows" /\ RegisterNext
              /\ UNCHANGED <<active, sessionVars, stdioVars>>

RuntimesNext == Sessions \/ Process \/ Flows

(* The fairness of each part, where it runs.                               *)
RuntimesFairness ==
  /\ \A c \in Caller : WF_sessionVars(active = "sessions" /\ CallStep(c))
  /\ WF_stdioVars(active = "process" /\ MainStep)
  /\ WF_regVars(active = "flows" /\ RegisterStep)

RuntimesSpec == RuntimesInit /\ [][RuntimesNext]_runtimesVars /\ RuntimesFairness

(* Every call on a session returns, a process that was asked to end does,  *)
(* and so does every flow, however its pages answer                        *)
(* (session_runtime.py:371, camoufox/runtime.py:1040,                      *)
(* repairer_flow.py:1884).                                                 *)
RuntimesEnd == SessionCallsReturn /\ EndsWhenAsked /\ FlowsEnd
=============================================================================
