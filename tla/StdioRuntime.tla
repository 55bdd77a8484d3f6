---------------------------- MODULE StdioRuntime ----------------------------
(***************************************************************************)
(* One runtime process that the control plane talks to over stdin and      *)
(* stdout: providers/camoufox/runtime.py, providers/geekez/runtime.py, and *)
(* the loop of chrome_runtime/runtime_entry.py (whose pages are those of   *)
(* module SessionRuntime).  It starts, reads a line, executes, answers,    *)
(* and ends at the end of its input, at a shutdown request or at SIGTERM,  *)
(* whose handler runs between any two steps of the main thread.            *)
(*                                                                         *)
(* A page is its own target id.  openPages is what Playwright has told the *)
(* process: it delivers events only while the main thread is in a call.    *)
(* Pages that pages open are left out, and a start or a connect is cut by  *)
(* SIGTERM between its steps only.                                         *)
(***************************************************************************)
EXTENDS Naturals, FiniteSets

CONSTANTS
  Kind,      \* the runtimes to start: of "camoufox", "geekez", "chrome"
  Page, NoPage,
  MaxTasks,  \* tasks sent
  MaxFailures  \* connects of geekez that fail

ASSUME StdioAssumption ==
  /\ Kind \subseteq {"camoufox", "geekez", "chrome"}
  /\ NoPage \notin Page
  /\ MaxTasks \in Nat /\ MaxFailures \in Nat

VARIABLES
  kind,       \* never changed
  main,       \* where the main thread is, and what it works on
  server,     \* server_process or app_process runs
  browser,    \* self.browser is set
  helpers,    \* Playwright drivers, and profiles of the app, that run
  failed,     \* connects that failed
  openPages,
  table,      \* self.pages: the page of each id
  handlers,   \* the ids whose close handler hangs on a page
  used,       \* the ids given out
  asked,      \* the control plane wants it to end: "no", "line" or "signal"
  sent, begun, answered  \* tasks

stdioVars == <<kind, main, server, browser, helpers, failed, openPages, table,
               handlers, used, asked, sent, begun, answered>>

pageVars == <<openPages, table, handlers, used>>
processVars == <<server, browser, helpers, failed>>
taskVars == <<sent, begun, answered>>

Op == {"open", "use", "close", "other"}

Main == [pc : {"launch", "server", "playwright", "read", "run", "goto", "answer",
               "stop", "exited"},
         op : Op, target : Page \union {NoPage}, ok : BOOLEAN]

MainAt(pc) == main.pc = pc

StdioInit ==
  /\ kind \in Kind
  /\ main = [pc |-> IF kind = "chrome" THEN "read" ELSE "launch", op |-> "other",
             target |-> NoPage, ok |-> FALSE]
  /\ server = FALSE /\ browser = FALSE
  /\ helpers = [playwright |-> 0, profile |-> 0] /\ failed = 0
  /\ openPages = {} /\ used = {}
  /\ table = [i \in Page |-> NoPage]
  /\ handlers = [p \in Page |-> {}]
  /\ asked = "no" /\ sent = 0 /\ begun = 0 /\ answered = 0

-----------------------------------------------------------------------------
(* start_browser and start_app: the child process first.                   *)
StartServer ==
  /\ MainAt("launch")
  /\ server' = TRUE
  /\ main' = [main EXCEPT !.pc = "server"]
  /\ UNCHANGED <<kind, browser, helpers, failed, asked, pageVars, taskVars>>

(* Camoufox reads the endpoint and connects; geekez waits for the app's    *)
(* API and connects later.  runtime_ready follows at once.                 *)
StartPlaywright ==
  /\ MainAt("server") /\ kind = "camoufox"
  /\ helpers' = [helpers EXCEPT !.playwright = @ + 1]
  /\ main' = [main EXCEPT !.pc = "playwright"]
  /\ UNCHANGED <<kind, server, browser, failed, asked, pageVars, taskVars>>

BecomeReady ==
  /\ IF kind = "camoufox" THEN MainAt("playwright") ELSE MainAt("server")
  /\ browser' = (kind = "camoufox")
  /\ main' = [main EXCEPT !.pc = "read"]
  /\ UNCHANGED <<kind, server, helpers, failed, asked, pageVars, taskVars>>

(* Mutant: main returns without stop_browser.                              *)
StartFailsOpen ==
  /\ main.pc \in {"launch", "server", "playwright"}
  /\ main' = [main EXCEPT !.pc = "exited"]
  /\ UNCHANGED <<kind, asked, processVars, pageVars, taskVars>>

(* Any step of the start may raise; main stops what runs and returns 1.    *)
StartFails ==
  /\ main.pc \in {"launch", "server", "playwright"}
  /\ main' = [main EXCEPT !.pc = "stop"]
  /\ UNCHANGED <<kind, asked, processVars, pageVars, taskVars>>

-----------------------------------------------------------------------------
(* The loop. *)

(* Mutant: shutdown_runtime is no request the loop knows.                  *)
ReadTasksOnly ==
  /\ MainAt("read")
  /\ begun < sent /\ begun' = begun + 1
  /\ \E op \in Op, target \in used \union {NoPage} :
       main' = [main EXCEPT !.pc = "run", !.op = op, !.target = target]
  /\ UNCHANGED <<kind, asked, sent, answered, processVars, pageVars>>

(* The next task, or the end.  Other lines change nothing.                 *)
ReadLine ==
  /\ MainAt("read")
  /\ \/ /\ begun < sent /\ begun' = begun + 1
        /\ \E op \in Op, target \in used \union {NoPage} :
             main' = [main EXCEPT !.pc = "run", !.op = op, !.target = target]
     \/ /\ asked = "line" /\ begun = sent
        /\ main' = [main EXCEPT !.pc = "stop"]
        /\ UNCHANGED begun
  /\ UNCHANGED <<kind, asked, sent, answered, processVars, pageVars>>

Done(ok) == main' = [main EXCEPT !.pc = "answer", !.ok = ok]

(* Actions that touch no page, and all a chrome runtime does.              *)
OtherAction ==
  /\ MainAt("run") /\ (kind = "chrome" \/ main.op = "other")
  /\ \E ok \in BOOLEAN : (ok => kind # "geekez" \/ browser) /\ Done(ok)
  /\ UNCHANGED <<kind, asked, processVars, pageVars, taskVars>>

(* ensure_browser_connected of geekez: a profile, its browser, Playwright, *)
(* the connection.  What a failed attempt had started stays, and the next  *)
(* attempt forgets it.                                                     *)
Connects == kind = "geekez" /\ ~browser /\ MainAt("run") /\ main.op \in {"open", "other"}

ConnectSucceeds ==
  /\ Connects
  /\ browser' = TRUE
  /\ helpers' = [playwright |-> helpers.playwright + 1, profile |-> helpers.profile + 1]
  /\ UNCHANGED <<kind, main, server, failed, asked, pageVars, taskVars>>

ConnectFails ==
  /\ Connects /\ failed < MaxFailures
  /\ \E started \in {<<0, 0>>, <<1, 0>>, <<1, 1>>} :
       helpers' = [profile |-> helpers.profile + started[1],
                   playwright |-> helpers.playwright + started[2]]
  /\ failed' = failed + 1
  /\ Done(FALSE)
  /\ UNCHANGED <<kind, server, browser, asked, pageVars, taskVars>>

-----------------------------------------------------------------------------
(* Pages. *)

Runs(op) == MainAt("run") /\ kind # "chrome" /\ main.op = op

Bind(i, p) ==
  /\ table' = [table EXCEPT ![i] = p]
  /\ handlers' = [handlers EXCEPT ![p] = @ \union {i}]

(* Mutant: the page is registered once it has loaded.                      *)
OpenUnregistered ==
  /\ Runs("open") /\ browser
  /\ \E p \in Page \ used :
       /\ used' = used \union {p} /\ openPages' = openPages \union {p}
       /\ main' = [main EXCEPT !.pc = "goto", !.target = p]
  /\ UNCHANGED <<kind, table, handlers, asked, processVars, taskVars>>

(* A page in a context of its own (camoufox) or in the shared one (geekez),*)
(* registered before it loads.                                             *)
OpenPage ==
  /\ Runs("open") /\ browser
  /\ \E p \in Page \ used :
       /\ used' = used \union {p} /\ openPages' = openPages \union {p}
       /\ Bind(p, p)
       /\ main' = [main EXCEPT !.pc = "goto", !.target = p]
  /\ UNCHANGED <<kind, asked, processVars, taskVars>>

OpenFails ==
  /\ Runs("open") /\ browser /\ Done(FALSE)
  /\ UNCHANGED <<kind, asked, processVars, pageVars, taskVars>>

(* A load that fails is a failed task whose page stays.                    *)
LoadPage ==
  /\ MainAt("goto")
  /\ \E ok \in BOOLEAN : Done(ok)
  /\ UNCHANGED <<kind, asked, processVars, pageVars, taskVars>>

(* Mutant: an id is bound to the newest page whether or not it has one.    *)
RecordsNewest(i) == IF i = NoPage THEN {} ELSE openPages

(* get_page_record: camoufox binds an id without a page to a live page of  *)
(* whoever opened it; geekez refuses.                                      *)
Records(i) ==
  CASE i = NoPage            -> {}
    [] i \in used /\ table[i] # NoPage -> {table[i]}
    [] i \in used /\ table[i] = NoPage -> IF kind = "camoufox" THEN openPages ELSE {}

Unknown ==
  /\ Runs("use") \/ Runs("close")
  /\ Records(main.target) = {}
  /\ Done(FALSE)
  /\ UNCHANGED <<kind, asked, processVars, pageVars, taskVars>>

UsePage ==
  /\ Runs("use")
  /\ \E p \in Records(main.target) : Bind(main.target, p)
  /\ \E ok \in BOOLEAN : Done(ok)
  /\ UNCHANGED <<kind, openPages, used, asked, processVars, taskVars>>

(* The page is gone: its handlers take their ids out, whatever those are   *)
(* bound to by then.                                                       *)
Unbound(p, hs) == [i \in Page |-> IF i \in hs[p] THEN NoPage ELSE table[i]]

(* context.close raises in camoufox before the id is taken out; geekez     *)
(* ignores the error of page.close.                                        *)
ClosePage ==
  /\ Runs("close")
  /\ \E p \in Records(main.target) :
       LET i == main.target
           bound == [handlers EXCEPT ![p] = @ \union {i}]
       IN  \/ /\ openPages' = openPages \ {p}
              /\ table' = [Unbound(p, bound) EXCEPT ![i] = NoPage]
              /\ handlers' = bound
              /\ Done(TRUE)
           \/ /\ kind = "camoufox"
              /\ Bind(i, p) /\ UNCHANGED openPages /\ Done(FALSE)
           \/ /\ kind = "geekez"
              /\ table' = [table EXCEPT ![i] = NoPage]
              /\ UNCHANGED <<openPages, handlers>> /\ Done(TRUE)
  /\ UNCHANGED <<kind, used, asked, processVars, taskVars>>

(* A page closes by itself, noticed during a call.                         *)
PageGone(p) ==
  /\ main.pc \in {"run", "goto"} /\ p \in openPages
  /\ openPages' = openPages \ {p}
  /\ table' = Unbound(p, handlers)
  /\ UNCHANGED <<kind, main, handlers, used, asked, processVars, taskVars>>

-----------------------------------------------------------------------------
(* Answers: a heartbeat and a completion.  A result that is no JSON raises *)
(* before a byte of it is written.                                         *)
Unwritable ==
  /\ MainAt("answer") /\ main.ok
  /\ main' = [main EXCEPT !.ok = FALSE]
  /\ UNCHANGED <<kind, asked, processVars, pageVars, taskVars>>

(* Mutant: only results are answered.                                      *)
AnswerResults ==
  /\ MainAt("answer")
  /\ answered' = answered + IF main.ok THEN 1 ELSE 0
  /\ main' = [main EXCEPT !.pc = "read", !.op = "other", !.target = NoPage, !.ok = FALSE]
  /\ UNCHANGED <<kind, sent, begun, asked, processVars, pageVars>>

Answer ==
  /\ MainAt("answer")
  /\ answered' = answered + 1
  /\ main' = [main EXCEPT !.pc = "read", !.op = "other", !.target = NoPage, !.ok = FALSE]
  /\ UNCHANGED <<kind, sent, begun, asked, processVars, pageVars>>

(* stop_browser: the pages, the browser, Playwright, for geekez the last   *)
(* profile, and the child process, each whatever happens to the others.    *)
(* Mutant: what was never started is ended too.                            *)
OneLess(n) == n - 1

Fewer(n) == IF n = 0 THEN 0 ELSE n - 1

StopBrowser ==
  /\ MainAt("stop")
  /\ IF kind = "chrome" THEN UNCHANGED <<openPages, table, server, browser, helpers>>
     ELSE /\ openPages' = {} /\ table' = [i \in Page |-> NoPage]
          /\ server' = FALSE /\ browser' = FALSE
          /\ helpers' = [playwright |-> Fewer(helpers.playwright),
                         profile |-> Fewer(helpers.profile)]
  /\ main' = [main EXCEPT !.pc = "exited"]
  /\ UNCHANGED <<kind, failed, handlers, used, asked, taskVars>>

(* The control plane. *)

SendTask ==
  /\ asked = "no" /\ sent < MaxTasks /\ main.pc \in {"read", "run", "goto", "answer"}
  /\ sent' = sent + 1
  /\ UNCHANGED <<kind, main, asked, begun, answered, processVars, pageVars>>

AskToEnd ==
  /\ asked = "no" /\ asked' = "line"
  /\ UNCHANGED <<kind, main, processVars, pageVars, taskVars>>

(* SIGTERM: the handler stops the browser and exits; for chrome it is not  *)
(* handled.  A signal that finds the main thread inside pages_lock is not  *)
(* modelled: the handler would wait for that lock for ever.                *)
Signal ==
  /\ kind # "chrome" /\ main.pc # "exited" /\ asked # "signal"
  /\ asked' = "signal"
  /\ main' = [main EXCEPT !.pc = "stop"]
  /\ UNCHANGED <<kind, processVars, pageVars, taskVars>>

MainStep ==
  \/ StartServer \/ StartPlaywright \/ BecomeReady \/ StartFails
  \/ ReadLine \/ OtherAction \/ ConnectSucceeds \/ ConnectFails
  \/ OpenPage \/ OpenFails \/ LoadPage \/ Unknown \/ UsePage \/ ClosePage
  \/ Unwritable \/ Answer \/ StopBrowser

StdioNext ==
  \/ MainStep \/ SendTask \/ AskToEnd \/ Signal
  \/ \E p \in Page : PageGone(p)

StdioSpec == StdioInit /\ [][StdioNext]_stdioVars

(* The main thread runs; calls into the browser have timeouts.             *)
StdioFairness == WF_stdioVars(MainStep)

-----------------------------------------------------------------------------
(* Properties. *)

(* Type correctness of the process.                                        *)
StdioTypeOK ==
  /\ kind \in Kind /\ main \in Main
  /\ {server, browser} \subseteq BOOLEAN
  /\ helpers \in [playwright : Nat, profile : Nat] /\ failed \in 0..MaxFailures
  /\ openPages \subseteq Page /\ used \subseteq Page
  /\ table \in [Page -> Page \union {NoPage}]
  /\ handlers \in [Page -> SUBSET Page]
  /\ asked \in {"no", "line", "signal"}
  /\ answered <= begun /\ begun <= sent /\ sent <= MaxTasks

(* Every task that was begun is answered once before the next line is      *)
(* read, whatever raised meanwhile (camoufox/runtime.py:943-972, 1028-1058,*)
(* geekez/runtime.py:894-923, runtime_entry.py:653-677).                   *)
AnsweredOnce ==
  /\ begun <= answered + 1
  /\ main.pc \in {"run", "goto", "answer"} => begun = answered + 1
  /\ main.pc \in {"read", "stop"} /\ asked # "signal" => begun = answered

(* No exit leaves the child process or a page behind, wherever the start   *)
(* failed or the signal came.  Geekez leaves a profile and a Playwright    *)
(* driver for each connect that failed, and no more (stop_browser).  The   *)
(* browsers of a chrome process are those of SessionRuntime, and this says *)
(* nothing of them.                                                        *)
NothingLeftRunning ==
  MainAt("exited") =>
    /\ ~server /\ openPages = {}
    /\ helpers.playwright <= failed /\ helpers.profile <= failed

(* Camoufox finds every open page in its table, also one whose load failed *)
(* and one whose id was given to another page (runtime.py:368-385).        *)
PagesAreKnown ==
  kind = "camoufox" => openPages \subseteq { table[i] : i \in Page }

(* While the page of an id is open, the id means that page until it is     *)
(* closed by that id: recovery binds only ids that lost theirs, and the    *)
(* close handlers an id collects undo nothing (camoufox/runtime.py:368-444,*)
(* geekez/runtime.py:495-525).                                             *)
IdsKeepTheirPage ==
  [][\A i \in Page :
       table[i] \in openPages \intersect openPages' /\ table'[i] # table[i] =>
         main.op = "close" /\ main.target = i]_stdioVars

(* A process that was asked to end ends: the tasks before the request are  *)
(* bounded, and no failure keeps it from reading on.                       *)
EndsWhenAsked == asked # "no" ~> MainAt("exited")

(* A process answers each task once, knows its pages and leaves nothing    *)
(* running, wherever it fails (camoufox/runtime.py, geekez/runtime.py).    *)
StdioInv == StdioTypeOK /\ AnsweredOnce /\ NothingLeftRunning /\ PagesAreKnown

=============================================================================
