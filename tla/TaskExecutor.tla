----------------------------- MODULE TaskExecutor -----------------------------
(***************************************************************************)
(* The Python package easybrowser: DefaultTaskExecutor, the router it asks *)
(* for a provider, and the provider objects it shares between executions.  *)
(* Executions interleave at the awaits of execute_task and of launch; the  *)
(* router runs between two awaits, so a call of it is one step.            *)
(*                                                                         *)
(* Execution n launches backend n: a Chrome driver, a camoufox server, a   *)
(* GeekEZ profile or a Browserbase session.  Cooldown lengths and what a   *)
(* handler does on its page are left out.                                  *)
(***************************************************************************)
EXTENDS Naturals, Integers, Sequences, SequencesExt

CONSTANTS
  Client,            \* coroutines that call execute_task
  TaskType,
  Registry,          \* what the router may be given: providers, and the
                     \* failures in a row that cool one
  MaxExecutions

ProviderNames == <<"browserbase", "camoufox", "chrome", "geekez">>  \* list_providers

Engine == ToSet(ProviderNames)

ASSUME TaskExecutorAssumption ==
  /\ Registry \subseteq [providers : (SUBSET Engine) \ {{}}, threshold : Nat \ {0}]
  /\ MaxExecutions \in Nat

VARIABLES
  given,      \* router._providers and failure_threshold, never changed
  affinity,   \* tracker._records
  booked,     \* handlers that ended, by type and provider
  job,        \* what each client is doing
  executions, \* executions begun
  backends,   \* the backends that run
  held,       \* the backend a provider object would close; 0: none
  endpoint,   \* the address a provider object keeps; 0: none
  contexts    \* open contexts

executorVars == <<given, affinity, booked, job, executions, backends, held, endpoint,
                  contexts>>

routerVars == <<given, affinity, booked>>

Number == 0..MaxExecutions

AffinityRecord ==
  [successes : Nat, failures : Nat, recent : Nat,
   cooled : {"no", "running", "over"}]  \* cooled_until: 0, ahead, behind

NewAffinity == [successes |-> 0, failures |-> 0, recent |-> 0, cooled |-> "no"]

JobRecord ==
  [pc : {"idle", "launch", "spawned", "ready", "page", "run", "close"},
   type : TaskType \union {"none"}, provider : Engine \union {"none"},
   routed : BOOLEAN,  \* the router chose the provider
   number : Number, context : Number]

NoJob == [pc |-> "idle", type |-> "none", provider |-> "none", routed |-> FALSE,
          number |-> 0, context |-> 0]

ExecutorInit ==
  /\ given \in Registry
  /\ affinity = [t \in TaskType |-> [p \in Engine |-> NewAffinity]]
  /\ booked = [t \in TaskType |-> [p \in Engine |-> 0]]
  /\ job = [c \in Client |-> NoJob]
  /\ executions = 0 /\ backends = {} /\ contexts = {}
  /\ held = [p \in Engine |-> 0] /\ endpoint = [p \in Engine |-> 0]

JobAt(c, pc) == job[c].pc = pc

Goes(c, pc) == job' = [job EXCEPT ![c].pc = pc]

Leaves(c) == job' = [job EXCEPT ![c] = NoJob]

-----------------------------------------------------------------------------
(* CooldownPolicy and AffinityRecord. *)

(* Mutant: what is recovered starts afresh.                                *)
RecoveredBlank(r) == IF r.cooled = "over" THEN NewAffinity ELSE r

Recovered(r) == IF r.cooled = "over" THEN [r EXCEPT !.cooled = "no", !.recent = 0] ELSE r

ReleasedByForce(r) == [r EXCEPT !.cooled = "no", !.recent = 0]

Total(r) == IF r.successes + r.failures = 0 THEN 1 ELSE r.successes + r.failures

(* score times the total, of a provider that does not cool.                *)
Points(r) == 100 * r.successes - 30 * r.recent * Total(r)

Outscores(r, q) == Points(r) * Total(q) > Points(q) * Total(r)

(* Mutant: one failure too many.                                           *)
ShouldCoolLater(r) == r.cooled # "running" /\ r.recent > given.threshold

ShouldCool(r) == r.cooled # "running" /\ r.recent >= given.threshold

(* Mutant: a success takes one failure back.                               *)
CreditedOne(r) == [r EXCEPT !.successes = @ + 1, !.recent = @ - 1]

Credited(r) == [r EXCEPT !.successes = @ + 1, !.recent = 0]

Blamed(r) ==
  LET counted == [r EXCEPT !.failures = @ + 1, !.recent = @ + 1]
  IN  IF ShouldCool(counted) THEN [counted EXCEPT !.cooled = "running"] ELSE counted

-----------------------------------------------------------------------------
(* AffinityRouter. *)

RecoveredAll(rs) == [p \in Engine |-> IF p \in given.providers THEN Recovered(rs[p]) ELSE rs[p]]

(* Mutant: one cooled provider is enough to release them all.              *)
ReleasedIfAny(rs) ==
  IF \E p \in given.providers : rs[p].cooled = "running"
  THEN [p \in Engine |-> IF p \in given.providers THEN ReleasedByForce(rs[p]) ELSE rs[p]]
  ELSE rs

ReleasedIfAll(rs) ==
  IF \A p \in given.providers : rs[p].cooled = "running"
  THEN [p \in Engine |-> IF p \in given.providers THEN ReleasedByForce(rs[p]) ELSE rs[p]]
  ELSE rs

(* The best of some providers, and the first of them: the sort is stable.  *)
Best(rs, ps) == {p \in ps : ~\E q \in ps : Outscores(rs[q], rs[p])}

First(ps) == ProviderNames[Min({i \in DOMAIN ProviderNames : ProviderNames[i] \in ps})]

(* Mutant: cooled providers stay in the list, with the score they earned.  *)
BestOfAll(rs) == First(Best(rs, given.providers))

BestOf(rs) == First(Best(rs, {p \in given.providers : rs[p].cooled # "running"}))

(* execute_task up to its first await: select_provider, or the pinned one. *)
BeginExecution(c, t, p) ==
  LET n == executions + 1
      rs == ReleasedIfAll(RecoveredAll(affinity[t]))
      enter(q) == job' = [job EXCEPT ![c] = [NoJob EXCEPT !.pc = "launch", !.type = t,
                                             !.provider = q, !.number = n,
                                             !.routed = (p = "any")]]
  IN  /\ JobAt(c, "idle") /\ executions < MaxExecutions
      /\ executions' = n
      /\ IF p = "any"
         THEN affinity' = [affinity EXCEPT ![t] = rs] /\ enter(BestOf(rs))
         ELSE enter(p) /\ UNCHANGED affinity
      /\ UNCHANGED <<given, booked, backends, held, endpoint, contexts>>

(* get_rankings recovers too.                                              *)
GetRankings(t) ==
  /\ affinity' = [affinity EXCEPT ![t] = RecoveredAll(affinity[t])]
  /\ UNCHANGED <<given, booked, job, executions, backends, held, endpoint, contexts>>

ResetAll ==
  /\ affinity' = [t \in TaskType |-> [p \in Engine |-> NewAffinity]]
  /\ booked' = [t \in TaskType |-> [p \in Engine |-> 0]]
  /\ UNCHANGED <<given, job, executions, backends, held, endpoint, contexts>>

AffinityCooldownElapses(t, p) ==
  /\ affinity[t][p].cooled = "running"
  /\ affinity' = [affinity EXCEPT ![t][p].cooled = "over"]
  /\ UNCHANGED <<given, booked, job, executions, backends, held, endpoint, contexts>>

-----------------------------------------------------------------------------
(* Providers. *)

(* ChromeProvider.launch keeps what it launched to itself until it returns;*)
(* a driver whose window cannot be read is not quit.                       *)
LaunchChrome(c) ==
  /\ JobAt(c, "launch") /\ job[c].provider = "chrome"
  /\ backends' = backends \union {job[c].number}
  /\ held' = [held EXCEPT !["chrome"] = job[c].number]
  /\ \/ /\ contexts' = contexts \union {job[c].number}
        /\ job' = [job EXCEPT ![c].pc = "page", ![c].context = job[c].number]
     \/ Leaves(c) /\ UNCHANGED contexts
  /\ UNCHANGED <<executions, endpoint, routerVars>>

SpawnBackend(c) ==
  /\ JobAt(c, "launch") /\ job[c].provider # "chrome"
  /\ backends' = backends \union {job[c].number}
  /\ held' = [held EXCEPT ![job[c].provider] = job[c].number]
  /\ Goes(c, "spawned")
  /\ UNCHANGED <<executions, endpoint, contexts, routerVars>>

NoteEndpoint(c) ==
  /\ JobAt(c, "spawned")
  /\ endpoint' = [endpoint EXCEPT ![job[c].provider] = job[c].number]
  /\ Goes(c, "ready")
  /\ UNCHANGED <<executions, backends, held, contexts, routerVars>>

(* Mutant: browserbase reads its connectUrl from the provider object too.  *)
AddressShared(c) == endpoint[job[c].provider]

(* camoufox and geekez connect, an await later, to what the object says.   *)
Address(c) ==
  IF job[c].provider = "browserbase" THEN job[c].number ELSE endpoint[job[c].provider]

(* Camoufox makes a context; the others take the one that is there.        *)
ConnectContext(c) ==
  LET context == IF job[c].provider = "camoufox" THEN job[c].number ELSE Address(c)
  IN  /\ JobAt(c, "ready") /\ Address(c) \in backends
      /\ contexts' = contexts \union {context}
      /\ job' = [job EXCEPT ![c].pc = "page", ![c].context = context]
      /\ UNCHANGED <<executions, backends, held, endpoint, routerVars>>

(* A launch that raises is no result, and ends nothing it has started.     *)
ExecutionRaises(c) ==
  /\ job[c].pc \in {"launch", "spawned", "ready"} /\ Leaves(c)
  /\ UNCHANGED <<executions, backends, held, endpoint, contexts, routerVars>>

(* provider.close, by whoever gave the executor its providers.             *)
CloseProvider(p) ==
  /\ held[p] # 0 /\ \A c \in Client : ~JobAt(c, "idle") => job[c].provider # p
  /\ backends' = backends \ {held[p]}
  /\ held' = [held EXCEPT ![p] = 0] /\ endpoint' = [endpoint EXCEPT ![p] = 0]
  /\ UNCHANGED <<job, executions, contexts, routerVars>>

-----------------------------------------------------------------------------
(* Mutant: a page that does not open ends the execution at once.           *)
NewPageReturns(c) ==
  /\ JobAt(c, "page")
  /\ \/ job[c].context \in contexts /\ Goes(c, "run")
     \/ Leaves(c)
  /\ UNCHANGED <<executions, backends, held, endpoint, contexts, routerVars>>

NewPage(c) ==
  /\ JobAt(c, "page")
  /\ \/ job[c].context \in contexts /\ Goes(c, "run")
     \/ Goes(c, "close")
  /\ UNCHANGED <<executions, backends, held, endpoint, contexts, routerVars>>

(* The handler ends: its result counts, an exception counts as a failure.  *)
HandlerEnds(c) ==
  LET t == job[c].type  p == job[c].provider
  IN  /\ JobAt(c, "run")
      /\ \/ /\ job[c].context \in contexts
            /\ affinity' = [affinity EXCEPT ![t][p] = Credited(affinity[t][p])]
         \/ affinity' = [affinity EXCEPT ![t][p] = Blamed(affinity[t][p])]
      /\ booked' = [booked EXCEPT ![t][p] = @ + 1]
      /\ Goes(c, "close")
      /\ UNCHANGED <<given, executions, backends, held, endpoint, contexts>>

(* A client that stops waiting cancels the coroutine: nothing is booked.   *)
HandlerCancelled(c) ==
  /\ JobAt(c, "run") /\ Goes(c, "close")
  /\ UNCHANGED <<executions, backends, held, endpoint, contexts, routerVars>>

(* The two finally clauses: the page, and then the context, which is the   *)
(* driver for chrome and less than the backend for the others.             *)
CloseContext(c) ==
  /\ JobAt(c, "close")
  /\ contexts' = contexts \ {job[c].context}
  /\ backends' = IF job[c].provider = "chrome" THEN backends \ {job[c].number} ELSE backends
  /\ Leaves(c)
  /\ UNCHANGED <<executions, held, endpoint, routerVars>>

ExecutorNext ==
  \/ \E c \in Client :
       \/ LaunchChrome(c) \/ SpawnBackend(c) \/ NoteEndpoint(c) \/ ConnectContext(c)
       \/ ExecutionRaises(c) \/ NewPage(c) \/ HandlerEnds(c) \/ HandlerCancelled(c)
       \/ CloseContext(c)
       \/ \E t \in TaskType, p \in given.providers \union {"any"} : BeginExecution(c, t, p)
  \/ ResetAll
  \/ \E t \in TaskType : GetRankings(t) \/ \E p \in Engine : AffinityCooldownElapses(t, p)
  \/ \E p \in Engine : CloseProvider(p)

ExecutorSpec == ExecutorInit /\ [][ExecutorNext]_executorVars

-----------------------------------------------------------------------------
(* Properties. *)

(* Type correctness of the executor.                                       *)
ExecutorTypeOK ==
  /\ given \in Registry
  /\ affinity \in [TaskType -> [Engine -> AffinityRecord]]
  /\ booked \in [TaskType -> [Engine -> Nat]]
  /\ job \in [Client -> JobRecord]
  /\ executions \in Number
  /\ backends \subseteq 1..MaxExecutions /\ contexts \subseteq 1..MaxExecutions
  /\ held \in [Engine -> Number] /\ endpoint \in [Engine -> Number]

(* Every handler that ended is counted once, and what counts survives      *)
(* recovery and forced release, which write copies of records back         *)
(* (router.py:59-64, 72-79, 104-111).                                      *)
ResultsAreBooked ==
  \A t \in TaskType, p \in Engine :
    affinity[t][p].successes + affinity[t][p].failures = booked[t][p]

(* A provider that failed as often in a row as is given has a cooldown,    *)
(* although executions that began before it cooled go on failing, succeed, *)
(* and outlive the cooldown and its forced end (cooldown.py:43-74).        *)
ThresholdCools ==
  \A t \in TaskType, p \in Engine :
    affinity[t][p].recent >= given.threshold => affinity[t][p].cooled # "no"

(* A cooldown that runs is ended by time or a reset, or by a selection     *)
(* that finds every provider cooled (router.py:72-79).                     *)
CooldownsRunOut ==
  [][\A t \in TaskType, p \in Engine :
       affinity[t][p].cooled = "running" /\ affinity'[t][p].cooled = "no" =>
         \/ affinity' = [u \in TaskType |-> [q \in Engine |-> NewAffinity]]
         \/ \A q \in given.providers : affinity[t][q].cooled = "running"]_executorVars

(* No selection sends a task to a provider that cools for its type, unless *)
(* the caller names it or all of them cool (router.py:85-91).              *)
CooledAreSpared ==
  [][\A c \in Client :
       JobAt(c, "idle") /\ JobAt(c, "launch")' /\ job'[c].routed =>
         affinity'[job'[c].type][job'[c].provider].cooled # "running"]_executorVars

(* Whatever fails or is cancelled on the way, an execution that is over    *)
(* leaves no context open (executor.py:100-133).                           *)
ContextsAreClosed ==
  contexts \subseteq {job[c].context : c \in {d \in Client : job[d].pc \in {"page", "run", "close"}}}

(* The executions in Chrome and Browserbase have their own browsers,       *)
(* however their launches overlap.  Those of camoufox and geekez do not:   *)
(* another launch may replace the address between two awaits.              *)
OwnBrowser ==
  \A c \in Client :
    job[c].pc \in {"page", "run", "close"} /\ job[c].provider \in {"chrome", "browserbase"} =>
      job[c].context = job[c].number

(* The executor's books are right, providers that fail too often cool, and *)
(* contexts and browsers belong to the execution that opened them, however *)
(* executions overlap (executor.py:60-133, router.py:59-111).              *)
ExecutorInv ==
  ExecutorTypeOK /\ ResultsAreBooked /\ ThresholdCools /\ ContextsAreClosed /\ OwnBrowser

(* Cooled providers are passed over, and come back only as the code says.  *)
CooldownsHold == CooldownsRunOut /\ CooledAreSpared

=============================================================================
