---------------------------- MODULE RouteStrategy ----------------------------
(***************************************************************************)
(* How a strategy-mode request finds its provider: the capabilities of     *)
(* internal/provider/requirements.go, the ranks and scores of              *)
(* internal/provider/strategy.go, and the choice selectProviderLocked      *)
(* makes of them (internal/service/service.go), while completions, crashes,*)
(* runtimes and operators change what the scores are computed from.        *)
(*                                                                         *)
(* One request is routed in every state; routing changes nothing here      *)
(* (SubmitTask of module Service does, and takes any provider of least     *)
(* rank: LeastRank says that the one chosen here is such a one).  Aliases  *)
(* of profiles, actions and kinds are resolved: these are canonical names. *)
(* SupportsMode holds for every provider and both modes.                   *)
(***************************************************************************)
EXTENDS Integers, Sequences, FiniteSets

CONSTANTS
  Requests,          \* the requests to route
  FailureThreshold,  \* s.failureThreshold
  MaxFailures,       \* the failures counted over all providers
  MaxReady,          \* the ready runtimes over all providers
  MaxDisabled        \* the providers disabled at a time

None == "none"

Provider == {"chrome", "camoufox", "geekez", "browserbase"}
LocalProvider == {"chrome", "camoufox", "geekez"}

Profile == {"balanced", "local-first", "remote-first", "latency-first",
            "stability-first", "cost-aware", "stealth-first", "chrome-first",
            "camoufox-first", "browserbase-first"}

Reuse == {"", "require_reuse", "prefer_reuse", "require_fresh", "prefer_fresh"}

ProviderActions == {"health", "get_version"}

ResourceActions == {"open_resource", "list_resources", "get_resource",
                    "close_resource"}

TargetActions == {"open_page", "list_pages", "list_targets", "activate_target",
                  "close_target"}

PageActions == {"navigate", "click", "input_text", "submit", "wait_for",
                "read_value", "evaluate_script"}

SessionActions == {"list_sessions", "create_session", "get_session",
                   "update_session", "request_release", "api_request"}

(* The high-level actions only the chrome runtime has.                     *)
FlowActions == {"register_auth", "register_profile", "register_finalize",
                "register_full", "repair_login", "repair_finalize",
                "repair_full", "openai_web_login"}

Action == {""} \union ProviderActions \union ResourceActions
            \union TargetActions \union PageActions \union SessionActions
            \union FlowActions

RequestType ==
  [profile : Profile, reuse : Reuse, action : Action,
   kind    : {"", "page", "session", "provider"},
   allowed : SUBSET Provider]

StatsRecord == [enabled : BOOLEAN, cooling : BOOLEAN,
                ready : Nat, recent : Nat, total : Nat]

ASSUME RouteAssumption ==
  /\ Requests \subseteq RequestType
  /\ \A q \in Requests : q.action \in ResourceActions => q.kind # ""  \* SubmitTask
  /\ FailureThreshold \in Nat \ {0} /\ MaxFailures \in Nat
  /\ MaxReady \in Nat /\ MaxDisabled \in Nat

VARIABLES
  request,  \* the request under consideration
  stats     \* per provider: what its providerRecord says, and how many of its
            \* runtimes readyRuntimeCountLocked counts

routeVars == <<request, stats>>

-----------------------------------------------------------------------------
(* Requirements and classes of actions. *)

Supports(p, q) ==
  CASE q.action = "" \/ q.action = "health" -> TRUE
    [] q.action = "get_version"             -> p \in LocalProvider
    [] q.action \in TargetActions           -> p \in LocalProvider
    [] q.action \in PageActions             -> p \in LocalProvider /\ q.kind \in {"", "page"}
    [] q.action \in FlowActions             -> p = "chrome" /\ q.kind \in {"", "page"}
    [] q.action \in SessionActions          -> p = "browserbase"
    [] q.action \in ResourceActions         ->
         q.kind \in {"", IF p \in LocalProvider THEN "page" ELSE "session"}

ForSession(q) == q.kind = "session" \/ q.action \in SessionActions

ForPage(q) ==
  q.kind = "page" \/ q.action \in TargetActions \union PageActions
                                    \union ProviderActions

-----------------------------------------------------------------------------
(* Ranks and scores. *)

(* StrategyPriority *)
Rank(q, p) ==
  CASE q.profile = "local-first"  -> IF p \in LocalProvider THEN 0 ELSE 1
    [] q.profile = "remote-first" -> IF p = "browserbase" THEN 0 ELSE 1
    [] q.profile = "browserbase-first" -> IF p = "browserbase" THEN 0 ELSE 1
    [] q.profile \in {"stealth-first", "camoufox-first"} ->
         (CASE p = "camoufox" -> 0
            [] p = "geekez"   -> 1
            [] p = "chrome"   -> 2
            [] OTHER          -> IF ForSession(q) THEN 0 ELSE 3)
    [] q.profile = "chrome-first" ->
         (CASE p = "chrome"   -> 0
            [] p = "camoufox" -> 1
            [] p = "geekez"   -> 2
            [] OTHER          -> IF ForSession(q) THEN 0 ELSE 3)
    [] OTHER -> 0

(* BaseScore and ProfileBonus: what the score has of request and provider  *)
(* alone.                                                                  *)
Base(q, p) ==
  LET local == p \in LocalProvider
      session == ~local /\ ForSession(q)
  IN  CASE q.profile = "balanced"        -> 100
        [] q.profile = "local-first"     -> IF local THEN 240 ELSE 0
        [] q.profile = "remote-first"    -> IF local THEN 0 ELSE 240
        [] q.profile = "stability-first" -> 140
        [] q.profile = "latency-first"   ->
             IF session \/ (local /\ ForPage(q)) THEN 140 ELSE 110
        [] q.profile = "cost-aware"      ->
             IF session \/ (local /\ ~ForSession(q)) THEN 220 ELSE 0
        [] q.profile = "browserbase-first" -> IF local THEN 120 ELSE 260
        [] q.profile = "chrome-first"    ->
             (CASE p = "chrome"   -> 260
                [] p = "camoufox" -> 160
                [] p = "geekez"   -> 120
                [] OTHER          -> IF session THEN 220 ELSE 0)
        [] OTHER                         ->
             (CASE p = "camoufox" -> 260
                [] p = "geekez"   -> 210
                [] p = "chrome"   -> 160
                [] OTHER          -> IF session THEN 220 ELSE 0)

(* ReuseBonus, but for what each ready runtime adds to it.                 *)
Flat(q, ready) ==
  CASE q.reuse = "require_reuse" /\ ready = 0 -> -500
    [] q.reuse = "prefer_fresh"               -> 20
    [] q.reuse = "require_fresh"              -> 40
    [] OTHER                                  -> 0

(* Mutant: what require_fresh should cost is added.                        *)
ReadyWeightUnsigned(q) ==
  CASE q.reuse = "require_reuse" -> 180
    [] q.reuse = "prefer_reuse"  -> 120
    [] q.reuse = "prefer_fresh"  -> -30
    [] q.reuse = "require_fresh" -> 160
    [] OTHER                     -> 50

(* What one ready runtime is worth, by the hint and by the profile.        *)
ReadyWeight(q) ==
  (CASE q.reuse = "require_reuse" -> 180
     [] q.reuse = "prefer_reuse"  -> 120
     [] q.reuse = "prefer_fresh"  -> -30
     [] q.reuse = "require_fresh" -> -160
     [] OTHER                     -> 50)
  + (CASE q.profile = "latency-first"   -> 80
       [] q.profile = "stability-first" -> 15
       [] OTHER                         -> 0)

(* RecentFailurePenalty and TotalFailurePenalty, per failure.              *)
RecentWeight(q) == CASE q.profile = "latency-first"   -> 45
                     [] q.profile = "stability-first" -> 120
                     [] OTHER                         -> 70

TotalWeight(q) == CASE q.profile = "latency-first"   -> 8
                    [] q.profile = "stability-first" -> 25
                    [] OTHER                         -> 12

(* Mutant: recent failures are credited.                                   *)
ScoreCreditsFailures(q, p, s) ==
  Base(q, p) + Flat(q, s.ready) + ReadyWeight(q) * s.ready
    + RecentWeight(q) * s.recent - TotalWeight(q) * s.total

(* StrategyScoreDetailed; s is the provider's record.                      *)
Score(q, p, s) ==
  Base(q, p) + Flat(q, s.ready) + ReadyWeight(q) * s.ready
    - RecentWeight(q) * s.recent - TotalWeight(q) * s.total

-----------------------------------------------------------------------------
(* selectProviderLocked, strategy mode, over the records st. *)

Capable(q) == { p \in Provider : /\ p \in q.allowed \/ q.allowed = {}
                                 /\ Supports(p, q) }

Available(s) == s.enabled /\ ~s.cooling

Eligible(q, st) == { p \in Capable(q) : Available(st[p]) }

(* The place of p in s.order.                                              *)
Index(p) == CASE p = "chrome"   -> 1
              [] p = "camoufox" -> 2
              [] p = "geekez"   -> 3
              [] OTHER          -> 4

(* Mutants: the sort without its last key, and the sort by score first.    *)
KeyUnordered(q, p, s) ==
  <<Rank(q, p), -Score(q, p, s), -s.ready, s.recent, s.total, 0>>

KeyScoreFirst(q, p, s) ==
  <<-Score(q, p, s), Rank(q, p), -s.ready, s.recent, s.total, Index(p)>>

(* The order of the candidates, smallest first.                            *)
Key(q, p, s) ==
  <<Rank(q, p), -Score(q, p, s), -s.ready, s.recent, s.total, Index(p)>>

Before(k, l) ==
  \E i \in 1..6 : k[i] < l[i] /\ \A j \in 1..(i - 1) : k[j] = l[j]

Firsts(q, st) ==
  LET key == [p \in Eligible(q, st) |-> Key(q, p, st[p])]
  IN  { p \in DOMAIN key : \A o \in DOMAIN key \ {p} : Before(key[p], key[o]) }

(* None: ErrInvalidRequest, "no eligible provider".                        *)
Selected(q, st) ==
  LET firsts == Firsts(q, st)
  IN  IF firsts = {} THEN None ELSE CHOOSE p \in firsts : TRUE

(* Mutant: bestProfileRank is taken of the candidates only.                *)
FallbackUnseen(q, st) ==
  \E o \in Eligible(q, st) : Rank(q, o) < Rank(q, Selected(q, st))

(* fallbackUsed: bestProfileRank is taken before the availability check.   *)
FallbackUsed(q, st) ==
  LET rank == Rank(q, Selected(q, st)) IN \E o \in Capable(q) : Rank(q, o) < rank

-----------------------------------------------------------------------------
(* What happens to the records between two requests. *)

FreshStats == [enabled |-> TRUE, cooling |-> FALSE,
               ready |-> 0, recent |-> 0, total |-> 0]

RouteInit ==
  /\ request \in Requests
  /\ stats = [p \in Provider |-> FreshStats]

SumOver(field(_)) ==
  field("chrome") + field("camoufox") + field("geekez") + field("browserbase")

(* The ready counts the bound allows.                                      *)
ReadyCounts ==
  { ready \in [Provider -> 0..MaxReady] :
      LET count(o) == ready[o] IN SumOver(count) <= MaxReady }

(* p has one ready runtime more or less, or as many as before.             *)
ReadyMay(p, change) ==
  LET ready(o) == stats[o].ready
  IN  stats[p].ready + change >= 0 /\ SumOver(ready) + change <= MaxReady

(* Mutant: a failure is booked as recent only.                             *)
FailUncounted(p, candidate, change) ==
  /\ stats[p].recent < MaxFailures /\ ReadyMay(p, change)
  /\ stats' = [stats EXCEPT ![p].recent = @ + 1, ![p].ready = @ + change]
  /\ UNCHANGED request

(* recordFailureLocked and the rest of its critical section.  A failed     *)
(* completion releases its runtime, which is ready then (1) unless the     *)
(* error invalidates or cools it (0), or a late completion takes a ready   *)
(* one down (-1); a crash takes a ready runtime with it (-1) or a busy one *)
(* (0).  candidate is the error's CooldownCandidate.                       *)
Fail(p, candidate, change) ==
  LET total(o) == stats[o].total
  IN  /\ SumOver(total) < MaxFailures /\ ReadyMay(p, change)
      /\ stats' = [stats EXCEPT ![p] = [stats[p] EXCEPT
           !.recent  = @ + 1,
           !.total   = @ + 1,
           !.ready   = @ + change,
           !.cooling = @ \/ (candidate /\ stats[p].recent + 1 >= FailureThreshold)]]
      /\ UNCHANGED request

(* recordSuccessLocked and the release: the runtime may be ready again.    *)
Succeed(p, change) ==
  /\ ReadyMay(p, change)
  /\ stats' = [stats EXCEPT ![p].recent = 0, ![p].ready = @ + change]
  /\ UNCHANGED request

(* refreshCooldownsLocked: cooldowns that ran out are lifted; of any       *)
(* provider, runtimes thaw and others are found to have fallen silent.     *)
Refresh(lifted, ready) ==
  /\ stats' = [p \in Provider |-> [stats[p] EXCEPT
       !.cooling = @ /\ p \notin lifted,
       !.recent  = IF p \in lifted THEN 0 ELSE @,
       !.ready   = ready[p]]]
  /\ UNCHANGED request

ResetProviderCooldown(p) ==
  /\ stats' = [stats EXCEPT ![p].cooling = FALSE, ![p].recent = 0]
  /\ UNCHANGED request

SetEnabled(p, enabled) ==
  /\ enabled \/ Cardinality({ o \in Provider : ~stats[o].enabled }) < MaxDisabled
  /\ stats' = [stats EXCEPT ![p].enabled = enabled]
  /\ UNCHANGED request

(* A runtime becomes ready with no outcome booked (RegisterRuntime,        *)
(* RecordHeartbeat, CancelTask), or stops being so (a lease, which comes   *)
(* after the choice in SubmitTask, MarkRuntimeStopped, RecordHeartbeat).   *)
RuntimeReady(p) ==
  /\ ReadyMay(p, 1)
  /\ stats' = [stats EXCEPT ![p].ready = @ + 1]
  /\ UNCHANGED request

RuntimeTaken(p) ==
  /\ ReadyMay(p, -1)
  /\ stats' = [stats EXCEPT ![p].ready = @ - 1]
  /\ UNCHANGED request

RouteNext ==
  \/ \E p \in Provider :
       \/ \E candidate \in BOOLEAN, change \in {-1, 0, 1} : Fail(p, candidate, change)
       \/ \E change \in {0, 1} : Succeed(p, change)
       \/ ResetProviderCooldown(p)
       \/ \E enabled \in BOOLEAN : SetEnabled(p, enabled)
       \/ RuntimeReady(p)
       \/ RuntimeTaken(p)
  \/ \E lifted \in SUBSET { p \in Provider : stats[p].cooling }, ready \in ReadyCounts :
       Refresh(lifted, ready)

RouteSpec == RouteInit /\ [][RouteNext]_routeVars

-----------------------------------------------------------------------------
(* Properties. *)

(* Type correctness; recent failures are among the total.                  *)
RouteTypeOK ==
  /\ request \in RequestType
  /\ stats \in [Provider -> StatsRecord]
  /\ \A p \in Provider : stats[p].recent <= stats[p].total

(* The sort has one first candidate whatever the scores, so the route does *)
(* not depend on how the candidates were collected, and a request with an  *)
(* eligible provider is never turned away (service.go:485-508).            *)
ChoiceIsUnique ==
  Eligible(request, stats) # {} => Cardinality(Firsts(request, stats)) = 1

(* It is one of those module Service's StrategyProvider takes.             *)
LeastRank ==
  LET selected == Selected(request, stats)
  IN  selected # None =>
        \A o \in Eligible(request, stats) : Rank(request, selected) <= Rank(request, o)

(* A request is reported as a fallback exactly if a provider it would have *)
(* preferred by rank was capable and out of service (service.go:509).      *)
FallbackIsReported ==
  Selected(request, stats) # None =>
    (FallbackUsed(request, stats) <=>
       \E o \in Capable(request) :
         /\ ~Available(stats[o])
         /\ \A x \in Eligible(request, stats) : Rank(request, o) < Rank(request, x))

(* The failures that may help: the runtime they free (or lose, where a     *)
(* fresh one is required) is worth more than the failure costs.            *)
Outweighs(q, change) ==
  \/ /\ change = 1
     /\ \/ q.reuse = "require_reuse"
        \/ q.reuse = "prefer_reuse" /\ q.profile # "stability-first"
        \/ q.reuse = "" /\ q.profile = "latency-first"
  \/ /\ change = -1
     /\ q.reuse = "require_fresh" /\ q.profile # "stability-first"

(* A failure brings its provider no request and takes none from another,   *)
(* whatever its step does to the ready count, except for the hints above   *)
(* and while the provider does not cool.  So a route that asks for no      *)
(* reuse (but for latency-first), any route that prefers a fresh runtime,  *)
(* and, unless reuse is required, any under stability-first cannot be won  *)
(* by failing; strategy.go:219-303 says so only through its weights.       *)
FailureNeverHelps ==
  [][\A p \in Provider :
       /\ stats'[p].total > stats[p].total
       /\ \/ ~Outweighs(request, stats'[p].ready - stats[p].ready)
          \/ stats'[p].cooling
       /\ Selected(request, stats) # p
       => Selected(request', stats') = Selected(request, stats)]_routeVars

(* One more ready runtime never costs its provider the next request if     *)
(* reuse is asked for or nothing is, and never brings it one if a fresh    *)
(* runtime is required (PROVIDER-CONTRACT.md:69-74).  prefer_fresh is left *)
(* out: latency-first gives a ready runtime 80 points, more than the 30    *)
(* prefer_fresh takes.                                                     *)
HintIsFollowed ==
  [][\A p \in Provider :
       RuntimeReady(p) =>
         /\ request.reuse \in {"", "require_reuse", "prefer_reuse"}
              /\ Selected(request, stats) = p
            => Selected(request', stats') = p
         /\ request.reuse = "require_fresh" /\ Selected(request, stats) # p
            => Selected(request', stats') = Selected(request, stats)]_routeVars

=============================================================================
