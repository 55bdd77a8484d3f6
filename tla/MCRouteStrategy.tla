--------------------------- MODULE MCRouteStrategy ---------------------------
(* The two routers for TLC: the control plane's, and the Python library's  *)
(* with the executor that asks it.  No behaviour runs both.                *)
EXTENDS RouteStrategy, TaskExecutor

CONSTANTS x1, x2

VARIABLE router

Routed(profile, reuse, action, kind) ==
  [profile |-> profile, reuse |-> reuse, action |-> action, kind |-> kind,
   allowed |-> {}]

(* Every profile, with an action that all providers serve or only some;    *)
(* and every hint, with the profiles that weigh runtimes and failures in   *)
(* ways of their own.                                                      *)
AllRequests ==
  {Routed("balanced", h, "health", "") : h \in {"", "require_reuse", "prefer_reuse"}}
    \union {Routed("latency-first", h, "health", "") : h \in {"", "require_fresh", "prefer_fresh"}}
    \union {Routed("stability-first", h, "health", "") : h \in {"", "require_fresh", "prefer_reuse"}}
    \union {Routed("local-first", "prefer_fresh", "health", ""),
            Routed("camoufox-first", "require_fresh", "health", ""),
            Routed("remote-first", "", "get_version", ""),
            Routed("cost-aware", "require_reuse", "open_resource", "page"),
            Routed("stealth-first", "require_fresh", "", "session"),
            Routed("browserbase-first", "", "create_session", "session"),
            [Routed("chrome-first", "", "health", "") EXCEPT
                !.allowed = {"camoufox", "browserbase"}]}

Given(providers, threshold) == [providers |-> providers, threshold |-> threshold]

(* The providers an executor may be given: only one, and two of every kind *)
(* of launch.                                                              *)
Registries == {Given({"geekez"}, 2), Given({"chrome", "geekez"}, 1),
               Given({"browserbase", "camoufox"}, 2)}

ClientSymmetry == Permutations(Client)

RoutersInit ==
  /\ router \in {"control plane", "library"}
  /\ RouteInit
  /\ router = "library" => request = Routed("browserbase-first", "", "create_session", "session")
  /\ ExecutorInit
  /\ router = "control plane" => given = Given({"geekez"}, 2)

ControlPlaneRouter ==
  router = "control plane" /\ RouteNext /\ UNCHANGED <<router, executorVars>>

LibraryRouter ==
  router = "library" /\ ExecutorNext /\ UNCHANGED <<router, routeVars>>

RoutersNext == ControlPlaneRouter \/ LibraryRouter

RoutersSpec == RoutersInit /\ [][RoutersNext]_<<router, routeVars, executorVars>>
=============================================================================
