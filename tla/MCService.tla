------------------------------ MODULE MCService ------------------------------
(* Instances of Service for TLC. *)
EXTENDS Service, TLC

CONSTANTS t1, t2, t3, r1, r2, p1, p2

Rank(a, b) == (p1 :> a) @@ (p2 :> b)

Strategy(rank) ==
  [mode |-> "strategy", provider |-> NoProvider, runtime |-> NoRuntime,
   allowed |-> {}, capable |-> {p1, p2} \cap Provider,
   rank |-> [p \in Provider |-> rank[p]]]

Direct(p, r) ==
  [mode |-> "direct", provider |-> p, runtime |-> r, allowed |-> {},
   capable |-> Provider, rank |-> [o \in Provider |-> 0]]

(* Strategy routing that prefers p1, and a request for one provider.       *)
PooledRequests == {Strategy(Rank(0, 1)), Direct(p1, NoRuntime)}

(* The same with the pinned requests browser sessions make.                *)
AllRequests == PooledRequests \union {Direct(NoProvider, r) : r \in Runtime}

PinnedRequests == {Direct(NoProvider, r) : r \in Runtime} \union {Strategy(Rank(0, 0))}

(* A transport failure, which invalidates the runtime, and a blocked page, *)
(* which only counts.                                                      *)
Errors == {[category |-> "transport", code |-> "dispatch_failed", candidate |-> TRUE],
           [category |-> "blocked", code |-> "action_blocked", candidate |-> TRUE]}

Symmetry == Permutations(Task)
RuntimeSymmetry == Permutations(Runtime)
=============================================================================
