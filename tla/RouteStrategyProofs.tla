------------------------- MODULE RouteStrategyProofs -------------------------
(***************************************************************************)
(* What holds of the choice of a provider whatever the counts are.  The    *)
(* comparison of two candidates is lexicographic over six integers, the    *)
(* last of which tells providers apart: a strict total order.              *)
(***************************************************************************)
EXTENDS RouteStrategy, FiniteSetTheorems, TLAPS

Six == [1..6 -> Int]

-----------------------------------------------------------------------------
(* The lexicographic order. *)

(* Before, without quantifiers.                                            *)
LEMMA BeforeUnfolded ==
  ASSUME NEW k \in Six, NEW l \in Six
  PROVE  Before(k, l) <=>
           \/ k[1] < l[1]
           \/ k[1] = l[1] /\ k[2] < l[2]
           \/ k[1] = l[1] /\ k[2] = l[2] /\ k[3] < l[3]
           \/ k[1] = l[1] /\ k[2] = l[2] /\ k[3] = l[3] /\ k[4] < l[4]
           \/ k[1] = l[1] /\ k[2] = l[2] /\ k[3] = l[3] /\ k[4] = l[4] /\ k[5] < l[5]
           \/ /\ k[1] = l[1] /\ k[2] = l[2] /\ k[3] = l[3] /\ k[4] = l[4]
              /\ k[5] = l[5] /\ k[6] < l[6]
<1>1. 1..6 = {1, 2, 3, 4, 5, 6} /\ 1..0 = {} /\ 1..1 = {1} /\ 1..2 = {1, 2}
      /\ 1..3 = {1, 2, 3} /\ 1..4 = {1, 2, 3, 4} /\ 1..5 = {1, 2, 3, 4, 5}
  OBVIOUS
<1> DEFINE At(i) == k[i] < l[i] /\ \A j \in 1..(i - 1) : k[j] = l[j]
<1>2. Before(k, l) <=> At(1) \/ At(2) \/ At(3) \/ At(4) \/ At(5) \/ At(6)
  <2>1. Before(k, l) <=> \E i \in {1, 2, 3, 4, 5, 6} : At(i)
    BY <1>1 DEF Before
  <2>2. QED
    BY <2>1
<1>3. At(1) <=> k[1] < l[1]
  BY <1>1
<1>4. At(2) <=> k[1] = l[1] /\ k[2] < l[2]
  BY <1>1
<1>5. At(3) <=> k[1] = l[1] /\ k[2] = l[2] /\ k[3] < l[3]
  BY <1>1
<1>6. At(4) <=> k[1] = l[1] /\ k[2] = l[2] /\ k[3] = l[3] /\ k[4] < l[4]
  BY <1>1
<1>7. At(5) <=> /\ k[1] = l[1] /\ k[2] = l[2] /\ k[3] = l[3] /\ k[4] = l[4]
                /\ k[5] < l[5]
  BY <1>1
<1>8. At(6) <=> /\ k[1] = l[1] /\ k[2] = l[2] /\ k[3] = l[3] /\ k[4] = l[4]
                /\ k[5] = l[5] /\ k[6] < l[6]
  BY <1>1
<1> HIDE DEF At
<1>9. QED
  BY <1>2, <1>3, <1>4, <1>5, <1>6, <1>7, <1>8

LEMMA BeforeIrreflexive ==
  ASSUME NEW k \in Six
  PROVE  ~Before(k, k)
BY BeforeUnfolded DEF Six

LEMMA BeforeTransitive ==
  ASSUME NEW k \in Six, NEW l \in Six, NEW m \in Six, Before(k, l), Before(l, m)
  PROVE  Before(k, m)
<1>1. \A i \in 1..6 : k[i] \in Int /\ l[i] \in Int /\ m[i] \in Int
  BY DEF Six
<1>2. QED
  BY <1>1, BeforeUnfolded

(* The last components, the providers' places, decide at the latest.       *)
LEMMA BeforeTotal ==
  ASSUME NEW k \in Six, NEW l \in Six, k[6] # l[6]
  PROVE  Before(k, l) \/ Before(l, k)
<1>1. \A i \in 1..6 : k[i] \in Int /\ l[i] \in Int
  BY DEF Six
<1>2. QED
  BY <1>1, BeforeUnfolded

-----------------------------------------------------------------------------
(* The keys of the candidates. *)

LEMMA KeyIsSix ==
  ASSUME NEW q \in RequestType, NEW p \in Provider, NEW s \in StatsRecord
  PROVE  /\ Key(q, p, s) \in Six
         /\ Rank(q, p) \in Int /\ Score(q, p, s) \in Int
         /\ Key(q, p, s)[1] = Rank(q, p)
         /\ Key(q, p, s)[2] = -Score(q, p, s)
         /\ Key(q, p, s)[3] = -s.ready
         /\ Key(q, p, s)[4] = s.recent
         /\ Key(q, p, s)[5] = s.total
         /\ Key(q, p, s)[6] = Index(p)
<1>1. Rank(q, p) \in Int
  BY DEF Rank
<1>2. Base(q, p) \in Int
  BY DEF Base
<1>3. Flat(q, s.ready) \in Int /\ ReadyWeight(q) \in Int
  BY DEF Flat, ReadyWeight
<1>4. RecentWeight(q) \in Int /\ TotalWeight(q) \in Int
  BY DEF RecentWeight, TotalWeight
<1>5. s.ready \in Int /\ s.recent \in Int /\ s.total \in Int
  BY DEF StatsRecord
<1>6. Score(q, p, s) \in Int
  BY <1>2, <1>3, <1>4, <1>5 DEF Score
<1>7. Index(p) \in Int
  BY DEF Index
<1>8. QED
  BY <1>1, <1>5, <1>6, <1>7 DEF Key, Six

(* Different providers never compare equal.                                *)
LEMMA KeysCompare ==
  ASSUME NEW q \in RequestType, NEW st \in [Provider -> StatsRecord],
         NEW p \in Provider, NEW o \in Provider, p # o
  PROVE  \/ Before(Key(q, p, st[p]), Key(q, o, st[o]))
         \/ Before(Key(q, o, st[o]), Key(q, p, st[p]))
<1>1. Index(p) # Index(o)
  BY DEF Index, Provider
<1>2. QED
  BY <1>1, KeyIsSix, BeforeTotal

-----------------------------------------------------------------------------
(* The choice. *)

(* p comes first of the providers in S.                                    *)
LeadsAmong(q, st, p, S) ==
  \A o \in S \ {p} : Before(Key(q, p, st[p]), Key(q, o, st[o]))

(* One more candidate: it leads, or whoever led before does.               *)
LEMMA OneMore ==
  ASSUME NEW q \in RequestType, NEW st \in [Provider -> StatsRecord],
         NEW S \in SUBSET Provider, NEW x \in Provider,
         S = {} \/ \E p \in S : LeadsAmong(q, st, p, S)
  PROVE  \E p \in S \union {x} : LeadsAmong(q, st, p, S \union {x})
<1>1. CASE S = {}
  BY <1>1 DEF LeadsAmong
<1>2. CASE x \in S
  <2>1. S \union {x} = S
    BY <1>2
  <2>2. QED
    BY <1>2, <2>1
<1>3. CASE S # {} /\ x \notin S
  <2>1. PICK p \in S : LeadsAmong(q, st, p, S)
    BY <1>3
  <2>2. p # x /\ p \in Provider
    BY <1>3
  <2>3. CASE Before(Key(q, p, st[p]), Key(q, x, st[x]))
    BY <2>1, <2>3 DEF LeadsAmong
  <2>4. CASE Before(Key(q, x, st[x]), Key(q, p, st[p]))
    <3>1. \A o \in S : Before(Key(q, x, st[x]), Key(q, o, st[o]))
      <4> SUFFICES ASSUME NEW o \in S
                   PROVE  Before(Key(q, x, st[x]), Key(q, o, st[o]))
        OBVIOUS
      <4>1. CASE o = p
        BY <2>4, <4>1
      <4>2. CASE o # p
        <5>1. Before(Key(q, p, st[p]), Key(q, o, st[o]))
          BY <2>1, <4>2 DEF LeadsAmong
        <5>2. Key(q, x, st[x]) \in Six /\ Key(q, p, st[p]) \in Six
              /\ Key(q, o, st[o]) \in Six
          BY <2>2, KeyIsSix
        <5>3. QED
          BY <2>4, <5>1, <5>2, BeforeTransitive
      <4>3. QED
        BY <4>1, <4>2
    <3>2. LeadsAmong(q, st, x, S \union {x})
      BY <3>1 DEF LeadsAmong
    <3>3. QED
      BY <3>2
  <2>5. QED
    BY <2>2, <2>3, <2>4, KeysCompare
<1>4. QED
  BY <1>1, <1>2, <1>3

(* So some candidate leads if there is one: add the four one by one.       *)
LEMMA SomeoneLeads ==
  ASSUME NEW q \in RequestType, NEW st \in [Provider -> StatsRecord],
         NEW S \in SUBSET Provider
  PROVE  S = {} \/ \E p \in S : LeadsAmong(q, st, p, S)
<1> DEFINE Led(T) == T = {} \/ \E p \in T : LeadsAmong(q, st, p, T)
<1>1. \A T \in SUBSET Provider : \A x \in Provider :
        Led(T) => Led(T \union {x})
  BY OneMore
<1>2. \A T \in SUBSET Provider : \A x \in Provider :
        Led(S \intersect T) => Led(S \intersect (T \union {x}))
  <2> SUFFICES ASSUME NEW T \in SUBSET Provider, NEW x \in Provider,
                      Led(S \intersect T)
               PROVE  Led(S \intersect (T \union {x}))
    OBVIOUS
  <2>1. CASE x \in S
    <3>1. S \intersect (T \union {x}) = (S \intersect T) \union {x}
      BY <2>1
    <3>2. S \intersect T \in SUBSET Provider
      OBVIOUS
    <3> HIDE DEF Led
    <3>3. QED
      BY <1>1, <3>1, <3>2
  <2>2. CASE x \notin S
    <3>1. S \intersect (T \union {x}) = S \intersect T
      BY <2>2
    <3>2. QED
      BY <3>1
  <2>3. QED
    BY <2>1, <2>2
<1>3. Led(S \intersect {})
  OBVIOUS
<1>4. {"chrome", "camoufox", "geekez", "browserbase"} = Provider
  BY DEF Provider
<1> HIDE DEF Led
<1>5. Led(S \intersect ({} \union {"chrome"}))
  BY <1>2, <1>3, <1>4
<1>6. Led(S \intersect (({} \union {"chrome"}) \union {"camoufox"}))
  BY <1>2, <1>4, <1>5
<1>7. Led(S \intersect ((({} \union {"chrome"}) \union {"camoufox"}) \union {"geekez"}))
  BY <1>2, <1>4, <1>6
<1>8. Led(S \intersect
            (((({} \union {"chrome"}) \union {"camoufox"}) \union {"geekez"})
               \union {"browserbase"}))
  BY <1>2, <1>4, <1>7
<1>9. S \intersect (((({} \union {"chrome"}) \union {"camoufox"}) \union {"geekez"})
                      \union {"browserbase"}) = S
  BY <1>4
<1>10. Led(S)
  BY <1>8, <1>9
<1>11. QED
  BY <1>10 DEF Led

LEMMA FirstsLead ==
  ASSUME NEW q, NEW st
  PROVE  Firsts(q, st) = { p \in Eligible(q, st) :
                             LeadsAmong(q, st, p, Eligible(q, st)) }
BY DEF Firsts, LeadsAmong

(* Two candidates cannot both lead.                                        *)
LEMMA OnlyOneLeads ==
  ASSUME NEW q \in RequestType, NEW st \in [Provider -> StatsRecord],
         NEW a \in Firsts(q, st), NEW b \in Firsts(q, st)
  PROVE  a = b
<1>1. SUFFICES ASSUME a # b PROVE FALSE
  OBVIOUS
<1>2. a \in Provider /\ b \in Provider
  BY FirstsLead DEF Eligible, Capable
<1>3. /\ Before(Key(q, a, st[a]), Key(q, b, st[b]))
      /\ Before(Key(q, b, st[b]), Key(q, a, st[a]))
  BY <1>1, FirstsLead DEF LeadsAmong
<1>4. Key(q, a, st[a]) \in Six /\ Key(q, b, st[b]) \in Six
  BY <1>2, KeyIsSix
<1>5. QED
  BY <1>3, <1>4, BeforeTransitive, BeforeIrreflexive

(* Selected returns the leader, and None exactly if no one is eligible.    *)
LEMMA SelectedLeads ==
  ASSUME NEW q \in RequestType, NEW st \in [Provider -> StatsRecord]
  PROVE  /\ Eligible(q, st) = {} => Selected(q, st) = None
         /\ Eligible(q, st) # {} =>
              /\ Selected(q, st) \in Eligible(q, st)
              /\ Selected(q, st) \in Provider
              /\ Selected(q, st) # None
              /\ Firsts(q, st) = {Selected(q, st)}
              /\ LeadsAmong(q, st, Selected(q, st), Eligible(q, st))
<1>1. Eligible(q, st) \in SUBSET Provider
  BY DEF Eligible, Capable
<1>2. CASE Eligible(q, st) = {}
  BY <1>2, FirstsLead DEF Selected
<1>3. CASE Eligible(q, st) # {}
  <2>1. Firsts(q, st) # {}
    BY <1>1, <1>3, SomeoneLeads, FirstsLead
  <2>2. Selected(q, st) \in Firsts(q, st)
    BY <2>1 DEF Selected
  <2>3. Firsts(q, st) = {Selected(q, st)}
    BY <2>2, OnlyOneLeads
  <2>4. Selected(q, st) \in Provider
    BY <1>1, <2>2, FirstsLead
  <2>5. Selected(q, st) # None
    BY <2>4 DEF Provider, None
  <2>6. QED
    BY <2>2, <2>3, <2>4, <2>5, FirstsLead
<1>4. QED
  BY <1>2, <1>3

-----------------------------------------------------------------------------
(* Theorems. *)

LEMMA ChangedRecord ==
  ASSUME NEW r \in StatsRecord, NEW cooling \in BOOLEAN,
         NEW ready \in Nat, NEW recent \in Nat, NEW total \in Nat
  PROVE  /\ [r EXCEPT !.recent = recent, !.total = total, !.ready = ready,
                      !.cooling = cooling] \in StatsRecord
         /\ [r EXCEPT !.recent = recent, !.ready = ready] \in StatsRecord
         /\ [r EXCEPT !.cooling = cooling, !.recent = recent, !.ready = ready]
              \in StatsRecord
BY DEF StatsRecord

(* A well-formed record in place of p's keeps the records well-formed.     *)
LEMMA OneRecord ==
  ASSUME NEW p \in Provider, NEW r \in StatsRecord,
         stats \in [Provider -> StatsRecord],
         \A o \in Provider : stats[o].recent <= stats[o].total,
         r.recent <= r.total,
         stats' = [stats EXCEPT ![p] = r]
  PROVE  /\ stats' \in [Provider -> StatsRecord]
         /\ \A o \in Provider : stats'[o].recent <= stats'[o].total
OBVIOUS

(* What a failure writes.                                                  *)
LEMMA FailUnfolded ==
  ASSUME stats \in [Provider -> StatsRecord], NEW p \in Provider,
         NEW candidate \in BOOLEAN, NEW change \in {-1, 0, 1},
         Fail(p, candidate, change)
  PROVE  /\ request' = request
         /\ \E r \in StatsRecord :
              /\ stats' = [stats EXCEPT ![p] = r]
              /\ r.ready = stats[p].ready + change
              /\ r.recent = stats[p].recent + 1 /\ r.total = stats[p].total + 1
              /\ r.enabled = stats[p].enabled /\ (stats[p].cooling => r.cooling)
<1> DEFINE c == stats[p].cooling \/ (candidate /\ stats[p].recent + 1 >= FailureThreshold)
           r == [stats[p] EXCEPT !.recent = stats[p].recent + 1,
                   !.total = stats[p].total + 1, !.ready = stats[p].ready + change,
                   !.cooling = c]
<1>1. /\ stats[p] \in StatsRecord
      /\ stats[p].ready \in Nat /\ stats[p].recent \in Nat /\ stats[p].total \in Nat
      /\ stats[p].cooling \in BOOLEAN
  BY DEF StatsRecord
<1>2. stats[p].ready + change >= 0
  BY DEF Fail, ReadyMay
<1>3. /\ stats[p].ready + change \in Nat /\ stats[p].recent + 1 \in Nat
      /\ stats[p].total + 1 \in Nat
  BY <1>1, <1>2
<1>4. c \in BOOLEAN /\ (stats[p].cooling => c)
  BY <1>1
<1>5. request' = request /\ stats' = [stats EXCEPT ![p] = r]
  BY Zenon DEF Fail
<1> HIDE DEF c
<1>6. r \in StatsRecord
  BY <1>1, <1>3, <1>4, ChangedRecord
<1>7. /\ r.ready = stats[p].ready + change
      /\ r.recent = stats[p].recent + 1 /\ r.total = stats[p].total + 1
      /\ r.enabled = stats[p].enabled /\ (stats[p].cooling => r.cooling)
  BY <1>1, <1>4 DEF StatsRecord
<1> HIDE DEF r
<1>. QED  BY <1>5, <1>6, <1>7

(* The records stay well-formed and a provider's recent failures stay among *)
(* its total, in any order of failures, successes, resets and returns.     *)
THEOREM RouteTypesCorrect == RouteSpec => []RouteTypeOK
<1>1. RouteInit => RouteTypeOK
  <2>1. FreshStats \in StatsRecord /\ FreshStats.recent <= FreshStats.total
    BY DEF FreshStats, StatsRecord
  <2>2. Requests \subseteq RequestType
    BY RouteAssumption
  <2>3. QED
    BY <2>1, <2>2 DEF RouteInit, RouteTypeOK
<1>2. RouteTypeOK /\ [RouteNext]_routeVars => RouteTypeOK'
  <2> SUFFICES ASSUME RouteTypeOK, [RouteNext]_routeVars
               PROVE  RouteTypeOK'
    OBVIOUS
  <2>0. /\ request \in RequestType
        /\ stats \in [Provider -> StatsRecord]
        /\ \A o \in Provider : stats[o].recent <= stats[o].total
    BY DEF RouteTypeOK
  <2>1. CASE UNCHANGED routeVars
    BY <2>0, <2>1 DEF RouteTypeOK, routeVars
  <2>2. ASSUME NEW p \in Provider, NEW r \in StatsRecord, r.recent <= r.total,
               stats' = [stats EXCEPT ![p] = r], request' = request
        PROVE  RouteTypeOK'
    BY <2>0, <2>2, OneRecord DEF RouteTypeOK
  <2>3. ASSUME NEW p \in Provider, NEW candidate \in BOOLEAN,
               NEW change \in {-1, 0, 1}, Fail(p, candidate, change)
        PROVE  RouteTypeOK'
    <3>1. PICK r \in StatsRecord :
            /\ stats' = [stats EXCEPT ![p] = r]
            /\ r.recent = stats[p].recent + 1 /\ r.total = stats[p].total + 1
      BY <2>0, <2>3, FailUnfolded
    <3>2. r.recent <= r.total /\ request' = request
      <4>1. stats[p].recent \in Nat /\ stats[p].total \in Nat
        BY <2>0 DEF StatsRecord
      <4>. QED  BY <2>0, <2>3, <3>1, <4>1, FailUnfolded
    <3>. QED  BY <2>2, <3>1, <3>2
  <2>4. ASSUME NEW p \in Provider, NEW change \in {0, 1}, Succeed(p, change)
        PROVE  RouteTypeOK'
    <3>1. stats[p] \in StatsRecord /\ stats[p].ready \in Nat
      BY <2>0 DEF StatsRecord
    <3>2. stats[p].ready + change \in Nat
      BY <3>1
    <3> DEFINE r == [stats[p] EXCEPT !.recent = 0, !.ready = stats[p].ready + change]
    <3>3. request' = request /\ stats' = [stats EXCEPT ![p] = r]
      BY <2>0, <2>4 DEF Succeed
    <3>4. r \in StatsRecord
      BY <3>1, <3>2, ChangedRecord
    <3>5. r.recent <= r.total
      BY <3>1 DEF StatsRecord
    <3> HIDE DEF r
    <3>6. QED
      BY <2>2, <3>3, <3>4, <3>5
  <2>5. ASSUME NEW p \in Provider, ResetProviderCooldown(p)
        PROVE  RouteTypeOK'
    <3> DEFINE r == [stats[p] EXCEPT !.cooling = FALSE, !.recent = 0]
    <3>1. request' = request /\ stats' = [stats EXCEPT ![p] = r]
      BY <2>0, <2>5 DEF ResetProviderCooldown, StatsRecord
    <3>2. r \in StatsRecord
      BY <2>0 DEF StatsRecord
    <3>3. r.recent <= r.total
      BY <2>0 DEF StatsRecord
    <3> HIDE DEF r
    <3>4. QED
      BY <2>2, <3>1, <3>2, <3>3
  <2>9. ASSUME NEW lifted \in SUBSET { p \in Provider : stats[p].cooling },
               NEW ready \in ReadyCounts, Refresh(lifted, ready)
        PROVE  RouteTypeOK'
    <3>1. \A o \in Provider : ready[o] \in Nat
      <4>1. ready \in [Provider -> 0..MaxReady]
        BY DEF ReadyCounts
      <4>. QED  BY <4>1
    <3>2. ASSUME NEW o \in Provider
          PROVE  stats'[o] \in StatsRecord /\ stats'[o].recent <= stats'[o].total
      <4> DEFINE c == stats[o].cooling /\ o \notin lifted
                 n == IF o \in lifted THEN 0 ELSE stats[o].recent
                 r == [stats[o] EXCEPT !.cooling = c, !.recent = n, !.ready = ready[o]]
      <4>1. stats[o] \in StatsRecord /\ stats[o].recent <= stats[o].total
        BY <2>0
      <4>2. c \in BOOLEAN /\ n \in Nat /\ n <= stats[o].total
        BY <4>1 DEF StatsRecord
      <4>3. stats'[o] = [stats[o] EXCEPT !.cooling = @ /\ o \notin lifted,
                           !.recent = IF o \in lifted THEN 0 ELSE @, !.ready = ready[o]]
        BY <2>9, Zenon DEF Refresh
      <4>4. stats'[o] = r
        BY <4>3
      <4> HIDE DEF c, n
      <4>5. r \in StatsRecord
        BY <3>1, <4>1, <4>2, ChangedRecord
      <4>6. r.recent <= r.total
        BY <4>1, <4>2 DEF StatsRecord
      <4> HIDE DEF r
      <4>. QED  BY <4>4, <4>5, <4>6
    <3>3. stats' \in [Provider -> StatsRecord]
      <4>1. stats' = [o \in Provider |-> stats'[o]]
        BY <2>9 DEF Refresh
      <4>. QED  BY <3>2, <4>1
    <3>. QED  BY <2>0, <2>9, <3>2, <3>3 DEF Refresh, RouteTypeOK
  <2>6. ASSUME NEW p \in Provider, NEW enabled \in BOOLEAN, SetEnabled(p, enabled)
        PROVE  RouteTypeOK'
    <3> DEFINE r == [stats[p] EXCEPT !.enabled = enabled]
    <3>1. request' = request /\ stats' = [stats EXCEPT ![p] = r]
      BY <2>0, <2>6 DEF SetEnabled
    <3>2. r \in StatsRecord /\ r.recent <= r.total
      BY <2>0 DEF StatsRecord
    <3> HIDE DEF r
    <3>3. QED
      BY <2>2, <3>1, <3>2
  <2>7. ASSUME NEW p \in Provider, RuntimeReady(p) \/ RuntimeTaken(p)
        PROVE  RouteTypeOK'
    <3>1. PICK n \in Nat : /\ stats' = [stats EXCEPT ![p].ready = n]
                           /\ request' = request
      <4>1. stats[p].ready \in Nat
        BY <2>0 DEF StatsRecord
      <4>2. CASE RuntimeReady(p)
        <5>1. stats[p].ready + 1 \in Nat
          BY <4>1
        <5>2. QED
          BY <4>2, <5>1 DEF RuntimeReady, ReadyMay
      <4>3. CASE RuntimeTaken(p)
        <5>1. stats[p].ready - 1 \in Nat
          BY <4>1, <4>3 DEF RuntimeTaken, ReadyMay
        <5>2. QED
          BY <4>3, <5>1 DEF RuntimeTaken
      <4>4. QED
        BY <2>7, <4>2, <4>3
    <3> DEFINE r == [stats[p] EXCEPT !.ready = n]
    <3>2. stats' = [stats EXCEPT ![p] = r]
      BY <3>1
    <3>3. r \in StatsRecord /\ r.recent <= r.total
      BY <2>0 DEF StatsRecord
    <3> HIDE DEF r
    <3>4. QED
      BY <2>2, <3>1, <3>2, <3>3
  <2>8. QED
    BY <2>1, <2>3, <2>4, <2>5, <2>6, <2>7, <2>9 DEF RouteNext
<1>3. QED
  BY <1>1, <1>2, PTL DEF RouteSpec

(* Whatever the counts, the sort leaves exactly one first candidate if     *)
(* there is a candidate: the route never depends on the order in which     *)
(* selectProviderLocked collected them.                                    *)
THEOREM OneChoice == RouteSpec => []ChoiceIsUnique
<1>1. RouteTypeOK => ChoiceIsUnique
  <2> SUFFICES ASSUME RouteTypeOK, Eligible(request, stats) # {}
               PROVE  Cardinality(Firsts(request, stats)) = 1
    BY DEF ChoiceIsUnique
  <2>1. Firsts(request, stats) = {Selected(request, stats)}
    BY SelectedLeads DEF RouteTypeOK
  <2>2. QED
    BY <2>1, FS_Singleton
<1>2. QED
  BY <1>1, RouteTypesCorrect, PTL

(* The first key of the sort is the rank.                                  *)
LEMMA LeaderRanksLeast == RouteTypeOK => LeastRank
<1> SUFFICES ASSUME RouteTypeOK, Selected(request, stats) # None,
                    NEW o \in Eligible(request, stats)
             PROVE  Rank(request, Selected(request, stats)) <= Rank(request, o)
  BY DEF LeastRank
<1> DEFINE p == Selected(request, stats)
<1>0. SUFFICES Rank(request, p) <= Rank(request, o)
  OBVIOUS
<1>1. request \in RequestType /\ stats \in [Provider -> StatsRecord]
  BY DEF RouteTypeOK
<1>2. p \in Provider /\ LeadsAmong(request, stats, p, Eligible(request, stats))
  BY <1>1, SelectedLeads
<1>3. o \in Provider
  BY DEF Eligible, Capable
<1>4. /\ Key(request, p, stats[p]) \in Six /\ Key(request, o, stats[o]) \in Six
      /\ Key(request, p, stats[p])[1] = Rank(request, p)
      /\ Key(request, o, stats[o])[1] = Rank(request, o)
      /\ Rank(request, p) \in Int /\ Rank(request, o) \in Int
  BY <1>1, <1>2, <1>3, KeyIsSix
<1> HIDE DEF p
<1>5. CASE o = p
  BY <1>4, <1>5
<1>6. CASE o # p
  <2>1. Before(Key(request, p, stats[p]), Key(request, o, stats[o]))
    BY <1>2, <1>6 DEF LeadsAmong
  <2>2. Rank(request, p) < Rank(request, o) \/ Rank(request, p) = Rank(request, o)
    BY <1>4, <2>1, BeforeUnfolded
  <2>3. QED
    BY <1>4, <2>2
<1>7. QED
  BY <1>5, <1>6

(* Whatever the counts, the choice has the least rank of the candidates:   *)
(* module Service, which takes any such provider, leaves no choice out.    *)
THEOREM RanksAreLeast == RouteSpec => []LeastRank
BY LeaderRanksLeast, RouteTypesCorrect, PTL

(* Whatever the counts, a request is reported as a fallback exactly if a   *)
(* provider it prefers by rank to every candidate is out of service:       *)
(* bestProfileRank and the choice of the sort agree on what was lost.      *)
THEOREM FallbacksAreReported == RouteSpec => []FallbackIsReported
<1>1. RouteTypeOK => FallbackIsReported
  <2> SUFFICES ASSUME RouteTypeOK, Selected(request, stats) # None
               PROVE  FallbackUsed(request, stats) <=>
                        \E o \in Capable(request) :
                          /\ ~Available(stats[o])
                          /\ \A x \in Eligible(request, stats) :
                               Rank(request, o) < Rank(request, x)
    BY DEF FallbackIsReported
  <2> DEFINE best == Selected(request, stats)
  <2>1. best \in Eligible(request, stats)
    BY SelectedLeads DEF RouteTypeOK
  <2>2. \A x \in Eligible(request, stats) : Rank(request, best) <= Rank(request, x)
    BY LeaderRanksLeast DEF LeastRank
  <2>3. Eligible(request, stats) \subseteq Capable(request)
        /\ \A o \in Capable(request) : o \in Eligible(request, stats) <=> Available(stats[o])
    BY DEF Eligible
  <2>4. \A o \in Capable(request) : Rank(request, o) \in Int
    BY KeyIsSix DEF RouteTypeOK, Capable
  <2>5. FallbackUsed(request, stats)
          <=> \E o \in Capable(request) : Rank(request, o) < Rank(request, best)
    BY DEF FallbackUsed
  <2> HIDE DEF best
  <2>6. ASSUME NEW o \in Capable(request), Rank(request, o) < Rank(request, best)
        PROVE  /\ ~Available(stats[o])
               /\ \A x \in Eligible(request, stats) : Rank(request, o) < Rank(request, x)
    <3>1. \A x \in Eligible(request, stats) : Rank(request, o) < Rank(request, x)
      BY <2>1, <2>2, <2>3, <2>4, <2>6
    <3>2. ~Available(stats[o])
      BY <2>3, <2>4, <3>1
    <3>3. QED
      BY <3>1, <3>2
  <2>7. QED
    BY <2>1, <2>5, <2>6
<1>2. QED
  BY <1>1, RouteTypesCorrect, PTL

(* What a change of one provider's counts does to the choice: who led      *)
(* before leads on if that one moves back, and so does that one if it      *)
(* moves ahead.                                                            *)
LEMMA OthersMoveBack ==
  ASSUME NEW q \in RequestType, NEW p \in Provider,
         NEW st \in [Provider -> StatsRecord], NEW to \in [Provider -> StatsRecord],
         \A o \in Provider \ {p} : to[o] = st[o],
         Eligible(q, to) \subseteq Eligible(q, st),
         Eligible(q, st) \ {p} \subseteq Eligible(q, to),
         p \in Eligible(q, to) => Before(Key(q, p, st[p]), Key(q, p, to[p])),
         Selected(q, st) # p
  PROVE  Selected(q, to) = Selected(q, st)
<1> DEFINE a == Selected(q, st)
           E == Eligible(q, st)
           F == Eligible(q, to)
<1>1. CASE E = {}
  <2>1. F = {}
    BY <1>1
  <2>2. QED
    BY <1>1, <2>1, SelectedLeads
<1>2. CASE E # {}
  <2>1. a \in E /\ a \in Provider /\ LeadsAmong(q, st, a, E)
    BY <1>2, SelectedLeads
  <2>2. a # p /\ a \in F /\ to[a] = st[a]
    BY <2>1
  <2>3. E \subseteq Provider /\ F \subseteq E
    BY DEF Eligible, Capable
  <2> HIDE DEF a, E, F
  <2>4. LeadsAmong(q, to, a, F)
    <3> SUFFICES ASSUME NEW o \in F, o # a
                 PROVE  Before(Key(q, a, to[a]), Key(q, o, to[o]))
      BY DEF LeadsAmong
    <3>1. o \in E /\ o \in Provider
      BY <2>3
    <3>2. Before(Key(q, a, st[a]), Key(q, o, st[o]))
      BY <2>1, <3>1 DEF LeadsAmong
    <3>3. CASE o # p
      BY <2>2, <3>1, <3>2, <3>3
    <3>4. CASE o = p
      <4>1. /\ Key(q, a, st[a]) \in Six /\ Key(q, p, st[p]) \in Six
            /\ Key(q, p, to[p]) \in Six
        BY <2>1, KeyIsSix
      <4>2. Before(Key(q, a, st[a]), Key(q, p, to[p]))
        BY <3>2, <3>4, <4>1, BeforeTransitive DEF F
      <4>3. QED
        BY <2>2, <3>4, <4>2
    <3>5. QED
      BY <3>3, <3>4
  <2>5. a \in Firsts(q, to)
    BY <2>2, <2>4, FirstsLead DEF F
  <2>6. Firsts(q, to) = {Selected(q, to)}
    BY <2>2, SelectedLeads DEF F
  <2>7. QED
    BY <2>5, <2>6 DEF a
<1>3. QED
  BY <1>1, <1>2

LEMMA LeaderMovesAhead ==
  ASSUME NEW q \in RequestType, NEW p \in Provider,
         NEW st \in [Provider -> StatsRecord], NEW to \in [Provider -> StatsRecord],
         \A o \in Provider \ {p} : to[o] = st[o], Eligible(q, to) = Eligible(q, st),
         Before(Key(q, p, to[p]), Key(q, p, st[p])), Selected(q, st) = p
  PROVE  Selected(q, to) = p
<1> DEFINE E == Eligible(q, st)
<1>1. E # {}
  BY SelectedLeads DEF Provider, None
<1>2. p \in E /\ LeadsAmong(q, st, p, E)
  BY <1>1, SelectedLeads
<1>3. E \subseteq Provider /\ Eligible(q, to) = E
  BY DEF Eligible, Capable
<1> HIDE DEF E
<1>4. LeadsAmong(q, to, p, E)
  <2> SUFFICES ASSUME NEW o \in E, o # p
               PROVE  Before(Key(q, p, to[p]), Key(q, o, to[o]))
    BY DEF LeadsAmong
  <2>1. o \in Provider /\ to[o] = st[o]
    BY <1>3
  <2>2. Before(Key(q, p, st[p]), Key(q, o, st[o]))
    BY <1>2 DEF LeadsAmong
  <2>3. /\ Key(q, p, to[p]) \in Six /\ Key(q, p, st[p]) \in Six
        /\ Key(q, o, st[o]) \in Six
    BY <2>1, KeyIsSix
  <2>4. QED
    BY <2>1, <2>2, <2>3, BeforeTransitive
<1>5. p \in Firsts(q, to)
  BY <1>2, <1>3, <1>4, FirstsLead
<1>6. Firsts(q, to) = {Selected(q, to)}
  BY <1>2, <1>3, SelectedLeads
<1>7. QED
  BY <1>5, <1>6

(* What the weights of module RouteStrategy come to under each hint.       *)
LEMMA Weights ==
  ASSUME NEW q \in RequestType
  PROVE  \/ /\ q.profile = "latency-first"
            /\ RecentWeight(q) = 45 /\ TotalWeight(q) = 8
            /\ ReadyWeight(q) = CASE q.reuse = "require_reuse" -> 260
                                  [] q.reuse = "prefer_reuse"  -> 200
                                  [] q.reuse = "prefer_fresh"  -> 50
                                  [] q.reuse = "require_fresh" -> -80
                                  [] OTHER                     -> 130
         \/ /\ q.profile = "stability-first"
            /\ RecentWeight(q) = 120 /\ TotalWeight(q) = 25
            /\ ReadyWeight(q) = CASE q.reuse = "require_reuse" -> 195
                                  [] q.reuse = "prefer_reuse"  -> 135
                                  [] q.reuse = "prefer_fresh"  -> -15
                                  [] q.reuse = "require_fresh" -> -145
                                  [] OTHER                     -> 65
         \/ /\ q.profile \notin {"latency-first", "stability-first"}
            /\ RecentWeight(q) = 70 /\ TotalWeight(q) = 12
            /\ ReadyWeight(q) = CASE q.reuse = "require_reuse" -> 180
                                  [] q.reuse = "prefer_reuse"  -> 120
                                  [] q.reuse = "prefer_fresh"  -> -30
                                  [] q.reuse = "require_fresh" -> -160
                                  [] OTHER                     -> 50
BY DEF ReadyWeight, RecentWeight, TotalWeight

(* Where the freed runtime does not outweigh the failure, the score falls, *)
(* or stays and a ready runtime less breaks the tie against the provider.  *)
LEMMA FailureCosts ==
  ASSUME NEW q \in RequestType, NEW change \in {-1, 0, 1}, NEW n \in Nat,
         n + change >= 0, ~Outweighs(q, change)
  PROVE  LET effect == Flat(q, n + change) - Flat(q, n) + ReadyWeight(q) * change
                         - RecentWeight(q) - TotalWeight(q)
         IN  effect < 0 \/ (effect = 0 /\ change = -1)
<1>1. q.reuse \in {"", "require_reuse", "prefer_reuse", "require_fresh", "prefer_fresh"}
  BY DEF RequestType, Reuse
<1>2. CASE q.reuse = "require_reuse"
  <2>1. change \in {-1, 0}
    BY <1>2 DEF Outweighs
  <2>2. Flat(q, n + change) - Flat(q, n) <= 0
    BY <1>2, <2>1 DEF Flat
  <2>3. Flat(q, n + change) \in Int /\ Flat(q, n) \in Int
    BY DEF Flat
  <2>4. ReadyWeight(q) \in {180, 195, 260}
    BY <1>2 DEF ReadyWeight
  <2>5. RecentWeight(q) \in {45, 120, 70} /\ TotalWeight(q) \in {8, 25, 12}
    BY DEF RecentWeight, TotalWeight
  <2>. QED  BY <2>1, <2>2, <2>3, <2>4, <2>5
<1>3. CASE q.reuse # "require_reuse"
  <2>1. Flat(q, n + change) = Flat(q, n) /\ Flat(q, n) \in Int
    BY <1>3 DEF Flat
  <2>2. CASE q.reuse = "prefer_reuse"
    <3>1. change = 1 => q.profile = "stability-first"
      BY <2>2 DEF Outweighs
    <3>. QED  BY <2>1, <2>2, <3>1, Weights
  <2>3. CASE q.reuse = ""
    <3>1. change = 1 => q.profile # "latency-first"
      BY <2>3 DEF Outweighs
    <3>2. q.reuse \notin {"require_reuse", "prefer_reuse", "prefer_fresh", "require_fresh"}
      BY Zenon, <2>3
    <3>. QED  BY <2>1, <3>1, <3>2, Weights
  <2>4. CASE q.reuse = "prefer_fresh"
    BY <2>1, <2>4, Weights
  <2>5. CASE q.reuse = "require_fresh"
    <3>1. change = -1 => q.profile = "stability-first"
      BY <2>5 DEF Outweighs
    <3>. QED  BY <2>1, <2>5, <3>1, Weights
  <2>. QED  BY <1>1, <1>3, <2>2, <2>3, <2>4, <2>5
<1>. QED  BY <1>2, <1>3

(* Such a failure puts its provider strictly further back.                 *)
LEMMA FailureSetsBack ==
  ASSUME NEW q \in RequestType, NEW p \in Provider, NEW change \in {-1, 0, 1},
         NEW s \in StatsRecord, NEW r \in StatsRecord,
         r.ready = s.ready + change, r.recent = s.recent + 1, r.total = s.total + 1,
         ~Outweighs(q, change)
  PROVE  Before(Key(q, p, s), Key(q, p, r))
<1>1. /\ s.recent \in Nat /\ s.total \in Nat /\ s.ready \in Nat
      /\ r.recent \in Nat /\ r.total \in Nat /\ r.ready \in Nat
  BY DEF StatsRecord
<1> DEFINE w == ReadyWeight(q)
           v == RecentWeight(q)
           u == TotalWeight(q)
           f == Flat(q, s.ready)
           g == Flat(q, r.ready)
           b == Base(q, p)
<1>2. w \in Int /\ v \in Int /\ u \in Int /\ f \in Int /\ g \in Int /\ b \in Int
  BY DEF ReadyWeight, RecentWeight, TotalWeight, Flat, Base
<1>3. g - f + w * change - v - u < 0
      \/ (g - f + w * change - v - u = 0 /\ change = -1)
  BY <1>1, FailureCosts
<1>4. /\ Score(q, p, s) = b + f + w * s.ready - v * s.recent - u * s.total
      /\ Score(q, p, r) = b + g + w * r.ready - v * r.recent - u * r.total
  BY DEF Score
<1> HIDE DEF w, v, u, f, g, b
<1> DEFINE x == w * s.ready
           y == v * s.recent
           z == u * s.total
           d == w * change
<1>5. /\ w * r.ready = x + d /\ v * r.recent = y + v /\ u * r.total = z + u
      /\ x \in Int /\ y \in Int /\ z \in Int /\ d \in Int
  <2>1. w * r.ready = x + d
    BY <1>1, <1>2
  <2>2. v * r.recent = y + v
    BY <1>1, <1>2
  <2>3. u * r.total = z + u
    BY <1>1, <1>2
  <2>4. x \in Int /\ y \in Int /\ z \in Int /\ d \in Int
    BY <1>1, <1>2
  <2> HIDE DEF x, y, z, d
  <2>. QED  BY <2>1, <2>2, <2>3, <2>4
<1>6. \/ Score(q, p, r) < Score(q, p, s)
      \/ Score(q, p, r) = Score(q, p, s) /\ change = -1
  <2>1. /\ Score(q, p, s) = b + f + x - y - z
        /\ Score(q, p, r) = b + g + (x + d) - (y + v) - (z + u)
    BY <1>4, <1>5
  <2>2. g - f + d - v - u < 0 \/ (g - f + d - v - u = 0 /\ change = -1)
    BY <1>3
  <2> HIDE DEF x, y, z, d
  <2>3. Score(q, p, r) - Score(q, p, s) = g - f + d - v - u
        /\ Score(q, p, r) \in Int /\ Score(q, p, s) \in Int
    BY <1>2, <1>5, <2>1
  <2>. QED  BY <1>2, <1>5, <2>2, <2>3
<1>7. QED
  BY <1>1, <1>6, KeyIsSix, BeforeUnfolded

(* Only a failure is counted as one.                                       *)
LEMMA CountedIsFailed ==
  ASSUME RouteTypeOK, [RouteNext]_routeVars, NEW p \in Provider,
         stats'[p].total > stats[p].total
  PROVE  \E candidate \in BOOLEAN, change \in {-1, 0, 1} : Fail(p, candidate, change)
<1>0. /\ stats \in [Provider -> StatsRecord] /\ stats[p] \in StatsRecord
      /\ stats[p].total \in Nat /\ stats'[p].total # stats[p].total
  BY DEF RouteTypeOK, StatsRecord
<1>1. ASSUME NEW o \in Provider, NEW candidate \in BOOLEAN, NEW change \in {-1, 0, 1},
             Fail(o, candidate, change)
      PROVE  o = p
  <2>1. \E r : stats' = [stats EXCEPT ![o] = r]
    BY <1>1, Zenon DEF Fail
  <2>2. o # p => stats'[p] = stats[p]
    BY <1>0, <2>1
  <2>. QED  BY <1>0, <2>2
<1>2. ASSUME NEW o \in Provider, NEW change \in {0, 1}, Succeed(o, change)
      PROVE  FALSE
  BY <1>0, <1>2 DEF Succeed, StatsRecord
<1>3. ASSUME NEW o \in Provider, ResetProviderCooldown(o)
      PROVE  FALSE
  BY <1>0, <1>3 DEF ResetProviderCooldown, StatsRecord
<1>4. ASSUME NEW o \in Provider, NEW enabled \in BOOLEAN, SetEnabled(o, enabled)
      PROVE  FALSE
  BY <1>0, <1>4 DEF SetEnabled, StatsRecord
<1>5. ASSUME NEW o \in Provider, RuntimeReady(o) \/ RuntimeTaken(o)
      PROVE  FALSE
  BY <1>0, <1>5 DEF RuntimeReady, RuntimeTaken, StatsRecord
<1>6. ASSUME NEW lifted, NEW ready, Refresh(lifted, ready)
      PROVE  FALSE
  <2>1. stats'[p].total = stats[p].total
    BY <1>0, <1>6 DEF Refresh, StatsRecord
  <2>. QED  BY <1>0, <2>1
<1>7. CASE UNCHANGED routeVars
  BY <1>0, <1>7 DEF routeVars
<1>. QED  BY <1>1, <1>2, <1>3, <1>4, <1>5, <1>6, <1>7 DEF RouteNext

(* Whatever the counts and thresholds, a failure neither brings its        *)
(* provider the next request nor takes it from another provider, unless    *)
(* the runtime it frees or loses outweighs it: by the weights of           *)
(* strategy.go that takes one of the hints Outweighs names, and a provider *)
(* that does not cool afterwards.                                          *)
THEOREM FailuresNeverHelp == RouteSpec => FailureNeverHelps
<1>1. ASSUME RouteTypeOK, RouteTypeOK', [RouteNext]_routeVars, NEW p \in Provider,
             stats'[p].total > stats[p].total,
             ~Outweighs(request, stats'[p].ready - stats[p].ready) \/ stats'[p].cooling,
             Selected(request, stats) # p
      PROVE  Selected(request', stats') = Selected(request, stats)
  <2> DEFINE E == Eligible(request, stats)
             F == Eligible(request, stats')
  <2>1. /\ request \in RequestType /\ stats \in [Provider -> StatsRecord]
        /\ stats' \in [Provider -> StatsRecord]
    BY <1>1 DEF RouteTypeOK
  <2>2. PICK candidate \in BOOLEAN, change \in {-1, 0, 1} : Fail(p, candidate, change)
    BY <1>1, CountedIsFailed
  <2>3. request' = request
    BY <2>1, <2>2, FailUnfolded
  <2>4. PICK r \in StatsRecord :
          /\ stats' = [stats EXCEPT ![p] = r]
          /\ r.ready = stats[p].ready + change
          /\ r.recent = stats[p].recent + 1 /\ r.total = stats[p].total + 1
          /\ r.enabled = stats[p].enabled /\ (stats[p].cooling => r.cooling)
    BY <2>1, <2>2, FailUnfolded
  <2>5. /\ \A o \in Provider \ {p} : stats'[o] = stats[o]
        /\ stats'[p].ready = stats[p].ready + change
        /\ stats'[p].recent = stats[p].recent + 1
        /\ stats'[p].total = stats[p].total + 1
        /\ stats'[p].enabled = stats[p].enabled
        /\ stats[p].cooling => stats'[p].cooling
    BY <2>1, <2>4
  <2>6. stats'[p].ready - stats[p].ready = change
    <3>1. stats[p].ready \in Nat
      BY <2>1 DEF StatsRecord
    <3>. QED  BY <2>5, <3>1
  <2>7. E \subseteq Provider /\ F \subseteq E /\ E \ {p} \subseteq F
    BY <2>5 DEF Eligible, Capable, Available
  <2>8. p \in F => Before(Key(request, p, stats[p]), Key(request, p, stats'[p]))
    <3>1. p \in F => ~stats'[p].cooling
      BY DEF Eligible, Available
    <3>2. CASE ~Outweighs(request, change)
      <4>1. stats[p] \in StatsRecord /\ stats'[p] \in StatsRecord
        BY <2>1
      <4>. QED  BY <2>1, <2>5, <3>2, <4>1, FailureSetsBack
    <3>. QED  BY <1>1, <2>6, <3>1, <3>2
  <2>. QED  BY <1>1, <2>1, <2>3, <2>5, <2>7, <2>8, OthersMoveBack
<1>2. RouteTypeOK /\ RouteTypeOK' /\ [RouteNext]_routeVars
        => [\A p \in Provider :
              /\ stats'[p].total > stats[p].total
              /\ \/ ~Outweighs(request, stats'[p].ready - stats[p].ready)
                 \/ stats'[p].cooling
              /\ Selected(request, stats) # p
              => Selected(request', stats') = Selected(request, stats)]_routeVars
  BY <1>1
<1>3. QED
  BY <1>2, RouteTypesCorrect, PTL DEF RouteSpec, FailureNeverHelps

(* One more ready runtime moves its provider ahead, or back if a fresh one *)
(* is required; the rest of the score stays, but for the 500 points that   *)
(* require_reuse takes off a provider that has none.                       *)
LEMMA ReadyMoves ==
  ASSUME NEW q \in RequestType, NEW p \in Provider,
         NEW s \in StatsRecord, NEW r \in StatsRecord,
         r.ready = s.ready + 1, r.recent = s.recent, r.total = s.total
  PROVE  /\ q.reuse \in {"", "require_reuse", "prefer_reuse"}
              => Before(Key(q, p, r), Key(q, p, s))
         /\ q.reuse = "require_fresh" => Before(Key(q, p, s), Key(q, p, r))
<1>1. s.recent \in Nat /\ s.total \in Nat /\ s.ready \in Nat
  BY DEF StatsRecord
<1>2. /\ Base(q, p) \in Int /\ Flat(q, s.ready) \in Int /\ Flat(q, r.ready) \in Int
      /\ ReadyWeight(q) * s.ready \in Int /\ ReadyWeight(q) * r.ready \in Int
      /\ RecentWeight(q) * s.recent \in Int /\ TotalWeight(q) * s.total \in Int
  <2>1. ReadyWeight(q) \in Int
    BY DEF ReadyWeight
  <2>2. RecentWeight(q) \in Int /\ TotalWeight(q) \in Int
    BY DEF RecentWeight, TotalWeight
  <2>3. Base(q, p) \in Int
    BY DEF Base
  <2>4. Flat(q, s.ready) \in Int /\ Flat(q, r.ready) \in Int
    BY DEF Flat
  <2>5. QED
    BY <1>1, <2>1, <2>2, <2>3, <2>4
<1>3. ASSUME q.reuse \in {"", "require_reuse", "prefer_reuse"}
      PROVE  Before(Key(q, p, r), Key(q, p, s))
  <2>1. Flat(q, s.ready) <= Flat(q, r.ready)
    <3>1. CASE q.reuse = "require_reuse"
      BY <1>1, <3>1 DEF Flat
    <3>2. CASE q.reuse \in {"", "prefer_reuse"}
      <4>1. q.reuse \notin {"require_reuse", "prefer_fresh", "require_fresh"}
        BY Zenon, <3>2
      <4>2. QED
        BY <4>1 DEF Flat
    <3>3. QED
      BY <1>3, <3>1, <3>2
  <2>2. ReadyWeight(q) * s.ready < ReadyWeight(q) * r.ready
    <3>1. CASE q.reuse = ""
      <4>1. ReadyWeight(q) \in {50, 65, 130}
        <5>1. q.reuse \notin {"require_reuse", "prefer_reuse", "prefer_fresh", "require_fresh"}
          BY Zenon, <3>1
        <5>2. QED
          BY <5>1 DEF ReadyWeight
      <4>2. QED
        BY <1>1, <4>1
    <3>2. CASE q.reuse = "require_reuse"
      <4>1. ReadyWeight(q) \in {180, 195, 260}
        BY <3>2 DEF ReadyWeight
      <4>2. QED
        BY <1>1, <4>1
    <3>3. CASE q.reuse = "prefer_reuse"
      <4>1. ReadyWeight(q) \in {120, 135, 200}
        BY <3>3 DEF ReadyWeight
      <4>2. QED
        BY <1>1, <4>1
    <3>4. QED
      BY <1>3, <3>1, <3>2, <3>3
  <2>3. Score(q, p, s) < Score(q, p, r)
    BY <1>2, <2>1, <2>2 DEF Score
  <2>4. QED
    BY <2>3, KeyIsSix, BeforeUnfolded
<1>4. ASSUME q.reuse = "require_fresh"
      PROVE  Before(Key(q, p, s), Key(q, p, r))
  <2>1. Flat(q, s.ready) = Flat(q, r.ready)
    BY <1>4 DEF Flat
  <2>2. ReadyWeight(q) * r.ready < ReadyWeight(q) * s.ready
    <3>1. ReadyWeight(q) \in {-160, -145, -80}
      BY <1>4 DEF ReadyWeight
    <3>2. QED
      BY <1>1, <3>1
  <2>3. Score(q, p, r) < Score(q, p, s)
    BY <1>2, <2>1, <2>2 DEF Score
  <2>4. QED
    BY <2>3, KeyIsSix, BeforeUnfolded
<1>5. QED
  BY <1>3, <1>4

(* Whatever the counts, one more ready runtime takes no request that asks  *)
(* for reuse, or for nothing, from its provider, and brings it none that   *)
(* requires a fresh one: what PROVIDER-CONTRACT.md:69-74 promises.         *)
THEOREM HintsAreFollowed == RouteSpec => HintIsFollowed
<1>1. ASSUME RouteTypeOK, RouteTypeOK', NEW p \in Provider, RuntimeReady(p)
      PROVE  /\ request.reuse \in {"", "require_reuse", "prefer_reuse"}
                  /\ Selected(request, stats) = p
                => Selected(request', stats') = p
             /\ request.reuse = "require_fresh" /\ Selected(request, stats) # p
                => Selected(request', stats') = Selected(request, stats)
  <2>1. /\ request \in RequestType /\ request' = request
        /\ stats \in [Provider -> StatsRecord]
        /\ stats' \in [Provider -> StatsRecord]
    BY <1>1 DEF RouteTypeOK, RuntimeReady
  <2>2. PICK n \in Nat : n = stats[p].ready + 1
    BY <2>1 DEF StatsRecord
  <2>3. stats' = [stats EXCEPT ![p].ready = n]
    BY <1>1, <2>2 DEF RuntimeReady
  <2>4. /\ \A o \in Provider \ {p} : stats'[o] = stats[o]
        /\ stats'[p].ready = stats[p].ready + 1
        /\ stats'[p].recent = stats[p].recent
        /\ stats'[p].total = stats[p].total
        /\ stats'[p].enabled = stats[p].enabled
        /\ stats'[p].cooling = stats[p].cooling
    BY <2>1, <2>2, <2>3 DEF StatsRecord
  <2>5. Eligible(request, stats') = Eligible(request, stats)
    BY <2>4 DEF Eligible, Capable, Available
  <2>6. /\ request.reuse \in {"", "require_reuse", "prefer_reuse"}
             => Before(Key(request, p, stats'[p]), Key(request, p, stats[p]))
        /\ request.reuse = "require_fresh"
             => Before(Key(request, p, stats[p]), Key(request, p, stats'[p]))
    <3>1. stats[p] \in StatsRecord /\ stats'[p] \in StatsRecord
      BY <2>1
    <3>2. QED
      BY <2>1, <2>4, <3>1, ReadyMoves
  <2>7. ASSUME request.reuse \in {"", "require_reuse", "prefer_reuse"},
               Selected(request, stats) = p
        PROVE  Selected(request, stats') = p
    <3>1. Before(Key(request, p, stats'[p]), Key(request, p, stats[p]))
      BY <2>6, <2>7
    <3>2. QED
      BY <2>1, <2>4, <2>5, <2>7, <3>1, LeaderMovesAhead
  <2>8. ASSUME request.reuse = "require_fresh", Selected(request, stats) # p
        PROVE  Selected(request, stats') = Selected(request, stats)
    <3>1. Before(Key(request, p, stats[p]), Key(request, p, stats'[p]))
      BY <2>6, <2>8
    <3>2. QED
      BY <2>1, <2>4, <2>5, <2>8, <3>1, OthersMoveBack
  <2>9. QED
    BY <2>1, <2>7, <2>8
<1>2. RouteTypeOK /\ RouteTypeOK' /\ [RouteNext]_routeVars
        => [\A p \in Provider :
              RuntimeReady(p) =>
                /\ request.reuse \in {"", "require_reuse", "prefer_reuse"}
                     /\ Selected(request, stats) = p
                   => Selected(request', stats') = p
                /\ request.reuse = "require_fresh" /\ Selected(request, stats) # p
                   => Selected(request', stats') = Selected(request, stats)]_routeVars
  BY <1>1
<1>3. QED
  BY <1>2, RouteTypesCorrect, PTL DEF RouteSpec, HintIsFollowed

=============================================================================
