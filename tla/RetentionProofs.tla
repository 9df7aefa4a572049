--------------------------- MODULE RetentionProofs ------------------------------
(***************************************************************************)
(* Proofs about the eviction: every list of rules orders every set of      *)
(* routes strictly and totally, a protected torrent is never the victim,   *)
(* and no torrent is deleted, no download refused, without need.           *)
(*                                                                         *)
(* Each rule compares one integer key of the two routes, so it is a total  *)
(* preorder; the list compares the keys lexicographically, and the         *)
(* tie-break on age and EngineID separates whatever the list leaves equal. *)
(* That a job and an admission which know the same household state agree   *)
(* on the one victim rests on it.                                          *)
(***************************************************************************)
EXTENDS Retention, WellFoundedInduction, SequenceTheorems, TLAPS

(* A set of natural numbers that is not empty has a least element.         *)
LEMMA LeastNumber ==
  ASSUME NEW S \in SUBSET Nat, S # {}
  PROVE  \E m \in S : \A n \in S : m <= n
<1>1. PICK m \in S : \A n \in S : ~(<<n, m>> \in OpToRel(<, Nat))
  BY NatLessThanWellFounded, WFMin, Zenon
<1>2. \A n \in S : ~(n < m)
  BY <1>1 DEF OpToRel
<1> QED BY <1>2

(* What the keys of a route are.                                           *)
LEMMA RouteTimes ==
  ASSUME NEW a \in Route
  PROVE  completedAt(a) \in Nat /\ lastActivity(a) \in Nat
<1>1. a.updated \in SUBSET Nat /\ a.updated # {} /\ a.lastPlayed \in Nat
  BY DEF Route
<1>2. completedAt(a) \in a.updated
  BY <1>1, LeastNumber DEF completedAt, Earliest
<1> QED BY <1>1, <1>2 DEF lastActivity

(* The integer a rule compares, smaller is evicted first.                  *)
RuleKey(rule, a) ==
  CASE rule = "newest-completed"      -> - completedAt(a)
    [] rule = "least-recently-played" -> lastActivity(a)
    [] rule = "most-recently-played"  -> - lastActivity(a)
    [] rule = "watched-first"         -> IF a.watched THEN 0 ELSE 1
    [] rule = "never-watched-first"   -> IF a.watched THEN 1 ELSE 0
    [] rule = "largest"               -> - a.bytes
    [] rule = "smallest"              -> a.bytes
    [] OTHER                          -> completedAt(a)

LEMMA KeyIsInteger ==
  ASSUME NEW rule, NEW a \in Route
  PROVE  RuleKey(rule, a) \in Int
<1>1. completedAt(a) \in Nat /\ lastActivity(a) \in Nat /\ a.bytes \in Nat
  BY RouteTimes DEF Route
<1> HIDE DEF completedAt, lastActivity
<1> QED BY <1>1 DEF RuleKey

(* A rule is the order of its keys.                                        *)
LEMMA RuleComparesKeys ==
  ASSUME NEW rule, NEW a \in Route, NEW b \in Route
  PROVE  /\ compareEvictionRule(rule, a, b) < 0 <=> RuleKey(rule, a) < RuleKey(rule, b)
         /\ compareEvictionRule(rule, a, b) = 0 <=> RuleKey(rule, a) = RuleKey(rule, b)
<1>1. /\ completedAt(a) \in Nat /\ lastActivity(a) \in Nat
      /\ completedAt(b) \in Nat /\ lastActivity(b) \in Nat
  BY RouteTimes
<1>2. /\ a.bytes \in Nat /\ a.watched \in BOOLEAN
      /\ b.bytes \in Nat /\ b.watched \in BOOLEAN
  BY DEF Route
<1>3. CASE rule = "newest-completed"
  BY <1>1, <1>3 DEF compareEvictionRule, RuleKey, Compare
<1>4. CASE rule = "least-recently-played"
  BY <1>1, <1>4 DEF compareEvictionRule, RuleKey, Compare
<1>5. CASE rule = "most-recently-played"
  BY <1>1, <1>5 DEF compareEvictionRule, RuleKey, Compare
<1>6. CASE rule = "watched-first"
  BY <1>2, <1>6 DEF compareEvictionRule, RuleKey, boolFirst
<1>7. CASE rule = "never-watched-first"
  BY <1>2, <1>7 DEF compareEvictionRule, RuleKey, boolFirst
<1>8. CASE rule = "largest"
  BY <1>2, <1>8 DEF compareEvictionRule, RuleKey, Compare
<1>9. CASE rule = "smallest"
  BY <1>2, <1>9 DEF compareEvictionRule, RuleKey, Compare
<1>10. CASE rule \notin RuleAtoms \ {"oldest-completed"}
  BY <1>1, <1>10 DEF compareEvictionRule, RuleKey, Compare, RuleAtoms
<1> QED
  BY <1>3, <1>4, <1>5, <1>6, <1>7, <1>8, <1>9, <1>10 DEF RuleAtoms

(* The keys of a list, followed by those of the tie-break.                 *)
SortKey(rules, i, a) ==
  CASE i <= Len(rules)    -> RuleKey(rules[i], a)
    [] i = Len(rules) + 1 -> completedAt(a)
    [] OTHER              -> a.engineID

LEMMA SortKeyIsInteger ==
  ASSUME NEW E, NEW rules \in Seq(E), NEW a \in Route
  PROVE  \A i \in 1 .. Len(rules) + 2 : SortKey(rules, i, a) \in Int
<1>1. completedAt(a) \in Int /\ a.engineID \in Int
  BY RouteTimes DEF Route
<1>2. \A i \in 1 .. Len(rules) : RuleKey(rules[i], a) \in Int
  BY KeyIsInteger
<1> QED BY <1>1, <1>2 DEF SortKey

(* precedes is the lexicographic order of the keys.                        *)
LEMMA PrecedesIsLexicographic ==
  ASSUME NEW E, NEW rules \in Seq(E), NEW a \in Route, NEW b \in Route
  PROVE  precedes(rules, a, b) <=>
           \E i \in 1 .. Len(rules) + 2 :
             /\ \A j \in 1 .. i - 1 : SortKey(rules, j, a) = SortKey(rules, j, b)
             /\ SortKey(rules, i, a) < SortKey(rules, i, b)
<1> DEFINE n == Len(rules)
           K(j, x) == SortKey(rules, j, x)
           Differ(i) == /\ \A j \in 1 .. i - 1 : K(j, a) = K(j, b)
                        /\ K(i, a) < K(i, b)
<1>1. n \in Nat
  OBVIOUS
<1>2. \A j \in 1 .. n : /\ compareEvictionRule(rules[j], a, b) = 0 <=> K(j, a) = K(j, b)
                        /\ compareEvictionRule(rules[j], a, b) < 0 <=> K(j, a) < K(j, b)
  BY RuleComparesKeys DEF SortKey
<1>3. \A i \in 1 .. n + 1 :
        TiesBefore(rules, i, a, b) <=> \A j \in 1 .. i - 1 : K(j, a) = K(j, b)
  <2> HIDE DEF n, K
  <2> QED BY <1>1, <1>2 DEF TiesBefore
<1>4. /\ K(n + 1, a) = completedAt(a) /\ K(n + 1, b) = completedAt(b)
      /\ K(n + 2, a) = a.engineID /\ K(n + 2, b) = b.engineID
  BY <1>1 DEF SortKey
<1>5. precedes(rules, a, b) <=>
        \/ \E i \in 1 .. n : Differ(i)
        \/ /\ \A j \in 1 .. n : K(j, a) = K(j, b)
           /\ \/ K(n + 1, a) < K(n + 1, b)
              \/ K(n + 1, a) = K(n + 1, b) /\ K(n + 2, a) < K(n + 2, b)
  <2>1. \A i \in 1 .. n : (/\ TiesBefore(rules, i, a, b)
                           /\ compareEvictionRule(rules[i], a, b) < 0) <=> Differ(i)
    BY <1>1, <1>2, <1>3
  <2>2. TiesBefore(rules, n + 1, a, b) <=> \A j \in 1 .. n : K(j, a) = K(j, b)
    <3> HIDE DEF n, K
    <3> QED BY <1>1, <1>3
  <2> HIDE DEF K, Differ
  <2> QED BY <1>4, <2>1, <2>2 DEF precedes
<1>6. Differ(n + 1) <=> (\A j \in 1 .. n : K(j, a) = K(j, b)) /\ K(n + 1, a) < K(n + 1, b)
  <2> HIDE DEF n, K
  <2> QED BY <1>1
<1>7. Differ(n + 2) <=> /\ \A j \in 1 .. n : K(j, a) = K(j, b)
                        /\ K(n + 1, a) = K(n + 1, b)
                        /\ K(n + 2, a) < K(n + 2, b)
  <2>1. 1 .. (n + 2) - 1 = (1 .. n) \cup {n + 1}
    BY <1>1
  <2> HIDE DEF n, K
  <2> QED BY <1>1, <2>1
<1>8. 1 .. n + 2 = (1 .. n) \cup {n + 1, n + 2}
  BY <1>1
<1>9. precedes(rules, a, b) <=> \E i \in 1 .. n + 2 : Differ(i)
  <2> HIDE DEF n, K, Differ
  <2> QED BY <1>5, <1>6, <1>7, <1>8
<1> QED BY <1>9

(* No route precedes itself.                                               *)
LEMMA PrecedesIsIrreflexive ==
  ASSUME NEW E, NEW rules \in Seq(E), NEW a \in Route
  PROVE  ~precedes(rules, a, a)
BY PrecedesIsLexicographic, SortKeyIsInteger

(* The first key that tells a from b, or b from c, tells a from c.         *)
LEMMA PrecedesIsTransitive ==
  ASSUME NEW E, NEW rules \in Seq(E), NEW a \in Route, NEW b \in Route, NEW c \in Route,
         precedes(rules, a, b), precedes(rules, b, c)
  PROVE  precedes(rules, a, c)
<1> DEFINE N == 1 .. Len(rules) + 2
           K(j, x) == SortKey(rules, j, x)
<1>1. PICK i \in N : /\ \A j \in 1 .. i - 1 : K(j, a) = K(j, b)
                     /\ K(i, a) < K(i, b)
  BY PrecedesIsLexicographic
<1>2. PICK k \in N : /\ \A j \in 1 .. k - 1 : K(j, b) = K(j, c)
                     /\ K(k, b) < K(k, c)
  BY PrecedesIsLexicographic
<1>3. \A j \in N : K(j, a) \in Int /\ K(j, b) \in Int /\ K(j, c) \in Int
  BY SortKeyIsInteger
<1>4. \E m \in N : /\ \A j \in 1 .. m - 1 : K(j, a) = K(j, c)
                   /\ K(m, a) < K(m, c)
  <2> HIDE DEF K
  <2>1. CASE i <= k
    <3>1. K(i, b) <= K(i, c)
      BY <1>1, <1>2, <1>3, <2>1
    <3>2. \A j \in 1 .. i - 1 : K(j, a) = K(j, c)
      BY <1>1, <1>2, <2>1
    <3> QED BY <1>1, <1>3, <3>1, <3>2
  <2>2. CASE k < i
    <3>1. K(k, a) = K(k, b)
      BY <1>1, <1>2, <2>2
    <3>2. \A j \in 1 .. k - 1 : K(j, a) = K(j, c)
      BY <1>1, <1>2, <2>2
    <3> QED BY <1>2, <1>3, <3>1, <3>2
  <2> QED BY <2>1, <2>2
<1> QED BY <1>4, PrecedesIsLexicographic

(* Two routes of different EngineIDs differ in some key; the first of      *)
(* these decides.                                                          *)
LEMMA PrecedesIsTotal ==
  ASSUME NEW E, NEW rules \in Seq(E), NEW a \in Route, NEW b \in Route,
         a.engineID # b.engineID
  PROVE  precedes(rules, a, b) \/ precedes(rules, b, a)
<1> DEFINE N == 1 .. Len(rules) + 2
           K(j, x) == SortKey(rules, j, x)
           D == {j \in N : K(j, a) # K(j, b)}
<1>1. Len(rules) + 2 \in D
  BY DEF SortKey
<1>2. PICK m \in D : \A j \in D : m <= j
  <2>1. D \in SUBSET Nat /\ D # {}
    BY <1>1
  <2> HIDE DEF D
  <2> QED BY <2>1, LeastNumber
<1>3. \A j \in 1 .. m - 1 : K(j, a) = K(j, b)
  <2> HIDE DEF K
  <2> QED BY <1>2
<1>4. K(m, a) < K(m, b) \/ K(m, b) < K(m, a)
  <2>1. K(m, a) \in Int /\ K(m, b) \in Int /\ K(m, a) # K(m, b)
    BY <1>2, SortKeyIsInteger
  <2> HIDE DEF K
  <2> QED BY <2>1
<1>5. m \in N
  BY <1>2
<1>6. CASE K(m, a) < K(m, b)
  BY <1>3, <1>5, <1>6, PrecedesIsLexicographic
<1>7. CASE K(m, b) < K(m, a)
  BY <1>3, <1>5, <1>7, PrecedesIsLexicographic
<1> QED BY <1>4, <1>6, <1>7

(* Every list of rules, known or not, is a strict total order on every set *)
(* of routes with different EngineIDs.                                     *)
THEOREM OrderTheorem ==
  ASSUME NEW E, NEW rules \in Seq(E), NEW S \in SUBSET Route,
         \A a, b \in S : a.engineID = b.engineID => a = b
  PROVE  StrictTotalOrder(rules, S)
<1>1. \A a \in S : ~precedes(rules, a, a)
  BY PrecedesIsIrreflexive
<1>2. \A a, b \in S : a # b => precedes(rules, a, b) \/ precedes(rules, b, a)
  BY PrecedesIsTotal
<1>3. \A a, b, c \in S : precedes(rules, a, b) /\ precedes(rules, b, c)
                         => precedes(rules, a, c)
  BY PrecedesIsTransitive
<1> QED BY <1>1, <1>2, <1>3 DEF StrictTotalOrder

(* Dropping the blanks leaves a list of rules.  The pass over the list is  *)
(* a recursive function; that it exists, and what its values are, follows  *)
(* from the least index at which it would fail.                            *)
LEMMA NonBlankType ==
  ASSUME NEW E, NEW rules \in Seq(E)
  PROVE  NonBlank(rules) \in Seq(E)
<1> DEFINE n == Len(rules)
           step(s, i) == IF rules[i] = "" THEN s ELSE Append(s, rules[i])
           Builds(g, m) == g = [i \in 0 .. m |-> IF i = 0 THEN << >> ELSE step(g[i - 1], i)]
           Good(m) == \E g \in [0 .. m -> Seq(E)] : Builds(g, m)
           out == CHOOSE g : Builds(g, n)
<1>1. n \in Nat /\ \A i \in 1 .. n : rules[i] \in E
  OBVIOUS
<1>2. ASSUME NEW s \in Seq(E), NEW i \in 1 .. n PROVE step(s, i) \in Seq(E)
  <2>1. Append(s, rules[i]) \in Seq(E)
    <3>1. rules[i] \in E
      BY <1>1
    <3> QED BY <3>1, AppendProperties
  <2> QED BY <2>1
<1>3. NonBlank(rules) = out[n]
  BY DEF NonBlank
<1>4. Good(0)
  <2>1. [i \in 0 .. 0 |-> << >>] \in [0 .. 0 -> Seq(E)]
    OBVIOUS
  <2> HIDE DEF step
  <2>2. Builds([i \in 0 .. 0 |-> << >>], 0)
    OBVIOUS
  <2> QED BY <2>1, <2>2
<1>5. ASSUME NEW m \in 1 .. n, Good(m - 1) PROVE Good(m)
  <2>1. PICK g \in [0 .. m - 1 -> Seq(E)] : Builds(g, m - 1)
    BY <1>5
  <2> DEFINE h == [i \in 0 .. m |-> IF i = m THEN step(g[m - 1], m) ELSE g[i]]
  <2> HIDE DEF step
  <2>2. h \in [0 .. m -> Seq(E)]
    BY <1>1, <1>2
  <2>3. h = [i \in 0 .. m |-> IF i = 0 THEN << >> ELSE step(h[i - 1], i)]
    <3>1. ASSUME NEW i \in 0 .. m
          PROVE  h[i] = IF i = 0 THEN << >> ELSE step(h[i - 1], i)
      <4>1. CASE i = m
        BY <4>1, <1>1
      <4>2. CASE i # m
        <5>1. i \in 0 .. m - 1 /\ h[i] = g[i]
          BY <1>1, <4>2
        <5>2. g[i] = IF i = 0 THEN << >> ELSE step(g[i - 1], i)
          BY <2>1, <5>1
        <5>3. i # 0 => h[i - 1] = g[i - 1]
          BY <1>1, <5>1
        <5> QED BY <5>1, <5>2, <5>3
      <4> QED BY <4>1, <4>2
    <3> QED BY <3>1
  <2> QED BY <2>2, <2>3
<1>6. Good(n)
  <2> DEFINE Bad == {m \in 0 .. n : ~Good(m)}
  <2> HIDE DEF Good
  <2>1. SUFFICES ASSUME Bad # {} PROVE FALSE
    BY <1>1
  <2>2. Bad \in SUBSET Nat
    BY <1>1
  <2>3. PICK m \in Bad : \A k \in Bad : m <= k
    <3> HIDE DEF Bad
    <3> QED BY <2>1, <2>2, LeastNumber
  <2>4. m \in 1 .. n
    BY <1>1, <1>4, <2>3
  <2>5. Good(m - 1)
    BY <1>1, <2>3, <2>4
  <2> QED BY <1>5, <2>3, <2>4, <2>5
<1>7. Builds(out, n)
  BY <1>6
<1>8. PICK g \in [0 .. n -> Seq(E)] : Builds(g, n)
  BY <1>6
<1>9. \A m \in 0 .. n : out[m] \in Seq(E)
  <2> DEFINE Bad == {m \in 0 .. n : out[m] \notin Seq(E)}
  <2> HIDE DEF out, step
  <2>1. SUFFICES ASSUME Bad # {} PROVE FALSE
    BY <1>1
  <2>2. Bad \in SUBSET Nat
    BY <1>1
  <2>3. PICK m \in Bad : \A k \in Bad : m <= k
    <3> HIDE DEF Bad
    <3> QED BY <2>1, <2>2, LeastNumber
  <2>4. m \in 0 .. n /\ out[m] = IF m = 0 THEN << >> ELSE step(out[m - 1], m)
    BY <1>7, <2>3
  <2>5. m # 0 => m \in 1 .. n /\ m - 1 \in 0 .. n /\ out[m - 1] \in Seq(E)
    BY <1>1, <2>3, <2>4
  <2>6. out[m] \in Seq(E)
    <3>1. CASE m = 0
      BY <2>4, <3>1
    <3>2. CASE m # 0
      <4>1. out[m] = step(out[m - 1], m)
        BY <2>4, <3>2
      <4> QED BY <1>2, <2>5, <3>2, <4>1, Zenon
    <3> QED BY <3>1, <3>2
  <2> QED BY <2>3, <2>6
<1> HIDE DEF out
<1> QED BY <1>1, <1>3, <1>9

(* Normalization leaves a list of rules.                                   *)
LEMMA NormalizedType ==
  ASSUME NEW E, NEW rules \in Seq(E)
  PROVE  NormalizeEvictionRules(rules) \in Seq(E \cup {"oldest-completed"})
<1> DEFINE A == E \cup {"oldest-completed"}
<1>1. <<"oldest-completed">> \in Seq(A)
  OBVIOUS
<1>2. rules \in Seq(A)
  <2>1. rules \in [1 .. Len(rules) -> A] /\ Len(rules) \in Nat
    OBVIOUS
  <2> HIDE DEF A
  <2> QED BY <2>1, SeqDef
<1> HIDE DEF A
<1>3. NormalizeEvictionRules(rules) \in Seq(A)
  BY <1>1, <1>2, NonBlankType DEF NormalizeEvictionRules
<1> QED BY <1>3 DEF A

--------------------------------------------------------------------------------

(* Playback times never run ahead of the clock.                            *)
Horizon == 2 * MaxEvents + 2

TimeInv == /\ \A x \in Releases : playback[x].at <= Horizon
           /\ \A p \in Passes, t \in Titles : pass[p].played[t].at <= Horizon

Typed == TypeOK /\ TimeInv

(* What makes a torrent protected from the moment of the survey on, from   *)
(* what the pass remembers of it alone.                                    *)
Frozen(p, r) ==
  LET protect == pass[p].settings.protect
  IN  \/ "incomplete" \in protect /\ r \notin pass[p].whole
      \/ "leased" \in protect /\ r \in pass[p].flags
      \/ "favorites" \in protect /\ TitlesOf(r) \cap pass[p].liked # {}
      \/ "neverWatched" \in protect /\ \A t \in TitlesOf(r) : ~pass[p].played[t].watched

(* The history of protected torrents agrees with what the pass remembers,  *)
(* so the choice never falls on one of them.                               *)
ProtectInv ==
  \A p \in Passes :
     /\ pass[p].at = "weigh" => \A r \in shield[p] : Frozen(p, r)
     /\ pass[p].at = "evict" => pass[p].victim \notin shield[p]

(* The latest of finitely many times, which a bound makes them.            *)
LEMMA LatestExists ==
  ASSUME NEW B \in Nat, NEW S \in SUBSET (0 .. B), S # {}
  PROVE  \E m \in S : \A n \in S : n <= m
<1> DEFINE T == {B - m : m \in S}
<1>1. T \in SUBSET Nat /\ T # {}
  <2>1. \A m \in S : B - m \in Nat
    OBVIOUS
  <2> QED BY <2>1
<1>2. PICK k \in T : \A n \in T : k <= n
  <2> HIDE DEF T
  <2> QED BY <1>1, LeastNumber
<1>3. PICK m \in S : k = B - m
  BY <1>2
<1>4. \A n \in S : n <= m
  <2> SUFFICES ASSUME NEW n \in S PROVE n <= m
    OBVIOUS
  <2>1. B - n \in T
    OBVIOUS
  <2>3. n \in Nat /\ m \in Nat
    OBVIOUS
  <2>2. k <= B - n
    BY <1>2, <2>1
  <2> HIDE DEF T
  <2> QED BY <1>3, <2>2, <2>3
<1> QED BY <1>4

LEMMA LatestIsOne ==
  ASSUME NEW B \in Nat, NEW S \in SUBSET (0 .. B), S # {}
  PROVE  Latest(S) \in S
BY LatestExists DEF Latest

(* The titles of a torrent are titles.                                     *)
LEMMA TitlesAreTitles ==
  ASSUME NEW r \in Routes
  PROVE  TitlesOf(r) \subseteq Titles
BY RoutesAssumption DEF TitlesOf

(* What the survey knows of a title is a playback within the clock.        *)
LEMMA LatestOfIsPlayback ==
  ASSUME NEW t, NEW S \in SUBSET Releases, playback \in [Releases -> Playback],
         \A x \in Releases : playback[x].at <= Horizon
  PROVE  LatestOf(t, S) \in Playback /\ LatestOf(t, S).at <= Horizon
<1> DEFINE played == {playback[x] : x \in {y \in S : TitleOf[y] = t}} \cup {Never}
           T == {k.at : k \in played}
<1>1. Horizon \in Nat /\ Never \in Playback /\ Never.at = 0
  BY BytesAssumption DEF Horizon, Never, Playback
<1>2. ASSUME NEW k \in played PROVE k \in Playback /\ k.at \in 0 .. Horizon
  <2>1. CASE k = Never
    BY <1>1, <2>1
  <2>2. CASE k # Never
    <3>1. PICK x \in S : k = playback[x]
      BY <2>2
    <3>2. k \in Playback /\ k.at <= Horizon
      BY <3>1
    <3>3. k.at \in Nat
      BY <3>2 DEF Playback
    <3> QED BY <1>1, <3>2, <3>3
  <2> QED BY <2>1, <2>2
<1>3. T \in SUBSET (0 .. Horizon) /\ T # {}
  <2> HIDE DEF played
  <2>1. Never \in played
    BY DEF played
  <2> QED BY <1>2, <2>1
<1>4. PICK m \in T : \A n \in T : n <= m
  <2> HIDE DEF T
  <2> QED BY <1>1, <1>3, LatestExists
<1>5. PICK l \in played : l.at = m
  <2> HIDE DEF played
  <2> QED BY <1>4
<1>6. \A k \in played : k.at <= l.at
  <2> HIDE DEF played
  <2> QED BY <1>4, <1>5
<1>7. LatestOf(t, S) \in played
  <2>1. LatestOf(t, S) = CHOOSE x \in played : \A k \in played : k.at <= x.at
    BY Zenon DEF LatestOf
  <2> HIDE DEF played
  <2> QED BY <1>6, <2>1
<1>8. LatestOf(t, S) \in Playback /\ LatestOf(t, S).at \in 0 .. Horizon
  <2> HIDE DEF played
  <2> QED BY <1>2, <1>7
<1> QED BY <1>1, <1>8

LEMMA LatestByTitleType ==
  ASSUME rows \subseteq Routes, playback \in [Releases -> Playback],
         \A x \in Releases : playback[x].at <= Horizon
  PROVE  /\ LatestByTitle \in [Titles -> Playback]
         /\ \A t \in Titles : LatestByTitle[t].at <= Horizon
<1> DEFINE S == UNION {ReleasesOf[r] : r \in rows}
<1>1. S \in SUBSET Releases
  BY RoutesAssumption
<1>2. LatestByTitle = [t \in Titles |-> LatestOf(t, S)]
  BY Zenon DEF LatestByTitle
<1> HIDE DEF S
<1>3. \A t \in Titles : LatestOf(t, S) \in Playback /\ LatestOf(t, S).at <= Horizon
  BY <1>1, LatestOfIsPlayback
<1> QED BY <1>2, <1>3

(* What is known of a torrent, from any household state within the clock.  *)
facts(r, ages, liked, played) ==
  LET seen == {t \in TitlesOf(r) : played[t].at > 0}
  IN  [engineID   |-> r,
       updated    |-> ages[r],
       lastPlayed |-> IF seen = {} THEN 0 ELSE Latest({played[t].at : t \in seen}),
       watched    |-> \E t \in seen : played[t].watched,
       favorite   |-> TitlesOf(r) \cap liked # {},
       bytes      |-> Size[r]]

(* ... is a route the rules can compare.                                   *)
LEMMA FactsType ==
  ASSUME NEW r \in Routes, NEW ages \in [Routes -> (SUBSET Nat) \ {{}}], NEW liked,
         NEW played \in [Titles -> Playback], \A t \in Titles : played[t].at <= Horizon
  PROVE  facts(r, ages, liked, played) \in Route /\ facts(r, ages, liked, played).engineID = r
<1> DEFINE seen == {t \in TitlesOf(r) : played[t].at > 0}
           S == {played[t].at : t \in seen}
           last == IF seen = {} THEN 0 ELSE Latest(S)
           w == \E t \in seen : played[t].watched
           f == TitlesOf(r) \cap liked # {}
<1>1. /\ r \in Nat /\ TitlesOf(r) \subseteq Titles /\ Size[r] \in Nat
      /\ ages[r] \in (SUBSET Nat) \ {{}} /\ Horizon \in Nat
  BY TitlesAreTitles, RoutesAssumption, BytesAssumption DEF Horizon
<1>2. \A t \in Titles : played[t].at \in 0 .. Horizon
  BY <1>1 DEF Playback
<1>3. last \in Nat
  <2>1. CASE seen = {}
    BY <2>1
  <2>2. CASE seen # {}
    <3>1. S \in SUBSET (0 .. Horizon) /\ S # {}
      BY <1>1, <1>2, <2>2
    <3>2. Latest(S) \in S
      <4> HIDE DEF S
      <4> QED BY <1>1, <3>1, LatestIsOne
    <3>3. Latest(S) \in Nat
      <4>1. S \subseteq Nat
        <5>1. 0 .. Horizon \subseteq Nat
          BY <1>1
        <5> HIDE DEF S
        <5> QED BY <3>1, <5>1
      <4> HIDE DEF S
      <4> QED BY <3>2, <4>1
    <3> QED BY <2>2, <3>3
  <2> QED BY <2>1, <2>2
<1>4. w \in BOOLEAN /\ f \in BOOLEAN
  OBVIOUS
<1>5. facts(r, ages, liked, played)
        = [engineID |-> r, updated |-> ages[r], lastPlayed |-> last, watched |-> w,
           favorite |-> f, bytes |-> Size[r]]
  BY Zenon DEF facts
<1> HIDE DEF last, w, f
<1> QED BY <1>1, <1>3, <1>4, <1>5 DEF Route

(* routeFacts is that, of what the pass remembers.                         *)
LEMMA RememberedFacts ==
  ASSUME NEW p, NEW r
  PROVE  routeFacts(p, r) = facts(r, pass[p].ages, pass[p].liked, pass[p].played)
BY Zenon DEF routeFacts, facts

--------------------------------------------------------------------------------

(* What the fields of a pass are.                                          *)
LEMMA PassFields ==
  ASSUME NEW p \in Passes, TypeOK
  PROVE  /\ pass \in [Passes -> Pass] /\ pass[p] \in Pass
         /\ pass[p].settings \in Settings /\ pass[p].settings.rules \in Seq(STRING)
         /\ pass[p].seen \subseteq Routes /\ pass[p].whole \subseteq Routes
         /\ pass[p].ages \in [Routes -> (SUBSET Nat) \ {{}}]
         /\ pass[p].played \in [Titles -> Playback]
         /\ pass[p].victim \in Routes \cup {Nobody}
BY DEF TypeOK, Pass, Settings

(* A plan is a set of routes, one per torrent.                             *)
LEMMA PlanType ==
  ASSUME Typed, NEW p \in Passes, NEW mute
  PROVE  /\ Plan(p, mute) \in SUBSET Route
         /\ \A a, b \in Plan(p, mute) : a.engineID = b.engineID => a = b
         /\ \A a \in Plan(p, mute) : a.engineID \in Described(p, mute)
<1>1. \A r \in Described(p, mute) :
         routeFacts(p, r) \in Route /\ routeFacts(p, r).engineID = r
  <2> SUFFICES ASSUME NEW r \in Described(p, mute)
               PROVE  routeFacts(p, r) \in Route /\ routeFacts(p, r).engineID = r
    OBVIOUS
  <2>1. r \in Routes
    BY PassFields DEF Described, Typed
  <2> QED BY <2>1, PassFields, FactsType, RememberedFacts DEF Typed, TimeInv
<1> QED BY <1>1 DEF Plan

(* Whatever the user's list of rules, the torrents of a plan are ordered.  *)
LEMMA PlansAreOrdered == Typed => OrderIsTotal
<1> SUFFICES ASSUME Typed, NEW p \in Passes
             PROVE  StrictTotalOrder(NormalizeEvictionRules(pass[p].settings.rules), Plan(p, {}))
  BY DEF OrderIsTotal
<1>1. NormalizeEvictionRules(pass[p].settings.rules) \in Seq(STRING \cup {"oldest-completed"})
  BY PassFields, NormalizedType DEF Typed
<1> QED BY <1>1, PlanType, OrderTheorem

(* The pass at rest is a pass ...                                          *)
LEMMA RestingType == Resting \in Pass
<1>1. Unset \in Settings
  <2>1. << >> \in Seq(STRING)
    OBVIOUS
  <2> QED BY <2>1 DEF Unset, Settings, Toggles
<1>2. Never \in Playback /\ Blank \in [Titles -> Playback]
  BY DEF Never, Playback, Blank
<1>3. Updated \in [Routes -> (SUBSET Nat) \ {{}}]
  BY RoutesAssumption
<1> HIDE DEF Unset, Blank
<1> QED BY <1>1, <1>2, <1>3 DEF Resting, Pass, Stages, Outcomes

(* ... and so is what a call that ends it, or chooses a victim, makes.     *)
LEMMA RestingEdits ==
  ASSUME NEW o \in Outcomes, NEW s \in Settings, NEW r \in Routes \cup {Nobody}
  PROVE  /\ [Resting EXCEPT !.outcome = o] \in Pass
         /\ [Resting EXCEPT !.at = "evict", !.victim = r, !.settings = s] \in Pass
BY RestingType DEF Pass, Stages

(* What a survey finds now is such household state.                        *)
LEMMA HouseholdNow ==
  ASSUME Typed
  PROVE  /\ LatestByTitle \in [Titles -> Playback]
         /\ \A t \in Titles : LatestByTitle[t].at <= Horizon
BY LatestByTitleType DEF Typed, TypeOK, TimeInv

(* The calls of a pass, by what they leave alone: the world; everything    *)
(* but the engine and the table; everything the passes carry.              *)
Quietly(p) == \/ Begin(p) \/ Survey(p)
              \/ \E mute \in Mutes, freeErr \in FreeErrs :
                   Fits(p, mute, freeErr) \/ Choose(p, mute, freeErr) \/ Stuck(p, mute, freeErr)
              \/ \E mute \in Mutes : Fail(p, mute)

LEMMA PassesMove ==
  ASSUME NEW p \in Passes, Typed, Begin(p) \/ Advance(p)
  PROVE  /\ \E x \in Pass : pass' = [pass EXCEPT ![p] = x]
         /\ UNCHANGED <<events, updated, leased, favorites, playback, other, settings>>
         /\ (Quietly(p) /\ UNCHANGED world) \/ EngineRemove(p) \/ ForgetRows(p)
<1>0. /\ pass[p] \in Pass /\ pass \in [Passes -> Pass] /\ settings \in Settings
      /\ rows \subseteq Routes /\ complete \subseteq Routes /\ leased \subseteq Routes
      /\ updated \in [Routes -> (SUBSET Nat) \ {{}}] /\ favorites \subseteq Titles
      /\ LatestByTitle \in [Titles -> Playback] /\ pass[p].settings \in Settings
  BY PassFields, HouseholdNow DEF Typed, TypeOK
<1> DEFINE Goal == /\ \E x \in Pass : pass' = [pass EXCEPT ![p] = x]
                   /\ UNCHANGED <<events, updated, leased, favorites, playback, other, settings>>
                   /\ (Quietly(p) /\ UNCHANGED world) \/ EngineRemove(p) \/ ForgetRows(p)
<1>1. ASSUME NEW x \in Pass, pass' = [pass EXCEPT ![p] = x], UNCHANGED <<world, events>>, Quietly(p)
      PROVE  Goal
  BY <1>1 DEF world
<1>2. ASSUME NEW o \in Outcomes, End(p, o)
      PROVE  \E x \in Pass : pass' = [pass EXCEPT ![p] = x]
  BY <1>0, <1>2, RestingEdits DEF End
<1>3. CASE Begin(p)
  <2>1. pass' = [pass EXCEPT ![p] = [pass[p] EXCEPT !.at = "survey", !.settings = settings,
                                                    !.outcome = "none"]]
    BY <1>0, <1>3 DEF Begin
  <2>2. [pass[p] EXCEPT !.at = "survey", !.settings = settings, !.outcome = "none"] \in Pass
    BY <1>0 DEF Pass, Stages, Outcomes
  <2> QED BY <1>1, <1>3, <2>1, <2>2 DEF Begin, Quietly, Move
<1>4. CASE Survey(p)
  <2> DEFINE x == [pass[p] EXCEPT !.at = "weigh", !.seen = rows, !.whole = complete,
                                  !.flags = leased, !.ages = updated,
                                  !.liked = favorites, !.played = LatestByTitle]
  <2>1. pass' = [pass EXCEPT ![p] = x]
    BY <1>0, <1>4 DEF Survey
  <2>2. x \in Pass
    BY <1>0 DEF Pass, Stages
  <2> QED BY <1>1, <1>4, <2>1, <2>2 DEF Survey, Quietly, Move
<1>5. ASSUME NEW mute \in Mutes, NEW freeErr \in FreeErrs, Fits(p, mute, freeErr)
      PROVE  Goal
  <2>1. \E o \in Outcomes : End(p, o)
    BY <1>5 DEF Fits, Outcomes
  <2> QED BY <1>1, <1>2, <1>5, <2>1 DEF Fits, Quietly, Move
<1>6. ASSUME NEW mute \in Mutes, NEW freeErr \in FreeErrs, Stuck(p, mute, freeErr)
      PROVE  Goal
  <2>1. \E o \in Outcomes : End(p, o)
    BY <1>6 DEF Stuck, StuckOutcome, Outcomes
  <2> QED BY <1>1, <1>2, <1>6, <2>1 DEF Stuck, Quietly, Move
<1>7. ASSUME NEW mute \in Mutes, NEW freeErr \in FreeErrs, Choose(p, mute, freeErr)
      PROVE  Goal
  <2>1. PICK r \in Victims(p, mute) :
          pass' = [pass EXCEPT ![p] = [Resting EXCEPT !.at = "evict", !.victim = r,
                                                   !.settings = pass[p].settings]]
    BY <1>7 DEF Choose
  <2>2. r \in Routes
    <3>1. PICK a \in Candidates(p, mute) : r = a.engineID
      BY <2>1 DEF Victims, EvictedFirst
    <3>2. PICK x \in Described(p, mute) : a = routeFacts(p, x)
      BY <3>1 DEF Candidates, Plan
    <3>3. a.engineID = x
      BY <3>2 DEF routeFacts
    <3> QED BY <3>1, <3>2, <3>3, PassFields DEF Described, Typed
  <2>3. [Resting EXCEPT !.at = "evict", !.victim = r, !.settings = pass[p].settings] \in Pass
    BY <1>0, <2>2, RestingEdits DEF Outcomes
  <2> QED BY <1>1, <1>7, <2>1, <2>3 DEF Choose, Quietly, Move
<1>8. ASSUME NEW mute \in Mutes, Fail(p, mute) PROVE Goal
  <2>1. \E o \in Outcomes : End(p, o)
    BY <1>8 DEF Fail, Outcomes
  <2> QED BY <1>1, <1>2, <1>8, <2>1 DEF Fail, Quietly, Move
<1>9. CASE EngineRemove(p)
  <2>1. pass' = [pass EXCEPT ![p] = [pass[p] EXCEPT !.at = "forget"]]
        /\ [pass[p] EXCEPT !.at = "forget"] \in Pass
    BY <1>0, <1>9 DEF EngineRemove, Pass, Stages
  <2> QED BY <1>9, <2>1 DEF EngineRemove, Move
<1>10. CASE ForgetRows(p)
  <2>1. pass' = [pass EXCEPT ![p] = [pass[p] EXCEPT !.at = "survey", !.victim = Nobody]]
        /\ [pass[p] EXCEPT !.at = "survey", !.victim = Nobody] \in Pass
    BY <1>0, <1>10 DEF ForgetRows, Pass, Stages
  <2> QED BY <1>10, <2>1 DEF ForgetRows, Move
<1> QED
  BY <1>3, <1>4, <1>5, <1>6, <1>7, <1>8, <1>9, <1>10 DEF Advance

--------------------------------------------------------------------------------

(* A step of a pass that moves no other pass and no clock.                 *)
LEMMA PassKeepsTyped ==
  ASSUME Typed, NEW p \in Passes, Begin(p) \/ Advance(p)
  PROVE  /\ pass' \in [Passes -> Pass] /\ rows' \subseteq Routes
         /\ torrents' \subseteq Routes /\ complete' \subseteq torrents'
         /\ \A q \in Passes, t \in Titles : pass'[q].played[t].at <= Horizon
         /\ pass' = [pass EXCEPT ![p] = pass'[p]]
<1>1. PICK x \in Pass : pass' = [pass EXCEPT ![p] = x]
  BY PassesMove
<1>2. pass' \in [Passes -> Pass] /\ pass'[p] = x /\ \A q \in Passes \ {p} : pass'[q] = pass[q]
  BY <1>1, PassFields DEF Typed
<1>3. rows' \subseteq Routes /\ torrents' \subseteq Routes /\ complete' \subseteq torrents'
  <2>1. CASE UNCHANGED world
    BY <2>1 DEF world, Typed, TypeOK
  <2>2. CASE EngineRemove(p)
    BY <2>2 DEF EngineRemove, Typed, TypeOK
  <2>3. CASE ForgetRows(p)
    BY <2>3 DEF ForgetRows, Typed, TypeOK
  <2> QED BY <2>1, <2>2, <2>3, PassesMove DEF Typed
<1>4. \A t \in Titles : Blank[t].at <= Horizon
  BY BytesAssumption DEF Blank, Never, Horizon
<1>5. pass'[p].played \in {pass[p].played, Blank, LatestByTitle}
  <2>1. ASSUME NEW o, End(p, o) PROVE pass'[p].played = Blank
    <3>1. pass'[p] = [Resting EXCEPT !.outcome = o]
      BY <2>1, PassFields DEF End, Typed
    <3> QED BY <3>1 DEF Resting
  <2>2. CASE Begin(p)
    BY <2>2, PassFields DEF Begin, Typed, Pass
  <2>3. CASE Survey(p)
    BY <2>3, PassFields DEF Survey, Typed, Pass
  <2>4. ASSUME NEW mute \in Mutes, NEW freeErr \in FreeErrs,
               Fits(p, mute, freeErr) \/ Stuck(p, mute, freeErr)
        PROVE  pass'[p].played = Blank
    BY <2>1, <2>4 DEF Fits, Stuck
  <2>5. ASSUME NEW mute \in Mutes, NEW freeErr \in FreeErrs, Choose(p, mute, freeErr)
        PROVE  pass'[p].played = Blank
    <3>1. PICK r : pass'[p] = [Resting EXCEPT !.at = "evict", !.victim = r,
                                              !.settings = pass[p].settings]
      BY <2>5, PassFields DEF Choose, Typed
    <3> QED BY <3>1 DEF Resting
  <2>6. ASSUME NEW mute \in Mutes, Fail(p, mute) PROVE pass'[p].played = Blank
    BY <2>1, <2>6 DEF Fail
  <2>7. CASE EngineRemove(p)
    BY <2>7, PassFields DEF EngineRemove, Typed, Pass
  <2>8. CASE ForgetRows(p)
    BY <2>8, PassFields DEF ForgetRows, Typed, Pass
  <2> QED BY <2>2, <2>3, <2>4, <2>5, <2>6, <2>7, <2>8 DEF Advance
<1>6. \A t \in Titles : LatestByTitle[t].at <= Horizon
  BY HouseholdNow
<1> HIDE DEF LatestByTitle
<1> QED BY <1>1, <1>2, <1>3, <1>4, <1>5, <1>6 DEF Typed, TimeInv

(* What happens outside the passes, by what it leaves alone.               *)
LEMMA EventsMove ==
  ASSUME Event
  PROVE  /\ Happens
         /\ torrents \subseteq torrents'
BY DEF Event, Acquire, Release, SetLease, Prepare, Complete, SetTitleFavorite,
       UpdatePlayback, SaveSettings, OtherFiles

(* ... and keeps the types of.                                             *)
LEMMA EventsKeepTyped ==
  ASSUME Typed, Event
  PROVE  /\ rows' \subseteq Routes /\ torrents' \subseteq Routes
         /\ updated' \in [Routes -> (SUBSET Nat) \ {{}}]
         /\ complete' \subseteq torrents' /\ leased' \subseteq Routes
         /\ favorites' \subseteq Titles /\ other' \in Nat /\ settings' \in Settings
         /\ playback' \in [Releases -> Playback]
         /\ \A x \in Releases : playback'[x].at <= Horizon
<1>0. Now \in Nat /\ Now <= Horizon
  <2>1. events \in Nat /\ events < MaxEvents /\ MaxEvents \in Nat
    BY EventsMove, BytesAssumption DEF Happens, Typed, TypeOK
  <2> QED BY <2>1 DEF Now, Horizon
<1>1. ASSUME NEW r \in Routes, SetLease(r)
      PROVE  updated' \in [Routes -> (SUBSET Nat) \ {{}}]
  <2>1. PICK u \in updated[r] : updated' = [updated EXCEPT ![r] = (updated[r] \ {u}) \cup {Now}]
    BY <1>1 DEF SetLease
  <2>2. (updated[r] \ {u}) \cup {Now} \in (SUBSET Nat) \ {{}}
    BY <1>0 DEF Typed, TypeOK
  <2> QED BY <2>1, <2>2 DEF Typed, TypeOK
<1>2. ASSUME NEW r \in Routes, Acquire(r) \/ Release(r) PROVE SetLease(r) /\ leased' \subseteq Routes
  BY <1>2 DEF Acquire, Release, Typed, TypeOK
<1>3. ASSUME NEW r \in Routes, Prepare(r)
      PROVE  updated' \in [Routes -> (SUBSET Nat) \ {{}}]
  BY <1>0, <1>3 DEF Prepare, Typed, TypeOK
<1>4. ASSUME NEW x \in Releases, NEW watched \in BOOLEAN, UpdatePlayback(x, watched)
      PROVE  /\ playback' \in [Releases -> Playback]
             /\ \A y \in Releases : playback'[y].at <= Horizon
  <2>1. [at |-> Now, watched |-> watched] \in Playback
    BY <1>0 DEF Playback
  <2>2. playback' = [playback EXCEPT ![x] = [at |-> Now, watched |-> watched]]
    BY <1>4 DEF UpdatePlayback
  <2>3. playback \in [Releases -> Playback] /\ \A y \in Releases : playback[y].at <= Horizon
    BY DEF Typed, TypeOK, TimeInv
  <2> QED BY <1>0, <2>1, <2>2, <2>3
<1>5. ASSUME OtherFiles PROVE other' \in Nat
  BY <1>5, BytesAssumption DEF OtherFiles
<1>6. ASSUME NEW s \in Choices, SaveSettings(s) PROVE settings' \in Settings
  BY <1>6, ChoicesAssumption DEF SaveSettings
<1> DEFINE Types == /\ rows \subseteq Routes /\ torrents \subseteq Routes
                    /\ updated \in [Routes -> (SUBSET Nat) \ {{}}]
                    /\ complete \subseteq torrents /\ leased \subseteq Routes
                    /\ favorites \subseteq Titles /\ other \in Nat /\ settings \in Settings
                    /\ playback \in [Releases -> Playback]
                    /\ \A x \in Releases : playback[x].at <= Horizon
<1>7. Types
  BY DEF Typed, TypeOK, TimeInv
<1>8. ASSUME NEW r \in Routes, Acquire(r) \/ Release(r) PROVE Types'
  BY <1>1, <1>2, <1>7, <1>8 DEF SetLease
<1>9. ASSUME NEW r \in Routes, Prepare(r) PROVE Types'
  BY <1>3, <1>7, <1>9 DEF Prepare
<1>10. ASSUME NEW r \in Routes, Complete(r) PROVE Types'
  BY <1>7, <1>10 DEF Complete
<1>11. ASSUME NEW t \in Titles, SetTitleFavorite(t) PROVE Types'
  BY <1>7, <1>11 DEF SetTitleFavorite
<1>12. ASSUME NEW x \in Releases, NEW watched \in BOOLEAN, UpdatePlayback(x, watched) PROVE Types'
  BY <1>4, <1>7, <1>12 DEF UpdatePlayback
<1>13. ASSUME NEW s \in Choices, SaveSettings(s) PROVE Types'
  BY <1>6, <1>7, <1>13 DEF SaveSettings
<1>14. ASSUME OtherFiles PROVE Types'
  BY <1>5, <1>7, <1>14 DEF OtherFiles
<1> QED BY <1>8, <1>9, <1>10, <1>11, <1>12, <1>13, <1>14 DEF Event

(* The history variables stay of their types at any step.                  *)
LEMMA HistoryTyped ==
  ASSUME Typed, ShieldStep, NEW stirs, NEW shifts, Record(stirs, shifts)
  PROVE  /\ shield' \in [Passes -> SUBSET Routes]
         /\ stirred' \in BOOLEAN /\ shifted' \in BOOLEAN
<1>1. stirred' \in BOOLEAN /\ shifted' \in BOOLEAN
  BY DEF Record
<1>2. rows \in SUBSET Routes /\ \A p \in Passes : shield[p] \in SUBSET Routes
  BY DEF Typed, TypeOK
<1>3. shield' \in [Passes -> SUBSET Routes]
  BY <1>2 DEF ShieldStep
<1> QED BY <1>1, <1>3

(* Every step of a pass writes the history.                                *)
LEMMA PassesRecord ==
  ASSUME NEW p \in Passes, Begin(p) \/ Advance(p)
  PROVE  Move /\ \E stirs, shifts : Record(stirs, shifts)
<1>1. CASE ForgetRows(p)
  BY <1>1 DEF ForgetRows
<1>2. CASE ~ForgetRows(p)
  <2>1. Move /\ \E yes : Stir(yes)
    BY <1>2 DEF Begin, Advance, Survey, EngineRemove, Fits, Choose, Stuck, Fail
  <2> QED BY <2>1 DEF Stir
<1> QED BY <1>1, <1>2

LEMMA TypedInit == Init => Typed
<1> SUFFICES ASSUME Init PROVE Typed
  OBVIOUS
<1>1. playback \in [Releases -> Playback] /\ \A x \in Releases : playback[x].at <= Horizon
  BY BytesAssumption DEF Init, Playback, Never, Horizon
<1>2. pass \in [Passes -> Pass]
  BY RestingType DEF Init
<1>3. \A p \in Passes, t \in Titles : pass[p].played[t].at <= Horizon
  BY BytesAssumption DEF Init, Resting, Blank, Never, Horizon
<1>4. TypeOK
  <2>1. leased \subseteq Routes /\ complete \subseteq torrents /\ rows \subseteq Routes
        /\ torrents \subseteq Routes /\ favorites \subseteq Titles
    BY DEF Init
  <2>2. /\ updated \in [Routes -> (SUBSET Nat) \ {{}}] /\ settings \in Settings
        /\ other \in Nat
    <3>1. settings \in Settings
      BY ChoicesAssumption DEF Init
    <3> QED BY <3>1, RoutesAssumption DEF Init
  <2>3. events \in 0 .. MaxEvents /\ stirred \in BOOLEAN /\ shifted \in BOOLEAN
    <3>1. events = 0
      BY DEF Init
    <3>2. stirred \in BOOLEAN /\ shifted \in BOOLEAN
      BY Zenon DEF Init
    <3> QED BY <3>1, <3>2, BytesAssumption
  <2>4. shield \in [Passes -> SUBSET Routes]
    BY DEF Init
  <2> QED BY <1>1, <1>2, <2>1, <2>2, <2>3, <2>4 DEF TypeOK
<1> QED BY <1>1, <1>3, <1>4 DEF Typed, TimeInv

LEMMA TypedStep == Typed /\ [Next]_vars => Typed'
<1> SUFFICES ASSUME Typed, [Next]_vars PROVE Typed'
  OBVIOUS
<1>1. ASSUME NEW p \in Passes, Begin(p) \/ Advance(p) PROVE Typed'
  <2>1. /\ UNCHANGED <<events, updated, leased, favorites, playback, other, settings>>
    BY <1>1, PassesMove DEF Typed
  <2>2. /\ shield' \in [Passes -> SUBSET Routes]
        /\ stirred' \in BOOLEAN /\ shifted' \in BOOLEAN
    BY <1>1, PassesRecord, HistoryTyped DEF Move
  <2> QED BY <1>1, <2>1, <2>2, PassKeepsTyped DEF Typed, TypeOK, TimeInv
<1>2. CASE Event
  <2>1. Happens
    BY <1>2, EventsMove
  <2>2. /\ shield' \in [Passes -> SUBSET Routes]
        /\ stirred' \in BOOLEAN /\ shifted' \in BOOLEAN
    BY <2>1, HistoryTyped DEF Happens, Stir
  <2>3. events' \in 0 .. MaxEvents /\ UNCHANGED pass
    BY <2>1, BytesAssumption DEF Happens, Typed, TypeOK
  <2> QED BY <1>2, <2>2, <2>3, EventsKeepTyped DEF Typed, TypeOK, TimeInv
<1>3. CASE UNCHANGED vars
  BY <1>3 DEF vars, world, Typed, TypeOK, TimeInv
<1> QED BY <1>1, <1>2, <1>3 DEF Next

--------------------------------------------------------------------------------

(* What the shield of a pass becomes.                                      *)
LEMMA ShieldValues ==
  ASSUME ShieldStep, NEW p \in Passes
  PROVE  /\ pass'[p].at = "weigh" =>
              \/ /\ pass[p].at = "survey"
                 /\ shield'[p] = {r \in rows : Kept(pass[p].settings, r)}
              \/ pass[p].at = "weigh" /\ shield'[p] \subseteq shield[p]
              \/ shield'[p] = {}
         /\ pass'[p].at = "evict" => shield'[p] = shield[p]
<1>1. shield'[p] = CASE pass'[p].at = "weigh" /\ pass[p].at = "survey"
                          -> {r \in rows : Kept(pass[p].settings, r)}
                     [] pass'[p].at = "weigh" /\ pass[p].at = "weigh"
                          -> {r \in shield[p] : Kept(pass[p].settings, r)'}
                     [] pass'[p].at = "evict" -> shield[p]
                     [] OTHER -> {}
  BY DEF ShieldStep
<1> QED BY <1>1

(* What a pass still remembers to be protected is no candidate.            *)
LEMMA FrozenIsProtected ==
  ASSUME NEW p \in Passes, NEW r, Frozen(p, r)
  PROVE  retentionProtected(p, r)
<1> DEFINE protect == pass[p].settings.protect
           played == {t \in TitlesOf(r) : pass[p].played[t].at > 0}
<1>1. /\ routeFacts(p, r).favorite <=> TitlesOf(r) \cap pass[p].liked # {}
      /\ routeFacts(p, r).watched <=> \E t \in played : pass[p].played[t].watched
  BY DEF routeFacts
<1> QED BY <1>1 DEF Frozen, retentionProtected

(* The victim of a choice is a described torrent that is not protected.    *)
LEMMA VictimsAreCandidates ==
  ASSUME NEW p \in Passes, NEW mute, NEW r \in Victims(p, mute)
  PROVE  r \in Described(p, mute) /\ ~retentionProtected(p, r)
<1>1. PICK a \in Candidates(p, mute) : r = a.engineID
  BY DEF Victims, EvictedFirst
<1>2. PICK x \in Described(p, mute) : a = routeFacts(p, x)
  BY <1>1 DEF Candidates, Plan
<1>3. a.engineID = x
  BY <1>2 DEF routeFacts
<1> QED BY <1>1, <1>2, <1>3 DEF Candidates

(* The stages a step of pass p goes through.                               *)
LEMMA StagesMove ==
  ASSUME Typed, NEW p \in Passes, Begin(p) \/ Advance(p)
  PROVE  /\ pass'[p].at = "weigh" => Survey(p)
         /\ pass'[p].at = "evict" =>
              /\ pass[p].at = "weigh"
              /\ \E mute : pass'[p].victim \in Victims(p, mute)
<1>0. pass[p] \in Pass /\ pass \in [Passes -> Pass]
  BY PassFields DEF Typed
<1>1. ASSUME NEW o, End(p, o) PROVE pass'[p].at = "idle"
  <2>1. pass'[p] = [Resting EXCEPT !.outcome = o]
    BY <1>0, <1>1 DEF End
  <2> QED BY <2>1 DEF Resting
<1>2. CASE Begin(p)
  <2>1. pass'[p].at = "survey"
    BY <1>0, <1>2 DEF Begin, Pass
  <2> QED BY <2>1
<1>3. CASE Survey(p)
  <2>1. pass'[p].at = "weigh"
    BY <1>0, <1>3 DEF Survey, Pass
  <2> QED BY <1>3, <2>1
<1>4. ASSUME NEW mute \in Mutes, NEW freeErr \in FreeErrs,
             Fits(p, mute, freeErr) \/ Stuck(p, mute, freeErr)
      PROVE  pass'[p].at = "idle"
  BY <1>1, <1>4 DEF Fits, Stuck
<1>5. ASSUME NEW mute \in Mutes, NEW freeErr \in FreeErrs, Choose(p, mute, freeErr)
      PROVE  /\ pass[p].at = "weigh" /\ pass'[p].at = "evict"
             /\ pass'[p].victim \in Victims(p, mute)
  <2>1. PICK r \in Victims(p, mute) :
          pass'[p] = [Resting EXCEPT !.at = "evict", !.victim = r, !.settings = pass[p].settings]
    BY <1>0, <1>5 DEF Choose
  <2>2. pass'[p].at = "evict" /\ pass'[p].victim = r
    BY <2>1 DEF Resting
  <2> QED BY <1>5, <2>2 DEF Choose
<1>6. ASSUME NEW mute \in Mutes, Fail(p, mute) PROVE pass'[p].at = "idle"
  BY <1>1, <1>6 DEF Fail
<1>7. CASE EngineRemove(p)
  <2>1. pass'[p].at = "forget"
    BY <1>0, <1>7 DEF EngineRemove, Pass
  <2> QED BY <2>1
<1>8. CASE ForgetRows(p)
  <2>1. pass'[p].at = "survey"
    BY <1>0, <1>8 DEF ForgetRows, Pass
  <2> QED BY <2>1
<1> QED
  <2>1. CASE Begin(p) BY <1>2, <2>1
  <2>2. CASE \E mute \in Mutes, freeErr \in FreeErrs :
               Fits(p, mute, freeErr) \/ Choose(p, mute, freeErr) \/ Stuck(p, mute, freeErr)
    <3>1. PICK mute \in Mutes, freeErr \in FreeErrs :
            Fits(p, mute, freeErr) \/ Choose(p, mute, freeErr) \/ Stuck(p, mute, freeErr)
      BY <2>2
    <3>2. CASE Choose(p, mute, freeErr) BY <1>5, <3>2
    <3>3. CASE Fits(p, mute, freeErr) \/ Stuck(p, mute, freeErr) BY <1>4, <3>3
    <3> QED BY <3>1, <3>2, <3>3
  <2>3. CASE \E mute \in Mutes : Fail(p, mute) BY <1>6, <2>3
  <2> QED BY <1>3, <1>7, <1>8, <2>1, <2>2, <2>3 DEF Advance

(* Pass p and its shield are left alone, or it goes on with less of it.    *)
LEMMA OthersKeepProtect ==
  ASSUME Typed, ProtectInv, ShieldStep, NEW p \in Passes, pass'[p] = pass[p]
  PROVE  /\ pass'[p].at = "weigh" => \A r \in shield'[p] : Frozen(p, r)'
         /\ pass'[p].at = "evict" => pass'[p].victim \notin shield'[p]
BY ShieldValues DEF ProtectInv, Frozen

(* The protection of a survey holds until the pass has chosen.             *)
LEMMA ProtectStep == Typed /\ ProtectInv /\ [Next]_vars => ProtectInv'
<1> SUFFICES ASSUME Typed, ProtectInv, [Next]_vars PROVE ProtectInv'
  OBVIOUS
<1>1. ASSUME NEW p \in Passes, Begin(p) \/ Advance(p) PROVE ProtectInv'
  <2> SUFFICES ASSUME NEW q \in Passes
               PROVE  /\ pass'[q].at = "weigh" => \A r \in shield'[q] : Frozen(q, r)'
                      /\ pass'[q].at = "evict" => pass'[q].victim \notin shield'[q]
    BY DEF ProtectInv
  <2>0. ShieldStep
    BY <1>1, PassesRecord DEF Move
  <2>1. CASE q # p
    <3>1. pass'[q] = pass[q]
      BY <1>1, <2>1, PassKeepsTyped, PassFields DEF Typed
    <3> QED BY <2>0, <3>1, OthersKeepProtect
  <2>2. CASE q = p /\ pass'[p].at = "weigh"
    <3>1. Survey(p)
      BY <1>1, <2>2, StagesMove
    <3>2. /\ pass[p].at = "survey" /\ pass'[p].settings = pass[p].settings
          /\ pass'[p].whole = complete /\ pass'[p].flags = leased
          /\ pass'[p].liked = favorites /\ pass'[p].played = LatestByTitle
      BY <3>1, PassFields DEF Survey, Typed, Pass
    <3>3. \A r \in shield'[p] : Kept(pass[p].settings, r)
      BY <2>0, <2>2, <3>2, ShieldValues
    <3>4. ASSUME NEW r, Kept(pass[p].settings, r) PROVE Frozen(p, r)'
      <4> HIDE DEF LatestByTitle
      <4> QED BY <3>2, <3>4 DEF Kept, Frozen
    <3> QED BY <2>2, <3>3, <3>4
  <2>3. CASE q = p /\ pass'[p].at = "evict"
    <3>1. pass[p].at = "weigh"
      BY <1>1, <2>3, StagesMove
    <3>2. PICK mute : pass'[p].victim \in Victims(p, mute)
      BY <1>1, <2>3, StagesMove
    <3>3. ~Frozen(p, pass'[p].victim)
      BY <3>2, VictimsAreCandidates, FrozenIsProtected
    <3>4. shield'[p] = shield[p]
      BY <2>0, <2>3, ShieldValues
    <3> QED BY <2>3, <3>1, <3>3, <3>4 DEF ProtectInv
  <2> QED BY <2>1, <2>2, <2>3
<1>2. CASE Event
  BY <1>2, EventsMove, OthersKeepProtect DEF Happens, ProtectInv
<1>3. CASE UNCHANGED vars
  BY <1>3 DEF vars, world, ProtectInv, Frozen
<1> QED BY <1>1, <1>2, <1>3 DEF Next

LEMMA ProtectInit == Init => ProtectInv
BY DEF Init, ProtectInv, Resting

(* Every reachable state has what the rules and the protection rest on.    *)
LEMMA RetentionInvariant == Spec => [](Typed /\ ProtectInv)
<1>1. Init => Typed /\ ProtectInv
  BY TypedInit, ProtectInit
<1>2. Typed /\ ProtectInv /\ [Next]_vars => (Typed /\ ProtectInv)'
  BY TypedStep, ProtectStep
<1> QED BY <1>1, <1>2, PTL DEF Spec

(* The rules order the torrents of every plan strictly and totally,        *)
(* whatever list of them the user composed, and no pass removes a torrent  *)
(* that was protected when it surveyed and until it chose.                 *)
THEOREM RetentionTheorem == Spec => []RetentionSafe
<1>1. Typed /\ ProtectInv => RetentionSafe
  BY PlansAreOrdered DEF Typed, ProtectInv, ProtectionHolds, RetentionSafe
<1> QED BY <1>1, RetentionInvariant, PTL

--------------------------------------------------------------------------------

(* What a pass would see, protect and remove, if it surveyed now.          *)
FactsNow(r) == facts(r, updated, favorites, LatestByTitle)

ProtectedNow(r) ==
  \/ "incomplete" \in settings.protect /\ r \notin complete
  \/ "leased" \in settings.protect /\ r \in leased
  \/ "favorites" \in settings.protect /\ FactsNow(r).favorite
  \/ "neverWatched" \in settings.protect /\ ~FactsNow(r).watched

CandidatesNow == {FactsNow(r) : r \in {x \in rows \cap torrents : ~ProtectedNow(x)}}

VictimsNow == {a.engineID : a \in EvictedFirst(NormalizeEvictionRules(settings.rules),
                                               CandidatesNow)}

(* What a pass remembers of the titles of the torrents that are left.      *)
Agrees(p) == \A r \in rows \cap torrents : \A t \in TitlesOf(r) :
                pass[p].played[t] = LatestByTitle[t]

(* A pass that nothing but the other pass came between still knows which   *)
(* torrents there are, ...                                                 *)
Sees(p) ==
  /\ pass[p].at = "weigh" => pass[p].seen \cap torrents = rows \cap torrents
  /\ pass[p].at = "forget" => pass[p].victim \notin torrents

SeesInv == ~stirred => \A p \in Passes : Sees(p)

(* ... and as long as what it surveyed has not shifted either, the rest of *)
(* the world, and its victim is the one all would choose.                  *)
Undisturbed(p) ==
  /\ pass[p].at # "idle" => pass[p].settings = settings
  /\ pass[p].at = "weigh" =>
       /\ pass[p].seen \cap torrents = rows \cap torrents
       /\ pass[p].whole \cap torrents = complete
       /\ pass[p].flags = leased /\ pass[p].liked = favorites
       /\ Agrees(p) /\ pass[p].ages = updated
  /\ pass[p].at = "evict" /\ pass[p].victim \in torrents =>
       pass[p].victim \in VictimsNow /\ Needed(p)
  /\ pass[p].at = "forget" => pass[p].victim \notin torrents

QuietInv == ~stirred /\ ~shifted => \A p \in Passes : Undisturbed(p)

(* The facts of a torrent are those of its own titles.                     *)
LEMMA FactsAgree ==
  ASSUME NEW r, NEW ages, NEW liked, NEW f, NEW g, \A t \in TitlesOf(r) : f[t] = g[t]
  PROVE  facts(r, ages, liked, f) = facts(r, ages, liked, g)
<1>1. {t \in TitlesOf(r) : f[t].at > 0} = {t \in TitlesOf(r) : g[t].at > 0}
  OBVIOUS
<1> DEFINE seen == {t \in TitlesOf(r) : g[t].at > 0}
<1>2. {f[t].at : t \in seen} = {g[t].at : t \in seen}
  OBVIOUS
<1>3. (\E t \in seen : f[t].watched) <=> (\E t \in seen : g[t].watched)
  OBVIOUS
<1> QED BY <1>1, <1>2, <1>3 DEF facts

(* Nothing is new of the titles of the torrents that are left.             *)
TitlesStay == \A r \in rows \cap torrents : \A t \in TitlesOf(r) :
                 LatestByTitle'[t] = LatestByTitle[t]

LEMMA HouseholdStays ==
  ASSUME UNCHANGED <<rows, playback>>
  PROVE  LatestByTitle' = LatestByTitle
BY DEF LatestByTitle, LatestOf

(* All agree: there is one victim at most.                                 *)
LEMMA OneVictim ==
  ASSUME Typed, NEW r \in VictimsNow, NEW s \in VictimsNow
  PROVE  r = s
<1> DEFINE rules == NormalizeEvictionRules(settings.rules)
           S == CandidatesNow
<1>1. settings.rules \in Seq(STRING)
  BY DEF Typed, TypeOK, Settings
<1>2. rules \in Seq(STRING \cup {"oldest-completed"})
  BY <1>1, NormalizedType
<1>3. \A x \in rows : FactsNow(x) \in Route /\ FactsNow(x).engineID = x
  BY FactsType, HouseholdNow DEF FactsNow, Typed, TypeOK, TimeInv
<1>4. S \in SUBSET Route /\ \A a, b \in S : a.engineID = b.engineID => a = b
  BY <1>3 DEF CandidatesNow
<1>5. StrictTotalOrder(rules, S)
  BY <1>2, <1>4, OrderTheorem
<1>6. PICK a \in EvictedFirst(rules, S) : r = a.engineID
  BY DEF VictimsNow
<1>7. PICK b \in EvictedFirst(rules, S) : s = b.engineID
  BY DEF VictimsNow
<1>8. a = b
  BY <1>5, Zenon DEF EvictedFirst, StrictTotalOrder
<1> QED BY <1>6, <1>7, <1>8

(* An undisturbed pass that weighs describes what there is ...             *)
LEMMA UndisturbedDescribes ==
  ASSUME NEW p \in Passes, Undisturbed(p), pass[p].at = "weigh"
  PROVE  /\ Described(p, {}) = rows \cap torrents
         /\ pass[p].settings = settings
BY DEF Undisturbed, Described

(* ... protects what there is to protect ...                               *)
LEMMA UndisturbedProtects ==
  ASSUME NEW p \in Passes, Undisturbed(p), pass[p].at = "weigh", NEW r \in rows \cap torrents
  PROVE  /\ routeFacts(p, r) = FactsNow(r)
         /\ retentionProtected(p, r) <=> ProtectedNow(r)
<1>1. routeFacts(p, r) = FactsNow(r)
  <2>1. /\ pass[p].ages = updated /\ pass[p].liked = favorites
        /\ \A t \in TitlesOf(r) : pass[p].played[t] = LatestByTitle[t]
    BY DEF Undisturbed, Agrees
  <2> QED BY <2>1, RememberedFacts, FactsAgree DEF FactsNow
<1>2. pass[p].settings = settings /\ pass[p].flags = leased
      /\ (r \in pass[p].whole <=> r \in complete)
  BY DEF Undisturbed
<1> QED BY <1>1, <1>2 DEF retentionProtected, ProtectedNow

(* ... and chooses the victim all would choose, when it needs to.          *)
LEMMA UndisturbedChooses ==
  ASSUME NEW p \in Passes, Undisturbed(p), pass[p].at = "weigh", NEW freeErr,
         Tripped(p, {}, freeErr)
  PROVE  Victims(p, {}) = VictimsNow /\ Needed(p)
<1>1. Candidates(p, {}) = CandidatesNow
  <2>1. \A r \in rows \cap torrents :
          /\ routeFacts(p, r) = FactsNow(r) /\ FactsNow(r).engineID = r
          /\ retentionProtected(p, r) <=> ProtectedNow(r)
    BY UndisturbedProtects DEF FactsNow, facts
  <2> QED BY <2>1, UndisturbedDescribes DEF Candidates, Plan, CandidatesNow
<1>2. Victims(p, {}) = VictimsNow
  BY <1>1, UndisturbedDescribes DEF Victims, VictimsNow
<1>3. Needed(p)
  BY UndisturbedDescribes DEF Tripped, OverCap, UnderReserve, storedBytes, Needed
<1> QED BY <1>2, <1>3

(* A pass that the step leaves alone stays undisturbed when the world      *)
(* stays, ...                                                              *)
LEMMA UndisturbedStays ==
  ASSUME NEW q \in Passes, Undisturbed(q), pass'[q] = pass[q],
         UNCHANGED <<torrents, complete, settings, leased, favorites, updated, other>>,
         rows' \cap torrents = rows \cap torrents, TitlesStay
  PROVE  Undisturbed(q)'
<1>1. \A r \in rows \cap torrents : FactsNow(r)' = FactsNow(r)
  <2> SUFFICES ASSUME NEW r \in rows \cap torrents PROVE FactsNow(r)' = FactsNow(r)
    OBVIOUS
  <2>1. \A t \in TitlesOf(r) : LatestByTitle'[t] = LatestByTitle[t]
    BY DEF TitlesStay
  <2>2. FactsNow(r)' = facts(r, updated, favorites, LatestByTitle')
    BY Zenon DEF FactsNow, facts, TitlesOf
  <2>3. facts(r, updated, favorites, LatestByTitle') = facts(r, updated, favorites, LatestByTitle)
    BY <2>1, FactsAgree
  <2> QED BY <2>2, <2>3 DEF FactsNow
<1>2. \A r \in rows \cap torrents : ProtectedNow(r)' <=> ProtectedNow(r)
  BY <1>1 DEF ProtectedNow
<1>3. CandidatesNow' = CandidatesNow
  <2>1. {x \in rows \cap torrents : ~ProtectedNow(x)}' = {x \in rows \cap torrents : ~ProtectedNow(x)}
    BY <1>2
  <2> QED BY <1>1, <2>1 DEF CandidatesNow
<1>4. VictimsNow' = VictimsNow
  BY <1>3 DEF VictimsNow
<1>5. Needed(q)' <=> Needed(q)
  BY DEF Needed, FreeBelow
<1>6. Agrees(q) => Agrees(q)'
  BY DEF Agrees, TitlesStay, TitlesOf
<1> QED BY <1>4, <1>5, <1>6 DEF Undisturbed

(* ... as it does when the rows and the playback stay, ...                 *)
LEMMA UndisturbedByOthers ==
  ASSUME NEW q \in Passes, Undisturbed(q), pass'[q] = pass[q],
         UNCHANGED <<torrents, complete, settings, leased, favorites, updated, other, rows, playback>>
  PROVE  Undisturbed(q)'
BY UndisturbedStays, HouseholdStays DEF TitlesStay

(* ... when a torrent is removed, ...                                      *)
LEMMA UndisturbedByRemoval ==
  ASSUME Typed, NEW p \in Passes, NEW q \in Passes, \A x \in Passes : Undisturbed(x),
         EngineRemove(p)
  PROVE  Undisturbed(q)'
<1>0. pass[p] \in Pass /\ pass[q] \in Pass /\ pass \in [Passes -> Pass]
  BY PassFields DEF Typed
<1>1. /\ pass[p].at = "evict" /\ torrents' = torrents \ {pass[p].victim}
      /\ complete' = complete \ {pass[p].victim}
      /\ UNCHANGED <<rows, updated, leased, favorites, playback, other, settings>>
  BY DEF EngineRemove
<1>2. CASE q = p
  <2>1. /\ pass'[p].at = "forget" /\ pass'[p].victim = pass[p].victim
        /\ pass'[p].settings = pass[p].settings
    BY <1>0 DEF EngineRemove, Pass
  <2> QED BY <1>1, <1>2, <2>1 DEF Undisturbed
<1>3. CASE q # p /\ pass[p].victim \notin torrents
  <2>1. pass'[q] = pass[q] /\ torrents' = torrents /\ complete' = complete
    BY <1>0, <1>1, <1>3 DEF EngineRemove, Typed, TypeOK
  <2> QED BY <1>1, <2>1, UndisturbedByOthers
<1>4. CASE q # p /\ pass[p].victim \in torrents
  <2>1. pass'[q] = pass[q]
    BY <1>0, <1>4 DEF EngineRemove
  <2>4. Agrees(q) => Agrees(q)'
    <3>1. LatestByTitle' = LatestByTitle
      BY <1>1, HouseholdStays
    <3> HIDE DEF LatestByTitle
    <3> QED BY <1>1, <2>1, <3>1 DEF Agrees, TitlesOf
  <2>2. CASE pass[q].at = "evict"
    <3>1. pass[q].victim \in torrents => pass[q].victim = pass[p].victim
      BY <1>1, <1>4, <2>2, OneVictim DEF Undisturbed
    <3> QED BY <1>1, <2>1, <2>2, <3>1 DEF Undisturbed
  <2>3. CASE pass[q].at # "evict"
    BY <1>1, <2>1, <2>3, <2>4 DEF Undisturbed
  <2> QED BY <2>2, <2>3
<1> QED BY <1>2, <1>3, <1>4

(* ... and when the rows of a removed one are forgotten and that shifts    *)
(* nothing.                                                                *)
LEMMA UndisturbedByForgetting ==
  ASSUME Typed, NEW p \in Passes, NEW q \in Passes, \A x \in Passes : Undisturbed(x),
         ForgetRows(p), ~shifted'
  PROVE  Undisturbed(q)'
<1>0. pass[p] \in Pass /\ pass[q] \in Pass /\ pass \in [Passes -> Pass]
  BY PassFields DEF Typed
<1>1. /\ pass[p].at = "forget" /\ rows' = rows \ {pass[p].victim}
      /\ UNCHANGED <<updated, torrents, complete, leased, favorites, playback, other, settings>>
  BY DEF ForgetRows
<1>2. pass[p].victim \notin torrents
  BY <1>1 DEF Undisturbed
<1>3. pass'[p].at = "survey" /\ pass'[p].settings = pass[p].settings
  BY <1>0 DEF ForgetRows, Pass
<1>4. CASE q = p
  BY <1>1, <1>3, <1>4 DEF Undisturbed
<1>5. CASE q # p
  <2>1. pass'[q] = pass[q]
    BY <1>0, <1>5 DEF ForgetRows
  <2>2. ~Shifts
    BY <1>3 DEF ForgetRows, Record
  <2>3. CASE pass[q].at \in {"weigh", "evict"}
    <3>1. TitlesStay
      <4>1. rows \cap torrents \subseteq rows'
        BY <1>1, <1>2
      <4>2. \A r \in rows \cap torrents : TitlesOf(r) \subseteq Titles
        BY TitlesAreTitles DEF Typed, TypeOK
      <4> HIDE DEF LatestByTitle, TitlesOf
      <4> QED BY <2>2, <2>3, <4>1, <4>2 DEF Shifts, TitlesStay
    <3> QED BY <1>1, <1>2, <2>1, <3>1, UndisturbedStays
  <2>4. CASE pass[q].at \notin {"weigh", "evict"}
    BY <1>1, <2>1, <2>4 DEF Undisturbed
  <2> QED BY <2>3, <2>4
<1> QED BY <1>4, <1>5

(* A call that ends the pass.                                              *)
LEMMA EndRests ==
  ASSUME Typed, NEW p \in Passes, NEW o, End(p, o)
  PROVE  pass'[p].at = "idle" /\ pass'[p].outcome = o
<1>1. pass'[p] = [Resting EXCEPT !.outcome = o]
  BY PassFields DEF End, Typed
<1> QED BY <1>1 DEF Resting

(* Only the removal from the engine leads to the forgetting of the rows.   *)
LEMMA CallsForgetNothing ==
  ASSUME Typed, NEW p \in Passes, Quietly(p)
  PROVE  pass'[p].at # "forget"
<1>0. pass[p] \in Pass /\ pass \in [Passes -> Pass]
  BY PassFields DEF Typed
<1>1. CASE Begin(p)
  <2>1. pass'[p].at = "survey"
    BY <1>0, <1>1 DEF Begin, Pass
  <2> QED BY <2>1
<1>2. CASE Survey(p)
  <2>1. pass'[p].at = "weigh"
    BY <1>0, <1>2 DEF Survey, Pass
  <2> QED BY <2>1
<1>3. ASSUME NEW mute \in Mutes, NEW freeErr \in FreeErrs,
             Fits(p, mute, freeErr) \/ Stuck(p, mute, freeErr)
      PROVE  pass'[p].at # "forget"
  <2>1. PICK o : End(p, o)
    BY <1>3 DEF Fits, Stuck
  <2> QED BY <2>1, EndRests
<1>4. ASSUME NEW mute \in Mutes, NEW freeErr \in FreeErrs, Choose(p, mute, freeErr)
      PROVE  pass'[p].at # "forget"
  <2>1. PICK r : pass'[p] = [Resting EXCEPT !.at = "evict", !.victim = r,
                                            !.settings = pass[p].settings]
    BY <1>0, <1>4 DEF Choose
  <2> QED BY <2>1 DEF Resting
<1>5. ASSUME NEW mute \in Mutes, Fail(p, mute) PROVE pass'[p].at # "forget"
  <2>1. PICK o : End(p, o)
    BY <1>5 DEF Fail
  <2> QED BY <2>1, EndRests
<1> QED BY <1>1, <1>2, <1>3, <1>4, <1>5 DEF Quietly

(* The calls of a pass that stir nothing and leave the world alone.        *)
LEMMA UndisturbedByCalls ==
  ASSUME Typed, NEW p \in Passes, \A x \in Passes : Undisturbed(x),
         Quietly(p), UNCHANGED world, ~stirred', NEW q \in Passes
  PROVE  pass'[q].at = "idle" \/ Undisturbed(q)'
<1>0. pass[p] \in Pass /\ pass \in [Passes -> Pass]
  BY PassFields DEF Typed
<1>1. ASSUME pass'[p] # pass[p] => pass'[p].at = "idle" \/ Undisturbed(p)',
             \A x \in Passes \ {p} : pass'[x] = pass[x]
      PROVE  pass'[q].at = "idle" \/ Undisturbed(q)'
  <2>1. CASE pass'[q] = pass[q]
    <3>1. UNCHANGED <<torrents, complete, settings, leased, favorites, playback, updated, other, rows>>
      BY DEF world
    <3> QED BY <2>1, <3>1, UndisturbedByOthers
  <2>2. CASE pass'[q] # pass[q]
    BY <1>1, <2>2
  <2> QED BY <2>1, <2>2
<1>2. CASE Begin(p)
  <2>1. pass'[p].at = "survey" /\ pass'[p].settings = settings
    BY <1>0, <1>2 DEF Begin, Pass
  <2>2. Undisturbed(p)'
    BY <2>1 DEF Undisturbed, world
  <2>3. \A x \in Passes \ {p} : pass'[x] = pass[x]
    BY <1>0, <1>2 DEF Begin
  <2> QED BY <1>1, <2>2, <2>3
<1>3. CASE Survey(p)
  <2>1. /\ pass'[p].at = "weigh" /\ pass'[p].settings = pass[p].settings
        /\ pass'[p].seen = rows /\ pass'[p].whole = complete /\ pass'[p].flags = leased
        /\ pass'[p].ages = updated /\ pass'[p].liked = favorites
        /\ pass'[p].played = LatestByTitle /\ pass[p].at = "survey"
    BY <1>0, <1>3 DEF Survey, Pass
  <2>4. Agrees(p)'
    <3>1. LatestByTitle' = LatestByTitle
      BY HouseholdStays DEF world
    <3> HIDE DEF LatestByTitle
    <3> QED BY <2>1, <3>1 DEF Agrees
  <2>2. Undisturbed(p)'
    BY <2>1, <2>4 DEF Undisturbed, world, Typed, TypeOK
  <2>3. \A x \in Passes \ {p} : pass'[x] = pass[x]
    BY <1>0, <1>3 DEF Survey
  <2> QED BY <1>1, <2>2, <2>3
<1>4. ASSUME NEW o, End(p, o) PROVE pass'[q].at = "idle" \/ Undisturbed(q)'
  <2>1. \A x \in Passes \ {p} : pass'[x] = pass[x]
    BY <1>0, <1>4 DEF End
  <2> QED BY <1>1, <1>4, <2>1, EndRests
<1>5. ASSUME NEW mute \in Mutes, NEW freeErr \in FreeErrs,
             Fits(p, mute, freeErr) \/ Stuck(p, mute, freeErr)
      PROVE  pass'[q].at = "idle" \/ Undisturbed(q)'
  BY <1>4, <1>5 DEF Fits, Stuck
<1>6. ASSUME NEW mute \in Mutes, NEW freeErr \in FreeErrs, Choose(p, mute, freeErr)
      PROVE  pass'[q].at = "idle" \/ Undisturbed(q)'
  <2>1. PICK r \in Victims(p, mute) :
          pass' = [pass EXCEPT ![p] = [Resting EXCEPT !.at = "evict", !.victim = r,
                                                   !.settings = pass[p].settings]]
    BY <1>6 DEF Choose
  <2>2. pass'[p] = [Resting EXCEPT !.at = "evict", !.victim = r, !.settings = pass[p].settings]
        /\ \A x \in Passes \ {p} : pass'[x] = pass[x]
    BY <1>0, <2>1
  <2>3. pass'[p].at = "evict" /\ pass'[p].victim = r /\ pass'[p].settings = pass[p].settings
    BY <2>2 DEF Resting
  <2>4. mute = {}
    BY <1>6, <2>3 DEF Choose, Stir, Record
  <2>5. pass[p].at = "weigh" /\ Tripped(p, {}, freeErr)
    BY <1>6, <2>4 DEF Choose
  <2>6. r \in VictimsNow /\ Needed(p) /\ pass[p].settings = settings
    BY <2>1, <2>4, <2>5, UndisturbedChooses, UndisturbedDescribes
  <2>7. VictimsNow' = VictimsNow
    <3>1. LatestByTitle' = LatestByTitle
      BY HouseholdStays DEF world
    <3>2. \A x : FactsNow(x)' = FactsNow(x)
      <4>1. \A x : FactsNow(x)' = facts(x, updated, favorites, LatestByTitle')
        BY Zenon DEF FactsNow, facts, TitlesOf, world
      <4> QED BY <3>1, <4>1 DEF FactsNow
    <3>3. \A x : ProtectedNow(x)' <=> ProtectedNow(x)
      BY <3>2 DEF ProtectedNow, world
    <3>4. CandidatesNow' = CandidatesNow
      BY <3>2, <3>3 DEF CandidatesNow, world
    <3> QED BY <3>4 DEF VictimsNow, world
  <2>8. Needed(p)'
    BY <2>3, <2>6 DEF Needed, FreeBelow, world
  <2>9. Undisturbed(p)'
    BY <2>3, <2>6, <2>7, <2>8 DEF Undisturbed, world
  <2> QED BY <1>1, <2>2, <2>9
<1>7. ASSUME NEW mute \in Mutes, Fail(p, mute) PROVE pass'[q].at = "idle" \/ Undisturbed(q)'
  BY <1>4, <1>7 DEF Fail
<1> QED
  <2>1. CASE \E mute \in Mutes, freeErr \in FreeErrs :
               Fits(p, mute, freeErr) \/ Choose(p, mute, freeErr) \/ Stuck(p, mute, freeErr)
    <3>1. PICK mute \in Mutes, freeErr \in FreeErrs :
            Fits(p, mute, freeErr) \/ Choose(p, mute, freeErr) \/ Stuck(p, mute, freeErr)
      BY <2>1
    <3>2. CASE Choose(p, mute, freeErr) BY <1>6, <3>2
    <3>3. CASE Fits(p, mute, freeErr) \/ Stuck(p, mute, freeErr) BY <1>5, <3>3
    <3> QED BY <3>1, <3>2, <3>3
  <2> QED BY <1>2, <1>3, <1>7, <2>1 DEF Quietly

(* A pass at rest has nothing to be disturbed.                             *)
LEMMA RestIsUndisturbed ==
  ASSUME NEW q \in Passes, pass[q].at = "idle"
  PROVE  Undisturbed(q)
BY DEF Undisturbed

(* Once anything stirs it stays so until every pass rests.                 *)
LEMMA QuietStep == Typed /\ QuietInv /\ [Next]_vars => QuietInv'
<1> SUFFICES ASSUME Typed, QuietInv, [Next]_vars, ~stirred', ~shifted', NEW q \in Passes
             PROVE  Undisturbed(q)'
  BY DEF QuietInv
<1>1. CASE pass'[q].at = "idle"
  BY <1>1 DEF Undisturbed
<1>2. CASE pass'[q].at # "idle"
  <2>1. ASSUME NEW p \in Passes, Begin(p) \/ Advance(p) PROVE Undisturbed(q)'
    <3>1. ~stirred /\ ~shifted
      BY <1>2, <2>1, PassesRecord DEF Record
    <3>2. \A x \in Passes : Undisturbed(x)
      BY <3>1 DEF QuietInv
    <3>3. (Quietly(p) /\ UNCHANGED world) \/ EngineRemove(p) \/ ForgetRows(p)
      BY <2>1, PassesMove
    <3> QED BY <1>2, <3>1, <3>2, <3>3, UndisturbedByCalls, UndisturbedByRemoval,
               UndisturbedByForgetting
  <2>2. CASE Event
    BY <1>2, <2>2, EventsMove DEF Happens, Stir, Record
  <2>3. CASE UNCHANGED vars
    <3>1. UNCHANGED <<torrents, complete, settings, leased, favorites, playback, updated, other, rows,
                      pass, stirred, shifted>>
      BY <2>3 DEF vars, world
    <3> QED BY <3>1, UndisturbedByOthers DEF QuietInv
  <2> QED BY <2>1, <2>2, <2>3 DEF Next
<1> QED BY <1>1, <1>2

(* A pass that goes on sees the torrents there are.                        *)
LEMMA SeesStep == Typed /\ SeesInv /\ [Next]_vars => SeesInv'
<1> SUFFICES ASSUME Typed, SeesInv, [Next]_vars, ~stirred', NEW q \in Passes,
                    pass'[q].at # "idle"
             PROVE  Sees(q)'
  BY DEF SeesInv, Sees
<1>0. pass[q] \in Pass /\ pass \in [Passes -> Pass]
  BY PassFields DEF Typed
<1>1. ASSUME NEW p \in Passes, Begin(p) \/ Advance(p) PROVE Sees(q)'
  <2>0. ~stirred
    BY <1>1, PassesRecord DEF Record
  <2>1. Sees(q) /\ Sees(p)
    BY <2>0 DEF SeesInv
  <2>2. CASE EngineRemove(p)
    <3>1. torrents' = torrents \ {pass[p].victim} /\ rows' = rows
          /\ pass' = [pass EXCEPT ![p].at = "forget"]
      BY <2>2 DEF EngineRemove
    <3>2. /\ pass'[q].seen = pass[q].seen /\ pass'[q].victim = pass[q].victim
          /\ pass'[q].at = IF q = p THEN "forget" ELSE pass[q].at
      BY <1>0, <3>1 DEF Pass
    <3> QED BY <2>1, <3>1, <3>2 DEF Sees
  <2>3. CASE ForgetRows(p)
    <3>1. /\ torrents' = torrents /\ rows' = rows \ {pass[p].victim}
          /\ pass[p].at = "forget"
          /\ pass' = [pass EXCEPT ![p].at = "survey", ![p].victim = Nobody]
      BY <2>3 DEF ForgetRows
    <3>2. pass[p].victim \notin torrents
      BY <2>1, <3>1 DEF Sees
    <3>3. /\ q = p => pass'[q].at = "survey"
          /\ q # p => pass'[q] = pass[q]
      BY <1>0, <3>1 DEF Pass
    <3>4. CASE q = p
      BY <3>3, <3>4 DEF Sees
    <3>5. CASE q # p
      <4>1. rows' \cap torrents' = rows \cap torrents /\ torrents' = torrents
        BY <3>1, <3>2
      <4>2. pass'[q] = pass[q]
        BY <3>3, <3>5
      <4> QED BY <2>1, <4>1, <4>2 DEF Sees
    <3> QED BY <3>4, <3>5
  <2>4. CASE Quietly(p) /\ UNCHANGED world
    <3>1. CASE q # p
      <4>1. pass'[q] = pass[q]
        BY <1>1, <3>1, <1>0, PassKeepsTyped
      <4> QED BY <2>1, <2>4, <4>1 DEF Sees, world
    <3>2. CASE q = p
      <4>1. pass'[p].at = "weigh" => pass'[p].seen = rows
        <5>1. SUFFICES ASSUME Survey(p) PROVE pass'[p].seen = rows
          BY <1>1, StagesMove
        <5> QED BY <1>0, <3>2, <5>1 DEF Survey, Pass
      <4>2. pass'[p].at # "forget"
        BY <1>1, <1>0, <2>4, <3>2, CallsForgetNothing
      <4> QED BY <2>4, <3>2, <4>1, <4>2 DEF Sees, world
    <3> QED BY <3>1, <3>2
  <2> QED BY <1>1, <2>2, <2>3, <2>4, PassesMove
<1>2. ~Event
  BY EventsMove DEF Happens, Stir, Record
<1>3. CASE UNCHANGED vars
  BY <1>3 DEF vars, world, SeesInv, Sees
<1> QED BY <1>1, <1>2, <1>3 DEF Next

(* Only a pass that needs the space removes a torrent.                     *)
LEMMA RemovalsAreNeeded ==
  ASSUME Typed, QuietInv, [Next]_vars, NEW r \in torrents \ torrents'
  PROVE  \E p \in Passes : /\ pass[p].at = "evict" /\ pass[p].victim = r
                           /\ stirred \/ shifted \/ Needed(p)
<1>1. ASSUME NEW p \in Passes, Begin(p) \/ Advance(p)
      PROVE  /\ pass[p].at = "evict" /\ pass[p].victim = r
             /\ stirred \/ shifted \/ Needed(p)
  <2>1. EngineRemove(p)
    BY <1>1, PassesMove DEF Typed, world, ForgetRows
  <2>2. pass[p].at = "evict" /\ pass[p].victim = r
    BY <2>1 DEF EngineRemove
  <2> QED BY <2>2 DEF QuietInv, Undisturbed
<1>2. ~Event
  BY EventsMove
<1>3. ~UNCHANGED vars
  BY DEF vars, world
<1> QED BY <1>1, <1>2, <1>3 DEF Next

(* Only an Allocation that is over and protected refuses.                  *)
LEMMA RefusalsAreEarned ==
  ASSUME Typed, SeesInv, [Next]_vars, NEW p \in Admissions,
         pass'[p].outcome = "refused", pass[p].outcome # "refused", ~stirred
  PROVE  /\ Bytes(rows \cap torrents) + Incoming > pass[p].settings.cap
         /\ \A r \in rows \cap torrents : retentionProtected(p, r)
<1>0. p \in Passes /\ pass \in [Passes -> Pass] /\ pass[p] \in Pass /\ p \notin Jobs
  BY PassFields, PassesAssumption DEF Passes, Typed
<1>1. ~Event /\ ~UNCHANGED vars
  BY EventsMove DEF Happens, vars
<1>2. PICK q \in Passes : Begin(q) \/ Advance(q)
  BY <1>1 DEF Next
<1>3. q = p
  BY <1>0, <1>2, PassKeepsTyped
<1>4. PICK mute \in Mutes, freeErr \in FreeErrs : Stuck(p, mute, freeErr)
  <2>1. ~Begin(p) /\ ~Survey(p) /\ ~EngineRemove(p) /\ ~ForgetRows(p)
    <3>1. ASSUME Begin(p) PROVE FALSE
      <4>1. pass'[p].outcome = "none"
        BY <1>0, <3>1 DEF Begin, Pass
      <4> QED BY <4>1
    <3>2. ASSUME Survey(p) PROVE FALSE
      <4>1. pass'[p].outcome = pass[p].outcome
        BY <1>0, <3>2 DEF Survey, Pass
      <4> QED BY <4>1
    <3>3. ASSUME EngineRemove(p) PROVE FALSE
      <4>1. pass'[p].outcome = pass[p].outcome
        BY <1>0, <3>3 DEF EngineRemove, Pass
      <4> QED BY <4>1
    <3>4. ASSUME ForgetRows(p) PROVE FALSE
      <4>1. pass'[p].outcome = pass[p].outcome
        BY <1>0, <3>4 DEF ForgetRows, Pass
      <4> QED BY <4>1
    <3> QED BY <3>1, <3>2, <3>3, <3>4
  <2>2. ASSUME NEW mute \in Mutes, NEW freeErr \in FreeErrs, Fits(p, mute, freeErr) PROVE FALSE
    BY <1>0, <2>2, EndRests DEF Fits
  <2>3. ASSUME NEW mute \in Mutes, NEW freeErr \in FreeErrs, Choose(p, mute, freeErr) PROVE FALSE
    <3>1. PICK r : pass'[p] = [Resting EXCEPT !.at = "evict", !.victim = r,
                                              !.settings = pass[p].settings]
      BY <1>0, <2>3 DEF Choose
    <3> QED BY <3>1 DEF Resting
  <2>4. ASSUME NEW mute \in Mutes, Fail(p, mute) PROVE FALSE
    BY <1>0, <2>4, EndRests DEF Fail
  <2> QED BY <1>2, <1>3, <2>1, <2>2, <2>3, <2>4 DEF Advance
<1>5. /\ pass[p].at = "weigh" /\ Candidates(p, mute) = {} /\ ~Uncertain(p, mute)
      /\ OverCap(p, mute)
  <2>1. StuckOutcome(p, mute) = "refused"
    BY <1>0, <1>4, EndRests DEF Stuck
  <2> QED BY <1>4, <2>1 DEF Stuck, StuckOutcome
<1>6. Sees(p)
  BY <1>0 DEF SeesInv
<1>7. Described(p, mute) = rows \cap torrents
  <2>1. Described(p, mute) = pass[p].seen
    BY <1>5 DEF Uncertain
  <2>2. pass[p].seen \cap torrents = rows \cap torrents
    BY <1>5, <1>6 DEF Sees
  <2> QED BY <2>1, <2>2 DEF Described
<1>8. Bytes(rows \cap torrents) + Incoming > pass[p].settings.cap
  BY <1>5, <1>7 DEF OverCap, storedBytes
<1>9. ASSUME NEW r \in rows \cap torrents PROVE retentionProtected(p, r)
  <2>1. routeFacts(p, r) \in Plan(p, mute) /\ routeFacts(p, r).engineID = r
    BY <1>7 DEF Plan, routeFacts
  <2> QED BY <1>5, <2>1 DEF Candidates
<1> QED BY <1>8, <1>9

(* A torrent is deleted only while the pass that deletes it really needs   *)
(* the space, and a download is refused only when what is left beside it   *)
(* is over the Allocation and protected, unless something else happened    *)
(* during the pass; a deletion is also excused when forgotten rows shifted *)
(* what another pass had surveyed.                                         *)
THEOREM RetentionStepsTheorem == Spec => RetentionSteps
<1>1. Init => QuietInv /\ SeesInv
  BY DEF Init, QuietInv, Undisturbed, SeesInv, Sees, Resting
<1>2. Typed /\ QuietInv /\ SeesInv /\ [Next]_vars => QuietInv' /\ SeesInv'
  BY QuietStep, SeesStep
<1>3. Typed /\ QuietInv /\ [Next]_vars =>
        [\A r \in torrents \ torrents' :
           \E p \in Passes : /\ pass[p].at = "evict" /\ pass[p].victim = r
                             /\ stirred \/ shifted \/ Needed(p)]_vars
  BY RemovalsAreNeeded
<1>4. Typed /\ SeesInv /\ [Next]_vars =>
        [\A p \in Admissions :
           pass'[p].outcome = "refused" /\ pass[p].outcome # "refused" /\ ~stirred =>
             /\ Bytes(rows \cap torrents) + Incoming > pass[p].settings.cap
             /\ \A r \in rows \cap torrents : retentionProtected(p, r)]_vars
  BY RefusalsAreEarned
<1>5. Spec => []Typed
  BY RetentionInvariant, PTL
<1> QED
  BY <1>1, <1>2, <1>3, <1>4, <1>5, PTL
     DEF Spec, RetentionSteps, NoNeedlessEviction, RefusedOnlyForCap
================================================================================
