---------------------------- MODULE EvictionRules ------------------------------
(***************************************************************************)
(* The order in which torrents are evicted: the user's list of rules and   *)
(* its tie-breaks (internal/application/retention.go), and the household   *)
(* facts the rules compare.  A route is a record                           *)
(*   engineID  the torrent, compared as a string in the code;              *)
(*   updated   the UpdatedAt of its rows;                                  *)
(*   lastPlayed, watched, favorite   what routeFacts found, 0 is never;    *)
(*   bytes     status.TotalBytes.                                          *)
(***************************************************************************)
EXTENDS Integers, Sequences

RuleAtoms == {"oldest-completed", "newest-completed", "least-recently-played",
              "most-recently-played", "watched-first", "never-watched-first",
              "largest", "smallest"}

Route == [engineID: Nat, updated: (SUBSET Nat) \ {{}}, lastPlayed: Nat,
          watched: BOOLEAN, favorite: BOOLEAN, bytes: Nat]

Earliest(S) == CHOOSE m \in S : \A n \in S : m <= n

Latest(S) == CHOOSE m \in S : \A n \in S : n <= m

(* The oldest timestamp of a row stands in for the time of completion.     *)
completedAt(a) == Earliest(a.updated)

lastActivity(a) == IF a.lastPlayed # 0 THEN a.lastPlayed ELSE completedAt(a)

(* time.Time.Compare and cmp.Compare.                                      *)
Compare(m, n) == IF m < n THEN -1 ELSE IF m > n THEN 1 ELSE 0

(* Mutant: true comes first even against true.                             *)
boolFirstLoose(a, b) == IF a THEN -1 ELSE IF b THEN 1 ELSE 0

boolFirst(a, b) == IF a = b THEN 0 ELSE IF a THEN -1 ELSE 1

(* Negative: a is evicted first.                                           *)
compareEvictionRule(rule, a, b) ==
  CASE rule = "newest-completed"      -> Compare(completedAt(b), completedAt(a))
    [] rule = "least-recently-played" -> Compare(lastActivity(a), lastActivity(b))
    [] rule = "most-recently-played"  -> Compare(lastActivity(b), lastActivity(a))
    [] rule = "watched-first"         -> boolFirst(a.watched, b.watched)
    [] rule = "never-watched-first"   -> boolFirst(~a.watched, ~b.watched)
    [] rule = "largest"               -> Compare(b.bytes, a.bytes)
    [] rule = "smallest"              -> Compare(a.bytes, b.bytes)
    [] OTHER                          -> Compare(completedAt(a), completedAt(b))

(* Every rule of the list before the i-th ties.                            *)
TiesBefore(rules, i, a, b) ==
  \A j \in 1 .. i - 1 : compareEvictionRule(rules[j], a, b) = 0

(* Mutant: torrents that tie stay in any order.                            *)
precedesUntied(rules, a, b) ==
  \E i \in 1 .. Len(rules) : /\ TiesBefore(rules, i, a, b)
                             /\ compareEvictionRule(rules[i], a, b) < 0

(* The less function applyEvictionRules sorts with: the first rule that    *)
(* tells the two apart decides, then the age, then the EngineID.           *)
precedes(rules, a, b) ==
  \/ \E i \in 1 .. Len(rules) : /\ TiesBefore(rules, i, a, b)
                                /\ compareEvictionRule(rules[i], a, b) < 0
  \/ /\ TiesBefore(rules, Len(rules) + 1, a, b)
     /\ \/ completedAt(a) < completedAt(b)
        \/ completedAt(a) = completedAt(b) /\ a.engineID < b.engineID

(* What sort.Slice asks of its less function, and more: no two routes tie. *)
StrictTotalOrder(rules, S) ==
  /\ \A a \in S : ~precedes(rules, a, a)
  /\ \A a, b \in S : a # b => precedes(rules, a, b) \/ precedes(rules, b, a)
  /\ \A a, b, c \in S : precedes(rules, a, b) /\ precedes(rules, b, c)
                        => precedes(rules, a, c)

(* The candidate sort.Slice puts first.                                    *)
EvictedFirst(rules, S) ==
  {a \in S : \A b \in S \ {a} : ~precedes(rules, b, a)}

(* The entries that are not blank, in one pass over the list.              *)
NonBlank(rules) ==
  LET out[i \in 0 .. Len(rules)] ==
        IF i = 0 THEN << >>
        ELSE IF rules[i] = "" THEN out[i - 1] ELSE Append(out[i - 1], rules[i])
  IN  out[Len(rules)]

(* Blank entries are dropped and an empty list is the default rule; atoms  *)
(* are spelled in lower case without blanks around them from here on.      *)
NormalizeEvictionRules(rules) ==
  IF NonBlank(rules) = << >> THEN <<"oldest-completed">> ELSE NonBlank(rules)
================================================================================
