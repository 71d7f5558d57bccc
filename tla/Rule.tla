-------------------------------- MODULE Rule --------------------------------
(***************************************************************************)
(* Who is enough to act for an organisation: src/rule.rs.                  *)
(*                                                                         *)
(* A rule is a record of groups, in the order they are written in, and of  *)
(* alternatives, each a set of needs.  It is satisfied when every need of  *)
(* some alternative is met.                                                *)
(***************************************************************************)
EXTENDS Naturals, Sequences, FiniteSets

Count(group, n) == [group |-> group, num |-> n, den |-> 0, of |-> "count"]
Fraction(group, num, den) ==
  [group |-> group, num |-> num, den |-> den, of |-> "fraction"]

IsNeed(need) == {need.num, need.den} \subseteq Nat

IsRule(rule, people) ==
  /\ DOMAIN rule.groups \subseteq Nat
  /\ \A i \in DOMAIN rule.groups : rule.groups[i].members \in Seq(people)
  /\ \A alternative \in rule.alternatives : \A need \in alternative : IsNeed(need)

\* The groups with that id; find takes the first of them.
Named(rule, id) == {i \in DOMAIN rule.groups : rule.groups[i].id = id}
First(S) == CHOOSE i \in S : \A j \in S : i =< j
Members(rule, need) == rule.groups[First(Named(rule, need.group))].members

\* How many of the places in a group those who signed account for.
Signed(members, signers) == Cardinality({i \in DOMAIN members : members[i] \in signers})

\* Need::met, fractions by cross-multiplying.
Met(need, signed, size) ==
  IF need.of = "count" THEN signed >= need.num
  ELSE signed * need.den >= need.num * size

\* A need that names no group there is cannot be met.
NeedMet(rule, need, signers) ==
  /\ Named(rule, need.group) # {}
  /\ LET members == Members(rule, need)
     IN  Met(need, Signed(members, signers), Len(members))

\* Rule::satisfied_by.  The signers are a slice that is only searched, so a
\* set is as good.
SatisfiedBy(rule, signers) ==
  \E alternative \in rule.alternatives :
    \A need \in alternative : NeedMet(rule, need, signers)

\* Mutant of Check: needs are not held against the size of their group.
CheckWithoutSize(rule) ==
  /\ rule.alternatives # {}
  /\ \A i \in DOMAIN rule.groups :
       /\ Len(rule.groups[i].members) > 0
       /\ Cardinality(Named(rule, rule.groups[i].id)) =< 1
  /\ \A alternative \in rule.alternatives :
       /\ alternative # {}
       /\ \A need \in alternative :
            /\ Named(rule, need.group) # {}
            /\ need.of = "count" => need.num # 0
            /\ need.of = "fraction" => need.den # 0

\* Rule::check, done when a rule is set.
Check(rule) ==
  /\ rule.alternatives # {}
  /\ \A i \in DOMAIN rule.groups :
       /\ Len(rule.groups[i].members) > 0
       /\ Cardinality(Named(rule, rule.groups[i].id)) =< 1
  /\ \A alternative \in rule.alternatives :
       /\ alternative # {}
       /\ \A need \in alternative :
            /\ Named(rule, need.group) # {}
            /\ need.of = "count" => need.num # 0
            /\ need.of = "fraction" => need.den # 0
            /\ LET size == Len(Members(rule, need)) IN Met(need, size, size)

\* Rule::one_of: what every organisation is created with.
OneOf(members) ==
  [groups |-> <<[id |-> "all", members |-> members]>>,
   alternatives |-> {{Count("all", 1)}}]

\* Everybody a rule names.
Everybody(rule) ==
  UNION {{rule.groups[i].members[j] : j \in DOMAIN rule.groups[i].members} :
           i \in DOMAIN rule.groups}
=============================================================================
