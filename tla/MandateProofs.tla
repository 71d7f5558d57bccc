--------------------------- MODULE MandateProofs ----------------------------
(***************************************************************************)
(* Proofs about Rule and Mandate, for every rule and every set of asks:    *)
(* more signers are as good, a rule that passes check can pass, and what   *)
(* is published was agreed to if the sentences name the organisation.      *)
(***************************************************************************)
EXTENDS Mandate, FiniteSetTheorems, WellFoundedInduction, TLAPS

(***************************************************************************)
(* Rules.                                                                  *)
(***************************************************************************)
LEMMA FirstIsOfThem == ASSUME NEW S \in SUBSET Nat, S # {} PROVE First(S) \in S
<1>1. PICK x \in S : \A y \in S : ~(<<y, x>> \in OpToRel(<, Nat))
  <2> DEFINE R == OpToRel(<, Nat)
  <2>1. IsWellFoundedOn(R, Nat)
    BY NatLessThanWellFounded
  <2> HIDE DEF R
  <2>2. \E x \in S : \A y \in S : ~(<<y, x>> \in R)
    BY <2>1, WFMin
  <2> QED BY <2>2 DEF R
<1>2. \A y \in S : x =< y
  <2> SUFFICES ASSUME NEW y \in S, y < x PROVE FALSE
    OBVIOUS
  <2> DEFINE yx == <<y, x>>
  <2>1. yx \in Nat \X Nat /\ yx[1] = y /\ yx[2] = x
    OBVIOUS
  <2> HIDE DEF yx
  <2>2. yx \in OpToRel(<, Nat)
    BY <2>1 DEF OpToRel
  <2> QED BY <1>1, <2>2 DEF yx
<1> QED BY <1>2 DEF First

\* The group a need finds is a group of the rule's.
LEMMA MembersAreListed ==
  ASSUME NEW people, NEW r, IsRule(r, people), NEW need, Named(r, need.group) # {}
  PROVE  /\ First(Named(r, need.group)) \in DOMAIN r.groups
         /\ Members(r, need) \in Seq(people)
<1>1. Named(r, need.group) \subseteq DOMAIN r.groups /\ DOMAIN r.groups \subseteq Nat
  BY DEF Named, IsRule
<1>2. First(Named(r, need.group)) \in DOMAIN r.groups
  BY <1>1, FirstIsOfThem
<1> QED BY <1>2 DEF Members, IsRule

LEMMA SignedGrows ==
  ASSUME NEW people, NEW members \in Seq(people), NEW some, NEW more, some \subseteq more
  PROVE  /\ Signed(members, some) \in Nat /\ Signed(members, more) \in Nat
         /\ Signed(members, some) =< Signed(members, more)
<1> DEFINE By(signers) == {i \in DOMAIN members : members[i] \in signers}
<1>1. IsFiniteSet(DOMAIN members)
  <2>1. DOMAIN members = 1 .. Len(members) /\ Len(members) \in Int
    OBVIOUS
  <2> QED BY <2>1, FS_Interval
<1>2. IsFiniteSet(By(more)) /\ IsFiniteSet(By(some))
  BY <1>1, FS_Subset
<1>3. By(some) \in SUBSET By(more)
  OBVIOUS
<1>4. Cardinality(By(some)) =< Cardinality(By(more))
  BY <1>2, <1>3, FS_Subset
<1>5. Cardinality(By(some)) \in Nat /\ Cardinality(By(more)) \in Nat
  BY <1>2, FS_CardinalityType
<1> QED BY <1>4, <1>5 DEF Signed

LEMMA MetGrows ==
  ASSUME NEW need, IsNeed(need), NEW i \in Nat, NEW j \in Nat, i =< j, NEW size \in Nat,
         Met(need, i, size)
  PROVE  Met(need, j, size)
<1>1. need.num \in Nat /\ need.den \in Nat
  BY DEF IsNeed
<1>2. i * need.den =< j * need.den
  BY <1>1
<1>3. /\ i * need.den \in Nat /\ j * need.den \in Nat /\ need.num * size \in Nat
  BY <1>1
<1> QED BY <1>1, <1>2, <1>3 DEF Met

\* Whoever else signs, what was enough stays enough (Rule::satisfied_by).
THEOREM MoreSignersAreEnough ==
  ASSUME NEW people, NEW r, IsRule(r, people),
         NEW some, NEW more, some \subseteq more, SatisfiedBy(r, some)
  PROVE  SatisfiedBy(r, more)
<1>1. PICK alternative \in r.alternatives : \A need \in alternative : NeedMet(r, need, some)
  BY DEF SatisfiedBy
<1>2. ASSUME NEW need \in alternative PROVE NeedMet(r, need, more)
  <2>1. NeedMet(r, need, some) /\ Named(r, need.group) # {}
    BY <1>1, <1>2 DEF NeedMet
  <2>2. IsNeed(need)
    BY <1>1, <1>2 DEF IsRule
  <2> DEFINE members == Members(r, need)
  <2>3. members \in Seq(people)
    BY <2>1, MembersAreListed
  <2>4. Len(members) \in Nat
    BY <2>3
  <2>5. /\ Signed(members, some) \in Nat /\ Signed(members, more) \in Nat
        /\ Signed(members, some) =< Signed(members, more)
    BY <2>3, SignedGrows
  <2>6. Met(need, Signed(members, some), Len(members))
    BY <2>1 DEF NeedMet
  <2> HIDE DEF members
  <2>7. Met(need, Signed(members, more), Len(members))
    BY <2>2, <2>4, <2>5, <2>6, MetGrows
  <2> QED BY <2>1, <2>7 DEF members, NeedMet
<1> QED BY <1>1, <1>2 DEF SatisfiedBy

\* When everybody signs, every place in every group has.
LEMMA EverybodySigns ==
  ASSUME NEW people, NEW r, IsRule(r, people), NEW need, Named(r, need.group) # {}
  PROVE  Signed(Members(r, need), Everybody(r)) = Len(Members(r, need))
<1> DEFINE i == First(Named(r, need.group))
           members == r.groups[i].members
<1>1. i \in DOMAIN r.groups /\ members \in Seq(people)
  BY MembersAreListed DEF Members
<1>2. \A j \in DOMAIN members : members[j] \in Everybody(r)
  BY <1>1 DEF Everybody
<1>3. {j \in DOMAIN members : members[j] \in Everybody(r)} = 1 .. Len(members)
  BY <1>1, <1>2
<1>4. Len(members) \in Nat
  BY <1>1
<1>5. Cardinality(1 .. Len(members)) = Len(members)
  <2>1. \A n \in Nat : Cardinality(1 .. n) = n
    BY FS_Interval
  <2> QED BY <1>4, <2>1
<1> QED BY <1>3, <1>5 DEF Signed, Members

\* A rule that check lets through is one its own people can satisfy
\* (Rule::check).
THEOREM CheckedRuleCanPass ==
  ASSUME NEW people, NEW r, IsRule(r, people), Check(r)
  PROVE  SatisfiedBy(r, Everybody(r))
<1>1. PICK alternative \in r.alternatives : TRUE
  BY DEF Check
<1>2. ASSUME NEW need \in alternative PROVE NeedMet(r, need, Everybody(r))
  <2>1. /\ Named(r, need.group) # {}
        /\ Met(need, Len(Members(r, need)), Len(Members(r, need)))
    BY <1>2 DEF Check
  <2>2. Signed(Members(r, need), Everybody(r)) = Len(Members(r, need))
    BY <2>1, EverybodySigns
  <2> QED BY <2>1, <2>2 DEF NeedMet
<1> QED BY <1>2 DEF SatisfiedBy

\* The rule of one person is a rule, and that person satisfies it.
LEMMA OneOfIsEnough ==
  ASSUME NEW people, NEW p \in people
  PROVE  IsRule(OneOf(<<p>>), people) /\ SatisfiedBy(OneOf(<<p>>), Everybody(OneOf(<<p>>)))
<1> DEFINE r == OneOf(<<p>>)
           need == Count("all", 1)
<1>1. IsRule(r, people)
  <2>1. IsNeed(need)
    BY DEF Count, IsNeed
  <2>2. DOMAIN r.groups = {1} /\ r.groups[1].members = <<p>> /\ r.alternatives = {{need}}
    BY DEF OneOf
  <2>3. <<p>> \in Seq(people)
    OBVIOUS
  <2> HIDE DEF r, need
  <2>4. DOMAIN r.groups \subseteq Nat
    BY <2>2
  <2>5. \A i \in DOMAIN r.groups : r.groups[i].members \in Seq(people)
    BY <2>2, <2>3
  <2>6. \A alternative \in r.alternatives : \A n \in alternative : IsNeed(n)
    BY <2>1, <2>2
  <2> QED BY <2>4, <2>5, <2>6 DEF IsRule
<1>2. need.group = "all" /\ need.num = 1 /\ need.of = "count"
  BY DEF Count
<1>3. r.groups = <<[id |-> "all", members |-> <<p>>]>> /\ r.alternatives = {{need}}
  BY DEF OneOf
<1> HIDE DEF r, need
<1>4. Named(r, need.group) = {1}
  BY <1>2, <1>3 DEF Named
<1>5. First(Named(r, need.group)) = 1
  BY <1>4, FirstIsOfThem
<1>6. Members(r, need) = <<p>>
  BY <1>3, <1>5 DEF Members
<1>7. Signed(Members(r, need), Everybody(r)) = 1
  <2>1. Signed(Members(r, need), Everybody(r)) = Len(Members(r, need))
    BY <1>1, <1>4, EverybodySigns
  <2>2. Len(<<p>>) = 1
    OBVIOUS
  <2> QED BY <1>6, <2>1, <2>2
<1>8. NeedMet(r, need, Everybody(r))
  BY <1>2, <1>4, <1>7 DEF NeedMet, Met
<1>9. SatisfiedBy(r, Everybody(r))
  BY <1>3, <1>8 DEF SatisfiedBy
<1> QED BY <1>1, <1>9 DEF r

(***************************************************************************)
(* The specification.                                                      *)
(***************************************************************************)

\* What read does not see to, since it takes any template (mandate.rs 218): no
\* wording of an ask to authorise leaves the organisation out.
SentencesNameTheOrg ==
  \A ask \in Asks :
    ask.act = "authorise" =>
      \A lang \in DOMAIN ask.template.wording : "org" \in ask.template.wording[lang].shows

\* Rules in force are rules, and can pass.
RulesSound ==
  /\ DOMAIN rule = Orgs
  /\ \A org \in Orgs :
       IsRule(rule[org], Signers) /\ SatisfiedBy(rule[org], Everybody(rule[org]))

\* A statement is what its signer read, unless it was altered.
StatementsSound ==
  \A s \in statements :
    /\ \E ask \in Asks : /\ s.act = ask.act /\ s.subject = ask.subject
                         /\ s.fields = ask.fields /\ s.template = ask.template
    /\ s.intact => [signer |-> s.signer, subject |-> s.subject, text |-> s.text] \in agreed

PublicationsSound ==
  \A p \in publications :
    IsRule(p.rule, Signers) /\ SatisfiedBy(p.rule, Agreed(p.org, p.manifest))

LEMMA RulesHold == Spec => []RulesSound
<1>1. Init => RulesSound
  <2> SUFFICES ASSUME Init PROVE RulesSound
    OBVIOUS
  <2>1. ASSUME NEW org \in Orgs
        PROVE  /\ IsRule(rule[org], Signers)
               /\ SatisfiedBy(rule[org], Everybody(rule[org]))
    <3>1. rule[org] = OneOf(<<Founder[org]>>) /\ Founder[org] \in Signers
      BY MandateAssumption DEF Init
    <3> QED BY <3>1, OneOfIsEnough
  <2> QED BY <2>1 DEF Init, RulesSound
<1>2. RulesSound /\ [Next]_vars => RulesSound'
  <2> SUFFICES ASSUME RulesSound, [Next]_vars PROVE RulesSound'
    OBVIOUS
  <2>1. CASE rule' = rule
    BY <2>1 DEF RulesSound
  <2>2. ASSUME NEW org \in Orgs, NEW r \in Rules, SetRule(org, r) PROVE RulesSound'
    <3>1. IsRule(r, Signers) /\ SatisfiedBy(r, Everybody(r))
      BY <2>2, MandateAssumption, CheckedRuleCanPass DEF SetRule
    <3>2. rule' = [rule EXCEPT ![org] = r]
      BY <2>2 DEF SetRule
    <3> QED BY <3>1, <3>2 DEF RulesSound
  <2> QED BY <2>1, <2>2 DEF Next, vars, Publish
<1> QED BY <1>1, <1>2, PTL DEF Spec

\* RuleCanPass: no rule locks an organisation out of its own identity
\* (Rule::check, Rule::one_of).
THEOREM NobodyIsLockedOut == Spec => []RuleCanPass
<1>1. RulesSound => RuleCanPass
  BY DEF RulesSound, RuleCanPass
<1> QED BY <1>1, RulesHold, PTL

LEMMA AgreedGrows ==
  ASSUME agreed \subseteq agreed', NEW org, NEW manifest
  PROVE  Agreed(org, manifest) \subseteq Agreed(org, manifest)'
BY DEF Agreed

LEMMA AgreedNeverShrinks == ASSUME [Next]_vars PROVE agreed \subseteq agreed'
BY DEF Next, vars, SetRule, Publish, statementVars, StatementNext, Tick, Issue, Misprint,
       PutKeyTo, Alter

LEMMA StatementsHold == Spec => []StatementsSound
<1>1. Init => StatementsSound
  BY DEF Init, StatementInit, StatementsSound
<1>2. StatementsSound /\ [Next]_vars => StatementsSound'
  <2> SUFFICES ASSUME StatementsSound, [Next]_vars PROVE StatementsSound'
    OBVIOUS
  <2>1. CASE UNCHANGED <<statements, agreed>>
    BY <2>1 DEF StatementsSound
  <2>2. ASSUME NEW d, NEW ask \in Asks, NEW lang, NEW exp, NEW text,
               PutKeyTo(d, ask, lang, exp, text)
        PROVE  StatementsSound'
    <3> DEFINE new == Sign(d, ask, lang, exp, text)
    <3>1. /\ statements' = statements \cup {new}
          /\ agreed' = agreed \cup {[signer |-> d, subject |-> ask.subject, text |-> text]}
      BY <2>2 DEF PutKeyTo
    <3>2. /\ new.signer = d /\ new.act = ask.act /\ new.subject = ask.subject
          /\ new.fields = ask.fields /\ new.template = ask.template /\ new.text = text
      BY DEF Sign
    <3> HIDE DEF new
    <3> QED BY <3>1, <3>2 DEF StatementsSound
  <2>3. ASSUME NEW s \in statements, NEW ask \in Asks, Alter(s, ask) PROVE StatementsSound'
    <3> DEFINE text == Render(ask.template, s.lang, ask.fields)
               new == [Sign(s.signer, ask, s.lang, s.exp, text) EXCEPT !.intact = FALSE]
    <3>1. statements' = statements \cup {new} /\ agreed' = agreed
      BY <2>3 DEF Alter
    <3>2. /\ new.intact = FALSE /\ new.act = ask.act /\ new.subject = ask.subject
          /\ new.fields = ask.fields /\ new.template = ask.template
      BY DEF Sign
    <3> HIDE DEF new
    <3> QED BY <3>1, <3>2 DEF StatementsSound
  <2> QED BY <2>1, <2>2, <2>3
          DEF Next, vars, statementVars, StatementNext, Tick, Issue, Misprint, SetRule, Publish
<1> QED BY <1>1, <1>2, PTL DEF Spec

\* Who signed a mandate that is read agreed to what it says.
LEMMA SignersAgreed ==
  ASSUME SentencesNameTheOrg, StatementsSound, NEW org, NEW manifest,
         NEW mandate \in SUBSET statements, NEW instant,
         Read(mandate, org, manifest, instant)
  PROVE  SignersOf(mandate) \subseteq Agreed(org, manifest)
<1> SUFFICES ASSUME NEW s \in mandate PROVE s.signer \in Agreed(org, manifest)
  BY DEF SignersOf
<1> DEFINE a == [signer |-> s.signer, subject |-> s.subject, text |-> s.text]
<1>1. /\ s.intact /\ s.act = "authorise" /\ s.subject = manifest
      /\ CanRender(s.template, s.lang, s.fields)
      /\ Render(s.template, s.lang, s.fields) = s.text
      /\ s.fields["org"] = org
  BY DEF Read, Authorises, Verifies, Opens
<1>2. a \in agreed
  BY <1>1 DEF StatementsSound
<1>3. "org" \in s.template.wording[s.lang].shows
  BY <1>1 DEF StatementsSound, SentencesNameTheOrg, CanRender
<1>4. "org" \in DOMAIN s.text.values /\ s.text.values["org"] = org
  BY <1>1, <1>3 DEF Render
<1>5. a.signer = s.signer /\ a.subject = manifest /\ a.text = s.text
  BY <1>1
<1> HIDE DEF a
<1> QED BY <1>2, <1>4, <1>5 DEF Agreed

LEMMA PublicationsHold == ASSUME SentencesNameTheOrg PROVE Spec => []PublicationsSound
<1>1. Init => PublicationsSound
  BY DEF Init, PublicationsSound
<1>2. PublicationsSound /\ RulesSound /\ StatementsSound /\ [Next]_vars => PublicationsSound'
  <2> SUFFICES ASSUME PublicationsSound, RulesSound, StatementsSound, [Next]_vars
      PROVE  PublicationsSound'
    OBVIOUS
  <2>1. ASSUME NEW p \in publications
        PROVE  IsRule(p.rule, Signers) /\ SatisfiedBy(p.rule, Agreed(p.org, p.manifest)')
    BY AgreedNeverShrinks, AgreedGrows, MoreSignersAreEnough DEF PublicationsSound
  <2>2. CASE publications' = publications
    BY <2>1, <2>2 DEF PublicationsSound
  <2>3. ASSUME NEW org \in Orgs, NEW manifest, NEW mandate \in SUBSET statements,
               Publish(org, manifest, mandate)
        PROVE  PublicationsSound'
    <3> DEFINE new == [org |-> org, manifest |-> manifest, mandate |-> mandate,
                       rule |-> rule[org], at |-> now]
    <3>1. /\ publications' = publications \cup {new} /\ agreed' = agreed
          /\ Read(mandate, org, manifest, now) /\ SatisfiedBy(rule[org], SignersOf(mandate))
      BY <2>3 DEF Publish, statementVars
    <3>2. SignersOf(mandate) \subseteq Agreed(org, manifest)
      BY <3>1, SignersAgreed
    <3>3. IsRule(rule[org], Signers)
      BY DEF RulesSound
    <3>4. SatisfiedBy(rule[org], Agreed(org, manifest))
      BY <3>1, <3>2, <3>3, MoreSignersAreEnough
    <3>5. Agreed(org, manifest)' = Agreed(org, manifest)
      BY <3>1 DEF Agreed
    <3>6. new.org = org /\ new.manifest = manifest /\ new.rule = rule[org]
      OBVIOUS
    <3> HIDE DEF new
    <3> QED BY <2>1, <3>1, <3>3, <3>4, <3>5, <3>6 DEF PublicationsSound
  <2> QED BY <2>2, <2>3 DEF Next, vars, SetRule
<1> QED BY <1>1, <1>2, RulesHold, StatementsHold, PTL DEF Spec

\* PublishedWasAgreed: if the sentences name the organisation, what is published
\* was read and agreed to, for that manifest and that organisation, by enough of
\* the people the rule then in force names (mandate.rs, read and enough).
THEOREM WhatIsPublishedWasAgreed ==
  ASSUME SentencesNameTheOrg PROVE Spec => []PublishedWasAgreed
<1>1. PublicationsSound => PublishedWasAgreed
  BY DEF PublicationsSound, PublishedWasAgreed
<1> QED BY <1>1, PublicationsHold, PTL

(***************************************************************************)
(* Terms.                                                                  *)
(***************************************************************************)
LEMMA DaysDoNotRunBack ==
  ASSUME NEW m \in Nat, NEW n \in Nat, m =< n
  PROVE  Day(m) \in Nat /\ Day(n) \in Nat /\ Day(m) =< Day(n)
<1> DEFINE a == m \div DayLength
           b == n \div DayLength
           r == m % DayLength
           q == n % DayLength
<1>1. DayLength \in Nat /\ DayLength >= 1
  BY StatementAssumption
<1>2. /\ a \in Nat /\ b \in Nat /\ r \in Nat /\ q \in Nat
      /\ m = a * DayLength + r /\ n = b * DayLength + q
      /\ r < DayLength /\ q < DayLength
  BY <1>1
<1> HIDE DEF a, b, r, q
<1>3. a =< b
  <2> SUFFICES ASSUME a >= b + 1 PROVE FALSE
    BY <1>2
  <2>1. PICK k \in Nat : a = b + 1 + k
    <3>1. a - (b + 1) \in Nat
      BY <1>2
    <3> QED BY <1>2, <3>1
  <2>2. a * DayLength = b * DayLength + DayLength + k * DayLength
    BY <1>1, <1>2, <2>1
  <2>3. k * DayLength \in Nat /\ b * DayLength \in Nat
    BY <1>1, <1>2
  <2> QED BY <1>1, <1>2, <2>2, <2>3
<1> QED BY <1>2, <1>3 DEF Day, a, b

\* What was signed does not stop verifying before the day it stops binding.
TermsSound ==
  /\ now \in Nat
  /\ \A s \in statements :
       /\ s.exp \in Nat
       /\ "until" \in DOMAIN s.fields => s.fields["until"] \in Nat
       /\ s.intact /\ "until" \in DOMAIN s.fields => Day(s.exp) >= s.fields["until"]

LEMMA TermsHold == Spec => []TermsSound
<1>1. Init => TermsSound
  BY DEF Init, StatementInit, TermsSound
<1>2. TermsSound /\ [Next]_vars => TermsSound'
  <2> SUFFICES ASSUME TermsSound, [Next]_vars PROVE TermsSound'
    OBVIOUS
  <2>1. CASE UNCHANGED <<now, statements>>
    BY <2>1 DEF TermsSound
  <2>2. CASE Tick
    BY <2>2 DEF Tick, TermsSound
  <2>3. ASSUME NEW ask \in Asks, "until" \in DOMAIN ask.fields PROVE ask.fields["until"] \in Nat
    BY <2>3, StatementAssumption DEF AreFields
  <2>4. ASSUME NEW d, NEW ask \in Asks, NEW lang, NEW exp \in Expiries, NEW text,
               PutKeyTo(d, ask, lang, exp, text)
        PROVE  TermsSound'
    <3> DEFINE new == Sign(d, ask, lang, exp, text)
    <3>1. statements' = statements \cup {new} /\ now' = now /\ OutlivesTerm(ask, exp)
      BY <2>4 DEF PutKeyTo
    <3>2. new.exp = exp /\ new.fields = ask.fields /\ exp \in Nat
      BY StatementAssumption DEF Sign
    <3> HIDE DEF new
    <3> QED BY <2>3, <3>1, <3>2 DEF TermsSound, OutlivesTerm
  <2>5. ASSUME NEW s \in statements, NEW ask \in Asks, Alter(s, ask) PROVE TermsSound'
    <3> DEFINE text == Render(ask.template, s.lang, ask.fields)
               new == [Sign(s.signer, ask, s.lang, s.exp, text) EXCEPT !.intact = FALSE]
    <3>1. statements' = statements \cup {new} /\ now' = now
      BY <2>5 DEF Alter
    <3>2. new.intact = FALSE /\ new.exp = s.exp /\ new.fields = ask.fields
      BY DEF Sign
    <3> HIDE DEF new
    <3> QED BY <2>3, <3>1, <3>2 DEF TermsSound
  <2> QED BY <2>1, <2>2, <2>4, <2>5
          DEF Next, vars, statementVars, StatementNext, Issue, Misprint, SetRule, Publish
<1> QED BY <1>1, <1>2, PTL DEF Spec

\* BindsOnlyWhileItVerifies: for any length of a day and any expiries, whatever
\* reads as it was signed and still binds still verifies (statement/mod.rs,
\* issue_statement and verify_statement).
THEOREM NobodyIsBoundUnverifiably == Spec => []BindsOnlyWhileItVerifies
<1>1. ASSUME TermsSound, NEW s \in statements, s.intact, "until" \in DOMAIN s.fields,
             Day(now) < s.fields["until"]
      PROVE  s.exp >= now
  <2>1. /\ now \in Nat /\ s.exp \in Nat /\ s.fields["until"] \in Nat
        /\ Day(s.exp) >= s.fields["until"]
    BY <1>1 DEF TermsSound
  <2>2. Day(s.exp) \in Nat /\ Day(now) \in Nat
    BY <2>1, DaysDoNotRunBack
  <2>3. s.exp < now => Day(s.exp) =< Day(now)
    BY <2>1, DaysDoNotRunBack
  <2> QED BY <1>1, <2>1, <2>2, <2>3
<1>2. TermsSound => BindsOnlyWhileItVerifies
  BY <1>1 DEF BindsOnlyWhileItVerifies, Verifies
<1> QED BY <1>2, TermsHold, PTL
=============================================================================
