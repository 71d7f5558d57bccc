------------------------------ MODULE Mandate -------------------------------
(***************************************************************************)
(* What an organisation may publish, and who authorised it: src/mandate.rs *)
(* over the statements of Statement and the rules of Rule.                 *)
(*                                                                         *)
(* A mandate is a set of statements, gathered anywhere.  Whoever publishes *)
(* a manifest hands them in; they are read together, one bad one failing   *)
(* them all, and their signers held against the rule in force.             *)
(***************************************************************************)
EXTENDS Statement, Rule

CONSTANTS Orgs,              \* organisations, as their DIDs
          Founder,           \* of each, the key it was created with
          Rules,             \* rules somebody may write
          MaxPublications    \* bound: manifests published

ASSUME MandateAssumption ==
  /\ Orgs \subseteq Nat
  /\ Founder \in [Orgs -> Signers]
  /\ \A r \in Rules : IsRule(r, Signers)
  /\ MaxPublications \in Nat

VARIABLES rule,            \* of each organisation, the rule in force
          publications     \* manifests published, each with its mandate

vars == <<statementVars, rule, publications>>

(***************************************************************************)
(* template and Ask::statement.                                            *)
(***************************************************************************)
MandateWording == [says |-> 0, shows |-> {"scope", "about", "org", "limit", "until"}]
MandateTemplate ==
  [act |-> "authorise", wording |-> [lang \in {"th", "en"} |-> MandateWording]]

\* The ask for a manifest; scope, limit and title are the same in all of them.
MandateAsk(org, manifest, until) ==
  [act |-> "authorise", subject |-> manifest, template |-> MandateTemplate,
   fields |-> [f \in MandateWording.shows |->
                 CASE f = "org" -> org [] f = "until" -> until [] OTHER -> 0]]

(***************************************************************************)
(* one and read.                                                           *)
(***************************************************************************)

\* Mutant of Authorises: the manifest is not compared.
AuthorisesAnything(s, org, manifest, instant) ==
  /\ Verifies(s, instant)
  /\ s.act = "authorise"
  /\ "org" \in DOMAIN s.fields /\ s.fields["org"] = org

Authorises(s, org, manifest, instant) ==
  /\ Verifies(s, instant)
  /\ s.act = "authorise"
  /\ s.subject = manifest
  /\ "org" \in DOMAIN s.fields /\ s.fields["org"] = org

Read(mandate, org, manifest, instant) ==
  \A s \in mandate : Authorises(s, org, manifest, instant)

SignersOf(mandate) == {s.signer : s \in mandate}

(***************************************************************************)
(* The organisation and whoever publishes for it.                          *)
(***************************************************************************)
SetRule(org, r) ==
  /\ Check(r)
  /\ rule' = [rule EXCEPT ![org] = r]
  /\ UNCHANGED <<statementVars, publications>>

\* read, and enough for the rule as it stands.
Publish(org, manifest, mandate) ==
  /\ Cardinality(publications) < MaxPublications
  /\ Read(mandate, org, manifest, now)
  /\ SatisfiedBy(rule[org], SignersOf(mandate))
  /\ publications' = publications \cup
       {[org |-> org, manifest |-> manifest, mandate |-> mandate,
         rule |-> rule[org], at |-> now]}
  /\ UNCHANGED <<statementVars, rule>>

Init ==
  /\ StatementInit
  /\ rule = [org \in Orgs |-> OneOf(<<Founder[org]>>)]
  /\ publications = {}

Next ==
  \/ StatementNext /\ UNCHANGED <<rule, publications>>
  \/ \E org \in Orgs :
       \/ \E r \in Rules : SetRule(org, r)
       \/ \E manifest \in {ask.subject : ask \in Asks}, mandate \in SUBSET statements :
            Publish(org, manifest, mandate)

Spec == Init /\ [][Next]_vars

(***************************************************************************)
(* Properties.                                                             *)
(***************************************************************************)
\* The people who read a sentence that names the organisation, and agreed to it
\* for this manifest.
Agreed(org, manifest) ==
  {a.signer : a \in {x \in agreed : /\ x.subject = manifest
                                    /\ "org" \in DOMAIN x.text.values
                                    /\ x.text.values["org"] = org}}

\* An authorisation given for one manifest or one organisation is no use for
\* another, nor one that was altered or misread: what is published, those who
\* read and agreed to exactly that are enough for by the rule then in force
\* (mandate.rs 26-40, 205-226; statement/mod.rs 369-380).
PublishedWasAgreed ==
  \A p \in publications : SatisfiedBy(p.rule, Agreed(p.org, p.manifest))

\* "A rule that cannot pass locks an organisation out of its own identity": the
\* rule in force is always one its own people can satisfy (rule.rs 158-164).
RuleCanPass ==
  \A org \in Orgs : SatisfiedBy(rule[org], Everybody(rule[org]))

\* "An alternative satisfied by nobody signing anything" is refused: nothing is
\* published without a signature (rule.rs 180-205).
SomebodySigned ==
  \A p \in publications : p.mandate # {}
=============================================================================
