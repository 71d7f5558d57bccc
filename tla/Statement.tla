----------------------------- MODULE Statement ------------------------------
(***************************************************************************)
(* Statements people put their key to: src/statement/mod.rs, with as much  *)
(* of src/credential/mod.rs as carries them.                               *)
(*                                                                         *)
(* A statement has a symbol (act, subject, fields) and a text, the         *)
(* sentence its signer read.  issue_statement renders one from the other;  *)
(* verify_statement refuses whatever does not render to what was read.     *)
(***************************************************************************)
EXTENDS Naturals, FiniteSets

CONSTANTS Signers,         \* people, by the did:jwk that is their key
          Asks,            \* what they are asked to sign
          Expiries,        \* instants a statement may expire at
          DayLength,       \* instants in a day: 86400 in the code
          LastInstant,     \* bound: how far the clock runs
          MaxStatements    \* bound: statements that exist

(***************************************************************************)
(* Act: the five verbs, whether one takes a term, and what it has to say.  *)
(***************************************************************************)
Acts == {"approve", "guarantee", "authorise", "rescind", "withdraw"}

TakesTerm(act) == act \in {"guarantee", "authorise"}

RequiredFields(act) ==
  {"about"} \cup
  CASE act = "approve"   -> {"role"}
    [] act = "guarantee" -> {"cap", "ccy"}
    [] act = "authorise" -> {"scope", "limit"}
    [] OTHER             -> {}

FieldNames ==
  {"about", "role", "cap", "ccy", "scope", "limit", "org", "until"}

\* Dates are days counted from 1; what is not shaped like a date is 0.
NotADate == 0
Day(instant) == instant \div DayLength

(***************************************************************************)
(* Template: for each language what the wording says and the fields it     *)
(* shows.  Its hash covers all of it, and is taken to be the template.     *)
(***************************************************************************)
CanRender(template, lang, fields) ==
  /\ lang \in DOMAIN template.wording
  /\ template.wording[lang].shows \subseteq DOMAIN fields

Render(template, lang, fields) ==
  [says   |-> template.wording[lang].says,
   values |-> [f \in template.wording[lang].shows |-> fields[f]]]

AreFields(f) == DOMAIN f \subseteq FieldNames /\ f \in [DOMAIN f -> Nat]

IsTemplate(t) ==
  /\ t.act \in Acts
  /\ \A lang \in DOMAIN t.wording :
       t.wording[lang].says \in Nat /\ t.wording[lang].shows \subseteq FieldNames

ASSUME StatementAssumption ==
  /\ \A ask \in Asks : /\ ask.act \in Acts /\ ask.subject \in Nat
                       /\ AreFields(ask.fields) /\ IsTemplate(ask.template)
  /\ DayLength \in Nat \ {0}
  /\ Expiries \subseteq Nat
  /\ {LastInstant, MaxStatements} \subseteq Nat

VARIABLES now,           \* the instant the caller passes in
          statements,    \* the credentials that exist, wherever they are kept
          agreed         \* the sentences people have read and agreed to

statementVars == <<now, statements, agreed>>

(***************************************************************************)
(* Statement::seal and issue_statement.                                    *)
(***************************************************************************)
CanSeal(ask, lang) ==
  /\ ask.template.act = ask.act
  /\ TakesTerm(ask.act) <=> "until" \in DOMAIN ask.fields
  /\ RequiredFields(ask.act) \subseteq DOMAIN ask.fields
  /\ "until" \in DOMAIN ask.fields => ask.fields["until"] # NotADate
  /\ CanRender(ask.template, lang, ask.fields)

\* Mutant of OutlivesTerm: the expiry is compared the wrong way round.
OutlivesTermNot(ask, exp) ==
  "until" \in DOMAIN ask.fields => Day(exp) =< ask.fields["until"]

\* It does not stop verifying while it still binds.
OutlivesTerm(ask, exp) ==
  "until" \in DOMAIN ask.fields => Day(exp) >= ask.fields["until"]

Sign(d, ask, lang, exp, text) ==
  [signer |-> d, intact |-> TRUE, act |-> ask.act, subject |-> ask.subject,
   fields |-> ask.fields, template |-> ask.template, hash |-> ask.template,
   lang |-> lang, text |-> text, exp |-> exp]

\* d reads this sentence and signs.
PutKeyTo(d, ask, lang, exp, text) ==
  /\ Cardinality(statements) < MaxStatements
  /\ CanSeal(ask, lang)
  /\ OutlivesTerm(ask, exp)
  /\ statements' = statements \cup {Sign(d, ask, lang, exp, text)}
  /\ agreed' = agreed \cup {[signer |-> d, subject |-> ask.subject, text |-> text]}
  /\ UNCHANGED now

Issue(d, ask, lang, exp) ==
  PutKeyTo(d, ask, lang, exp, Render(ask.template, lang, ask.fields))

(***************************************************************************)
(* What happens to statements outside this code.                           *)
(***************************************************************************)

\* Another implementation does all of this and shows the wrong sentence.
Misprint(d, ask, lang, exp, shown) ==
  /\ CanRender(shown.template, lang, shown.fields)
  /\ PutKeyTo(d, ask, lang, exp, Render(shown.template, lang, shown.fields))

\* The symbol is changed under a signature, sentence and all.
Alter(s, ask) ==
  /\ s.intact
  /\ Cardinality(statements) < MaxStatements
  /\ CanSeal(ask, s.lang)
  /\ statements' = statements \cup
       {[Sign(s.signer, ask, s.lang, s.exp, Render(ask.template, s.lang, ask.fields))
          EXCEPT !.intact = FALSE]}
  /\ UNCHANGED <<now, agreed>>

Tick ==
  /\ now < LastInstant
  /\ now' = now + 1
  /\ UNCHANGED <<statements, agreed>>

(***************************************************************************)
(* open and verify_statement.                                              *)
(***************************************************************************)

\* Mutant of Opens: the sentence is not rendered again.
OpensUnread(s) == s.act \in Acts /\ s.hash = s.template

\* The symbol and the sentence agree.
Opens(s) ==
  /\ s.act \in Acts
  /\ s.hash = s.template
  /\ CanRender(s.template, s.lang, s.fields)
  /\ Render(s.template, s.lang, s.fields) = s.text

Verifies(s, instant) == s.intact /\ s.exp >= instant /\ Opens(s)

(***************************************************************************)
(* The part of a specification that is about statements.                   *)
(***************************************************************************)
StatementInit == now = 0 /\ statements = {} /\ agreed = {}

StatementNext ==
  \/ Tick
  \/ \E ask \in Asks, exp \in Expiries, d \in Signers, lang \in {"th", "en"} :
       \/ Issue(d, ask, lang, exp)
       \/ \E shown \in Asks : Misprint(d, ask, lang, exp, shown)
  \/ \E s \in statements, ask \in Asks : Alter(s, ask)

\* "A statement nobody can verify and everybody is still bound by" does not
\* come about: what was signed with issue_statement and reads as it was signed
\* verifies until the day it stops binding (statement/mod.rs 417-444).
BindsOnlyWhileItVerifies ==
  \A s \in statements :
    (s.intact /\ Opens(s) /\ "until" \in DOMAIN s.fields /\ Day(now) < s.fields["until"])
      => Verifies(s, now)
=============================================================================
