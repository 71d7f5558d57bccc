----------------------------- MODULE MCMandate ------------------------------
(***************************************************************************)
(* Instances of Mandate for TLC: organisations 1 and 2, manifests 1 and 2. *)
(***************************************************************************)
EXTENDS Mandate, TLC

CONSTANTS d, e

MCSigners == {d, e}
MCFounder == (1 :> d @@ 2 :> d)

Given(names, org, until) ==
  [f \in names |-> CASE f = "org" -> org [] f = "until" -> until [] OTHER -> 0]

Wording(says, shows) ==
  [lang \in {"en"} |-> [says |-> says, shows |-> shows]]

\* Approving the manifest, for an organisation it names.
Approval ==
  [act |-> "approve", subject |-> 1,
   template |-> [act |-> "approve", wording |-> Wording(1, {"about", "role"})],
   fields |-> Given({"about", "role", "org"}, 1, 0)]

MCAsks == {MandateAsk(1, 1, 1), MandateAsk(1, 2, 1), MandateAsk(2, 1, 1),
           MandateAsk(1, 1, NotADate), Approval}
MCOneAsk == {MandateAsk(1, 1, 1)}

Board == <<[id |-> "board", members |-> <<d, e>>]>>
Simple(needs) == [groups |-> Board, alternatives |-> needs]

\* Both of the board; two of one; five quarters of it; a group there is not.
MCRules ==
  {Simple({{Count("board", 2)}}),
   Simple({{Fraction("board", 1, 2), Count("board", 1)}, {Fraction("board", 1, 1)}}),
   [groups |-> <<[id |-> "chair", members |-> <<e>>]>> \o Board,
    alternatives |-> {{Count("chair", 1), Fraction("board", 2, 3)}}],
   Simple({{Count("board", 3)}}),
   Simple({{Fraction("board", 5, 4)}}),
   Simple({{Count("chair", 1)}})}

MCZeroRules == {Simple({{Fraction("board", 0, 2)}})}
=============================================================================
