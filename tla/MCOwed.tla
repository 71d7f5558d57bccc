------------------------------- MODULE MCOwed -------------------------------
(***************************************************************************)
(* Instances of Owed for TLC: two queues, one of each kind.                *)
(***************************************************************************)
EXTENDS Owed

CONSTANTS t1, n1, n2

MCQueues == {"retract", "reintroduce"}
MCOneTarget == {t1}
MCTwoNews == {n1, n2}
=============================================================================
