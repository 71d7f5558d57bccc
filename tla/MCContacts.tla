---------------------------- MODULE MCContacts -----------------------------
(***************************************************************************)
(* Contacts with two mediators and a third that is no url, and names that  *)
(* are cut: in the middle of their characters, and before a character of   *)
(* four bytes.                                                             *)
(***************************************************************************)
EXTENDS Contacts, TLC

CONSTANTS ann, ben, here, there, nowhere

MCName == ann :> <<1, 1, 4>> @@ ben :> <<1, 1, 1, 1>>
=============================================================================
