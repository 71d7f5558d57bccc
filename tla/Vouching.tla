------------------------------ MODULE Vouching -------------------------------
(***************************************************************************)
(* What Vaulet's one key says: about organisations (src/vouching.rs),      *)
(* packages (src/certificate.rs) and reference data (src/address.rs).      *)
(*                                                                         *)
(* One key signs all three, and nothing in a statement says which of them  *)
(* it is but the members it has.  A statement is its members, None where   *)
(* it has no such member; the hash of something is that thing.             *)
(***************************************************************************)
EXTENDS Credential, SequencesExt

CONSTANTS Skew,            \* for clocks that disagree
          Scalar           \* JSON that is no object, no list and no text

Empty == [text |-> ""]

\* The key a statement is checked with is published and pinned; with no pins,
\* published.
VerifyByPinnedKey(statement, voucherDoc, pinned) ==
  \E n \in DOMAIN voucherDoc.methods :
    LET jwk == voucherDoc.methods[n].jwk
    IN  /\ pinned # {} => jwk \in pinned
        /\ statement.key = jwk

\* Mutant of InTime: what has no expiry does not expire.
InTimeEver(statement, now) == statement.exp = None \/ statement.exp + Skew >= now

InTime(statement, now) == statement.exp # None /\ statement.exp + Skew >= now

(***************************************************************************)
(* vouching: whose word it is, and that the key the credential was signed  *)
(* with is one that was vouched for.                                       *)
(***************************************************************************)
\* Mutant of Covers: any key of the document will do.
CoversAny(statement, sdJwt, orgDoc) == TRUE

Covers(statement, sdJwt, orgDoc) ==
  statement.keys # None /\ IssuerJwkFor(sdJwt, orgDoc) \in statement.keys

Vouches(statement, sdJwt, orgDoc, voucherDoc, pinned, now) ==
  /\ VerifyByPinnedKey(statement, voucherDoc, pinned)
  /\ statement.sub = orgDoc.id
  /\ HasIssuerJwk(sdJwt, orgDoc)
  /\ Covers(statement, sdJwt, orgDoc)
  /\ InTime(statement, now)

\* read's three answers: an organisation that carries no statement has nothing
\* to show, one that carries one that does not hold is an error.
ReadVoucher(carried, sdJwt, orgDoc, voucherDoc, pinned, now) ==
  IF carried = None THEN "nothing"
  ELSE IF carried # Scalar /\ Vouches(carried, sdJwt, orgDoc, voucherDoc, pinned, now)
       THEN "vouched" ELSE "error"

(***************************************************************************)
(* certificate: over the bytes, who published them as what, and the report *)
(* a person agreed to.                                                     *)
(***************************************************************************)
\* A member that is not there is read as empty.
Want(said, is) == (IF said = None THEN Empty ELSE said) = is

\* The texts of a line; what is none is not looked at.
Texts(value) ==
  LET IsText(v) == v # Scalar
  IN  IF value = Scalar THEN << >> ELSE SelectSeq(value, IsText)

\* The same lines with the same texts, in any order.
SameReport(a, b) ==
  IF Scalar \in {a, b} THEN a = b
  ELSE /\ DOMAIN a = DOMAIN b
       /\ \A line \in DOMAIN a : ToBag(Texts(a[line])) = ToBag(Texts(b[line]))

\* Mutant of Certifies: the report is taken from the statement.
CertifiesUnread(statement, package, voucherDoc, pinned, now) ==
  /\ VerifyByPinnedKey(statement, voucherDoc, pinned)
  /\ Want(statement.sub, package.code)
  /\ Want(statement.publisher, package.publisher)
  /\ Want(statement.app, package.app)
  /\ Want(statement.version, package.version)
  /\ statement.report # None
  /\ InTime(statement, now)

Certifies(statement, package, voucherDoc, pinned, now) ==
  /\ VerifyByPinnedKey(statement, voucherDoc, pinned)
  /\ Want(statement.sub, package.code)
  /\ Want(statement.publisher, package.publisher)
  /\ Want(statement.app, package.app)
  /\ Want(statement.version, package.version)
  /\ statement.report # None
  /\ SameReport(statement.report, package.report)
  /\ InTime(statement, now)

(***************************************************************************)
(* address: a country's data or a dataset, by its name in any case.  There *)
(* is no expiry.                                                           *)
(***************************************************************************)
SameName(a, b) == a.word = b.word

\* Mutant of Attests: whichever of the two is named.
AttestsEither(statement, field, name, data, voucherDoc, pinned) ==
  /\ VerifyByPinnedKey(statement, voucherDoc, pinned)
  /\ statement.digest = data
  /\ \E named \in {statement.country, statement.dataset} \ {None} : SameName(named, name)
  /\ statement.version # None

Attests(statement, field, name, data, voucherDoc, pinned) ==
  /\ VerifyByPinnedKey(statement, voucherDoc, pinned)
  /\ statement.digest = data
  /\ statement[field] # None /\ SameName(statement[field], name)
  /\ statement.version # None
=============================================================================
