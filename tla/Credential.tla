----------------------------- MODULE Credential -----------------------------
(***************************************************************************)
(* SD-JWT credentials, src/credential/mod.rs, and the documents of         *)
(* src/did/mod.rs their issuers' keys are read from: what is signed, shown *)
(* and checked, as operators on records.  A key stands for its signatures, *)
(* its thumbprint and its JWK; a hash for what it covers.                  *)
(***************************************************************************)
EXTENDS Naturals, Sequences, FiniteSets

CONSTANTS Members,       \* the members of the claims that are objects
          None,          \* what is absent
          Half           \* a status with no uri or no index

Registered == {"iss", "vct", "iat", "exp", "cnf"}

(***************************************************************************)
(* A claim is named by the path to it: <<name>>, or <<name, member>>.      *)
(***************************************************************************)
IsObject(name) == name \in DOMAIN Members

\* Each disclosure reveals one path, and with it what is below.
Reveals(path) ==
  IF Len(path) = 1 /\ IsObject(path[1])
  THEN {<<path[1], m>> : m \in Members[path[1]]}
  ELSE {path}

\* What issue conceals: an object named in member_disclosable member by
\* member, every other claim as itself.
Pointers(params) ==
  LET split == {n \in params.disclosable \cap params.memberDisclosable : IsObject(n)}
  IN  {<<n>> : n \in params.disclosable \ split}
        \cup UNION {{<<n, m>> : m \in Members[n]} : n \in split}

\* issue: no kid in the header, every disclosure attached, no KB-JWT.
Issue(params, key) ==
  [body |-> [key |-> key, kid |-> None, iss |-> params.iss, vct |-> params.vct,
             exp |-> params.exp, cnf |-> params.holder, status |-> params.status,
             conceals |-> Pointers(params), visible |-> params.visible],
   reveals |-> Pointers(params),
   kb |-> None]

(***************************************************************************)
(* verify: the signature, then exp, then what was disclosed, without the   *)
(* registered claims.                                                      *)
(***************************************************************************)
Verifies(sdJwt, jwk, now) ==
  /\ sdJwt.body.key = jwk
  /\ sdJwt.body.exp >= now
  /\ sdJwt.reveals \subseteq sdJwt.body.conceals

\* What a set of disclosures shows of a credential.
Shown(body, reveals) ==
  {path \in UNION {Reveals(p) : p \in reveals}
              \cup UNION {Reveals(<<n>>) : n \in body.visible} : path[1] \notin Registered}

\* What verify gives back.
Verified(sdJwt) ==
  [vct |-> sdJwt.body.vct, issuer |-> sdJwt.body.iss,
   claims |-> Shown(sdJwt.body, sdJwt.reveals),
   holder |-> sdJwt.body.cnf, exp |-> sdJwt.body.exp]

(***************************************************************************)
(* present and verify_presentation.  The hash in the KB-JWT covers the     *)
(* body and the disclosures that go with it.                               *)
(***************************************************************************)
SdHash(sdJwt) == <<sdJwt.body, sdJwt.reveals>>

CanPresent(stored, disclose) == disclose \subseteq stored.reveals

\* Mutant of Present: what is not asked for is left in.
PresentAll(stored, disclose, audience, nonce, holderKey) ==
  [stored EXCEPT !.kb = [key |-> holderKey, aud |-> audience, nonce |-> nonce,
                         sdHash |-> SdHash(stored)]]

Present(stored, disclose, audience, nonce, holderKey) ==
  LET presented == [stored EXCEPT !.reveals = disclose]
  IN  [presented EXCEPT !.kb = [key |-> holderKey, aud |-> audience, nonce |-> nonce,
                                sdHash |-> SdHash(presented)]]

\* Mutant of KbMatches: the hash is not compared.
KbMatchesUnhashed(presentation, audience, nonce) ==
  /\ presentation.kb.key = presentation.body.cnf
  /\ presentation.kb.aud = audience
  /\ presentation.kb.nonce = nonce

KbMatches(presentation, audience, nonce) ==
  /\ presentation.kb.key = presentation.body.cnf
  /\ presentation.kb.aud = audience
  /\ presentation.kb.nonce = nonce
  /\ presentation.kb.sdHash = SdHash(presentation)

VerifiesPresentation(presentation, jwk, audience, nonce, now) ==
  /\ Verifies(presentation, jwk, now)
  /\ presentation.kb # None
  /\ KbMatches(presentation, audience, nonce)

(***************************************************************************)
(* The issuer's key out of a DID document [id, methods], each method       *)
(* [did, fragment, jwk].  A kid [did, fragment] picks the first method it  *)
(* is the id of, or whose fragment it shares; with no kid it is the first. *)
(***************************************************************************)
Picks(kid, method) ==
  \/ method.did = kid.did /\ method.fragment = kid.fragment
  \/ kid.fragment # None /\ method.fragment = kid.fragment

KidMatches(kid, doc) == {n \in DOMAIN doc.methods : Picks(kid, doc.methods[n])}

SigningJwkForKid(kid, doc) ==
  doc.methods[CHOOSE n \in KidMatches(kid, doc) :
                \A k \in KidMatches(kid, doc) : n =< k].jwk

\* Mutant of HasIssuerJwk: any document will do, as it did before the check.
HasIssuerJwkAnywhere(sdJwt, doc) ==
  IF sdJwt.body.kid = None THEN doc.methods # << >> ELSE KidMatches(sdJwt.body.kid, doc) # {}

\* issuer_jwk_for: the document has to be the one the credential names.
HasIssuerJwk(sdJwt, doc) ==
  /\ doc.id = sdJwt.body.iss
  /\ IF sdJwt.body.kid = None THEN doc.methods # << >>
                              ELSE KidMatches(sdJwt.body.kid, doc) # {}

IssuerJwkFor(sdJwt, doc) ==
  IF sdJwt.body.kid = None THEN doc.methods[1].jwk
                           ELSE SigningJwkForKid(sdJwt.body.kid, doc)

VerifiesWithDidDocument(sdJwt, doc, now) ==
  HasIssuerJwk(sdJwt, doc) /\ Verifies(sdJwt, IssuerJwkFor(sdJwt, doc), now)

\* did_web_url: a did:web [host, path] is a place on the web.
DidWebUrl(did) ==
  [host |-> did.host, path |-> IF did.path = << >> THEN <<".well-known">> ELSE did.path]

\* verify_via_resolver over a DidWebResolver: the document is fetched from
\* where the credential's own iss says.
VerifiesViaResolver(sdJwt, web, now) ==
  LET url == DidWebUrl(sdJwt.body.iss)
  IN  url \in DOMAIN web /\ VerifiesWithDidDocument(sdJwt, web[url], now)

(***************************************************************************)
(* ingest_with_did_document and build_stored.  No pins is no pinning.      *)
(***************************************************************************)
\* Mutant of Ingests: the pins are not looked at.
IngestsUnpinned(sdJwt, doc, now, pinned) == VerifiesWithDidDocument(sdJwt, doc, now)

Ingests(sdJwt, doc, now, pinned) ==
  /\ HasIssuerJwk(sdJwt, doc)
  /\ pinned # {} => IssuerJwkFor(sdJwt, doc) \in pinned
  /\ Verifies(sdJwt, IssuerJwkFor(sdJwt, doc), now)

\* Mutant of BuildStored: the issuer is who the hints say.
BuildStoredHinted(id, sdJwt, hints) ==
  [id |-> id, raw |-> sdJwt, title |-> sdJwt.body.vct, issuerName |-> hints.issuerName,
   issuerDid |-> hints.issuerName]

\* hints [title, issuerName] say how the card is drawn; whose it is, never.
BuildStored(id, sdJwt, hints) ==
  [id |-> id, raw |-> sdJwt,
   title |-> IF hints.title # None THEN hints.title ELSE sdJwt.body.vct,
   issuerName |-> IF hints.issuerName # None THEN hints.issuerName ELSE sdJwt.body.iss,
   issuerDid |-> sdJwt.body.iss]

(***************************************************************************)
(* status_reference and status_is_revoked.  A status [uri, idx] names a    *)
(* bit of a list [key, sub, bits, length, revoked].                        *)
(***************************************************************************)
HasStatus(sdJwt) == sdJwt.body.status # None
HalfAStatus(sdJwt) == sdJwt.body.status = Half

\* Mutant of StatusReads: any list the issuer signed will do.
StatusReadsAny(list, jwk, status) ==
  list.key = jwk /\ list.bits = 1 /\ status.idx < list.length

\* Past the end of the list is an error, and so is a list of wider states.
StatusReads(list, jwk, status) ==
  /\ list.key = jwk
  /\ list.sub = status.uri
  /\ list.bits = 1
  /\ status.idx < list.length

StatusIsRevoked(list, status) == status.idx \in list.revoked
=============================================================================
