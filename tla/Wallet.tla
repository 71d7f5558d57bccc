------------------------------- MODULE Wallet -------------------------------
(***************************************************************************)
(* A credential's life: offered, claimed, kept, shown, revoked.            *)
(*                                                                         *)
(* Wallets run src/protocol/mod.rs and src/credential/mod.rs; the issuers' *)
(* server and the verifiers are outside src/ and use the same operators.   *)
(* Whatever was ever sent or published may arrive late, again, at somebody *)
(* else, and two answers may arrive with their parts exchanged.  An issuer *)
(* in Relays hands its customers what it was itself handed elsewhere.      *)
(***************************************************************************)
EXTENDS Credential, Vouching, Oid4vci, Oid4vp

CONSTANTS Issuers,         \* did:web identifiers [host, path]
          Relays,          \* issuers that pass on the nonces of others' sessions
          Wallets,         \* holders, by their key
          Asks,            \* the presentation requests verifiers wait for an answer to
          Offers,          \* [issuer, code, txCode]
          OfferUrls,       \* where each offer is when it is not in the QR code
          Preambles,       \* other pairs in front of the offer
          Configurations,  \* what each issuer is set up to write
          Pins,            \* the thumbprints each issuer is pinned to
          Misserved,       \* documents served in an issuer's place
          Instants,        \* what the clocks of callers show
          Statements,      \* signed by Vaulet or in its name, each with what it is of
          VoucherDocs,     \* the documents served as Vaulet's
          VoucherPins,     \* the thumbprints a wallet is built with
          Packages, Data,  \* what certificates and attestations are of
          MaxIssued, MaxRotations, MaxShown      \* bounds

\* The n-th key of an issuer.
Key(i, n) == <<i, n>>

ASSUME WalletAssumption ==
  /\ {MaxIssued, MaxRotations, MaxShown} \subseteq Nat /\ Instants \subseteq Nat
  /\ Relays \subseteq Issuers /\ \A o \in Offers : o.issuer \in Issuers
  /\ \A i \in Issuers : \A k \in Pins[i] : k[1] = i
  \* Nothing holds for a document served in the place of an unpinned issuer's.
  /\ \A doc \in Misserved : doc.id \in Issuers /\ Pins[doc.id] # {}

\* In front of an offer are pairs of other names.
ASSUME OfferAssumption ==
  /\ Offers \subseteq DOMAIN Json /\ \A o \in Offers : OfferUrls[o] \in Seq(Byte) /\ IsUtf8(OfferUrls[o])
  /\ \A pre \in Preambles :
       /\ pre \in Seq(Nat) /\ (pre = << >> \/ pre[Len(pre)] = Ampersand)
       /\ \A n \in DOMAIN pre : pre[n] \notin {CredentialOffer, CredentialOfferUri}

\* What Vaulet's server signs of each kind has that kind's members: the keys
\* of the organisation it is about, the report of the package, the name and
\* the hash of the data.
SignedVouching(s) ==
  /\ s.truth = [kind |-> "vouching", of |-> s.sub]
  /\ \A k \in s.keys : k[1] = s.sub
  /\ s.report = None /\ s.digest = None

SignedCertificate(s) ==
  /\ s.keys = None /\ s.digest = None
  /\ \E p \in Packages :
       /\ s.truth = [kind |-> "certificate", of |-> <<p.code, p.agreed>>]
       /\ s.sub = p.code /\ SameReport(s.report, p.report)

SignedAttestation(s) ==
  /\ s.keys = None /\ s.report = None
  /\ \E d \in Data :
       /\ s.truth = [kind |-> "attestation", of |-> d]
       /\ s.digest = d.data /\ SameName(s[d.field], d.name)
       /\ \A field \in {"country", "dataset"} \ {d.field} : s[field] = None

\* A package is known by a hash of it and its report is of what is agreed to
\* ("a difference in it is a difference in what was agreed to",
\* certificate.rs 95), no two names of data differ in case alone, and only
\* Vaulet signs with the keys a wallet is built with.
ASSUME VoucherAssumption ==
  /\ Skew \in Nat /\ VoucherPins # {}
  /\ \A s \in Statements : s.exp = None \/ s.exp \in Nat
  /\ \A p \in Packages :
       /\ p.code # Empty
       /\ \A q \in Packages : SameReport(p.report, q.report) => p.agreed = q.agreed
  /\ \A d \in Data :
       /\ d = [field |-> d.field, name |-> d.name, data |-> d.data]
       /\ d.field \in {"country", "dataset"} /\ d.data # None
       /\ \A e \in Data : SameName(d.name, e.name) => d.name = e.name
  /\ \A s \in Statements : s.key \in VoucherPins =>
       SignedVouching(s) \/ SignedCertificate(s) \/ SignedAttestation(s)

VARIABLES web,           \* the document at each URL
          served,        \* every document that was ever there
          sessions,      \* what each scan came to, by its c_nonce
          proofs,        \* the proofs on their way
          issued,        \* every credential there is
          revoked,       \* those revoked, in that order
          kept,          \* what each wallet has stored
          shown,         \* every presentation that was made
          accepted       \* the last one that was accepted

issuerVars == <<web, served, issued, revoked>>
walletVars == <<sessions, proofs, kept, shown>>
vars == <<issuerVars, walletVars, accepted>>

Url(i) == DidWebUrl(i)

NoHints == [title |-> None, issuerName |-> None]

FirstDoc(i) ==
  [id |-> i, methods |-> <<[did |-> i, fragment |-> 1, jwk |-> Key(i, 1)]>>]

\* The key an issuer signs with is the one it made last.
Newest(i) ==
  LET methods == web[Url(i)].methods
  IN  methods[CHOOSE n \in DOMAIN methods :
                \A m \in DOMAIN methods : methods[m].fragment =< methods[n].fragment]

Init ==
  /\ web = [url \in {Url(i) : i \in Issuers} |-> FirstDoc(CHOOSE i \in Issuers : Url(i) = url)]
  /\ served = {FirstDoc(i) : i \in Issuers}
  /\ sessions = << >>
  /\ proofs = {}
  /\ issued = << >>
  /\ revoked = << >>
  /\ kept = [w \in Wallets |-> {}]
  /\ shown = {}
  /\ accepted = {}

(***************************************************************************)
(* The wallet claims.                                                      *)
(***************************************************************************)
\* The server redeems a code once, with a transaction code where the offer
\* said it takes one.
Redeems(token, o) ==
  token.code = o.code /\ (token.txCode # Absent) = o.txCode

\* Scanned and redeemed: the answer carries the nonce of the session.
Scan(w, o, byReference, preamble) ==
  LET parsed == ParseOffer(preamble \o (IF byReference THEN OfferByReference(OfferUrls[o])
                                                       ELSE ToOfferUri(o)))
      text == IF parsed.kind = "reference" /\ parsed.text = OfferUrls[o]
              THEN Json[o] ELSE parsed.text
      offer == IF IsOffer(text) THEN OfferOf(text) ELSE Absent
  IN  /\ \A s \in DOMAIN sessions : sessions[s].sent # o
      /\ sessions' = Append(sessions,
           [wallet |-> w, sent |-> o, offer |-> offer,
            open |-> offer # Absent /\ Redeems(PreAuthorized(offer), o)])
      /\ UNCHANGED <<issuerVars, proofs, kept, shown, accepted>>

\* The token the server binds the channel of session s with.
ChannelBinding(s) == <<"cb", s>>

\* Mutant of Prove: the proof is for whoever's nonce it is.
ProveForTheNonce(s, n) ==
  /\ sessions[s].offer # Absent
  /\ n = s \/ sessions[s].offer.issuer \in Relays
  /\ LET i == sessions[n].sent.issuer
         w == sessions[s].wallet
     IN  proofs' = proofs \cup {HolderProof(i, n, w),
                                HolderProofBound(i, n, ChannelBinding(n), w)}
  /\ UNCHANGED <<issuerVars, sessions, kept, shown, accepted>>

\* In session s the wallet is handed the nonce and the token of session n,
\* which is another one only if the issuer passes on what is not its own.
Prove(s, n) ==
  /\ sessions[s].offer # Absent
  /\ n = s \/ sessions[s].offer.issuer \in Relays
  /\ LET i == sessions[s].offer.issuer
         w == sessions[s].wallet
     IN  proofs' = proofs \cup {HolderProof(i, n, w),
                                HolderProofBound(i, n, ChannelBinding(n), w)}
  /\ UNCHANGED <<issuerVars, sessions, kept, shown, accepted>>

\* The wallet keeps a credential it got, on a document it got.
Ingest(w, n, doc, now) ==
  /\ Ingests(issued[n], doc, now, Pins[issued[n].body.iss])
  /\ kept' = [kept EXCEPT ![w] = @ \cup {BuildStored(n, issued[n], NoHints)}]
  /\ UNCHANGED <<issuerVars, sessions, proofs, shown, accepted>>

(***************************************************************************)
(* The issuers' server: what src/ is used for there.                       *)
(***************************************************************************)
\* A proof is taken for an open session of the issuer it names, by its nonce,
\* with the session's token or, in a flow that was issued none, without.
Takes(i, s, proof) ==
  LET header == DecodeProofJwt(proof)[1]
      claims == DecodeProofJwt(proof)[2]
  IN  /\ s \in DOMAIN sessions /\ sessions[s].open /\ sessions[s].sent.issuer = i
      /\ claims.aud = i /\ claims.nonce = s /\ claims.cb \in {ChannelBinding(s), Absent}
      /\ proof.signedBy = header.jwk

\* The credential is bound to the key in the proof's header.  Whose it says
\* it is, and in what list its status is, is up to the configuration.
IssueFor(i, s, proof, c) ==
  LET key == Newest(i)
      status == IF c.status = "list" THEN [uri |-> <<i, 1>>, idx |-> 0]
                ELSE IF c.status = "half" THEN Half ELSE None
      bare == Issue([iss |-> c.iss, vct |-> sessions[s].sent.code, exp |-> c.exp,
                     holder |-> DecodeProofJwt(proof)[1].jwk, disclosable |-> c.disclosable,
                     memberDisclosable |-> c.memberDisclosable,
                     visible |-> c.visible, status |-> status], key.jwk)
  IN  /\ Len(issued) < MaxIssued
      /\ Takes(i, s, proof)
      /\ issued' = Append(issued,
           IF c.kid THEN [bare EXCEPT !.body.kid = [did |-> i, fragment |-> key.fragment]] ELSE bare)
      /\ sessions' = [sessions EXCEPT ![s].open = FALSE]
      /\ UNCHANGED <<web, served, revoked, proofs, kept, shown, accepted>>

\* A new key is listed first, last, or alone.
Rotate(i, place) ==
  LET doc == web[Url(i)]
      n == Newest(i).fragment + 1
      method == [did |-> i, fragment |-> n, jwk |-> Key(i, n)]
      new == [doc EXCEPT !.methods = CASE place = "first" -> <<method>> \o @
                                       [] place = "last"  -> Append(@, method)
                                       [] place = "alone" -> <<method>>]
  IN  /\ Cardinality(served) < Cardinality(Issuers) + MaxRotations
      /\ web' = [web EXCEPT ![Url(i)] = new]
      /\ served' = served \cup {new}
      /\ UNCHANGED <<issued, revoked, walletVars, accepted>>

Revoke(n) ==
  /\ n \notin Range(revoked)
  /\ revoked' = Append(revoked, n)
  /\ UNCHANGED <<web, served, issued, walletVars, accepted>>

\* A list issuer i signs with its k-th key for its u-th uri, after t of the
\* revocations: truth is what was revoked by then.
SignedList(i, k, u, bits, length, t) ==
  LET truth == Range(SubSeq(revoked, 1, t))
      mine == {n \in truth : issued[n].body.status = [uri |-> <<i, u>>, idx |-> 0]}
  IN  [key |-> Key(i, k), sub |-> <<i, u>>, bits |-> bits, length |-> length, truth |-> truth,
       revoked |-> {issued[n].body.status.idx : n \in mine}]

\* The lists issuers may have signed so far: with any of their keys, for any
\* of their uris, before or after each revocation, too short or too wide.
Lists ==
  {SignedList(i, k, u, bits, length, t) :
     i \in Issuers, k \in 1 .. MaxRotations + 1, u \in 1 .. 2, bits \in 1 .. 2,
     length \in 0 .. 1, t \in 0 .. Len(revoked)}

(***************************************************************************)
(* Showing a credential and taking it.                                     *)
(***************************************************************************)
\* One entry of the answer to an ask: the wallet discloses what is required
\* of the card it matched.
Show(w, ask, required, card) ==
  /\ Cardinality(shown) < MaxShown
  /\ CanPresent(card.raw, required.claims)
  /\ LET vp == Present(card.raw, required.claims, ask.audience, ask.nonce, w)
     IN  shown' = shown \cup {[by |-> w, asked |-> required.claims,
                               answer |-> SatisfyRequest(vp, ask.nonce)]}
  /\ UNCHANGED <<issuerVars, sessions, proofs, kept, accepted>>

\* The list is read with the key that signed the credential.
StatusClear(sdJwt, jwk, list) ==
  HasStatus(sdJwt) =>
    /\ ~HalfAStatus(sdJwt)
    /\ StatusReads(list, jwk, sdJwt.body.status)
    /\ ~StatusIsRevoked(list, sdJwt.body.status)

\* What arrives is the body of one answer with the key binding of this or
\* another one.
Accept(ask, p, q, now) ==
  LET presentation == [p.answer.presentations EXCEPT !.kb = q.answer.presentations.kb]
      doc == web[Url(presentation.body.iss)]
  IN  /\ p.answer.nonce = ask.nonce
      /\ VerifiesViaResolver(presentation, web, now)
      /\ VerifiesPresentation(presentation, IssuerJwkFor(presentation, doc),
                              ask.audience, ask.nonce, now)
      /\ Meets(ask, Verified(presentation).vct, presentation.reveals)
      /\ \E list \in Lists :
           /\ StatusClear(presentation, IssuerJwkFor(presentation, doc), list)
           /\ accepted' = {[ask |-> ask, body |-> presentation.body, truth |-> list.truth,
                            view |-> Verified(presentation)]}
      /\ UNCHANGED <<issuerVars, walletVars>>

Next ==
  \/ \E w \in Wallets, o \in Offers, byReference \in BOOLEAN, preamble \in Preambles :
       Scan(w, o, byReference, preamble)
  \/ \E s, n \in DOMAIN sessions : Prove(s, n)
  \/ \E w \in Wallets, n \in DOMAIN issued, doc \in served \cup Misserved, now \in Instants :
       Ingest(w, n, doc, now)
  \/ \E i \in Issuers, s \in DOMAIN sessions, proof \in proofs : \E c \in Configurations[i] :
       IssueFor(i, s, proof, c)
  \/ \E i \in Issuers, place \in {"first", "last", "alone"} : Rotate(i, place)
  \/ \E n \in DOMAIN issued : Revoke(n)
  \/ \E w \in Wallets, ask \in Asks : \E card \in kept[w] :
       \E required \in MatchedBy(ask, card.raw.body.vct) : Show(w, ask, required, card)
  \/ \E ask \in Asks, p, q \in shown, now \in Instants : Accept(ask, p, q, now)

Spec == Init /\ [][Next]_vars

(***************************************************************************)
(* Properties.                                                             *)
(***************************************************************************)
\* What a wallet scans is the offer that was made, whatever bytes are in it
\* and whether it was in the QR code or behind it.
ScannedIsOffered == \A s \in DOMAIN sessions : sessions[s].offer = sessions[s].sent

\* The proof a session takes, and with it the key its credential is bound to,
\* is of the wallet that opened the session: not of one that another issuer
\* had sign with this session's nonce and token ("rather than relayed in from
\* another one", protocol/mod.rs 296), since it signs for whom it was asked by.
ProofsFitTheirSession ==
  \A s \in DOMAIN sessions :
    (sessions[s].open /\ sessions[s].sent.issuer \notin Relays) =>
      \A proof \in proofs :
        Takes(sessions[s].sent.issuer, s, proof) => proof.header.jwk = sessions[s].wallet

\* A stored card in an issuer's name was signed by that issuer: not by
\* another that puts the name in, not on another's document, an old one, or
\* one served in its place.
StoredIsTheIssuers ==
  \A w \in Wallets : \A card \in kept[w] : card.raw.body.key[1] = card.issuerDid

\* Whoever is accepted answered: the holder the credential is bound to made
\* this presentation for this verifier and nonce, and nothing is seen that
\* was not asked for then or visible to all.
AnswersTheChallenge ==
  \A a \in accepted : \E p \in shown :
    /\ p.by = a.body.cnf
    /\ p.answer.presentations.body = a.body
    /\ p.answer.presentations.kb.aud = a.ask.audience
    /\ p.answer.presentations.kb.nonce = a.ask.nonce
    /\ a.view.claims = Shown(a.body, p.asked)

\* A credential passes for not revoked on a list of its own issuer, on which
\* it was not revoked when it was signed; half a reference never passes.
ClearWasClear ==
  \A a \in accepted : a.body.status # None =>
    /\ a.body.status # Half
    /\ \A n \in DOMAIN issued : issued[n].body = a.body => n \notin a.truth

\* What Vaulet said it said of this: the name on a card that verifies is that
\* of who signed it, also on a document served in another's place; a
\* package and a dataset are what was certified and attested; no statement
\* passes for one of another kind, and on a clock that is at most Skew wrong
\* ("a minute either way, for clocks that disagree", vouching.rs 48) none with
\* a term that ended more than twice that ago or none at all, but for data.
WordIsVaulets ==
  \A s \in Statements, voucherDoc \in VoucherDocs, clock \in Instants :
    LET inTerm == \A time \in clock - Skew .. clock + Skew :
                    s.exp # None /\ time =< s.exp + 2 * Skew
    IN  /\ \A n \in DOMAIN issued, doc \in served \cup Misserved :
             VerifiesWithDidDocument(issued[n], doc, clock)
               /\ ReadVoucher(s, issued[n], doc, voucherDoc, VoucherPins, clock) = "vouched" =>
               inTerm /\ s.truth = [kind |-> "vouching", of |-> issued[n].body.key[1]]
        /\ \A p \in Packages : Certifies(s, p, voucherDoc, VoucherPins, clock) =>
               inTerm /\ s.truth = [kind |-> "certificate", of |-> <<p.code, p.agreed>>]
        /\ \A d \in Data : Attests(s, d.field, d.name, d.data, voucherDoc, VoucherPins) =>
               s.truth = [kind |-> "attestation", of |-> d]
=============================================================================
