---------------------------- MODULE WalletProofs -----------------------------
(***************************************************************************)
(* Theorems about Wallet, for all issuers, configurations, wallets,        *)
(* requests, clocks and bounds: what a scanned offer is read as, whose     *)
(* proof a server takes, whose credential is stored, who answered a        *)
(* challenge with what, what passing for not revoked means, and what a     *)
(* statement signed by Vaulet can be taken for.                            *)
(***************************************************************************)
EXTENDS Wallet, SequenceTheorems, WellFoundedInduction, TLAPS

(***************************************************************************)
(* Credentials, issued and shown.                                          *)
(***************************************************************************)
\* A credential is of three parts, and its status one that was configured.
SdJwtSound(c) ==
  /\ c = [body |-> c.body, reveals |-> c.reveals, kb |-> c.kb]
  /\ c.body.status \in {None, Half} \cup {[uri |-> <<i, 1>>, idx |-> 0] : i \in Issuers}

IssuedSound == \E R : issued \in Seq(R) /\ \A c \in R : SdJwtSound(c)

KeptSound ==
  /\ DOMAIN kept = Wallets
  /\ \A w \in Wallets : \A card \in kept[w] : SdJwtSound(card.raw)

\* A presentation's hash covers what it shows, under the key of who made it.
ShownSound ==
  \A s \in shown :
    LET vp == s.answer.presentations
    IN  /\ SdJwtSound(vp)
        /\ vp.kb.key = s.by
        /\ vp.kb.sdHash = <<vp.body, vp.reveals>>
        /\ vp.reveals = s.asked

\* The record of a presentation.
LEMMA PresentedSound ==
  ASSUME NEW c, SdJwtSound(c), NEW d, NEW audience, NEW nonce, NEW key
  PROVE  LET vp == Present(c, d, audience, nonce, key)
         IN  /\ SdJwtSound(vp)
             /\ vp.body = c.body /\ vp.reveals = d
             /\ vp.kb = [key |-> key, aud |-> audience, nonce |-> nonce,
                         sdHash |-> <<c.body, d>>]
<1> DEFINE bare == [body |-> c.body, reveals |-> d, kb |-> c.kb]
           kb == [key |-> key, aud |-> audience, nonce |-> nonce, sdHash |-> <<c.body, d>>]
<1>1. c = [body |-> c.body, reveals |-> c.reveals, kb |-> c.kb]
  BY DEF SdJwtSound
<1>2. [c EXCEPT !.reveals = d] = bare
  BY <1>1
<1>3. SdHash(bare) = <<c.body, d>>
  BY DEF SdHash
<1>4. Present(c, d, audience, nonce, key) = [body |-> c.body, reveals |-> d, kb |-> kb]
  <2>1. Present(c, d, audience, nonce, key)
          = [bare EXCEPT !.kb = [key |-> key, aud |-> audience, nonce |-> nonce,
                                 sdHash |-> SdHash(bare)]]
    BY <1>2 DEF Present
  <2>2. [bare EXCEPT !.kb = kb] = [body |-> c.body, reveals |-> d, kb |-> kb]
    OBVIOUS
  <2> QED BY <1>3, <2>1, <2>2
<1> HIDE DEF kb
<1>5. SdJwtSound([body |-> c.body, reveals |-> d, kb |-> kb])
  BY DEF SdJwtSound
<1> QED BY <1>4, <1>5 DEF kb

\* What the configuration gives is a sound credential.
LEMMA NewCredentialSound ==
  ASSUME NEW i \in Issuers, NEW s, NEW proof, NEW c, IssueFor(i, s, proof, c)
  PROVE  \E x : issued' = Append(issued, x) /\ SdJwtSound(x)
<1> DEFINE key == Newest(i)
           status == IF c.status = "list" THEN [uri |-> <<i, 1>>, idx |-> 0]
                     ELSE IF c.status = "half" THEN Half ELSE None
           params == [iss |-> c.iss, vct |-> sessions[s].sent.code, exp |-> c.exp,
                      holder |-> DecodeProofJwt(proof)[1].jwk, disclosable |-> c.disclosable,
                      memberDisclosable |-> c.memberDisclosable,
                      visible |-> c.visible, status |-> status]
           bare == Issue(params, key.jwk)
           x == IF c.kid THEN [bare EXCEPT !.body.kid = [did |-> i, fragment |-> key.fragment]] ELSE bare
<1>1. issued' = Append(issued, x)
  BY DEF IssueFor
<1>2. status \in {None, Half} \cup {[uri |-> <<j, 1>>, idx |-> 0] : j \in Issuers}
  OBVIOUS
<1>3. params.status = status
  OBVIOUS
<1> HIDE DEF status, params, key
<1>4. /\ bare = [body |-> bare.body, reveals |-> bare.reveals, kb |-> bare.kb]
      /\ bare.body.status = status
  BY <1>3 DEF Issue
<1>5. bare.body = [bare.body EXCEPT !.kid = None]
  BY DEF Issue
<1>6. SdJwtSound(bare)
  BY <1>2, <1>4 DEF SdJwtSound
<1>7. ASSUME NEW kid PROVE SdJwtSound([bare EXCEPT !.body.kid = kid])
  <2>1. [bare.body EXCEPT !.kid = kid].status = bare.body.status
    BY DEF Issue
  <2>2. [bare EXCEPT !.body.kid = kid]
          = [body |-> [bare.body EXCEPT !.kid = kid], reveals |-> bare.reveals, kb |-> bare.kb]
    BY <1>4
  <2> HIDE DEF bare
  <2> QED BY <1>2, <1>4, <2>1, <2>2 DEF SdJwtSound
<1> QED BY <1>1, <1>6, <1>7

\* Every action keeps credentials, cards and presentations sound; what is
\* issued stays in its place.
SdJwtsSound == IssuedSound /\ KeptSound /\ ShownSound

LEMMA InitSdJwtsSound == Init => SdJwtsSound
<1> SUFFICES ASSUME Init PROVE SdJwtsSound
  OBVIOUS
<1>1. IssuedSound
  <2>1. issued \in Seq({})
    BY EmptySeq DEF Init
  <2> QED BY <2>1 DEF IssuedSound
<1> QED BY <1>1 DEF SdJwtsSound, KeptSound, ShownSound, Init

LEMMA NextSdJwtsSound == SdJwtsSound /\ [Next]_vars => SdJwtsSound'
<1> SUFFICES ASSUME SdJwtsSound, [Next]_vars PROVE SdJwtsSound'
  OBVIOUS
<1>1. ASSUME UNCHANGED <<issued, kept, shown>> PROVE SdJwtsSound'
  BY <1>1 DEF SdJwtsSound, IssuedSound, KeptSound, ShownSound
<1>2. ASSUME NEW w \in Wallets, NEW n \in DOMAIN issued, NEW doc, NEW now, Ingest(w, n, doc, now)
      PROVE  SdJwtsSound'
  <2>1. SdJwtSound(issued[n])
    <3>1. PICK R : issued \in Seq(R) /\ \A c \in R : SdJwtSound(c)
      BY DEF SdJwtsSound, IssuedSound
    <3> QED BY <3>1, ElementOfSeq, LenProperties
  <2>2. BuildStored(n, issued[n], NoHints).raw = issued[n]
    BY DEF BuildStored
  <2> DEFINE new == BuildStored(n, issued[n], NoHints)
  <2>3. kept' = [kept EXCEPT ![w] = @ \cup {new}]
    BY <1>2 DEF Ingest
  <2> HIDE DEF new
  <2>4. KeptSound'
    BY <2>1, <2>2, <2>3 DEF SdJwtsSound, KeptSound, new
  <2> QED BY <1>2, <2>4 DEF Ingest, issuerVars, SdJwtsSound, IssuedSound, ShownSound
<1>3. ASSUME NEW i \in Issuers, NEW s, NEW proof, NEW c, IssueFor(i, s, proof, c)
      PROVE  SdJwtsSound'
  <2>1. PICK x : issued' = Append(issued, x) /\ SdJwtSound(x)
    BY <1>3, NewCredentialSound
  <2>2. PICK R : issued \in Seq(R) /\ \A y \in R : SdJwtSound(y)
    BY DEF SdJwtsSound, IssuedSound
  <2> DEFINE S == R \cup {x}
  <2>3. issued \in Seq(S) /\ x \in S
    BY <2>2, SeqMonotonic
  <2>4. issued' \in Seq(S)
    <3> HIDE DEF S
    <3> QED BY <2>1, <2>3, AppendProperties
  <2>5. \A y \in S : SdJwtSound(y)
    BY <2>1, <2>2
  <2>6. IssuedSound'
    <3> HIDE DEF S
    <3> QED BY <2>4, <2>5 DEF IssuedSound, SdJwtSound
  <2> QED BY <1>3, <2>6 DEF IssueFor, SdJwtsSound, KeptSound, ShownSound, SdJwtSound
<1>4. ASSUME NEW w \in Wallets, NEW ask, NEW card \in kept[w], NEW required,
             Show(w, ask, required, card)
      PROVE  SdJwtsSound'
  <2> DEFINE vp == Present(card.raw, required.claims, ask.audience, ask.nonce, w)
             new == [by |-> w, asked |-> required.claims, answer |-> SatisfyRequest(vp, ask.nonce)]
  <2>1. SdJwtSound(card.raw)
    BY DEF SdJwtsSound, KeptSound
  <2>2. /\ SdJwtSound(vp) /\ vp.body = card.raw.body /\ vp.reveals = required.claims
        /\ vp.kb = [key |-> w, aud |-> ask.audience, nonce |-> ask.nonce,
                    sdHash |-> <<card.raw.body, required.claims>>]
    <3> HIDE DEF vp
    <3> QED BY <2>1, PresentedSound DEF vp
  <2>3. shown' = shown \cup {new}
    BY <1>4 DEF Show
  <2>4. vp.kb.key = w /\ vp.kb.sdHash = <<vp.body, vp.reveals>>
    <3> HIDE DEF vp
    <3> QED BY <2>2
  <2>5. new.answer.presentations = vp /\ new.by = w /\ new.asked = required.claims
    <3> HIDE DEF vp
    <3> QED BY DEF SatisfyRequest
  <2> HIDE DEF vp, new
  <2>6. ShownSound'
    BY <2>2, <2>3, <2>4, <2>5 DEF SdJwtsSound, ShownSound, SdJwtSound
  <2> QED BY <1>4, <2>6 DEF Show, issuerVars, SdJwtsSound, IssuedSound, KeptSound, SdJwtSound
<1>5. ASSUME NEW w, NEW o, NEW byReference, NEW preamble, Scan(w, o, byReference, preamble)
      PROVE  UNCHANGED <<issued, kept, shown>>
  BY <1>5 DEF Scan, issuerVars
<1>6. ASSUME NEW s, NEW n, Prove(s, n) PROVE UNCHANGED <<issued, kept, shown>>
  BY <1>6 DEF Prove, issuerVars
<1>7. ASSUME NEW i, NEW place, Rotate(i, place) PROVE UNCHANGED <<issued, kept, shown>>
  BY <1>7 DEF Rotate, walletVars
<1>8. ASSUME NEW n, Revoke(n) PROVE UNCHANGED <<issued, kept, shown>>
  BY <1>8 DEF Revoke, walletVars
<1>9. ASSUME NEW ask, NEW p, NEW q, NEW now, Accept(ask, p, q, now)
      PROVE UNCHANGED <<issued, kept, shown>>
  BY <1>9 DEF Accept, walletVars, issuerVars
<1>10. UNCHANGED vars => UNCHANGED <<issued, kept, shown>>
  BY DEF vars, walletVars, issuerVars
<1> QED BY <1>1, <1>2, <1>3, <1>4, <1>5, <1>6, <1>7, <1>8, <1>9, <1>10 DEF Next

THEOREM CredentialsSound == Spec => []SdJwtsSound
BY InitSdJwtsSound, NextSdJwtsSound, PTL DEF Spec

(***************************************************************************)
(* Answering a challenge.                                                  *)
(***************************************************************************)
\* What is accepted stands as it did, and presentations are not unmade.
LEMMA NextAccepts ==
  [Next]_vars => \/ accepted' = accepted /\ shown \subseteq shown'
                 \/ \E ask \in Asks, p, q \in shown, now \in Instants : Accept(ask, p, q, now)
<1> SUFFICES ASSUME [Next]_vars
             PROVE  \/ accepted' = accepted /\ shown \subseteq shown'
                    \/ \E ask \in Asks, p, q \in shown, now \in Instants : Accept(ask, p, q, now)
  OBVIOUS
<1>1. CASE UNCHANGED vars
  BY <1>1 DEF vars, walletVars
<1>2. ASSUME NEW w, NEW o, NEW byReference, NEW preamble, Scan(w, o, byReference, preamble)
      PROVE  accepted' = accepted /\ shown \subseteq shown'
  BY <1>2 DEF Scan
<1>3. ASSUME NEW s, NEW n, Prove(s, n) PROVE accepted' = accepted /\ shown \subseteq shown'
  BY <1>3 DEF Prove
<1>4. ASSUME NEW w, NEW n, NEW doc, NEW now, Ingest(w, n, doc, now)
      PROVE  accepted' = accepted /\ shown \subseteq shown'
  BY <1>4 DEF Ingest
<1>5. ASSUME NEW i, NEW s, NEW proof, NEW c, IssueFor(i, s, proof, c)
      PROVE  accepted' = accepted /\ shown \subseteq shown'
  BY <1>5 DEF IssueFor
<1>6. ASSUME NEW i, NEW place, Rotate(i, place)
      PROVE accepted' = accepted /\ shown \subseteq shown'
  BY <1>6 DEF Rotate, walletVars
<1>7. ASSUME NEW n, Revoke(n) PROVE accepted' = accepted /\ shown \subseteq shown'
  BY <1>7 DEF Revoke, walletVars
<1>8. ASSUME NEW w, NEW ask, NEW card, NEW required, Show(w, ask, required, card)
      PROVE  accepted' = accepted /\ shown \subseteq shown'
  BY <1>8 DEF Show
<1> QED BY <1>1, <1>2, <1>3, <1>4, <1>5, <1>6, <1>7, <1>8 DEF Next

\* The body of one presentation with the key binding of another.
LEMMA ExchangedParts ==
  ASSUME NEW c, SdJwtSound(c), NEW kb
  PROVE  LET x == [c EXCEPT !.kb = kb]
         IN  x.body = c.body /\ x.reveals = c.reveals /\ x.kb = kb
<1>1. c = [body |-> c.body, reveals |-> c.reveals, kb |-> c.kb]
  BY DEF SdJwtSound
<1>2. [c EXCEPT !.kb = kb] = [body |-> c.body, reveals |-> c.reveals, kb |-> kb]
  BY <1>1
<1> QED BY <1>2

\* AnswersTheChallenge, for any number of verifiers, requests and answers put
\* together of parts: the hash of the key binding covers the rest
\* (credential/mod.rs, verify_presentation).
THEOREM OnlyTheHolderAnswers == Spec => []AnswersTheChallenge
<1>1. Init => AnswersTheChallenge
  BY DEF Init, AnswersTheChallenge
<1>2. ASSUME SdJwtsSound, AnswersTheChallenge, [Next]_vars
      PROVE  AnswersTheChallenge'
  <2>1. CASE accepted' = accepted /\ shown \subseteq shown'
    BY <1>2, <2>1 DEF AnswersTheChallenge
  <2>2. ASSUME NEW ask \in Asks, NEW p \in shown, NEW q \in shown, NEW now \in Instants,
               Accept(ask, p, q, now)
        PROVE  AnswersTheChallenge'
    <3> DEFINE P == p.answer.presentations
               Q == q.answer.presentations
               x == [P EXCEPT !.kb = Q.kb]
    <3>1. /\ SdJwtSound(P) /\ SdJwtSound(Q)
          /\ Q.kb.key = q.by /\ Q.kb.sdHash = <<Q.body, Q.reveals>> /\ Q.reveals = q.asked
      BY <1>2 DEF SdJwtsSound, ShownSound
    <3>2. x.body = P.body /\ x.reveals = P.reveals /\ x.kb = Q.kb
      <4> HIDE DEF P, Q
      <4> QED BY <3>1, ExchangedParts
    <3>3. /\ x.kb.key = x.body.cnf /\ x.kb.aud = ask.audience /\ x.kb.nonce = ask.nonce
          /\ x.kb.sdHash = SdHash(x)
      BY <2>2 DEF Accept, VerifiesPresentation, KbMatches
    <3>4. PICK list \in Lists : accepted' = {[ask |-> ask, body |-> x.body, truth |-> list.truth,
                                             view |-> Verified(x)]}
      BY <2>2 DEF Accept
    <3>5. shown' = shown
      BY <2>2 DEF Accept, walletVars
    <3> DEFINE a == [ask |-> ask, body |-> x.body, truth |-> list.truth, view |-> Verified(x)]
    <3>6. a.ask = ask /\ a.body = x.body /\ a.view.claims = Shown(x.body, x.reveals)
      BY DEF Verified
    <3> HIDE DEF P, Q, x, a
    <3>7. Q.body = x.body /\ Q.reveals = x.reveals
      BY <3>1, <3>2, <3>3 DEF SdHash
    <3>8. /\ q.by = a.body.cnf
          /\ q.answer.presentations.body = a.body
          /\ q.answer.presentations.kb.aud = a.ask.audience
          /\ q.answer.presentations.kb.nonce = a.ask.nonce
          /\ a.view.claims = Shown(a.body, q.asked)
      BY <3>1, <3>2, <3>3, <3>6, <3>7 DEF Q
    <3>9. accepted' = {a}
      BY <3>4 DEF a, x
    <3> QED BY <3>5, <3>8, <3>9 DEF AnswersTheChallenge
  <2> QED BY <1>2, <2>1, <2>2, NextAccepts
<1> QED BY <1>1, <1>2, CredentialsSound, PTL DEF Spec

(***************************************************************************)
(* Storing.                                                                *)
(***************************************************************************)
\* No two issuers publish at one place.  did:web:host and
\* did:web:host:.well-known do (did/mod.rs, did_web_url), and then either's
\* document is the other's.
OneUrlEach == \A i, j \in Issuers : Url(i) = Url(j) => i = j

\* A document lists keys of who it is of.
DocSound(doc) ==
  /\ doc = [id |-> doc.id, methods |-> doc.methods]
  /\ \E M : doc.methods \in Seq(M) /\ \A m \in M : m.jwk[1] = doc.id

WebSound ==
  /\ \A i \in Issuers :
       Url(i) \in DOMAIN web /\ web[Url(i)].id = i /\ DocSound(web[Url(i)])
  /\ \A doc \in served : DocSound(doc)

LEMMA FirstDocSound ==
  ASSUME NEW i PROVE FirstDoc(i).id = i /\ DocSound(FirstDoc(i))
<1> DEFINE method == [did |-> i, fragment |-> 1, jwk |-> Key(i, 1)]
<1>1. method.jwk[1] = i
  BY DEF Key
<1> HIDE DEF method
<1>2. <<method>> \in Seq({method})
  OBVIOUS
<1>3. FirstDoc(i) = [id |-> i, methods |-> <<method>>]
  BY DEF FirstDoc, method
<1>4. \E M : <<method>> \in Seq(M) /\ \A m \in M : m.jwk[1] = i
  <2> DEFINE M == {method}
  <2>1. <<method>> \in Seq(M) /\ \A m \in M : m.jwk[1] = i
    BY <1>1, <1>2
  <2> HIDE DEF M
  <2> QED BY <2>1
<1> DEFINE d == FirstDoc(i)
<1>5. d.id = i /\ d.methods = <<method>> /\ d = [id |-> d.id, methods |-> d.methods]
  BY <1>3
<1> HIDE DEF d
<1>6. d.id = i /\ DocSound(d)
  BY <1>4, <1>5 DEF DocSound
<1> QED BY <1>6 DEF d

LEMMA LeastOne ==
  ASSUME NEW S \in SUBSET Nat, S # {}
  PROVE  \E x \in S : \A y \in S : x =< y
<1>1. PICK x \in S : \A y \in S : ~(<<y, x>> \in OpToRel(<, Nat))
  <2> DEFINE R == OpToRel(<, Nat)
  <2>1. IsWellFoundedOn(R, Nat)
    BY NatLessThanWellFounded
  <2> HIDE DEF R
  <2>2. \E x \in S : \A y \in S : ~(<<y, x>> \in R)
    BY <2>1, WFMin
  <2> QED BY <2>2 DEF R
<1>2. \A y \in S : x =< y
  <2> SUFFICES ASSUME NEW y \in S, y < x PROVE FALSE
    OBVIOUS
  <2> DEFINE yx == <<y, x>>
  <2>1. yx \in Nat \X Nat /\ yx[1] = y /\ yx[2] = x
    OBVIOUS
  <2> HIDE DEF yx
  <2>2. yx \in OpToRel(<, Nat)
    BY <2>1 DEF OpToRel
  <2> QED BY <1>1, <2>2 DEF yx
<1> QED BY <1>2

\* The first key of some.
LEMMA FirstOne ==
  ASSUME NEW S \in SUBSET Nat, S # {}
  PROVE  (CHOOSE n \in S : \A k \in S : n =< k) \in S
BY LeastOne

LEMMA KeyOfTheDocument ==
  ASSUME NEW c, NEW doc, DocSound(doc), HasIssuerJwk(c, doc)
  PROVE  IssuerJwkFor(c, doc)[1] = doc.id
<1>1. PICK M : doc.methods \in Seq(M) /\ \A m \in M : m.jwk[1] = doc.id
  BY DEF DocSound
<1>2. DOMAIN doc.methods = 1 .. Len(doc.methods) /\ Len(doc.methods) \in Nat
  BY <1>1, LenProperties
<1>3. \A n \in DOMAIN doc.methods : doc.methods[n].jwk[1] = doc.id
  BY <1>1, <1>2, ElementOfSeq
<1>4. CASE c.body.kid = None
  <2>1. 1 \in DOMAIN doc.methods
    <3>1. doc.methods # << >>
      BY <1>4 DEF HasIssuerJwk
    <3> QED BY <1>1, <1>2, <3>1, EmptySeq
  <2> QED BY <1>3, <1>4, <2>1 DEF IssuerJwkFor
<1>5. CASE c.body.kid # None
  <2> DEFINE S == KidMatches(c.body.kid, doc)
             n == CHOOSE n \in S : \A k \in S : n =< k
  <2>1. S # {} /\ S \subseteq DOMAIN doc.methods
    BY <1>5 DEF HasIssuerJwk, KidMatches
  <2>2. IssuerJwkFor(c, doc) = doc.methods[n].jwk
    BY <1>5 DEF IssuerJwkFor, SigningJwkForKid
  <2>3. n \in S
    <3>1. S \in SUBSET Nat
      BY <1>2, <2>1
    <3> HIDE DEF S
    <3> QED BY <2>1, <3>1, FirstOne
  <2> HIDE DEF S, n
  <2> QED BY <1>3, <2>1, <2>2, <2>3
<1> QED BY <1>4, <1>5

LEMMA InitWebSound == ASSUME OneUrlEach PROVE Init => WebSound
<1> SUFFICES ASSUME Init PROVE WebSound
  OBVIOUS
<1>1. ASSUME NEW i \in Issuers
      PROVE  Url(i) \in DOMAIN web /\ web[Url(i)] = FirstDoc(i)
  <2>1. (CHOOSE j \in Issuers : Url(j) = Url(i)) = i
    BY DEF OneUrlEach
  <2>2. web = [url \in {Url(j) : j \in Issuers} |-> FirstDoc(CHOOSE j \in Issuers : Url(j) = url)]
    BY DEF Init
  <2> QED BY <2>1, <2>2
<1>2. served = {FirstDoc(i) : i \in Issuers}
  BY DEF Init
<1> QED BY <1>1, <1>2, FirstDocSound DEF WebSound

LEMMA RotateSound ==
  ASSUME OneUrlEach, WebSound, NEW i \in Issuers, NEW place \in {"first", "last", "alone"},
         Rotate(i, place)
  PROVE  WebSound'
<1> DEFINE doc == web[Url(i)]
           n == Newest(i).fragment + 1
           method == [did |-> i, fragment |-> n, jwk |-> Key(i, n)]
           methods == CASE place = "first" -> <<method>> \o doc.methods
                        [] place = "last"  -> Append(doc.methods, method)
                        [] place = "alone" -> <<method>>
           new == [id |-> i, methods |-> methods]
<1>1. Url(i) \in DOMAIN web /\ doc.id = i /\ DocSound(doc)
  BY DEF WebSound
<1>2. doc = [id |-> i, methods |-> doc.methods]
  BY <1>1 DEF DocSound
<1>3. web' = [web EXCEPT ![Url(i)] = new] /\ served' = served \cup {new}
  <2>1. [doc EXCEPT !.methods = methods] = new
    <3> HIDE DEF methods, doc
    <3> QED BY <1>2
  <2> QED BY <2>1 DEF Rotate
<1>4. method.jwk[1] = i
  BY DEF Key
<1>5. PICK M : doc.methods \in Seq(M) /\ \A m \in M : m.jwk[1] = i
  BY <1>1 DEF DocSound
<1> DEFINE S == M \cup {method}
<1> HIDE DEF method, doc
<1>6. /\ doc.methods \in Seq(S) /\ <<method>> \in Seq(S) /\ method \in S
      /\ \A m \in S : m.jwk[1] = i
  BY <1>4, <1>5, SeqMonotonic
<1> HIDE DEF S
<1>7. methods \in Seq(S)
  BY <1>6, AppendProperties, ConcatProperties
<1>8. new.id = i /\ DocSound(new)
  <2> HIDE DEF methods
  <2> QED BY <1>6, <1>7 DEF DocSound
<1> HIDE DEF new
<1> QED BY <1>3, <1>8 DEF WebSound, DocSound, OneUrlEach

LEMMA NextWebSound == ASSUME OneUrlEach PROVE WebSound /\ [Next]_vars => WebSound'
<1> SUFFICES ASSUME WebSound, [Next]_vars PROVE WebSound'
  OBVIOUS
<1>1. ASSUME UNCHANGED <<web, served>> PROVE WebSound'
  BY <1>1 DEF WebSound, DocSound
<1>2. ASSUME NEW w, NEW o, NEW byReference, NEW preamble, Scan(w, o, byReference, preamble)
      PROVE  UNCHANGED <<web, served>>
  BY <1>2 DEF Scan, issuerVars
<1>3. ASSUME NEW s, NEW n, Prove(s, n) PROVE UNCHANGED <<web, served>>
  BY <1>3 DEF Prove, issuerVars
<1>4. ASSUME NEW w, NEW n, NEW doc, NEW now, Ingest(w, n, doc, now)
      PROVE  UNCHANGED <<web, served>>
  BY <1>4 DEF Ingest, issuerVars
<1>5. ASSUME NEW i, NEW s, NEW proof, NEW c, IssueFor(i, s, proof, c)
      PROVE  UNCHANGED <<web, served>>
  BY <1>5 DEF IssueFor
<1>6. ASSUME NEW n, Revoke(n) PROVE UNCHANGED <<web, served>>
  BY <1>6 DEF Revoke
<1>7. ASSUME NEW w, NEW ask, NEW card, NEW required, Show(w, ask, required, card)
      PROVE  UNCHANGED <<web, served>>
  BY <1>7 DEF Show, issuerVars
<1>8. ASSUME NEW ask, NEW p, NEW q, NEW now, Accept(ask, p, q, now)
      PROVE UNCHANGED <<web, served>>
  BY <1>8 DEF Accept, issuerVars
<1>9. UNCHANGED vars => UNCHANGED <<web, served>>
  BY DEF vars, issuerVars
<1> QED BY <1>1, <1>2, <1>3, <1>4, <1>5, <1>6, <1>7, <1>8, <1>9, RotateSound DEF Next

LEMMA DocumentsSound == ASSUME OneUrlEach PROVE Spec => []WebSound
BY InitWebSound, NextWebSound, PTL DEF Spec

LEMMA IngestsTheIssuers ==
  ASSUME WalletAssumption, OneUrlEach, SdJwtsSound, WebSound, StoredIsTheIssuers,
         NEW w \in Wallets, NEW n \in DOMAIN issued, NEW doc \in served \cup Misserved, NEW now,
         Ingest(w, n, doc, now)
  PROVE  StoredIsTheIssuers'
<1> DEFINE c == issued[n]
           jwk == IssuerJwkFor(c, doc)
           new == BuildStored(n, c, NoHints)
<1>1. /\ HasIssuerJwk(c, doc) /\ doc.id = c.body.iss /\ c.body.key = jwk
      /\ Pins[c.body.iss] # {} => jwk \in Pins[c.body.iss]
  BY DEF Ingest, Ingests, HasIssuerJwk, Verifies
<1>2. jwk[1] = doc.id
  <2>1. CASE doc \in served
    BY <1>1, <2>1, KeyOfTheDocument DEF WebSound
  <2>2. CASE doc \in Misserved
    <3>1. doc.id \in Issuers /\ Pins[doc.id] # {}
      BY <2>2 DEF WalletAssumption
    <3>2. jwk \in Pins[doc.id]
      BY <1>1, <3>1
    <3> QED BY <3>1, <3>2 DEF WalletAssumption
  <2> QED BY <2>1, <2>2
<1>3. new.raw = c /\ new.issuerDid = c.body.iss
  BY DEF BuildStored
<1>4. kept' = [kept EXCEPT ![w] = @ \cup {new}] /\ DOMAIN kept = Wallets
  BY DEF Ingest, SdJwtsSound, KeptSound
<1>5. new.raw.body.key[1] = new.issuerDid
  BY <1>1, <1>2, <1>3
<1> HIDE DEF new
<1> QED BY <1>4, <1>5 DEF StoredIsTheIssuers

\* StoredIsTheIssuers, for any issuers with a URL each, whatever they put in
\* each other's name and whatever is served in the place of those that are
\* pinned (ingest_with_did_document).
THEOREM StoredIsGenuine == ASSUME OneUrlEach PROVE Spec => []StoredIsTheIssuers
<1>1. Init => StoredIsTheIssuers
  BY DEF Init, StoredIsTheIssuers
<1>2. ASSUME SdJwtsSound, WebSound, StoredIsTheIssuers, [Next]_vars
      PROVE  StoredIsTheIssuers'
  <2>1. ASSUME kept' = kept PROVE StoredIsTheIssuers'
    BY <1>2, <2>1 DEF StoredIsTheIssuers
  <2>2. ASSUME NEW w, NEW o, NEW byReference, NEW preamble, Scan(w, o, byReference, preamble)
        PROVE  kept' = kept
    BY <2>2 DEF Scan
  <2>3. ASSUME NEW s, NEW n, Prove(s, n) PROVE kept' = kept
    BY <2>3 DEF Prove
  <2>4. ASSUME NEW i, NEW s, NEW proof, NEW c, IssueFor(i, s, proof, c) PROVE kept' = kept
    BY <2>4 DEF IssueFor
  <2>5. ASSUME NEW i, NEW place, Rotate(i, place) PROVE kept' = kept
    BY <2>5 DEF Rotate, walletVars
  <2>6. ASSUME NEW n, Revoke(n) PROVE kept' = kept
    BY <2>6 DEF Revoke, walletVars
  <2>7. ASSUME NEW w, NEW ask, NEW card, NEW required, Show(w, ask, required, card)
        PROVE  kept' = kept
    BY <2>7 DEF Show
  <2>8. ASSUME NEW ask, NEW p, NEW q, NEW now, Accept(ask, p, q, now) PROVE kept' = kept
    BY <2>8 DEF Accept, walletVars
  <2>9. UNCHANGED vars => kept' = kept
    BY DEF vars, walletVars
  <2> QED BY <1>2, <2>1, <2>2, <2>3, <2>4, <2>5, <2>6, <2>7, <2>8, <2>9,
             IngestsTheIssuers, WalletAssumption DEF Next
<1> QED BY <1>1, <1>2, CredentialsSound, DocumentsSound, PTL DEF Spec

(***************************************************************************)
(* Revocation.                                                             *)
(***************************************************************************)
\* What was revoked was issued, also where it counted for a presentation.
RevokedSound ==
  /\ \E R : revoked \in Seq(R) /\ R \subseteq DOMAIN issued
  /\ \A a \in accepted : a.truth \subseteq DOMAIN issued

\* Credentials stay where they are and what they are.
LEMMA IssuedStays ==
  ASSUME SdJwtsSound, [Next]_vars
  PROVE  \/ issued' = issued
         \/ /\ accepted' = accepted /\ revoked' = revoked
            /\ DOMAIN issued = 1 .. Len(issued)
            /\ DOMAIN issued' = 1 .. Len(issued) + 1
            /\ Len(issued) \in Nat
            /\ \A n \in DOMAIN issued : issued'[n] = issued[n]
<1>1. ASSUME NEW i \in Issuers, NEW s, NEW proof, NEW c, IssueFor(i, s, proof, c)
      PROVE  /\ accepted' = accepted /\ revoked' = revoked
             /\ DOMAIN issued = 1 .. Len(issued)
             /\ DOMAIN issued' = 1 .. Len(issued) + 1
             /\ Len(issued) \in Nat
             /\ \A n \in DOMAIN issued : issued'[n] = issued[n]
  <2>1. PICK x : issued' = Append(issued, x)
    BY <1>1, NewCredentialSound
  <2>2. PICK R : issued \in Seq(R)
    BY DEF SdJwtsSound, IssuedSound
  <2> DEFINE S == R \cup {x}
  <2>3. issued \in Seq(S) /\ x \in S
    BY <2>2, SeqMonotonic
  <2>4. accepted' = accepted /\ revoked' = revoked
    BY <1>1 DEF IssueFor
  <2> HIDE DEF S
  <2>5. issued' \in Seq(S) /\ Len(issued') = Len(issued) + 1
        /\ \A n \in 1 .. Len(issued) : issued'[n] = issued[n]
    BY <2>1, <2>3, AppendProperties
  <2> QED BY <2>3, <2>4, <2>5, LenProperties
<1>2. ASSUME NEW w, NEW o, NEW byReference, NEW preamble, Scan(w, o, byReference, preamble)
      PROVE  issued' = issued
  BY <1>2 DEF Scan, issuerVars
<1>3. ASSUME NEW s, NEW n, Prove(s, n) PROVE issued' = issued
  BY <1>3 DEF Prove, issuerVars
<1>4. ASSUME NEW w, NEW n, NEW doc, NEW now, Ingest(w, n, doc, now) PROVE issued' = issued
  BY <1>4 DEF Ingest, issuerVars
<1>5. ASSUME NEW i, NEW place, Rotate(i, place) PROVE issued' = issued
  BY <1>5 DEF Rotate
<1>6. ASSUME NEW n, Revoke(n) PROVE issued' = issued
  BY <1>6 DEF Revoke
<1>7. ASSUME NEW w, NEW ask, NEW card, NEW required, Show(w, ask, required, card)
      PROVE  issued' = issued
  BY <1>7 DEF Show, issuerVars
<1>8. ASSUME NEW ask, NEW p, NEW q, NEW now, Accept(ask, p, q, now) PROVE issued' = issued
  BY <1>8 DEF Accept, issuerVars
<1>9. UNCHANGED vars => issued' = issued
  BY DEF vars, issuerVars
<1> QED BY <1>1, <1>2, <1>3, <1>4, <1>5, <1>6, <1>7, <1>8, <1>9 DEF Next

\* How a list is made.
LEMMA ListSigned ==
  ASSUME NEW list \in Lists
  PROVE  \E i \in Issuers, u \in 1 .. 2, t \in 0 .. Len(revoked) :
           /\ list.sub = <<i, u>>
           /\ list.truth = Range(SubSeq(revoked, 1, t))
           /\ list.revoked = {issued[k].body.status.idx :
                k \in {m \in Range(SubSeq(revoked, 1, t)) :
                         issued[m].body.status = [uri |-> <<i, u>>, idx |-> 0]}}
<1>1. PICK i \in Issuers, k \in 1 .. MaxRotations + 1, u \in 1 .. 2, bits \in 1 .. 2,
           length \in 0 .. 1, t \in 0 .. Len(revoked) :
        list = SignedList(i, k, u, bits, length, t)
  BY DEF Lists
<1> DEFINE said == Range(SubSeq(revoked, 1, t))
           bits1 == {issued[n].body.status.idx :
                       n \in {m \in said : issued[m].body.status = [uri |-> <<i, u>>, idx |-> 0]}}
           sub == <<i, u>>
<1>2. list.sub = sub /\ list.truth = said /\ list.revoked = bits1
  <2>1. list = [key |-> Key(i, k), sub |-> sub, bits |-> bits, length |-> length,
                truth |-> said, revoked |-> bits1]
    BY <1>1 DEF SignedList
  <2> HIDE DEF said, bits1, sub
  <2> QED BY <2>1
<1> QED BY <1>2, Zenon DEF said, bits1, sub

\* A list tells of revocations that were made.
LEMMA TruthIsOfTheIssued ==
  ASSUME RevokedSound, NEW list \in Lists
  PROVE  list.truth \subseteq DOMAIN issued
<1>1. PICK t \in 0 .. Len(revoked) : list.truth = Range(SubSeq(revoked, 1, t))
  BY ListSigned, Zenon
<1>2. PICK R : revoked \in Seq(R) /\ R \subseteq DOMAIN issued
  BY DEF RevokedSound
<1>3. \A n \in 1 .. t : revoked[n] \in R
  BY <1>2, ElementOfSeq, LenProperties
<1>4. SubSeq(revoked, 1, t) \in Seq(R)
  BY <1>3, SubSeqProperties
<1>5. Range(SubSeq(revoked, 1, t)) \subseteq R
  BY <1>4, ElementOfSeq, LenProperties DEF Range
<1> QED BY <1>1, <1>2, <1>5

\* A list on which a credential was revoked has its bit, if it is the list
\* the credential names.
LEMMA BitsTell ==
  ASSUME SdJwtsSound, RevokedSound, NEW list \in Lists, NEW n \in list.truth,
         NEW status, issued[n].body.status = status, status \notin {None, Half},
         list.sub = status.uri
  PROVE  StatusIsRevoked(list, status)
<1>1. PICK i \in Issuers, u \in 1 .. 2, t \in 0 .. Len(revoked) :
        /\ list.sub = <<i, u>>
        /\ list.truth = Range(SubSeq(revoked, 1, t))
        /\ list.revoked = {issued[k].body.status.idx :
             k \in {m \in Range(SubSeq(revoked, 1, t)) :
                      issued[m].body.status = [uri |-> <<i, u>>, idx |-> 0]}}
  BY ListSigned, Zenon
<1>2. n \in DOMAIN issued
  BY TruthIsOfTheIssued
<1>3. SdJwtSound(issued[n])
  <2>1. PICK R : issued \in Seq(R) /\ \A c \in R : SdJwtSound(c)
    BY DEF SdJwtsSound, IssuedSound
  <2> QED BY <1>2, <2>1, ElementOfSeq, LenProperties
<1>4. PICK j \in Issuers : status = [uri |-> <<j, 1>>, idx |-> 0]
  BY <1>3 DEF SdJwtSound
<1>5. status = [uri |-> <<i, u>>, idx |-> 0] /\ status.idx = 0
  <2>1. status.uri = <<j, 1>> /\ status.idx = 0
    BY <1>4
  <2>2. <<i, u>> = <<j, 1>>
    BY <1>1, <2>1
  <2> QED BY <1>4, <2>1, <2>2
<1>6. status.idx \in list.revoked
  <2>1. n \in {m \in Range(SubSeq(revoked, 1, t)) :
               issued[m].body.status = [uri |-> <<i, u>>, idx |-> 0]}
    BY <1>1, <1>5
  <2> QED BY <1>1, <2>1
<1> QED BY <1>6 DEF StatusIsRevoked

\* ClearWasClear, for any lists issuers signed at any time
\* (status_is_revoked).
THEOREM ClearIsClear == Spec => []ClearWasClear
<1>1. Init => RevokedSound /\ ClearWasClear
  <2> SUFFICES ASSUME Init PROVE RevokedSound /\ ClearWasClear
    OBVIOUS
  <2>1. revoked \in Seq({})
    BY EmptySeq DEF Init
  <2>2. \E R : revoked \in Seq(R) /\ R \subseteq DOMAIN issued
    BY <2>1
  <2> QED BY <2>2 DEF Init, RevokedSound, ClearWasClear
<1>2. ASSUME SdJwtsSound, RevokedSound, ClearWasClear, [Next]_vars
      PROVE  RevokedSound' /\ ClearWasClear'
  <2>1. ASSUME issued' = issued, accepted' = accepted, revoked' = revoked
        PROVE  RevokedSound' /\ ClearWasClear'
    BY <1>2, <2>1 DEF RevokedSound, ClearWasClear
  <2>2. ASSUME accepted' = accepted, revoked' = revoked,
               DOMAIN issued = 1 .. Len(issued), DOMAIN issued' = 1 .. Len(issued) + 1,
               Len(issued) \in Nat, \A n \in DOMAIN issued : issued'[n] = issued[n]
        PROVE  RevokedSound' /\ ClearWasClear'
    <3>1. DOMAIN issued \subseteq DOMAIN issued'
      BY <2>2
    <3>2. RevokedSound'
      BY <1>2, <2>2, <3>1 DEF RevokedSound
    <3>3. ASSUME NEW a \in accepted, a.body.status # None
          PROVE  a.body.status # Half
                 /\ \A n \in DOMAIN issued' : issued'[n].body = a.body => n \notin a.truth
      <4>1. a.truth \subseteq DOMAIN issued
        BY <1>2 DEF RevokedSound
      <4> QED BY <1>2, <2>2, <3>3, <4>1 DEF ClearWasClear
    <3> QED BY <2>2, <3>2, <3>3 DEF ClearWasClear
  <2>3. ASSUME NEW n \in DOMAIN issued, Revoke(n) PROVE RevokedSound' /\ ClearWasClear'
    <3>1. PICK R : revoked \in Seq(R) /\ R \subseteq DOMAIN issued
      BY <1>2 DEF RevokedSound
    <3>2. revoked' = Append(revoked, n) /\ issued' = issued /\ accepted' = accepted
      BY <2>3 DEF Revoke
    <3>3. revoked' \in Seq(R \cup {n})
      BY <3>1, <3>2, SeqMonotonic, AppendProperties
    <3>4. \E S : revoked' \in Seq(S) /\ S \subseteq DOMAIN issued'
      <4> DEFINE S == R \cup {n}
      <4>1. revoked' \in Seq(S) /\ S \subseteq DOMAIN issued'
        BY <2>3, <3>1, <3>2, <3>3
      <4> HIDE DEF S
      <4> QED BY <4>1
    <3> QED BY <1>2, <3>2, <3>4 DEF RevokedSound, ClearWasClear
  <2>4. ASSUME NEW ask \in Asks, NEW p \in shown, NEW q \in shown, NEW now \in Instants,
               Accept(ask, p, q, now)
        PROVE  RevokedSound' /\ ClearWasClear'
    <3> DEFINE x == [p.answer.presentations EXCEPT !.kb = q.answer.presentations.kb]
               jwk == IssuerJwkFor(x, web[Url(x.body.iss)])
    <3>1. PICK list \in Lists :
            /\ StatusClear(x, jwk, list)
            /\ accepted' = {[ask |-> ask, body |-> x.body, truth |-> list.truth, view |-> Verified(x)]}
      BY <2>4 DEF Accept, Url
    <3>2. issued' = issued /\ revoked' = revoked
      BY <2>4 DEF Accept, issuerVars
    <3> DEFINE a == [ask |-> ask, body |-> x.body, truth |-> list.truth, view |-> Verified(x)]
    <3>3. a.body = x.body /\ a.truth = list.truth /\ accepted' = {a}
      BY <3>1
    <3> HIDE DEF x, jwk, a
    <3>4. RevokedSound'
      BY <1>2, <3>2, <3>3, TruthIsOfTheIssued DEF RevokedSound
    <3>5. ASSUME x.body.status # None
          PROVE  /\ x.body.status # Half
                 /\ \A n \in DOMAIN issued : issued[n].body = x.body => n \notin list.truth
      <4>1. /\ x.body.status # Half /\ list.sub = x.body.status.uri
            /\ ~StatusIsRevoked(list, x.body.status)
        BY <3>1, <3>5 DEF StatusClear, HasStatus, HalfAStatus, StatusReads
      <4> QED BY <1>2, <3>5, <4>1, BitsTell
    <3> QED BY <3>2, <3>3, <3>4, <3>5 DEF ClearWasClear
  <2>5. ASSUME NEW w, NEW o, NEW byReference, NEW preamble, Scan(w, o, byReference, preamble)
        PROVE  issued' = issued /\ accepted' = accepted /\ revoked' = revoked
    BY <2>5 DEF Scan, issuerVars
  <2>6. ASSUME NEW s, NEW n, Prove(s, n)
        PROVE  issued' = issued /\ accepted' = accepted /\ revoked' = revoked
    BY <2>6 DEF Prove, issuerVars
  <2>7. ASSUME NEW w, NEW n, NEW doc, NEW now, Ingest(w, n, doc, now)
        PROVE  issued' = issued /\ accepted' = accepted /\ revoked' = revoked
    BY <2>7 DEF Ingest, issuerVars
  <2>8. ASSUME NEW i, NEW place, Rotate(i, place)
        PROVE  issued' = issued /\ accepted' = accepted /\ revoked' = revoked
    BY <2>8 DEF Rotate
  <2>9. ASSUME NEW w, NEW ask, NEW card, NEW required, Show(w, ask, required, card)
        PROVE  issued' = issued /\ accepted' = accepted /\ revoked' = revoked
    BY <2>9 DEF Show, issuerVars
  <2>10. UNCHANGED vars => issued' = issued /\ accepted' = accepted /\ revoked' = revoked
    BY DEF vars, issuerVars
  <2>11. ASSUME NEW i \in Issuers, NEW s, NEW proof, NEW c, IssueFor(i, s, proof, c)
         PROVE  RevokedSound' /\ ClearWasClear'
    BY <1>2, <2>1, <2>2, IssuedStays, <2>11 DEF IssueFor
  <2> QED BY <1>2, <2>1, <2>3, <2>4, <2>5, <2>6, <2>7, <2>8, <2>9, <2>10, <2>11 DEF Next
<1> QED BY <1>1, <1>2, CredentialsSound, PTL DEF Spec

(***************************************************************************)
(* FlattenSeq, of which percent_encode is made.                            *)
(***************************************************************************)
\* The prefixes FlattenSeq is computed by, up to the m-th.
FlatUpTo(f, seqs, m) ==
  f = [n \in 1 .. m |-> IF n = 1 THEN seqs[n] ELSE f[n - 1] \o seqs[n]]

LEMMA FlatExists ==
  ASSUME NEW seqs, NEW m \in Nat \ {0}
  PROVE  \E f : FlatUpTo(f, seqs, m)
<1> DEFINE Bad == {n \in 1 .. m : ~\E f : FlatUpTo(f, seqs, n)}
<1> SUFFICES ASSUME Bad # {} PROVE FALSE
  OBVIOUS
<1>1. PICK n \in Bad : \A k \in Bad : n =< k
  <2> Bad \in SUBSET Nat
    OBVIOUS
  <2> HIDE DEF Bad
  <2> QED BY LeastOne
<1>2. n # 1
  <2> DEFINE f == [k \in 1 .. 1 |-> seqs[1]]
  <2>1. FlatUpTo(f, seqs, 1)
    BY DEF FlatUpTo
  <2> QED BY <2>1
<1>3. PICK f : FlatUpTo(f, seqs, n - 1)
  <2>1. n - 1 \in 1 .. m /\ n - 1 \notin Bad
    BY <1>1, <1>2
  <2> QED BY <2>1
<1> DEFINE g == [k \in 1 .. n |-> IF k = n THEN f[n - 1] \o seqs[n] ELSE f[k]]
<1>4. \A k \in 1 .. n : g[k] = IF k = 1 THEN seqs[k] ELSE g[k - 1] \o seqs[k]
  <2> SUFFICES ASSUME NEW k \in 1 .. n
               PROVE  g[k] = IF k = 1 THEN seqs[k] ELSE g[k - 1] \o seqs[k]
    OBVIOUS
  <2>1. CASE k = n
    <3>1. g[n] = f[n - 1] \o seqs[n] /\ g[n - 1] = f[n - 1]
      <4>1. n - 1 \in 1 .. n /\ n - 1 # n /\ n \in 1 .. n
        BY <1>2
      <4> HIDE DEF Bad
      <4> QED BY <4>1
    <3> HIDE DEF g, Bad
    <3> QED BY <1>2, <2>1, <3>1
  <2>2. CASE k # n
    <3>1. k \in 1 .. n - 1 /\ (k # 1 => k - 1 \in 1 .. n - 1)
      BY <2>2
    <3>2. f[k] = IF k = 1 THEN seqs[k] ELSE f[k - 1] \o seqs[k]
      BY <1>3, <3>1 DEF FlatUpTo
    <3>3. g[k] = f[k]
      BY <2>2
    <3>4. k # 1 => g[k - 1] = f[k - 1]
      <4>1. \A j \in 1 .. n - 1 : g[j] = f[j]
        OBVIOUS
      <4> HIDE DEF g
      <4> QED BY <3>1, <4>1
    <3> HIDE DEF g
    <3> QED BY <3>2, <3>3, <3>4
  <2> QED BY <2>1, <2>2
<1>5. FlatUpTo(g, seqs, n)
  <2> DEFINE h == [k \in 1 .. n |-> IF k = 1 THEN seqs[k] ELSE g[k - 1] \o seqs[k]]
  <2>1. DOMAIN g = 1 .. n /\ g = [k \in 1 .. n |-> g[k]]
    OBVIOUS
  <2> HIDE DEF g
  <2>2. g = h
    BY <1>4, <2>1
  <2> QED BY <2>2 DEF FlatUpTo
<1> QED BY <1>5

LEMMA Flattened ==
  ASSUME NEW seqs, Len(seqs) \in Nat \ {0}
  PROVE  \E f : FlatUpTo(f, seqs, Len(seqs)) /\ FlattenSeq(seqs) = f[Len(seqs)]
<1> DEFINE P(f) == FlatUpTo(f, seqs, Len(seqs))
<1>1. \E f : P(f)
  BY FlatExists
<1>2. FlattenSeq(seqs) = (CHOOSE f : P(f))[Len(seqs)]
  BY DEF FlattenSeq, FlatUpTo
<1> HIDE DEF P
<1>3. P(CHOOSE f : P(f))
  BY <1>1
<1> QED BY <1>2, <1>3 DEF P

\* Where each part of a flattened sequence begins.
PartsAt(at, flat, seqs, m) ==
  /\ at[1] = 1 /\ at[m + 1] = Len(flat) + 1
  /\ \A i \in 1 .. m :
       /\ at[i] \in Nat \ {0} /\ at[i + 1] = at[i] + Len(seqs[i])
       /\ at[i + 1] =< Len(flat) + 1
       /\ \A k \in 1 .. Len(seqs[i]) : flat[at[i] + k - 1] = seqs[i][k]

LEMMA FlattenedParts ==
  ASSUME NEW S, NEW seqs \in Seq(Seq(S))
  PROVE  /\ FlattenSeq(seqs) \in Seq(S)
         /\ \E at : PartsAt(at, FlattenSeq(seqs), seqs, Len(seqs))
<1> DEFINE N == Len(seqs)
<1>1. N \in Nat /\ \A i \in 1 .. N : seqs[i] \in Seq(S) /\ Len(seqs[i]) \in Nat
  BY LenProperties, ElementOfSeq
<1>2. CASE N = 0
  <2>1. seqs = << >>
    BY <1>2, EmptySeq
  <2>2. FlattenSeq(seqs) = << >>
    BY <2>1 DEF FlattenSeq
  <2> DEFINE at == [i \in 1 .. 1 |-> 1]
  <2>3. PartsAt(at, << >>, seqs, 0)
    BY DEF PartsAt
  <2> QED BY <1>2, <2>2, <2>3, EmptySeq
<1>3. CASE N # 0
  <2>1. PICK f : FlatUpTo(f, seqs, N) /\ FlattenSeq(seqs) = f[N]
    BY <1>1, <1>3, Flattened
  <2>2. /\ f[1] = seqs[1]
        /\ \A n \in 2 .. N : f[n] = f[n - 1] \o seqs[n]
    <3>1. \A n \in 1 .. N : f[n] = IF n = 1 THEN seqs[n] ELSE f[n - 1] \o seqs[n]
      BY <2>1 DEF FlatUpTo
    <3> HIDE DEF N
    <3>2. 1 \in 1 .. N /\ \A n \in 2 .. N : n \in 1 .. N /\ n # 1
      BY <1>1, <1>3
    <3> QED BY <3>1, <3>2
  <2> DEFINE at == [i \in 1 .. N + 1 |-> IF i = 1 THEN 1 ELSE Len(f[i - 1]) + 1]
             Good(m) == f[m] \in Seq(S) /\ PartsAt(at, f[m], seqs, m)
             Bad == {m \in 1 .. N : ~Good(m)}
  <2>3. at[1] = 1 /\ \A i \in 2 .. N + 1 : at[i] = Len(f[i - 1]) + 1
    BY <1>1
  <2>4. Good(1)
    <3>1. seqs[1] \in Seq(S) /\ Len(seqs[1]) \in Nat /\ at[2] = Len(seqs[1]) + 1
      BY <1>1, <1>3, <2>2, <2>3
    <3> HIDE DEF at
    <3> QED BY <2>2, <2>3, <3>1 DEF PartsAt
  <2>5. ASSUME NEW m \in 2 .. N, Good(m - 1) PROVE Good(m)
    <3> DEFINE short == f[m - 1]
    <3>1. /\ short \in Seq(S) /\ Len(short) \in Nat
          /\ seqs[m] \in Seq(S) /\ Len(seqs[m]) \in Nat /\ m \in Nat
      BY <1>1, <2>5, LenProperties
    <3>2. f[m] = short \o seqs[m]
      BY <2>2
    <3>3. /\ f[m] \in Seq(S)
          /\ Len(f[m]) = Len(short) + Len(seqs[m])
          /\ \A p \in 1 .. Len(short) + Len(seqs[m]) :
               f[m][p] = IF p =< Len(short) THEN short[p] ELSE seqs[m][p - Len(short)]
      <4> DEFINE part == seqs[m]
      <4>1. short \in Seq(S) /\ part \in Seq(S) /\ f[m] = short \o part
        BY <3>1, <3>2
      <4> HIDE DEF short, part
      <4>2. /\ f[m] \in Seq(S)
            /\ Len(f[m]) = Len(short) + Len(part)
            /\ \A p \in 1 .. Len(short) + Len(part) :
                 f[m][p] = IF p =< Len(short) THEN short[p] ELSE part[p - Len(short)]
        BY <4>1, ConcatProperties
      <4> QED BY <4>2 DEF part
    <3>4. at[m] = Len(short) + 1 /\ at[m + 1] = Len(f[m]) + 1
      BY <1>1, <2>3
    <3>5. PartsAt(at, short, seqs, m - 1)
      BY <2>5
    <3> HIDE DEF at, short
    <3>6. ASSUME NEW i \in 1 .. m - 1
          PROVE  /\ at[i] \in Nat \ {0} /\ at[i + 1] = at[i] + Len(seqs[i])
                 /\ at[i + 1] =< Len(f[m]) + 1
                 /\ \A k \in 1 .. Len(seqs[i]) : f[m][at[i] + k - 1] = seqs[i][k]
      <4>1. /\ at[i] \in Nat \ {0} /\ at[i + 1] = at[i] + Len(seqs[i])
            /\ at[i + 1] =< Len(short) + 1
            /\ \A k \in 1 .. Len(seqs[i]) : short[at[i] + k - 1] = seqs[i][k]
        BY <3>5, <3>6 DEF PartsAt
      <4>2. Len(seqs[i]) \in Nat
        BY <1>1
      <4>3. ASSUME NEW k \in 1 .. Len(seqs[i])
            PROVE  f[m][at[i] + k - 1] = short[at[i] + k - 1]
        <5> DEFINE a == at[i]
                   l == Len(seqs[i])
                   p == a + k - 1
        <5>1. a \in Nat \ {0} /\ l \in Nat /\ a + l =< Len(short) + 1 /\ k \in 1 .. l
          BY <4>1, <4>2, <4>3
        <5> HIDE DEF a, l
        <5>2. p \in 1 .. Len(short) + Len(seqs[m]) /\ p =< Len(short)
          BY <3>1, <5>1
        <5> HIDE DEF p
        <5>3. f[m][p] = short[p]
          BY <3>3, <5>2
        <5> QED BY <5>3 DEF p, a
      <4>4. at[i + 1] =< Len(f[m]) + 1
        <5> DEFINE l == Len(seqs[i])
                   k == Len(short)
                   j == Len(seqs[m])
        <5>1. /\ at[i] \in Nat \ {0} /\ at[i + 1] = at[i] + l /\ at[i + 1] =< k + 1
              /\ l \in Nat /\ k \in Nat /\ j \in Nat /\ Len(f[m]) = k + j
          BY <3>1, <3>3, <4>1, <4>2
        <5> HIDE DEF l, k, j
        <5> QED BY <5>1
      <4>5. \A k \in 1 .. Len(seqs[i]) : f[m][at[i] + k - 1] = seqs[i][k]
        BY <4>1, <4>3
      <4> QED BY <4>1, <4>4, <4>5
    <3>7. ASSUME NEW k \in 1 .. Len(seqs[m])
          PROVE  f[m][at[m] + k - 1] = seqs[m][k]
      <4> DEFINE p == at[m] + k - 1
      <4>1. /\ p \in 1 .. Len(short) + Len(seqs[m])
            /\ ~(p =< Len(short)) /\ p - Len(short) = k
        BY <3>1, <3>4
      <4> HIDE DEF p
      <4>2. f[m][p] = seqs[m][k]
        BY <3>3, <4>1
      <4> QED BY <4>2 DEF p
    <3>8. PartsAt(at, f[m], seqs, m)
      <4>1. at[1] = 1 /\ \A i \in 1 .. m - 1 : i \in 1 .. m
        BY <2>3
      <4>2. /\ at[m] \in Nat \ {0} /\ at[m + 1] = at[m] + Len(seqs[m])
            /\ at[m + 1] =< Len(f[m]) + 1
        <5> DEFINE l == Len(short)
                   k == Len(seqs[m])
        <5>1. l \in Nat /\ k \in Nat /\ at[m] = l + 1 /\ at[m + 1] = Len(f[m]) + 1
              /\ Len(f[m]) = l + k
          BY <3>1, <3>3, <3>4
        <5> HIDE DEF l, k
        <5>2. at[m] \in Nat \ {0} /\ at[m + 1] = at[m] + k /\ at[m + 1] =< Len(f[m]) + 1
          BY <5>1
        <5> QED BY <5>2 DEF k
      <4>3. \A i \in 1 .. m : i = m \/ i \in 1 .. m - 1
        OBVIOUS
      <4> QED BY <3>4, <3>6, <3>7, <4>1, <4>2, <4>3 DEF PartsAt
    <3> QED BY <3>3, <3>8
  <2> HIDE DEF Good
  <2>6. Bad = {}
    <3> SUFFICES ASSUME Bad # {} PROVE FALSE
      OBVIOUS
    <3>1. Bad \in SUBSET Nat
      BY <1>1
    <3>2. PICK m \in Bad : \A n \in Bad : m =< n
      <4> HIDE DEF Bad
      <4> QED BY <3>1, LeastOne
    <3>3. m # 1
      BY <2>4, <3>2
    <3>4. m \in 2 .. N /\ m - 1 \in 1 .. N /\ m - 1 \notin Bad
      <4>1. m \in 1 .. N /\ m - 1 < m
        BY <1>1
      <4> HIDE DEF Bad
      <4>2. m \in 2 .. N /\ m - 1 \in 1 .. N
        BY <1>1, <3>3, <4>1
      <4> QED BY <1>1, <3>2, <4>1, <4>2
    <3> QED BY <2>5, <3>2, <3>4
  <2>7. Good(N)
    <3>1. N \in 1 .. N
      BY <1>1, <1>3
    <3>2. ~Good(N) => N \in Bad
      BY <3>1
    <3> HIDE DEF Bad, Good
    <3> QED BY <2>6, <3>2
  <2> QED BY <2>1, <2>7 DEF Good
<1> QED BY <1>2, <1>3

(***************************************************************************)
(* percent_encode, byte by byte.                                           *)
(***************************************************************************)
\* What is in an encoded text: no ampersand, and nothing but bytes.
Plain == Byte \ {Ampersand}

LEMMA PlainBytes == Plain \subseteq Nat
BY DEF Plain, Byte

LEMMA HexDigitReads ==
  ASSUME NEW n \in 0 .. 15
  PROVE  /\ HexDigit(n) \in Plain /\ IsHexDigit(HexDigit(n))
         /\ HexValue(HexDigit(n)) = n
<1>1. CASE n < 10
  <2>1. HexDigit(n) = 48 + n /\ 48 + n \in Digits
    BY <1>1 DEF HexDigit, Digits
  <2> QED BY <1>1, <2>1 DEF Plain, Byte, Ampersand, IsHexDigit, HexValue, Digits
<1>2. CASE ~(n < 10)
  <2>1. HexDigit(n) = 55 + n /\ 55 + n \in 65 .. 70 /\ 55 + n \notin Digits
    BY <1>2 DEF HexDigit, Digits
  <2> QED BY <1>2, <2>1 DEF Plain, Byte, Ampersand, IsHexDigit, HexValue
<1> QED BY <1>1, <1>2

\* What percent_encode makes of a byte, percent_decode reads as that byte.
LEMMA EscapedReads ==
  ASSUME NEW b \in Byte
  PROVE  /\ Escaped(b) \in Seq(Plain)
         /\ \/ Escaped(b) = <<b>> /\ b # Percent /\ b # Plus
            \/ \E h, l \in Plain :
                 /\ Escaped(b) = <<Percent, h, l>> /\ IsHexDigit(h) /\ IsHexDigit(l)
                 /\ 16 * HexValue(h) + HexValue(l) = b
<1>1. CASE b \in Unreserved
  <2>1. Escaped(b) = <<b>>
    BY <1>1 DEF Escaped
  <2>2. b \in Plain /\ b # Percent /\ b # Plus
    BY <1>1 DEF Unreserved, Digits, Plain, Byte, Ampersand, Percent, Plus
  <2> QED BY <2>1, <2>2
<1>2. CASE b \notin Unreserved
  <2> DEFINE u == b \div 16
             v == b % 16
             h == HexDigit(u)
             l == HexDigit(v)
  <2>1. u \in 0 .. 15 /\ v \in 0 .. 15 /\ 16 * u + v = b
    BY DEF Byte
  <2>2. Escaped(b) = <<Percent, h, l>>
    BY <1>2 DEF Escaped
  <2> HIDE DEF u, v
  <2>3. /\ h \in Plain /\ IsHexDigit(h) /\ HexValue(h) = u
        /\ l \in Plain /\ IsHexDigit(l) /\ HexValue(l) = v
    BY <2>1, HexDigitReads
  <2> HIDE DEF h, l
  <2>4. Percent \in Plain
    BY DEF Percent, Plain, Byte, Ampersand
  <2>5. Escaped(b) \in Seq(Plain)
    BY <2>2, <2>3, <2>4
  <2>6. 16 * HexValue(h) + HexValue(l) = b
    BY <2>1, <2>3
  <2> QED BY <2>2, <2>3, <2>5, <2>6
<1> QED BY <1>1, <1>2

(***************************************************************************)
(* percent_decode, from the end to the beginning.                          *)
(***************************************************************************)
\* What percent_decode makes of a text from position n on, where it makes
\* f of what is behind it.
DecodedFrom(f, text, n) ==
  IF n > Len(text) THEN << >>
  ELSE IF text[n] = Percent
       THEN IF n + 2 > Len(text) \/ ~IsHexDigit(text[n + 1]) \/ ~IsHexDigit(text[n + 2])
            THEN <<BadEscape>>
            ELSE <<16 * HexValue(text[n + 1]) + HexValue(text[n + 2])>> \o f[n + 3]
       ELSE <<IF text[n] = Plus THEN Space ELSE text[n]>> \o f[n + 1]

Decodes(f, text, m) ==
  f = [n \in m .. Len(text) + 1 |-> DecodedFrom(f, text, n)]

LEMMA DecodesOneMore ==
  ASSUME NEW text, Len(text) \in Nat, NEW m \in 1 .. Len(text), NEW f, Decodes(f, text, m + 1)
  PROVE  \E g : Decodes(g, text, m)
<1> DEFINE L == Len(text)
           g == [n \in m .. L + 1 |-> IF n = m THEN DecodedFrom(f, text, m) ELSE f[n]]
           h == [n \in m .. L + 1 |-> DecodedFrom(g, text, n)]
<1>1. L \in Nat /\ m \in 1 .. L
  OBVIOUS
<1>2. \A n \in m + 1 .. L + 1 : f[n] = DecodedFrom(f, text, n)
  BY DEF Decodes
<1>3. DOMAIN g = m .. L + 1 /\ g = [n \in m .. L + 1 |-> g[n]]
  OBVIOUS
<1>4. g[m] = DecodedFrom(f, text, m) /\ \A n \in m + 1 .. L + 1 : g[n] = f[n]
  <2>1. m \in m .. L + 1 /\ \A n \in m + 1 .. L + 1 : n \in m .. L + 1 /\ n # m
    BY <1>1
  <2> HIDE DEF L
  <2> QED BY <2>1
<1> HIDE DEF g
<1>5. ASSUME NEW n \in m .. L + 1 PROVE DecodedFrom(f, text, n) = DecodedFrom(g, text, n)
  <2>1. CASE n > L
    BY <2>1 DEF DecodedFrom
  <2>2. CASE ~(n > L)
    <3>1. g[n + 1] = f[n + 1]
      BY <1>1, <1>4, <2>2
    <3>2. ~(n + 2 > L) => g[n + 3] = f[n + 3]
      BY <1>1, <1>4
    <3> HIDE DEF L
    <3> QED BY <3>1, <3>2 DEF DecodedFrom, L
  <2> QED BY <2>1, <2>2
<1>6. \A n \in m .. L + 1 : g[n] = DecodedFrom(g, text, n)
  <2>1. \A n \in m .. L + 1 : n = m \/ n \in m + 1 .. L + 1
    BY <1>1
  <2> HIDE DEF L
  <2> QED BY <1>2, <1>4, <1>5, <2>1
<1>7. Decodes(g, text, m)
  BY <1>3, <1>6 DEF Decodes
<1> QED BY <1>7

LEMMA DecodeExists ==
  ASSUME NEW text, Len(text) \in Nat
  PROVE  \E f : Decodes(f, text, 1)
<1> DEFINE L == Len(text)
           Bad == {k \in 0 .. L : ~\E f : Decodes(f, text, L + 1 - k)}
<1>1. Bad = {}
  <2> SUFFICES ASSUME Bad # {} PROVE FALSE
    OBVIOUS
  <2>1. Bad \in SUBSET Nat
    OBVIOUS
  <2>2. PICK k \in Bad : \A n \in Bad : k =< n
    <3> HIDE DEF Bad
    <3> QED BY <2>1, LeastOne
  <2>3. k # 0
    <3> DEFINE f == [n \in L + 1 .. L + 1 |-> << >>]
               h == [n \in L + 1 .. L + 1 |-> DecodedFrom(f, text, n)]
    <3>1. \A n \in L + 1 .. L + 1 : DecodedFrom(f, text, n) = << >>
      BY DEF DecodedFrom
    <3>2. f = h
      BY <3>1
    <3> HIDE DEF f
    <3>3. Decodes(f, text, L + 1)
      BY <3>2 DEF Decodes
    <3>4. L + 1 - 0 = L + 1
      OBVIOUS
    <3> QED BY <2>2, <3>3, <3>4
  <2>4. k - 1 \in 0 .. L /\ k - 1 \notin Bad
    BY <2>2, <2>3
  <2> DEFINE m == L + 1 - k
  <2>5. m \in 1 .. L /\ m + 1 = L + 1 - (k - 1)
    BY <2>2, <2>3
  <2>6. \E f : Decodes(f, text, m + 1)
    BY <2>4, <2>5
  <2> HIDE DEF m
  <2>7. \E g : Decodes(g, text, m)
    BY <2>5, <2>6, DecodesOneMore
  <2> QED BY <2>2, <2>7 DEF m
<1>2. L \in 0 .. L /\ L + 1 - L = 1
  OBVIOUS
<1> QED BY <1>1, <1>2

LEMMA Decoded ==
  ASSUME NEW text, Len(text) \in Nat
  PROVE  \E f : /\ PercentDecode(text) = f[1]
                /\ \A n \in 1 .. Len(text) + 1 : f[n] = DecodedFrom(f, text, n)
<1> DEFINE P(f) == Decodes(f, text, 1)
           d == CHOOSE f : P(f)
<1>1. \E f : P(f)
  BY DecodeExists
<1>2. PercentDecode(text) = d[1]
  BY DEF PercentDecode, Decodes, DecodedFrom
<1>3. P(d)
  <2> HIDE DEF P
  <2> QED BY <1>1
<1> HIDE DEF d
<1>4. \A n \in 1 .. Len(text) + 1 : d[n] = DecodedFrom(d, text, n)
  BY <1>3 DEF Decodes
<1> QED BY <1>2, <1>4

\* One more byte is read at the place where what it was made into begins.
LEMMA ByteReads ==
  ASSUME NEW b \in Byte, NEW enc, Len(enc) \in Nat, NEW p \in Nat \ {0}, NEW f,
         p + Len(Escaped(b)) =< Len(enc) + 1,
         \A k \in 1 .. Len(Escaped(b)) : enc[p + k - 1] = Escaped(b)[k],
         f[p] = DecodedFrom(f, enc, p)
  PROVE  f[p] = <<b>> \o f[p + Len(Escaped(b))]
<1> DEFINE L == Len(enc)
<1>1. CASE Escaped(b) = <<b>> /\ b # Percent /\ b # Plus
  <2>1. Len(Escaped(b)) = 1 /\ Escaped(b)[1] = b
    BY <1>1
  <2>2. enc[p] = b /\ ~(p > L)
    <3>1. p + 1 - 1 = p /\ 1 \in 1 .. 1
      OBVIOUS
    <3> HIDE DEF L
    <3> QED BY <2>1, <3>1 DEF L
  <2> HIDE DEF L
  <2> QED BY <1>1, <2>1, <2>2 DEF DecodedFrom, L
<1>2. ASSUME NEW h \in Plain, NEW l \in Plain,
             Escaped(b) = <<Percent, h, l>>, IsHexDigit(h), IsHexDigit(l),
             16 * HexValue(h) + HexValue(l) = b
      PROVE  f[p] = <<b>> \o f[p + Len(Escaped(b))]
  <2>1. /\ Len(Escaped(b)) = 3
        /\ Escaped(b)[1] = Percent /\ Escaped(b)[2] = h /\ Escaped(b)[3] = l
    BY <1>2
  <2>2. enc[p] = Percent /\ enc[p + 1] = h /\ enc[p + 2] = l
    <3>1. p + 1 - 1 = p /\ p + 2 - 1 = p + 1 /\ p + 3 - 1 = p + 2
      OBVIOUS
    <3>2. 1 \in 1 .. 3 /\ 2 \in 1 .. 3 /\ 3 \in 1 .. 3
      OBVIOUS
    <3> QED BY <2>1, <3>1, <3>2
  <2>3. ~(p > L) /\ ~(p + 2 > L)
    BY <2>1
  <2>4. f[p] = <<16 * HexValue(h) + HexValue(l)>> \o f[p + 3]
    <3> HIDE DEF L
    <3> QED BY <1>2, <2>2, <2>3 DEF DecodedFrom, L
  <2> QED BY <1>2, <2>1, <2>4
<1> QED BY <1>1, <1>2, EscapedReads

\* percent_decode reads back what percent_encode writes, whatever the bytes.
LEMMA EncodedReads ==
  ASSUME NEW text \in Seq(Byte)
  PROVE  /\ PercentEncode(text) \in Seq(Plain)
         /\ PercentDecode(PercentEncode(text)) = text
<1> DEFINE N == Len(text)
           seqs == [n \in DOMAIN text |-> Escaped(text[n])]
           enc == PercentEncode(text)
<1>1. N \in Nat /\ DOMAIN text = 1 .. N /\ \A i \in 1 .. N : text[i] \in Byte
  BY LenProperties, ElementOfSeq
<1>2. /\ seqs \in Seq(Seq(Plain)) /\ Len(seqs) = N
      /\ \A i \in 1 .. N : seqs[i] = Escaped(text[i])
  <2>1. \A i \in 1 .. N : Escaped(text[i]) \in Seq(Plain)
    BY <1>1, EscapedReads
  <2> QED BY <1>1, <2>1
<1>3. enc = FlattenSeq(seqs)
  BY DEF PercentEncode
<1> HIDE DEF seqs, enc
<1>4. enc \in Seq(Plain) /\ Len(enc) \in Nat
  BY <1>2, <1>3, FlattenedParts, LenProperties
<1>5. PICK at : PartsAt(at, enc, seqs, N)
  BY <1>2, <1>3, FlattenedParts
<1>6. PICK f : /\ PercentDecode(enc) = f[1]
               /\ \A n \in 1 .. Len(enc) + 1 : f[n] = DecodedFrom(f, enc, n)
  BY <1>4, Decoded
<1>7. f[Len(enc) + 1] = << >>
  <2>1. Len(enc) + 1 \in 1 .. Len(enc) + 1 /\ Len(enc) + 1 > Len(enc)
    BY <1>4
  <2> QED BY <1>6, <2>1 DEF DecodedFrom
<1>8. ASSUME NEW i \in 1 .. N PROVE f[at[i]] = <<text[i]>> \o f[at[i + 1]]
  <2> DEFINE b == text[i]
             p == at[i]
  <2>1. b \in Byte /\ seqs[i] = Escaped(b)
    BY <1>1, <1>2
  <2>2. /\ p \in Nat \ {0} /\ at[i + 1] = p + Len(Escaped(b))
        /\ p + Len(Escaped(b)) =< Len(enc) + 1
        /\ \A k \in 1 .. Len(Escaped(b)) : enc[p + k - 1] = Escaped(b)[k]
    BY <1>5, <2>1 DEF PartsAt
  <2> HIDE DEF b, p
  <2>3. Len(Escaped(b)) \in Nat
    BY <2>1, EscapedReads, LenProperties
  <2>4. p \in 1 .. Len(enc) + 1
    BY <1>4, <2>2, <2>3
  <2>5. f[p] = DecodedFrom(f, enc, p)
    BY <1>6, <2>4
  <2>6. f[p] = <<b>> \o f[p + Len(Escaped(b))]
    <3>1. b \in Byte /\ Len(enc) \in Nat /\ p \in Nat \ {0}
      BY <1>4, <2>1, <2>2
    <3>2. p + Len(Escaped(b)) =< Len(enc) + 1
      BY <2>2
    <3>3. \A k \in 1 .. Len(Escaped(b)) : enc[p + k - 1] = Escaped(b)[k]
      BY <2>2
    <3> QED BY <2>5, <3>1, <3>2, <3>3, ByteReads
  <2> QED BY <2>2, <2>6 DEF b, p
<1> DEFINE Bad == {k \in 0 .. N : f[at[N + 1 - k]] # SubSeq(text, N + 1 - k, N)}
<1>9. Bad = {}
  <2> SUFFICES ASSUME Bad # {} PROVE FALSE
    OBVIOUS
  <2>1. Bad \in SUBSET Nat
    BY <1>1
  <2>2. PICK k \in Bad : \A n \in Bad : k =< n
    <3> HIDE DEF Bad
    <3> QED BY <2>1, LeastOne
  <2>3. k # 0
    <3>1. f[at[N + 1]] = << >>
      BY <1>5, <1>7 DEF PartsAt
    <3>2. SubSeq(text, N + 1, N) = << >>
      BY <1>1, SubSeqEmpty
    <3>3. N + 1 - 0 = N + 1
      BY <1>1
    <3> QED BY <2>2, <3>1, <3>2, <3>3
  <2>4. k - 1 \in 0 .. N /\ k - 1 \notin Bad
    <3>1. k \in 0 .. N
      BY <2>2
    <3> HIDE DEF Bad, N
    <3> QED BY <1>1, <2>2, <2>3, <3>1
  <2> DEFINE i == N + 1 - k
  <2>5. i \in 1 .. N /\ N + 1 - (k - 1) = i + 1
    BY <1>1, <2>2, <2>3
  <2>6. f[at[i + 1]] = SubSeq(text, i + 1, N)
    BY <2>4, <2>5
  <2>7. SubSeq(text, i, N) = <<text[i]>> \o SubSeq(text, i + 1, N)
    <3>1. N \in i .. Len(text) /\ i \in 1 .. Len(text)
      BY <1>1, <2>5
    <3> HIDE DEF N, i
    <3> QED BY <3>1, SubSeqRecursiveFirst
  <2>8. f[at[i]] = SubSeq(text, i, N)
    BY <1>8, <2>5, <2>6, <2>7
  <2> QED BY <2>2, <2>8
<1>10. f[at[1]] = SubSeq(text, 1, N)
  <2>1. N \in 0 .. N /\ N + 1 - N = 1
    BY <1>1
  <2> QED BY <1>9, <2>1
<1>11. f[1] = text
  BY <1>5, <1>10, SubSeqFull DEF PartsAt
<1> QED BY <1>4, <1>6, <1>11 DEF enc

(***************************************************************************)
(* to_offer_uri and parse_offer.                                           *)
(***************************************************************************)
\* A pair begins where it begins, and ends somewhere.
LEMMA PairBegins ==
  ASSUME NEW query \in Seq(Nat), NEW n \in 1 .. Len(query),
         CarriesOffer(PairAt(query, n))
  PROVE  query[n] \in {CredentialOffer, CredentialOfferUri}
<1> DEFINE L == Len(query)
           Ends(k) == /\ k = L \/ query[k + 1] = Ampersand
                      /\ \A m \in n .. k : query[m] # Ampersand
           Stops == {k \in n - 1 .. L : k = L \/ query[k + 1] = Ampersand}
           last == CHOOSE k \in n - 1 .. L : Ends(k)
<1>1. L \in Nat /\ n \in 1 .. L
  BY LenProperties
<1>2. PICK k \in Stops : \A m \in Stops : k =< m
  <2>1. Stops \in SUBSET Nat /\ L \in Stops
    BY <1>1
  <2> HIDE DEF Stops
  <2> QED BY <2>1, LeastOne
<1>3. k \in n - 1 .. L /\ Ends(k)
  <2>1. ASSUME NEW m \in n .. k, query[m] = Ampersand PROVE FALSE
    <3>1. m - 1 \in Stops
      BY <1>1, <1>2, <2>1
    <3>2. k =< m - 1
      BY <1>2, <3>1
    <3> QED BY <1>1, <1>2, <3>2
  <2> QED BY <1>2, <2>1
<1>4. last \in n - 1 .. L
  <2> HIDE DEF Ends, L
  <2> QED BY <1>3
<1>5. PairAt(query, n) = SubSeq(query, n, last)
  BY DEF PairAt
<1> HIDE DEF last
<1>6. \A m \in n .. last : query[m] \in Nat
  BY <1>1, <1>4, ElementOfSeq
<1>7. /\ Len(SubSeq(query, n, last)) = IF n =< last THEN last - n + 1 ELSE 0
      /\ \A m \in 1 .. last - n + 1 : SubSeq(query, n, last)[m] = query[n + m - 1]
  <2>1. n \in Int /\ last \in Int
    BY <1>1, <1>4
  <2> QED BY <1>6, <2>1, SubSeqProperties
<1>8. n =< last /\ Len(SubSeq(query, n, last)) >= 2
  BY <1>1, <1>4, <1>5, <1>7 DEF CarriesOffer
<1>9. SubSeq(query, n, last)[1] = query[n]
  <2>1. 1 \in 1 .. last - n + 1 /\ n + 1 - 1 = n
    BY <1>1, <1>4, <1>8
  <2> QED BY <1>7, <2>1
<1> QED BY <1>5, <1>9 DEF CarriesOffer

\* The last pair of a query, with no ampersand in it, is all that is left.
LEMMA LastPair ==
  ASSUME NEW query \in Seq(Nat), NEW n \in 1 .. Len(query),
         \A m \in n .. Len(query) : query[m] # Ampersand
  PROVE  PairAt(query, n) = SubSeq(query, n, Len(query))
<1> DEFINE L == Len(query)
           Ends(k) == /\ k = L \/ query[k + 1] = Ampersand
                      /\ \A m \in n .. k : query[m] # Ampersand
           last == CHOOSE k \in n - 1 .. L : Ends(k)
<1>1. L \in Nat /\ n \in 1 .. L /\ L \in n - 1 .. L
  BY LenProperties
<1>2. Ends(L)
  OBVIOUS
<1>3. \A k \in n - 1 .. L : Ends(k) => k = L
  <2> SUFFICES ASSUME NEW k \in n - 1 .. L, Ends(k), k # L PROVE FALSE
    OBVIOUS
  <2>1. k + 1 \in n .. L
    BY <1>1
  <2> QED BY <2>1
<1>4. last = L
  <2> HIDE DEF Ends, L
  <2> QED BY <1>1, <1>2, <1>3
<1>5. PairAt(query, n) = SubSeq(query, n, last)
  BY DEF PairAt
<1> QED BY <1>4, <1>5

\* In a query an offer is found behind whatever pairs there are, and read as
\* it was written.
LEMMA OfferReads ==
  ASSUME NEW pre \in Seq(Nat), pre = << >> \/ pre[Len(pre)] = Ampersand,
         \A n \in 1 .. Len(pre) : pre[n] \notin {CredentialOffer, CredentialOfferUri},
         NEW name \in {CredentialOffer, CredentialOfferUri},
         NEW text \in Seq(Byte), IsUtf8(text)
  PROVE  ParseOffer(pre \o (<<name, Equals>> \o PercentEncode(text)))
           = [kind |-> IF name = CredentialOffer THEN "value" ELSE "reference", text |-> text]
<1> DEFINE enc == PercentEncode(text)
           mark == <<name, Equals>>
           pair == mark \o enc
           query == pre \o pair
           P == Len(pre)
           E == Len(enc)
<1>1. /\ enc \in Seq(Plain) /\ enc \in Seq(Nat) /\ E \in Nat /\ P \in Nat
      /\ PercentDecode(enc) = text
  <2>1. enc \in Seq(Plain) /\ PercentDecode(enc) = text
    BY EncodedReads
  <2> HIDE DEF enc
  <2>3. Plain \subseteq Nat
    BY PlainBytes
  <2>2. enc \in Seq(Nat)
    BY <2>1, <2>3, SeqMonotonic
  <2> QED BY <2>1, <2>2, LenProperties
<1>2. \A n \in 1 .. E : enc[n] # Ampersand
  <2> HIDE DEF enc
  <2> QED BY <1>1, ElementOfSeq DEF Plain
<1>3. /\ name \in Nat /\ name # Ampersand /\ Equals \in Nat /\ Equals # Ampersand
      /\ mark \in Seq(Nat) /\ Len(mark) = 2 /\ mark[1] = name /\ mark[2] = Equals
  BY DEF CredentialOffer, CredentialOfferUri, Ampersand, Equals
<1> HIDE DEF enc, mark
<1>4. /\ pair \in Seq(Nat) /\ Len(pair) = E + 2
      /\ pair[1] = name /\ pair[2] = Equals
      /\ \A n \in 1 .. E : pair[n + 2] = enc[n]
  <2>1. /\ pair \in Seq(Nat) /\ Len(pair) = 2 + E
        /\ \A n \in 1 .. 2 + E : pair[n] = IF n =< 2 THEN mark[n] ELSE enc[n - 2]
    <3>1. /\ pair \in Seq(Nat) /\ Len(pair) = Len(mark) + Len(enc)
          /\ \A n \in 1 .. Len(mark) + Len(enc) :
               pair[n] = IF n =< Len(mark) THEN mark[n] ELSE enc[n - Len(mark)]
      <4>1. mark \in Seq(Nat) /\ enc \in Seq(Nat)
        BY <1>1, <1>3
      <4> QED BY <4>1, ConcatProperties
    <3> HIDE DEF pair
    <3> QED BY <1>3, <3>1
  <2> HIDE DEF pair
  <2>2. \A n \in 1 .. E : n + 2 \in 1 .. 2 + E /\ ~(n + 2 =< 2) /\ n + 2 - 2 = n
    BY <1>1
  <2>3. /\ 1 \in 1 .. 2 + E /\ 2 \in 1 .. 2 + E /\ 1 =< 2 /\ 2 =< 2
        /\ 2 + E = E + 2
    BY <1>1
  <2> HIDE DEF E
  <2>4. \A n \in 1 .. E : pair[n + 2] = enc[n]
    <3> SUFFICES ASSUME NEW n \in 1 .. E PROVE pair[n + 2] = enc[n]
      OBVIOUS
    <3> DEFINE m == n + 2
    <3>1. m \in 1 .. 2 + E /\ ~(m =< 2) /\ m - 2 = n
      BY <2>2
    <3> HIDE DEF m
    <3>2. pair[m] = enc[m - 2]
      BY <2>1, <3>1
    <3> QED BY <3>1, <3>2 DEF m
  <2> QED BY <1>3, <2>1, <2>3, <2>4
<1>5. \A n \in 1 .. Len(pair) : pair[n] # Ampersand
  <2> SUFFICES ASSUME NEW n \in 1 .. E + 2 PROVE pair[n] # Ampersand
    BY <1>4
  <2> HIDE DEF pair
  <2>1. n = 1 \/ n = 2 \/ (n - 2 \in 1 .. E /\ n = (n - 2) + 2)
    BY <1>1
  <2>2. n - 2 \in 1 .. E => pair[n] = enc[n - 2]
    <3> DEFINE m == n - 2
    <3>1. m \in 1 .. E => n = m + 2
      OBVIOUS
    <3> HIDE DEF m
    <3> QED BY <1>4, <3>1 DEF m
  <2> QED BY <1>2, <1>3, <1>4, <2>1, <2>2
<1> HIDE DEF pair
<1>6. /\ query \in Seq(Nat) /\ Len(query) = P + E + 2
      /\ \A n \in 1 .. P : query[n] = pre[n]
      /\ \A n \in 1 .. E + 2 : query[P + n] = pair[n]
  <2>1. /\ query \in Seq(Nat) /\ Len(query) = P + Len(pair)
        /\ \A n \in 1 .. P + Len(pair) : query[n] = IF n =< P THEN pre[n] ELSE pair[n - P]
    <3>1. pre \in Seq(Nat) /\ pair \in Seq(Nat)
      BY <1>4
    <3> HIDE DEF pair
    <3> QED BY <3>1, ConcatProperties
  <2> HIDE DEF query, P
  <2>2. \A n \in 1 .. E + 2 : P + n \in 1 .. P + (E + 2) /\ ~(P + n =< P) /\ P + n - P = n
    BY <1>1
  <2>3. \A n \in 1 .. P : n \in 1 .. P + (E + 2) /\ n =< P
    BY <1>1
  <2>4. Len(pair) = E + 2 /\ P + (E + 2) = P + E + 2
    BY <1>1, <1>4
  <2> HIDE DEF E
  <2>5. \A n \in 1 .. P : query[n] = pre[n]
    BY <2>1, <2>3, <2>4
  <2>6. ASSUME NEW n \in 1 .. E + 2 PROVE query[P + n] = pair[n]
    <3> DEFINE m == P + n
    <3>1. m \in 1 .. P + (E + 2) /\ ~(m =< P) /\ m - P = n
      BY <1>1, <2>6
    <3> HIDE DEF m
    <3>2. query[m] = pair[m - P]
      BY <2>1, <2>4, <3>1
    <3> QED BY <3>1, <3>2 DEF m
  <2> QED BY <2>1, <2>4, <2>5, <2>6
<1> HIDE DEF query
<1> DEFINE L == P + E + 2
<1>7. \A n \in P + 1 .. L : query[n] # Ampersand
  <2> SUFFICES ASSUME NEW n \in P + 1 .. L PROVE query[n] # Ampersand
    OBVIOUS
  <2>1. n - P \in 1 .. E + 2 /\ P + (n - P) = n
    BY <1>1
  <2>2. query[n] = pair[n - P]
    BY <1>6, <2>1
  <2> QED BY <1>4, <1>5, <2>1, <2>2
<1>8. PairAt(query, P + 1) = pair
  <2>1. P + 1 \in 1 .. Len(query) /\ Len(query) = L
    BY <1>1, <1>6
  <2>2. PairAt(query, P + 1) = SubSeq(query, P + 1, L)
    <3>1. \A m \in P + 1 .. Len(query) : query[m] # Ampersand
      BY <1>7, <2>1
    <3> HIDE DEF L, P
    <3> QED BY <1>6, <2>1, <3>1, LastPair
  <2> DEFINE rest == SubSeq(query, P + 1, L)
  <2>3. /\ rest \in Seq(Nat) /\ Len(rest) = E + 2
        /\ \A n \in 1 .. E + 2 : rest[n] = query[P + 1 + n - 1]
    <3>1. /\ P + 1 \in Int /\ L \in Int /\ P + 1 =< L /\ L - (P + 1) + 1 = E + 2
          /\ \A n \in P + 1 .. L : n \in 1 .. Len(query)
      BY <1>1, <1>6
    <3>2. \A n \in P + 1 .. L : query[n] \in Nat
      BY <1>6, <3>1, ElementOfSeq
    <3> DEFINE first == P + 1
    <3>3. first \in Int /\ \A n \in first .. L : query[n] \in Nat
      BY <3>1, <3>2
    <3> HIDE DEF L, first, query
    <3>4. /\ Len(SubSeq(query, first, L)) = IF first =< L THEN L - first + 1 ELSE 0
          /\ SubSeq(query, first, L) \in Seq(Nat)
          /\ \A n \in 1 .. L - first + 1 : SubSeq(query, first, L)[n] = query[first + n - 1]
      BY <3>1, <3>3, SubSeqProperties
    <3>5. first =< L /\ L - first + 1 = E + 2
      BY <3>1 DEF first
    <3>6. rest = SubSeq(query, first, L)
      BY DEF first
    <3> HIDE DEF rest, E
    <3>7. /\ rest \in Seq(Nat) /\ Len(rest) = E + 2
          /\ \A n \in 1 .. E + 2 : rest[n] = query[first + n - 1]
      BY <3>4, <3>5, <3>6
    <3> QED BY <3>7 DEF first
  <2> HIDE DEF rest
  <2>4. \A n \in 1 .. E + 2 : rest[n] = pair[n]
    <3>1. \A n \in 1 .. E + 2 : P + 1 + n - 1 = P + n
      BY <1>1
    <3> QED BY <1>6, <2>3, <3>1
  <2>5. rest = pair
    BY <1>4, <2>3, <2>4, SeqEqual
  <2> QED BY <2>2, <2>5 DEF rest
<1> DEFINE Starts == {n \in 1 .. Len(query) :
                        /\ n = 1 \/ query[n - 1] = Ampersand
                        /\ CarriesOffer(PairAt(query, n))}
<1>9. P + 1 \in Starts
  <2>1. P + 1 \in 1 .. Len(query)
    BY <1>1, <1>6
  <2>2. P + 1 = 1 \/ query[P + 1 - 1] = Ampersand
    <3>1. CASE pre = << >>
      BY <3>1
    <3>2. CASE pre # << >>
      <4>1. P \in 1 .. P /\ P + 1 - 1 = P
        BY <1>1, <3>2, EmptySeq
      <4> HIDE DEF P
      <4> QED BY <1>6, <3>2, <4>1 DEF P
    <3> QED BY <3>1, <3>2
  <2>3. CarriesOffer(pair)
    BY <1>1, <1>4 DEF CarriesOffer
  <2> QED BY <1>8, <2>1, <2>2, <2>3
<1>10. ASSUME NEW n \in Starts PROVE n = P + 1
  <2>1. n \in 1 .. Len(query) /\ (n = 1 \/ query[n - 1] = Ampersand)
        /\ CarriesOffer(PairAt(query, n))
    OBVIOUS
  <2>2. query[n] \in {CredentialOffer, CredentialOfferUri}
    BY <1>6, <2>1, PairBegins
  <2>3. n \notin 1 .. P
    BY <1>6, <2>2
  <2>4. ~(n - 1 \in P + 1 .. L)
    <3>1. n - 1 \in P + 1 .. L => query[n - 1] # Ampersand
      BY <1>7
    <3>2. n - 1 \in P + 1 .. L => n # 1
      BY <1>1
    <3> HIDE DEF L, P
    <3> QED BY <2>1, <3>1, <3>2
  <2>5. n \in 1 .. L /\ P \in Nat /\ L \in Nat
    <3>1. Len(query) = L /\ L \in Nat /\ P \in Nat
      BY <1>1, <1>6
    <3> HIDE DEF L, P, Starts
    <3> QED BY <2>1, <3>1
  <2> HIDE DEF Starts, L, P
  <2> QED BY <2>3, <2>4, <2>5
<1>11. Starts = {P + 1}
  <2> HIDE DEF Starts, P
  <2> QED BY <1>9, <1>10
<1>12. (CHOOSE n \in Starts : \A m \in Starts : n =< m) = P + 1
  <2> DEFINE p == P + 1
  <2>1. Starts = {p} /\ p =< p
    BY <1>1, <1>11
  <2> HIDE DEF Starts, p
  <2>2. (CHOOSE n \in Starts : \A m \in Starts : n =< m) = p
    BY <2>1
  <2> QED BY <2>2 DEF p
<1>13. SubSeq(pair, 3, Len(pair)) = enc
  <2> DEFINE rest == SubSeq(pair, 3, Len(pair))
  <2>1. /\ 3 \in Int /\ Len(pair) \in Int
        /\ Len(pair) - 3 + 1 = E /\ (3 =< Len(pair) <=> E >= 1)
        /\ \A n \in 3 .. Len(pair) : n \in 1 .. Len(pair)
    BY <1>1, <1>4
  <2>2. \A n \in 3 .. Len(pair) : pair[n] \in Nat
    BY <1>4, <2>1, ElementOfSeq
  <2>3. /\ rest \in Seq(Nat) /\ Len(rest) = E
        /\ \A n \in 1 .. E : rest[n] = pair[3 + n - 1]
    <3>1. /\ rest \in Seq(Nat)
          /\ Len(rest) = IF 3 =< Len(pair) THEN Len(pair) - 3 + 1 ELSE 0
          /\ \A n \in 1 .. Len(pair) - 3 + 1 : rest[n] = pair[3 + n - 1]
      BY <2>1, <2>2, SubSeqProperties
    <3> DEFINE l == Len(pair)
    <3>2. l - 3 + 1 = E /\ (3 =< l <=> E >= 1) /\ E \in Nat /\ l \in Int
      BY <1>1, <2>1
    <3>3. Len(rest) = IF 3 =< l THEN l - 3 + 1 ELSE 0
      BY <3>1
    <3> HIDE DEF rest, E, l
    <3>4. Len(rest) = E
      BY <3>2, <3>3
    <3> QED BY <3>1, <3>2, <3>4 DEF l
  <2> HIDE DEF rest
  <2>4. \A n \in 1 .. E : rest[n] = enc[n]
    <3>1. \A n \in 1 .. E : 3 + n - 1 = n + 2
      BY <1>1
    <3> QED BY <1>4, <2>3, <3>1
  <2>5. rest = enc
    BY <1>1, <2>3, <2>4, SeqEqual
  <2> QED BY <2>5 DEF rest
<1>14. ParseOffer(query) = [kind |-> IF pair[1] = CredentialOffer THEN "value" ELSE "reference",
                            text |-> text]
  <2> DEFINE first == PairAt(query, CHOOSE n \in Starts : \A m \in Starts : n =< m)
             read == PercentDecode(SubSeq(first, 3, Len(first)))
  <2>1. first = pair
    <3> HIDE DEF Starts, P
    <3> QED BY <1>8, <1>12
  <2>2. read = text
    <3> HIDE DEF first
    <3> QED BY <1>1, <1>13, <2>1
  <2>3. ParseOffer(query)
          = IF Starts = {} \/ ~IsUtf8(read)
            THEN [kind |-> "error", text |-> << >>]
            ELSE [kind |-> IF first[1] = CredentialOffer THEN "value" ELSE "reference",
                  text |-> read]
    BY DEF ParseOffer
  <2>4. Starts # {}
    BY <1>9
  <2> HIDE DEF first, read, Starts
  <2> QED BY <2>1, <2>2, <2>3, <2>4
<1> QED BY <1>4, <1>14 DEF query, pair, mark, enc

(***************************************************************************)
(* Claiming.                                                               *)
(***************************************************************************)
SessionSound(s) == s = [wallet |-> s.wallet, sent |-> s.sent, offer |-> s.offer, open |-> s.open]

\* A proof is of the wallet of some session and for that session's issuer, with
\* the session's own nonce unless that issuer passes others' on.
ProofSound(proof) ==
  \E s \in DOMAIN sessions :
    /\ proof.header.jwk = sessions[s].wallet
    /\ proof.claims.aud = sessions[s].offer.issuer
    /\ proof.claims.aud \notin Relays => proof.claims.nonce = s

ClaimsSound ==
  /\ \E S : sessions \in Seq(S) /\ \A s \in S : SessionSound(s)
  /\ \A proof \in proofs : ProofSound(proof)

\* What a proof says of itself.
LEMMA ProofParts ==
  ASSUME NEW i, NEW n, NEW cb, NEW w
  PROVE  LET proof == HolderProofBound(i, n, cb, w)
         IN  /\ proof.header.jwk = w /\ proof.signedBy = w
             /\ proof.claims.aud = i /\ proof.claims.nonce = n
BY DEF HolderProofBound, BuildProofJwt, Es256Jwk

LEMMA ProofsStaySound ==
  ASSUME ClaimsSound, proofs' = proofs,
         \A s \in DOMAIN sessions :
           /\ s \in DOMAIN sessions'
           /\ sessions'[s].wallet = sessions[s].wallet /\ sessions'[s].offer = sessions[s].offer
  PROVE  \A proof \in proofs' : ProofSound(proof)'
BY DEF ClaimsSound, ProofSound

LEMMA InitClaimsSound == Init => ClaimsSound
<1> SUFFICES ASSUME Init PROVE ClaimsSound
  OBVIOUS
<1>1. sessions \in Seq({})
  BY EmptySeq DEF Init
<1>2. \E S : sessions \in Seq(S) /\ \A s \in S : SessionSound(s)
  BY <1>1
<1> QED BY <1>2 DEF Init, ClaimsSound

LEMMA NextClaimsSound == ClaimsSound /\ [Next]_vars => ClaimsSound'
<1> SUFFICES ASSUME ClaimsSound, [Next]_vars PROVE ClaimsSound'
  OBVIOUS
<1>1. ASSUME UNCHANGED <<sessions, proofs>> PROVE ClaimsSound'
  BY <1>1 DEF ClaimsSound, ProofSound, SessionSound
<1>2. PICK S : sessions \in Seq(S) /\ \A s \in S : SessionSound(s)
  BY DEF ClaimsSound
<1>3. DOMAIN sessions = 1 .. Len(sessions) /\ Len(sessions) \in Nat
  BY <1>2, LenProperties
<1>4. ASSUME NEW w, NEW o, NEW byReference, NEW preamble, Scan(w, o, byReference, preamble)
      PROVE  ClaimsSound'
  <2>1. PICK offer, open : sessions' = Append(sessions, [wallet |-> w, sent |-> o, offer |-> offer, open |-> open])
    BY <1>4 DEF Scan
  <2> DEFINE x == [wallet |-> w, sent |-> o, offer |-> offer, open |-> open]
             T == S \cup {x}
  <2>2. SessionSound(x)
    BY DEF SessionSound
  <2> HIDE DEF x
  <2>3. sessions \in Seq(T) /\ x \in T /\ \A s \in T : SessionSound(s)
    BY <1>2, <2>2, SeqMonotonic
  <2> HIDE DEF T
  <2>4. sessions' \in Seq(T) /\ Len(sessions') = Len(sessions) + 1
        /\ \A n \in 1 .. Len(sessions) : sessions'[n] = sessions[n]
    BY <2>1, <2>3, AppendProperties DEF x
  <2>5. DOMAIN sessions' = 1 .. Len(sessions) + 1
    BY <2>4, LenProperties
  <2>6. \A proof \in proofs' : ProofSound(proof)'
    <3>1. proofs' = proofs
      BY <1>4 DEF Scan
    <3> QED BY <1>3, <2>4, <2>5, <3>1, ProofsStaySound
  <2> QED BY <2>3, <2>4, <2>6 DEF ClaimsSound, SessionSound
<1>5. ASSUME NEW i, NEW s, NEW proof, NEW c, IssueFor(i, s, proof, c)
      PROVE  ClaimsSound'
  <2> DEFINE x == [sessions[s] EXCEPT !.open = FALSE]
             T == S \cup {x}
  <2>1. s \in DOMAIN sessions /\ proofs' = proofs /\ sessions' = [sessions EXCEPT ![s] = x]
    BY <1>5 DEF IssueFor, Takes
  <2>2. SessionSound(sessions[s])
    BY <1>2, <1>3, <2>1, ElementOfSeq
  <2>3. /\ SessionSound(x)
        /\ x.wallet = sessions[s].wallet /\ x.offer = sessions[s].offer
    <3> DEFINE y == sessions[s]
               shut == FALSE
    <3>1. y = [wallet |-> y.wallet, sent |-> y.sent, offer |-> y.offer, open |-> y.open]
      BY <2>2 DEF SessionSound
    <3> HIDE DEF y, shut
    <3>2. [y EXCEPT !.open = shut]
            = [wallet |-> y.wallet, sent |-> y.sent, offer |-> y.offer, open |-> shut]
      BY <3>1
    <3>3. SessionSound([wallet |-> y.wallet, sent |-> y.sent, offer |-> y.offer, open |-> shut])
      BY DEF SessionSound
    <3>4. x = [wallet |-> y.wallet, sent |-> y.sent, offer |-> y.offer, open |-> shut]
      BY <3>2 DEF x, y, shut
    <3> HIDE DEF x
    <3> QED BY <3>3, <3>4 DEF y
  <2> HIDE DEF x
  <2>4. sessions \in Seq(T) /\ x \in T /\ \A y \in T : SessionSound(y)
    BY <1>2, <2>3, SeqMonotonic
  <2> HIDE DEF T
  <2>5. sessions' \in Seq(T)
    BY <1>3, <2>1, <2>4, ExceptSeq
  <2>6. \A n \in DOMAIN sessions :
          /\ n \in DOMAIN sessions'
          /\ sessions'[n].wallet = sessions[n].wallet /\ sessions'[n].offer = sessions[n].offer
    BY <2>1, <2>3
  <2>7. \A p \in proofs' : ProofSound(p)'
    BY <2>1, <2>6, ProofsStaySound
  <2> QED BY <2>4, <2>5, <2>7 DEF ClaimsSound, SessionSound
<1>6. ASSUME NEW s \in DOMAIN sessions, NEW n, Prove(s, n) PROVE ClaimsSound'
  <2> DEFINE i == sessions[s].offer.issuer
             w == sessions[s].wallet
             bare == HolderProof(i, n, w)
             bound == HolderProofBound(i, n, ChannelBinding(n), w)
  <2>1. /\ proofs' = proofs \cup {bare, bound} /\ sessions' = sessions
        /\ i \notin Relays => n = s
    BY <1>6 DEF Prove
  <2>2. ASSUME NEW p \in {bare, bound}
        PROVE  p.header.jwk = w /\ p.claims.aud = i /\ p.claims.nonce = n
    <3> HIDE DEF i, w
    <3> QED BY ProofParts DEF HolderProof
  <2> HIDE DEF bare, bound
  <2>3. ASSUME NEW p \in {bare, bound} PROVE ProofSound(p)'
    BY <2>1, <2>2 DEF ProofSound
  <2>4. ASSUME NEW p \in proofs PROVE ProofSound(p)'
    BY <2>1 DEF ClaimsSound, ProofSound
  <2>5. \A p \in proofs' : ProofSound(p)'
    BY <2>1, <2>3, <2>4
  <2> QED BY <1>2, <2>1, <2>5 DEF ClaimsSound, SessionSound
<1>7. ASSUME NEW w, NEW n, NEW doc, NEW now, Ingest(w, n, doc, now)
      PROVE  UNCHANGED <<sessions, proofs>>
  BY <1>7 DEF Ingest
<1>8. ASSUME NEW i, NEW place, Rotate(i, place) PROVE UNCHANGED <<sessions, proofs>>
  BY <1>8 DEF Rotate, walletVars
<1>9. ASSUME NEW n, Revoke(n) PROVE UNCHANGED <<sessions, proofs>>
  BY <1>9 DEF Revoke, walletVars
<1>10. ASSUME NEW w, NEW ask, NEW card, NEW required, Show(w, ask, required, card)
       PROVE  UNCHANGED <<sessions, proofs>>
  BY <1>10 DEF Show
<1>11. ASSUME NEW ask, NEW p, NEW q, NEW now, Accept(ask, p, q, now)
       PROVE  UNCHANGED <<sessions, proofs>>
  BY <1>11 DEF Accept, walletVars
<1>12. UNCHANGED vars => UNCHANGED <<sessions, proofs>>
  BY DEF vars, walletVars
<1> QED BY <1>1, <1>4, <1>5, <1>6, <1>7, <1>8, <1>9, <1>10, <1>11, <1>12 DEF Next

\* A scan comes to the offer that was made.
LEMMA ScanReads ==
  ASSUME ClaimsSound, ScannedIsOffered,
         NEW w \in Wallets, NEW o \in Offers, NEW byReference \in BOOLEAN,
         NEW preamble \in Preambles, Scan(w, o, byReference, preamble)
  PROVE  ScannedIsOffered'
<1> DEFINE url == OfferUrls[o]
           query == preamble \o (IF byReference THEN OfferByReference(url) ELSE ToOfferUri(o))
           parsed == ParseOffer(query)
           text == IF parsed.kind = "reference" /\ parsed.text = url THEN Json[o] ELSE parsed.text
           offer == IF IsOffer(text) THEN OfferOf(text) ELSE Absent
<1>1. /\ preamble \in Seq(Nat) /\ (preamble = << >> \/ preamble[Len(preamble)] = Ampersand)
      /\ \A n \in 1 .. Len(preamble) : preamble[n] \notin {CredentialOffer, CredentialOfferUri}
      /\ url \in Seq(Byte) /\ IsUtf8(url)
      /\ o \in DOMAIN Json /\ Json[o] \in Seq(Byte) /\ IsUtf8(Json[o])
  BY OfferAssumption, JsonAssumption, LenProperties
<1>2. CredentialOffer # CredentialOfferUri
  BY DEF CredentialOffer, CredentialOfferUri
<1>3. text = Json[o]
  <2>1. CASE byReference
    <3>1. query = preamble \o (<<CredentialOfferUri, Equals>> \o PercentEncode(url))
      BY <2>1 DEF OfferByReference
    <3> HIDE DEF url, query
    <3>2. parsed = [kind |-> IF CredentialOfferUri = CredentialOffer THEN "value" ELSE "reference",
                    text |-> url]
      BY <1>1, <3>1, OfferReads
    <3> HIDE DEF parsed
    <3> QED BY <1>2, <3>2
  <2>2. CASE ~byReference
    <3> DEFINE json == Json[o]
    <3>1. query = preamble \o (<<CredentialOffer, Equals>> \o PercentEncode(json))
      BY <2>2 DEF ToOfferUri
    <3>2. json \in Seq(Byte) /\ IsUtf8(json)
      BY <1>1
    <3> HIDE DEF url, query, json
    <3>3. parsed = [kind |-> IF CredentialOffer = CredentialOffer THEN "value" ELSE "reference",
                    text |-> json]
      BY <1>1, <3>1, <3>2, OfferReads
    <3> HIDE DEF parsed
    <3> QED BY <3>3 DEF json
  <2> QED BY <2>1, <2>2
<1> HIDE DEF text
<1>4. offer = o
  <2>1. \A q \in DOMAIN Json : Json[q] = Json[o] => q = o
    BY <1>1, JsonAssumption
  <2>2. OfferOf(text) = o
    BY <1>1, <1>3, <2>1 DEF OfferOf
  <2>3. IsOffer(text)
    BY <1>1, <1>3 DEF IsOffer
  <2> QED BY <2>2, <2>3
<1>5. PICK open : sessions' = Append(sessions, [wallet |-> w, sent |-> o, offer |-> offer, open |-> open])
  BY DEF Scan, text
<1> HIDE DEF offer
<1> DEFINE x == [wallet |-> w, sent |-> o, offer |-> o, open |-> open]
<1>6. x.offer = x.sent /\ sessions' = Append(sessions, x)
  BY <1>4, <1>5
<1> HIDE DEF x
<1>7. PICK S : sessions \in Seq(S)
  BY DEF ClaimsSound
<1> DEFINE T == S \cup {x}
<1>8. sessions \in Seq(T) /\ x \in T
  BY <1>7, SeqMonotonic
<1> HIDE DEF T
<1>9. /\ sessions' \in Seq(T) /\ Len(sessions') = Len(sessions) + 1
      /\ \A n \in 1 .. Len(sessions) : sessions'[n] = sessions[n]
      /\ sessions'[Len(sessions) + 1] = x
  BY <1>6, <1>8, AppendProperties
<1>10. /\ DOMAIN sessions' = 1 .. Len(sessions) + 1
       /\ DOMAIN sessions = 1 .. Len(sessions) /\ Len(sessions) \in Nat
  BY <1>8, <1>9, LenProperties
<1>11. \A n \in 1 .. Len(sessions) + 1 : n = Len(sessions) + 1 \/ n \in 1 .. Len(sessions)
  BY <1>10
<1> QED BY <1>6, <1>9, <1>10, <1>11 DEF ScannedIsOffered

LEMMA NextScanned == ClaimsSound /\ ScannedIsOffered /\ [Next]_vars => ScannedIsOffered'
<1> SUFFICES ASSUME ClaimsSound, ScannedIsOffered, [Next]_vars PROVE ScannedIsOffered'
  OBVIOUS
<1>1. ASSUME sessions' = sessions PROVE ScannedIsOffered'
  BY <1>1 DEF ScannedIsOffered
<1>2. ASSUME NEW i, NEW s, NEW proof, NEW c, IssueFor(i, s, proof, c)
      PROVE  ScannedIsOffered'
  <2>1. PICK S : sessions \in Seq(S) /\ \A x \in S : SessionSound(x)
    BY DEF ClaimsSound
  <2>2. s \in DOMAIN sessions /\ sessions' = [sessions EXCEPT ![s].open = FALSE]
    BY <1>2 DEF IssueFor, Takes
  <2> DEFINE x == sessions[s]
             shut == FALSE
  <2>3. x = [wallet |-> x.wallet, sent |-> x.sent, offer |-> x.offer, open |-> x.open]
    <3>1. x \in S
      BY <2>1, <2>2, LenProperties, ElementOfSeq
    <3> QED BY <2>1, <3>1 DEF SessionSound
  <2> DEFINE y == [x EXCEPT !.open = shut]
  <2>4. sessions' = [sessions EXCEPT ![s] = y]
    BY <2>2
  <2> HIDE DEF x, shut
  <2>5. y.offer = x.offer /\ y.sent = x.sent
    BY <2>3
  <2> HIDE DEF y
  <2>6. \A n \in DOMAIN sessions : n = s \/ sessions'[n] = sessions[n]
    BY <2>4
  <2> QED BY <2>2, <2>4, <2>5, <2>6 DEF ScannedIsOffered, x
<1>3. ASSUME NEW s, NEW n, Prove(s, n) PROVE sessions' = sessions
  BY <1>3 DEF Prove
<1>4. ASSUME NEW w, NEW n, NEW doc, NEW now, Ingest(w, n, doc, now) PROVE sessions' = sessions
  BY <1>4 DEF Ingest
<1>5. ASSUME NEW i, NEW place, Rotate(i, place) PROVE sessions' = sessions
  BY <1>5 DEF Rotate, walletVars
<1>6. ASSUME NEW n, Revoke(n) PROVE sessions' = sessions
  BY <1>6 DEF Revoke, walletVars
<1>7. ASSUME NEW w, NEW ask, NEW card, NEW required, Show(w, ask, required, card)
      PROVE  sessions' = sessions
  BY <1>7 DEF Show
<1>8. ASSUME NEW ask, NEW p, NEW q, NEW now, Accept(ask, p, q, now) PROVE sessions' = sessions
  BY <1>8 DEF Accept, walletVars
<1>9. UNCHANGED vars => sessions' = sessions
  BY DEF vars, walletVars
<1> QED BY <1>1, <1>2, <1>3, <1>4, <1>5, <1>6, <1>7, <1>8, <1>9, ScanReads DEF Next

\* ScannedIsOffered, for every offer, whatever bytes its JSON and its address
\* are of, in the QR code or behind it, and whatever pairs are in front of it
\* (to_offer_uri, percent_encode, parse_offer, percent_decode).
THEOREM OffersAreRead == Spec => []ScannedIsOffered
<1>1. Init => ScannedIsOffered
  <2> SUFFICES ASSUME Init PROVE ScannedIsOffered
    OBVIOUS
  <2>1. sessions = << >> /\ DOMAIN << >> = {}
    BY DEF Init
  <2> QED BY <2>1 DEF ScannedIsOffered
<1> QED BY <1>1, InitClaimsSound, NextClaimsSound, NextScanned, PTL DEF Spec

\* ProofsFitTheirSession, for any wallets, issuers, relays and offers, and every
\* order of proofs: whoever passes a nonce on gets a proof for itself, and one
\* for the nonce's issuer was signed in the nonce's own session
\* (holder_proof_bound).
THEOREM ProofsFit == Spec => []ProofsFitTheirSession
<1>1. ASSUME ClaimsSound, NEW s \in DOMAIN sessions, sessions[s].sent.issuer \notin Relays,
             NEW proof \in proofs, Takes(sessions[s].sent.issuer, s, proof)
      PROVE  proof.header.jwk = sessions[s].wallet
  <2>1. proof.claims.nonce = s /\ proof.claims.aud \notin Relays
    BY <1>1 DEF Takes, DecodeProofJwt
  <2> QED BY <1>1, <2>1 DEF ClaimsSound, ProofSound
<1>2. ClaimsSound => ProofsFitTheirSession
  BY <1>1 DEF ProofsFitTheirSession
<1> QED BY <1>2, InitClaimsSound, NextClaimsSound, PTL DEF Spec

(***************************************************************************)
(* What Vaulet's key says.                                                 *)
(***************************************************************************)
\* With pins, what is checked by a published key is of a pinned one.
LEMMA CheckedIsPinned ==
  ASSUME NEW s, NEW voucherDoc, VerifyByPinnedKey(s, voucherDoc, VoucherPins)
  PROVE  s.key \in VoucherPins
BY VoucherAssumption DEF VerifyByPinnedKey

\* "A minute either way": on a clock that is off by Skew, what is in time is
\* over by 2 * Skew at most.
LEMMA InTimeInTerm ==
  ASSUME NEW s \in Statements, NEW clock \in Instants, InTime(s, clock),
         NEW time \in clock - Skew .. clock + Skew
  PROVE  s.exp # None /\ time =< s.exp + 2 * Skew
<1>1. s.exp # None /\ s.exp \in Nat /\ Skew \in Nat /\ clock \in Nat
  BY VoucherAssumption, WalletAssumption DEF InTime
<1>2. s.exp + Skew >= clock
  BY DEF InTime
<1> QED BY <1>1, <1>2

\* A voucher that is read is one, of the organisation whose key signed.
LEMMA ReadVouching ==
  ASSUME NEW s \in Statements, NEW c, NEW doc, NEW voucherDoc, NEW clock,
         VerifiesWithDidDocument(c, doc, clock),
         Vouches(s, c, doc, voucherDoc, VoucherPins, clock)
  PROVE  s.truth = [kind |-> "vouching", of |-> c.body.key[1]]
<1>1. s.key \in VoucherPins /\ s.keys # None
  BY CheckedIsPinned DEF Vouches, Covers
<1>2. SignedVouching(s)
  BY <1>1, VoucherAssumption DEF SignedCertificate, SignedAttestation
<1>3. c.body.key \in s.keys
  BY DEF VerifiesWithDidDocument, Verifies, Vouches, Covers
<1> QED BY <1>2, <1>3 DEF SignedVouching

\* A certificate that is read is one, of the package in hand and what was
\* agreed to of it.
LEMMA ReadCertificate ==
  ASSUME NEW s \in Statements, NEW p \in Packages, NEW voucherDoc, NEW clock,
         Certifies(s, p, voucherDoc, VoucherPins, clock)
  PROVE  s.truth = [kind |-> "certificate", of |-> <<p.code, p.agreed>>]
<1>1. s.key \in VoucherPins /\ s.report # None
  BY CheckedIsPinned DEF Certifies
<1>2. SignedCertificate(s)
  BY <1>1, VoucherAssumption DEF SignedVouching, SignedAttestation
<1>3. PICK q \in Packages :
        /\ s.truth = [kind |-> "certificate", of |-> <<q.code, q.agreed>>]
        /\ s.sub = q.code /\ SameReport(s.report, q.report)
  BY <1>2 DEF SignedCertificate
<1>4. s.sub = p.code
  BY <1>3, VoucherAssumption DEF Certifies, Want
<1>5. SameReport(q.report, p.report)
  BY <1>3 DEF Certifies, SameReport
<1>6. q.agreed = p.agreed
  BY <1>5, VoucherAssumption
<1> QED BY <1>3, <1>4, <1>6

\* An attestation that is read is one, of this data under this name.
LEMMA ReadAttestation ==
  ASSUME NEW s \in Statements, NEW d \in Data, NEW voucherDoc,
         Attests(s, d.field, d.name, d.data, voucherDoc, VoucherPins)
  PROVE  s.truth = [kind |-> "attestation", of |-> d]
<1>1. s.key \in VoucherPins /\ s.digest = d.data /\ d.data # None
  BY CheckedIsPinned, VoucherAssumption DEF Attests
<1>2. SignedAttestation(s)
  BY <1>1, VoucherAssumption DEF SignedVouching, SignedCertificate
<1>3. PICK e \in Data :
        /\ s.truth = [kind |-> "attestation", of |-> e]
        /\ s.digest = e.data /\ SameName(s[e.field], e.name)
        /\ \A field \in {"country", "dataset"} \ {e.field} : s[field] = None
  BY <1>2 DEF SignedAttestation
<1>4. s[d.field] # None /\ SameName(s[d.field], d.name)
  BY DEF Attests
<1>5. e.field = d.field
  BY <1>3, <1>4, VoucherAssumption
<1>6. e.name = d.name
  <2>1. SameName(e.name, d.name)
    BY <1>3, <1>4, <1>5 DEF SameName
  <2> QED BY <2>1, VoucherAssumption
<1>7. d = [field |-> d.field, name |-> d.name, data |-> d.data]
  BY VoucherAssumption
<1>8. e = [field |-> e.field, name |-> e.name, data |-> e.data]
  BY VoucherAssumption
<1>9. e = d
  BY <1>1, <1>3, <1>5, <1>6, <1>7, <1>8
<1> QED BY <1>3, <1>9

\* WordIsVaulets, for any statements of the three kinds, documents served as
\* Vaulet's and clocks (vouching::read, certificate::read, address::verify):
\* what the members of a statement leave open, the wallet never reads.
THEOREM VauletsWord == Spec => []WordIsVaulets
<1>1. ASSUME NEW s \in Statements, NEW voucherDoc \in VoucherDocs, NEW clock \in Instants,
             NEW n \in DOMAIN issued, NEW doc \in served \cup Misserved,
             VerifiesWithDidDocument(issued[n], doc, clock),
             Vouches(s, issued[n], doc, voucherDoc, VoucherPins, clock)
      PROVE  /\ \A time \in clock - Skew .. clock + Skew :
                  s.exp # None /\ time =< s.exp + 2 * Skew
             /\ s.truth = [kind |-> "vouching", of |-> issued[n].body.key[1]]
  <2>1. InTime(s, clock)
    BY <1>1 DEF Vouches
  <2>2. s.truth = [kind |-> "vouching", of |-> issued[n].body.key[1]]
    <3> DEFINE c == issued[n]
    <3>1. VerifiesWithDidDocument(c, doc, clock) /\ Vouches(s, c, doc, voucherDoc, VoucherPins, clock)
      BY <1>1
    <3> HIDE DEF c
    <3>2. s.truth = [kind |-> "vouching", of |-> c.body.key[1]]
      BY <3>1, ReadVouching
    <3> QED BY <3>2 DEF c
  <2> QED BY <2>1, <2>2, InTimeInTerm
<1>2. ASSUME NEW s \in Statements, NEW voucherDoc \in VoucherDocs, NEW clock \in Instants,
             NEW p \in Packages, Certifies(s, p, voucherDoc, VoucherPins, clock)
      PROVE  /\ \A time \in clock - Skew .. clock + Skew :
                  s.exp # None /\ time =< s.exp + 2 * Skew
             /\ s.truth = [kind |-> "certificate", of |-> <<p.code, p.agreed>>]
  <2>1. InTime(s, clock)
    BY <1>2 DEF Certifies
  <2> QED BY <1>2, <2>1, InTimeInTerm, ReadCertificate
<1>3. ASSUME NEW s \in Statements, NEW voucherDoc \in VoucherDocs, NEW d \in Data,
             Attests(s, d.field, d.name, d.data, voucherDoc, VoucherPins)
      PROVE  s.truth = [kind |-> "attestation", of |-> d]
  BY <1>3, ReadAttestation
<1>4. ASSUME NEW s, NEW c, NEW doc, NEW voucherDoc, NEW clock,
             ReadVoucher(s, c, doc, voucherDoc, VoucherPins, clock) = "vouched"
      PROVE  Vouches(s, c, doc, voucherDoc, VoucherPins, clock)
  BY <1>4 DEF ReadVoucher
<1>5. WordIsVaulets
  BY <1>1, <1>2, <1>3, <1>4 DEF WordIsVaulets
<1> QED BY <1>5, PTL
=============================================================================
