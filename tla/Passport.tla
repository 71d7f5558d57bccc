------------------------------ MODULE Passport ------------------------------
(***************************************************************************)
(* Passports read and judged: passive and active authentication as in      *)
(* src/emrtd/mod.rs.                                                       *)
(*                                                                         *)
(* What a reader has may be of several documents: it is read file by file, *)
(* the chip may be taken away in between, and copies of chips carry        *)
(* whatever was put on them, and answers heard elsewhere.  A key stands    *)
(* for what it signs and a hash for what it covers.                        *)
(***************************************************************************)
EXTENDS Curve

CONSTANTS Documents,       \* issued by states; see Lds and Sod
          Sods,            \* what may be on a chip: of documents, or made up
          Files,           \* what may be in each data group on a chip
          AnchorSets,      \* the trust stores of verifiers: sets of CSCA keys
          KindOf,          \* "P-256", "P-384", "explicit", "RSA" or another, of each key
          AaHashes,        \* the hashes tried on an answer
          None,
          MaxChallenges    \* bound

ASSUME PassportAssumption ==
  /\ MaxChallenges \in Nat \ {0} /\ 15 \notin DOMAIN Files
  /\ \A d \in Documents : d.groups \ {15} # {} /\ d.groups \ {15} \subseteq DOMAIN Files

VARIABLES anchors,       \* the trust store
          sod, groups,   \* what the reader has read
          answer,        \* the material of active authentication it has
          challenge,     \* the verifier's
          answered       \* the document whose own chip answered each challenge

readerVars == <<sod, groups, answer>>
vars == <<anchors, readerVars, challenge, answered, question>>

(***************************************************************************)
(* Hashes and signatures.                                                  *)
(***************************************************************************)
Digest(algo, data) == [algo |-> algo, of |-> data]
Sign(key, algo, message) == [by |-> key, digest |-> Digest(algo, message)]
Junk == [by |-> None, digest |-> None]

\* hash_name knows the hashes; for what it does not know, SHA-256.
HashName(oid) == IF oid \in {"SHA-1", "SHA-224", "SHA-384", "SHA-512"} THEN oid ELSE "SHA-256"

Ecdsa == {"ecdsa-with-SHA256", "ecdsa-with-SHA384"}
Rsa == {"sha256WithRSA", "RSASSA-PSS"}

Readable == {"P-256", "P-384", "explicit"}

Suits(key, sigAlg) ==
  \/ sigAlg \in Ecdsa /\ KindOf[key] \in Readable
  \/ sigAlg \in Rsa /\ KindOf[key] = "RSA"

VerifySignature(key, sigAlg, hashAlgo, message, signature) ==
  Suits(key, sigAlg) /\ signature = Sign(key, hashAlgo, message)

(***************************************************************************)
(* What a state issues.  The hash of a signature algorithm is its own.     *)
(***************************************************************************)
HashOf(sigAlg) == IF sigAlg = "ecdsa-with-SHA384" THEN "SHA-384" ELSE "SHA-256"

File(d, n) == [of |-> d.name, n |-> n, key |-> IF n = 15 THEN d.aaKey ELSE None]

Lds(d) ==
  [hashAlgo |-> d.hashAlgo, hashes |-> [n \in d.groups |-> Digest(d.hashAlgo, File(d, n))]]

Certificate(d) ==
  [key |-> d.dsc, sigAlg |-> d.certAlg, signature |-> Sign(d.csca, HashOf(d.certAlg), d.dsc)]

\* The signerInfo of whoever has a key, over the hash of what it signs.
SignerInfo(key, lds) ==
  [digestAlg |-> "SHA-256", attrs |-> Digest("SHA-256", lds), sigAlg |-> "ecdsa-with-SHA256",
   signature |-> Sign(key, "SHA-256", Digest("SHA-256", lds))]

Sod(d) ==
  [lds |-> Lds(d), certificates |-> <<Certificate(d)>>,
   signerInfo |-> [SignerInfo(d.dsc, Lds(d)) EXCEPT !.sigAlg = d.sodAlg]]

\* States sign with keys of the kind they say, and give every chip a key of its
\* own, or none.
ASSUME IssuersAssumption ==
  \A d \in Documents :
    /\ Suits(d.csca, d.certAlg) /\ Suits(d.dsc, d.sodAlg)
    /\ d.aaKey # None => \A e \in Documents : e.aaKey = d.aaKey => e = d

\* Whatever is on a chip, with the keys of the states in somebody's trust store
\* only those states signed, and only keys that sign their documents; and with
\* those only the contents of their documents.
ASSUME UnforgedAssumption ==
  \A s \in Sods :
    /\ DOMAIN s.lds = {"hashAlgo", "hashes"}
    /\ s.certificates # << >> =>
         LET signature == s.certificates[1].signature
             key == s.certificates[1].key
         IN  signature.by \in UNION AnchorSets /\ signature.digest.of = key =>
               /\ \E d \in Documents : d.dsc = key
               /\ \A d \in Documents : d.dsc = key => d.csca = signature.by
    /\ s.signerInfo # None =>
         LET signature == s.signerInfo.signature
             by == {d \in Documents : d.dsc = signature.by}
         IN  by # {} => signature.digest.of \in {Digest("SHA-256", Lds(d)) : d \in by}
                                                 \cup {Lds(d) : d \in by}

\* What is not there is told from what is.
ASSUME NoneAssumption ==
  /\ \A d \in Documents :
       None \notin {d, Sod(d), Sod(d).signerInfo, Digest("SHA-256", Lds(d))}
                     \cup {File(d, n) : n \in d.groups}
  /\ \A algo \in AaHashes, c \in 1 .. MaxChallenges : Digest(algo, c) # None

(***************************************************************************)
(* verify_sod_signature and the chain.                                     *)
(***************************************************************************)
\* Mutant of VerifyDscChain: every certificate is as good as a CSCA's.
VerifyDscChainTo(dsc, csca) == IF dsc.signature.by # None THEN "trusted" ELSE "failed"

\* The hash is named after the algorithm of the signature, which hash_name
\* takes for SHA-256 whatever it is.
VerifyDscChain(dsc, csca) ==
  IF \E ca \in csca :
       VerifySignature(ca, dsc.sigAlg, HashName(dsc.sigAlg), dsc.key, dsc.signature)
  THEN "trusted" ELSE "failed"

\* Mutant of SignedMessage: the attributes are not held against the content.
SignedMessageUnbound(s) == IF s.signerInfo.attrs = None THEN s.lds ELSE s.signerInfo.attrs

\* The attributes, if they are of this content; without any, the content.
SignedMessage(s) ==
  IF s.signerInfo.attrs = None THEN s.lds
  ELSE IF s.signerInfo.attrs = Digest(HashName(s.signerInfo.digestAlg), s.lds)
       THEN s.signerInfo.attrs ELSE None

\* The signer's certificate is the first there is.  Whatever is missing or
\* does not match, nothing is said of the chain.
VerifySod(s, csca) ==
  IF s.certificates = << >> \/ s.signerInfo = None
  THEN [signature |-> FALSE, chain |-> "no anchor"]
  ELSE IF SignedMessage(s) = None
  THEN [signature |-> FALSE, chain |-> "no anchor"]
  ELSE [signature |-> VerifySignature(s.certificates[1].key, s.signerInfo.sigAlg,
                                      HashName(s.signerInfo.digestAlg), SignedMessage(s),
                                      s.signerInfo.signature),
        chain |-> IF csca = {} THEN "no anchor" ELSE VerifyDscChain(s.certificates[1], csca)]

(***************************************************************************)
(* Active authentication: [file, signature] against the challenge.         *)
(***************************************************************************)
VerifyActiveAuth(file, c, signature) ==
  IF file.key = None THEN "failed"
  ELSE IF KindOf[file.key] \notin Readable THEN "unsupported"
  ELSE IF \E algo \in AaHashes : signature = Sign(file.key, algo, c) THEN "verified"
  ELSE "failed"

\* Mutant of AaCovered: it need only be a key.
AaCoveredAnyhow(lds, file) == TRUE

AaCovered(lds, file) ==
  15 \in DOMAIN lds.hashes /\ lds.hashes[15] = Digest(lds.hashAlgo, file)

ActiveAuth(lds, aa, c) ==
  IF aa = None THEN "none"
  ELSE IF ~AaCovered(lds, aa.file) THEN "none"
  ELSE VerifyActiveAuth(aa.file, c, aa.signature)

(***************************************************************************)
(* verify_passport and its verdict.                                        *)
(***************************************************************************)
Checked(s, dgs) == {n \in DOMAIN s.lds.hashes \cap DOMAIN dgs : dgs[n] # None}

Integrity(s, dgs) ==
  /\ Checked(s, dgs) # {}
  /\ \A n \in Checked(s, dgs) : Digest(s.lds.hashAlgo, dgs[n]) = s.lds.hashes[n]

VerifyPassport(s, dgs, csca, aa, c) ==
  LET signed == VerifySod(s, csca)
      active == ActiveAuth(s.lds, aa, c)
  IN  [dgIntegrity |-> Integrity(s, dgs), sodSignature |-> signed.signature,
       chain |-> signed.chain,
       activeAuth |-> IF active = "unsupported" THEN "none" ELSE active,
       aaUnverifiable |-> active = "unsupported",
       checkedDgs |-> Checked(s, dgs), sodDgs |-> DOMAIN s.lds.hashes]

SupportsActiveAuth(v) == 15 \in v.sodDgs

\* Mutant of ActiveAuthOk: what cannot be verified is forgiven.
ActiveAuthOkUnverified(v) ==
  IF SupportsActiveAuth(v) THEN v.activeAuth = "verified" \/ v.aaUnverifiable
                           ELSE v.activeAuth # "failed"

ActiveAuthOk(v) ==
  IF SupportsActiveAuth(v) THEN v.activeAuth = "verified" ELSE v.activeAuth # "failed"

IsGenuine(v) ==
  v.dgIntegrity /\ v.sodSignature /\ v.chain = "trusted" /\ ActiveAuthOk(v)

\* Mutant of UncoveredDgs: what the SOD lists is covered, read or not.
UncoveredDgsListed(v, required) == required \ v.sodDgs

UncoveredDgs(v, required) == required \ v.checkedDgs

(***************************************************************************)
(* Reading, file by file.                                                  *)
(***************************************************************************)
Init ==
  /\ Ask
  /\ anchors \in IF question = Infinity THEN AnchorSets ELSE {{}}
  /\ sod = None
  /\ groups = [n \in DOMAIN Files |-> None]
  /\ answer = None
  /\ challenge = 1
  /\ answered = [c \in 1 .. MaxChallenges |-> None]

ReadSod(s) ==
  /\ sod' = s
  /\ UNCHANGED <<anchors, groups, answer, challenge, answered>>

ReadFile(n, file) ==
  /\ groups' = [groups EXCEPT ![n] = file]
  /\ UNCHANGED <<anchors, sod, answer, challenge, answered>>

\* A document's own chip signs the challenge, with a hash of its choice.
Answer(d, algo) ==
  /\ 15 \in d.groups /\ d.aaKey # None
  /\ answered[challenge] = None
  /\ answered' = [answered EXCEPT ![challenge] = d]
  /\ answer' = [file |-> File(d, 15), signature |-> Sign(d.aaKey, algo, challenge)]
  /\ UNCHANGED <<anchors, sod, groups, challenge>>

\* Another chip gives what was heard, or nothing like it, for its own answer.
Repeat(file, signature) ==
  /\ answer' = [file |-> file, signature |-> signature]
  /\ UNCHANGED <<anchors, sod, groups, challenge, answered>>

NewChallenge ==
  /\ challenge < MaxChallenges
  /\ challenge' = challenge + 1
  /\ UNCHANGED <<anchors, readerVars, answered>>

Heard(algo) ==
  {Junk} \cup {Sign(answered[c].aaKey, algo, c) : c \in {x \in DOMAIN answered : answered[x] # None}}

Next ==
  /\ question = Infinity
  /\ \/ \E s \in Sods : ReadSod(s)
     \/ \E n \in DOMAIN Files : \E file \in Files[n] : ReadFile(n, file)
     \/ \E d \in Documents, algo \in AaHashes : Answer(d, algo)
     \/ \E d \in {e \in Documents : 15 \in e.groups}, algo \in AaHashes :
          \E signature \in Heard(algo) : Repeat(File(d, 15), signature)
     \/ NewChallenge
  /\ UNCHANGED question

Spec == Init /\ [][Next]_vars

(***************************************************************************)
(* Properties.                                                             *)
(***************************************************************************)
\* The data groups a credential is made from.
Required == {1, 2}

\* What is called genuine is a document of a state in the trust store, every
\* file that is relied on is its own, and if it has a key to prove that it is no
\* copy, its own chip answered this very challenge.
\* Conversely, a document read whole is genuine when the DSC was signed by way of
\* SHA-256 and it owes no proof, or the proof can be checked; and no check is
\* called failed of the answer a chip gave to this challenge, whether or not it
\* can be verified (emrtd/mod.rs 41-60, 81-133).
GenuineIffProved ==
  sod # None =>
    LET v == VerifyPassport(sod, groups, anchors, answer, challenge)
        is(d) == sod.lds = Lds(d) /\ d.csca \in anchors
        own(d, n) == groups[n] = File(d, n)
        present(d) == answered[challenge] = d
        fresh(d) == /\ answer # None /\ answer.file = File(d, 15)
                    /\ \E algo \in AaHashes : answer.signature = Sign(d.aaKey, algo, challenge)
        whole(d) == /\ sod = Sod(d) /\ is(d) /\ HashOf(d.certAlg) = "SHA-256"
                    /\ \A n \in d.groups \ {15} : own(d, n)
                    /\ 15 \in d.groups => fresh(d) /\ KindOf[d.aaKey] \in Readable
    IN  /\ IsGenuine(v) => \E d \in Documents :
             /\ is(d)
             /\ \A n \in Required \ UncoveredDgs(v, Required) : own(d, n)
             /\ 15 \in d.groups => present(d)
        /\ \A d \in Documents : whole(d) => IsGenuine(v)
        /\ v.activeAuth = "failed" => \A d \in Documents : ~fresh(d)
=============================================================================
