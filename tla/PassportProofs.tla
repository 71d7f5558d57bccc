--------------------------- MODULE PassportProofs ---------------------------
(***************************************************************************)
(* Theorems about Passport, for any documents, chips, trust stores and     *)
(* hashes, as far as nobody forges a state's signature; and about Curve,   *)
(* for any curve whose points are a group, and any keys and numbers.       *)
(***************************************************************************)
EXTENDS Passport, FiniteSetTheorems, WellFoundedInduction, TLAPS

(***************************************************************************)
(* Hashes and signatures stand for what they were made of.                 *)
(***************************************************************************)
LEMMA DigestsDiffer ==
  ASSUME NEW a, NEW x, NEW b, NEW y, Digest(a, x) = Digest(b, y)
  PROVE  a = b /\ x = y
BY DEF Digest

LEMMA SignHas ==
  ASSUME NEW key, NEW algo, NEW message
  PROVE  /\ Sign(key, algo, message).by = key
         /\ Sign(key, algo, message).digest = Digest(algo, message)
         /\ Digest(algo, message).of = message
BY DEF Sign, Digest

LEMMA LdsHas ==
  ASSUME NEW d \in Documents
  PROVE  /\ Lds(d).hashAlgo = d.hashAlgo /\ DOMAIN Lds(d).hashes = d.groups
         /\ \A n \in d.groups : Lds(d).hashes[n] = Digest(d.hashAlgo, File(d, n))
BY DEF Lds

(***************************************************************************)
(* The invariant: answers are those of chips.                              *)
(***************************************************************************)
Chip(c) == answered[c].aaKey

AnswersSound ==
  /\ sod \in Sods \cup {None}
  /\ anchors \in AnchorSets \cup {{}}
  /\ DOMAIN groups = DOMAIN Files
  /\ challenge \in 1 .. MaxChallenges
  /\ answered \in [1 .. MaxChallenges -> Documents \cup {None}]
  /\ \A c \in 1 .. MaxChallenges : answered[c] # None => Chip(c) # None
  /\ answer # None =>
       \/ answer.signature = Junk
       \/ \E c \in 1 .. MaxChallenges, algo \in AaHashes :
            answered[c] # None /\ answer.signature = Sign(Chip(c), algo, c)

LEMMA InitSound ==
  ASSUME Init
  PROVE  AnswersSound
BY PassportAssumption DEF Init, AnswersSound

LEMMA AnswerKeeps ==
  ASSUME AnswersSound, NEW d \in Documents, NEW algo \in AaHashes, Answer(d, algo)
  PROVE  AnswersSound'
<1>1. d # None /\ d.aaKey # None
  BY NoneAssumption DEF Answer
<1>2. answered' = [answered EXCEPT ![challenge] = d]
  BY DEF Answer
<1>3. /\ answered' \in [1 .. MaxChallenges -> Documents \cup {None}]
      /\ answered'[challenge] = d
      /\ \A c \in 1 .. MaxChallenges : c # challenge => answered'[c] = answered[c]
  BY <1>2 DEF AnswersSound
<1>4. answer'.signature = Sign(d.aaKey, algo, challenge)
  BY DEF Answer
<1>5. \A c : Chip(c)' = answered'[c].aaKey
  BY DEF Chip
<1>6. \A c \in 1 .. MaxChallenges : answered'[c] # None => Chip(c)' # None
  BY <1>1, <1>3 DEF Chip, AnswersSound
<1>7. \E c \in 1 .. MaxChallenges, b \in AaHashes :
        answered'[c] # None /\ answer'.signature = Sign(Chip(c)', b, c)
  <2>1. challenge \in 1 .. MaxChallenges
    BY DEF AnswersSound
  <2>2. answered'[challenge] # None /\ answer'.signature = Sign(answered'[challenge].aaKey, algo, challenge)
    BY <1>1, <1>3, <1>4
  <2> QED BY <1>5, <2>1, <2>2
<1> QED BY <1>3, <1>6, <1>7 DEF AnswersSound, Answer

LEMMA RepeatKeeps ==
  ASSUME AnswersSound, NEW file, NEW algo \in AaHashes, NEW signature \in Heard(algo),
         Repeat(file, signature)
  PROVE  AnswersSound'
<1>1. answer'.signature = signature /\ answered' = answered
  BY DEF Repeat
<1>2. \/ signature = Junk
      \/ \E c \in 1 .. MaxChallenges : answered[c] # None /\ signature = Sign(Chip(c), algo, c)
  BY DEF Heard, Chip, AnswersSound
<1>3. \A c : Chip(c)' = Chip(c)
  BY <1>1 DEF Chip
<1> QED BY <1>1, <1>2, <1>3 DEF AnswersSound, Repeat

LEMMA StepKeeps == AnswersSound /\ [Next]_vars => AnswersSound'
<1> SUFFICES ASSUME AnswersSound, [Next]_vars PROVE AnswersSound'
  OBVIOUS
<1>1. CASE \E s \in Sods : ReadSod(s)
  BY <1>1 DEF ReadSod, AnswersSound, Chip
<1>2. CASE \E n \in DOMAIN Files : \E file \in Files[n] : ReadFile(n, file)
  <2>1. DOMAIN groups' = DOMAIN groups
    BY <1>2 DEF ReadFile
  <2> QED BY <1>2, <2>1 DEF ReadFile, AnswersSound, Chip
<1>3. CASE \E d \in Documents, algo \in AaHashes : Answer(d, algo)
  BY <1>3, AnswerKeeps
<1>4. CASE \E d \in {e \in Documents : 15 \in e.groups}, algo \in AaHashes :
             \E signature \in Heard(algo) : Repeat(File(d, 15), signature)
  BY <1>4, RepeatKeeps
<1>5. CASE NewChallenge
  BY <1>5, PassportAssumption DEF NewChallenge, readerVars, AnswersSound, Chip
<1>6. CASE UNCHANGED vars
  BY <1>6 DEF vars, readerVars, AnswersSound, Chip
<1> QED BY <1>1, <1>2, <1>3, <1>4, <1>5, <1>6 DEF Next

\* An answer that verifies for the challenge is that of a chip to it.
LEMMA AnswerIsOfItsChip ==
  ASSUME AnswersSound, answer # None, NEW d \in Documents, NEW algo \in AaHashes,
         answer.signature = Sign(d.aaKey, algo, challenge)
  PROVE  d.aaKey # None /\ answered[challenge] = d
<1>1. challenge \in 1 .. MaxChallenges
  BY DEF AnswersSound
<1>2. answer.signature # Junk
  <2>1. answer.signature.digest = Digest(algo, challenge)
    BY SignHas
  <2>2. Digest(algo, challenge) # None
    BY <1>1, NoneAssumption
  <2>3. Junk.digest = None
    BY DEF Junk
  <2> QED BY <2>1, <2>2, <2>3
<1>3. PICK c \in 1 .. MaxChallenges : \E b \in AaHashes :
        answered[c] # None /\ answer.signature = Sign(Chip(c), b, c)
  BY <1>2 DEF AnswersSound
<1>4. Chip(c) = d.aaKey /\ c = challenge
  <2>1. PICK b \in AaHashes : answer.signature = Sign(Chip(c), b, c)
    BY <1>3
  <2>2. answer.signature.by = Chip(c) /\ answer.signature.digest = Digest(b, c)
    BY <2>1, SignHas
  <2>3. answer.signature.by = d.aaKey /\ answer.signature.digest = Digest(algo, challenge)
    BY SignHas
  <2>4. Digest(b, c) = Digest(algo, challenge)
    BY <2>2, <2>3
  <2>5. c = challenge
    BY <2>4, DigestsDiffer
  <2> QED BY <2>2, <2>3, <2>5
<1>5. answered[c] \in Documents /\ Chip(c) # None
  BY <1>3 DEF AnswersSound
<1>6. answered[c] = d
  BY <1>4, <1>5, IssuersAssumption DEF Chip
<1> QED BY <1>4, <1>5, <1>6

(***************************************************************************)
(* Passive authentication.                                                 *)
(***************************************************************************)
LEMMA SignedIsIssued ==
  ASSUME NEW s \in Sods, NEW csca \in AnchorSets \cup {{}},
         VerifySod(s, csca).signature, VerifySod(s, csca).chain = "trusted"
  PROVE  \E d \in Documents : s.lds = Lds(d) /\ d.csca \in csca
<1> DEFINE m == SignedMessage(s)
           dsc == s.certificates[1]
<1>1. s.certificates # << >> /\ s.signerInfo # None /\ m # None
  BY DEF VerifySod
<1>2. /\ VerifySignature(dsc.key, s.signerInfo.sigAlg, HashName(s.signerInfo.digestAlg), m,
                         s.signerInfo.signature)
      /\ VerifyDscChain(dsc, csca) = "trusted"
  BY <1>1 DEF VerifySod
<1>3. PICK ca \in csca : dsc.signature = Sign(ca, HashName(dsc.sigAlg), dsc.key)
  BY <1>2 DEF VerifyDscChain, VerifySignature
<1>4. dsc.signature.by = ca /\ dsc.signature.digest.of = dsc.key /\ ca \in UNION AnchorSets
  BY <1>3, SignHas
<1>5. (\E d \in Documents : d.dsc = dsc.key) /\ \A d \in Documents : d.dsc = dsc.key => d.csca = ca
  BY <1>1, <1>4, UnforgedAssumption
<1>6. s.signerInfo.signature.by = dsc.key /\ s.signerInfo.signature.digest.of = m
  BY <1>2, SignHas DEF VerifySignature
<1>7. PICK d \in Documents : d.dsc = dsc.key /\ m \in {Digest("SHA-256", Lds(d)), Lds(d)}
  <2> DEFINE by == {d \in Documents : d.dsc = dsc.key}
  <2>1. m \in {Digest("SHA-256", Lds(d)) : d \in by} \cup {Lds(d) : d \in by}
    BY <1>1, <1>5, <1>6, UnforgedAssumption
  <2> QED BY <2>1
<1>8. m = s.lds \/ \E algo : m = Digest(algo, s.lds)
  BY <1>1 DEF SignedMessage
<1>9. DOMAIN s.lds = {"hashAlgo", "hashes"} /\ DOMAIN Lds(d) = {"hashAlgo", "hashes"}
  BY UnforgedAssumption DEF Lds
<1>10. \A algo, x : DOMAIN Digest(algo, x) = {"algo", "of"}
  BY DEF Digest
<1>11. "algo" \notin {"hashAlgo", "hashes"}
  OBVIOUS
<1>12. s.lds = Lds(d)
  <2>1. CASE m = s.lds
    BY <1>7, <1>9, <1>10, <1>11, <2>1
  <2>2. CASE \E algo : m = Digest(algo, s.lds)
    BY <1>7, <1>9, <1>10, <1>11, <2>2, DigestsDiffer
  <2> QED BY <1>8, <2>1, <2>2
<1> QED BY <1>3, <1>5, <1>7, <1>12

LEMMA IssuedIsSigned ==
  ASSUME NEW d \in Documents, NEW csca, d.csca \in csca, HashOf(d.certAlg) = "SHA-256"
  PROVE  VerifySod(Sod(d), csca) = [signature |-> TRUE, chain |-> "trusted"]
<1> DEFINE s == Sod(d)
           lds == Lds(d)
<1>1. /\ s.lds = lds /\ s.certificates = <<Certificate(d)>>
      /\ s.signerInfo.digestAlg = "SHA-256" /\ s.signerInfo.attrs = Digest("SHA-256", lds)
      /\ s.signerInfo.sigAlg = d.sodAlg
      /\ s.signerInfo.signature = Sign(d.dsc, "SHA-256", Digest("SHA-256", lds))
  BY DEF Sod, SignerInfo
<1>2. /\ Certificate(d).key = d.dsc /\ Certificate(d).sigAlg = d.certAlg
      /\ Certificate(d).signature = Sign(d.csca, "SHA-256", d.dsc)
  BY DEF Certificate
<1>3. s.certificates # << >> /\ s.certificates[1] = Certificate(d)
  BY <1>1
<1>4. Digest("SHA-256", lds) # None /\ s.signerInfo # None
  BY <1>1, NoneAssumption DEF Sod
<1>5. Suits(d.csca, d.certAlg) /\ Suits(d.dsc, d.sodAlg)
  BY IssuersAssumption
<1>6. HashName("SHA-256") = "SHA-256" /\ HashName(d.certAlg) = "SHA-256"
  BY <1>5 DEF HashName, Suits, Ecdsa, Rsa
<1>7. SignedMessage(s) = Digest("SHA-256", lds)
  BY <1>1, <1>4, <1>6 DEF SignedMessage
<1>8. VerifyDscChain(Certificate(d), csca) = "trusted"
  BY <1>2, <1>5, <1>6 DEF VerifyDscChain, VerifySignature
<1>9. VerifySignature(d.dsc, d.sodAlg, "SHA-256", Digest("SHA-256", lds), s.signerInfo.signature)
  BY <1>1, <1>5 DEF VerifySignature
<1> HIDE DEF s
<1> QED BY <1>1, <1>2, <1>3, <1>4, <1>6, <1>7, <1>8, <1>9 DEF VerifySod, s


(***************************************************************************)
(* The verdict.                                                            *)
(***************************************************************************)
Verdict == VerifyPassport(sod, groups, anchors, answer, challenge)
Own(d, n) == groups[n] = File(d, n)

Fresh(d) ==
  /\ answer # None /\ answer.file = File(d, 15)
  /\ \E algo \in AaHashes : answer.signature = Sign(d.aaKey, algo, challenge)

LEMMA VerdictHas ==
  /\ Verdict.dgIntegrity = Integrity(sod, groups)
  /\ Verdict.sodSignature = VerifySod(sod, anchors).signature
  /\ Verdict.chain = VerifySod(sod, anchors).chain
  /\ Verdict.activeAuth = (IF ActiveAuth(sod.lds, answer, challenge) = "unsupported"
                           THEN "none" ELSE ActiveAuth(sod.lds, answer, challenge))
  /\ Verdict.checkedDgs = Checked(sod, groups) /\ Verdict.sodDgs = DOMAIN sod.lds.hashes
BY DEF Verdict, VerifyPassport

\* What is called genuine.
LEMMA GenuineIsProved ==
  ASSUME AnswersSound, sod # None, IsGenuine(Verdict)
  PROVE  \E d \in Documents :
           /\ sod.lds = Lds(d) /\ d.csca \in anchors
           /\ \A n \in Required \ UncoveredDgs(Verdict, Required) : Own(d, n)
           /\ 15 \in d.groups => answered[challenge] = d
<1>1. sod \in Sods /\ anchors \in AnchorSets \cup {{}}
  BY DEF AnswersSound
<1>2. PICK d \in Documents : sod.lds = Lds(d) /\ d.csca \in anchors
  BY <1>1, SignedIsIssued, VerdictHas DEF IsGenuine
<1>3. ASSUME NEW n \in Required \ UncoveredDgs(Verdict, Required) PROVE Own(d, n)
  <2>1. n \in Checked(sod, groups) /\ Integrity(sod, groups)
    BY VerdictHas DEF UncoveredDgs, IsGenuine
  <2>2. n \in d.groups /\ Digest(d.hashAlgo, groups[n]) = Digest(d.hashAlgo, File(d, n))
    BY <1>2, <2>1, LdsHas DEF Checked, Integrity
  <2> QED BY <2>2, DigestsDiffer DEF Own
<1>4. ASSUME 15 \in d.groups PROVE answered[challenge] = d
  <2>1. Verdict.activeAuth = "verified"
    BY <1>2, <1>4, LdsHas, VerdictHas DEF IsGenuine, ActiveAuthOk, SupportsActiveAuth
  <2>2. ActiveAuth(Lds(d), answer, challenge) = "verified"
    BY <1>2, <2>1, VerdictHas
  <2>3. /\ answer # None /\ AaCovered(Lds(d), answer.file)
        /\ VerifyActiveAuth(answer.file, challenge, answer.signature) = "verified"
    BY <2>2 DEF ActiveAuth
  <2>4. answer.file = File(d, 15)
    BY <1>4, <2>3, LdsHas, DigestsDiffer DEF AaCovered
  <2>5. answer.file.key = d.aaKey
    BY <2>4 DEF File
  <2>6. PICK algo \in AaHashes : answer.signature = Sign(d.aaKey, algo, challenge)
    BY <2>3, <2>5 DEF VerifyActiveAuth
  <2> QED BY <2>3, <2>6, AnswerIsOfItsChip
<1> QED BY <1>2, <1>3, <1>4

\* What has to be.
LEMMA ProvedIsGenuine ==
  ASSUME AnswersSound, sod # None, NEW d \in Documents,
         sod = Sod(d), d.csca \in anchors, HashOf(d.certAlg) = "SHA-256",
         \A n \in d.groups \ {15} : Own(d, n),
         15 \in d.groups => Fresh(d) /\ KindOf[d.aaKey] \in Readable
  PROVE  IsGenuine(Verdict)
<1>1. sod.lds = Lds(d)
  BY DEF Sod
<1>2. Verdict.sodSignature = TRUE /\ Verdict.chain = "trusted"
  BY IssuedIsSigned, VerdictHas
<1>3. DOMAIN groups = DOMAIN Files /\ 15 \notin DOMAIN Files
  BY PassportAssumption DEF AnswersSound
<1>4. Checked(sod, groups) = d.groups \ {15}
  <2>1. \A n \in d.groups \ {15} : n \in DOMAIN groups /\ groups[n] = File(d, n) /\ groups[n] # None
    BY <1>3, PassportAssumption, NoneAssumption DEF Own
  <2> QED BY <1>1, <1>3, <2>1, LdsHas DEF Checked
<1>5. Integrity(sod, groups)
  BY <1>1, <1>4, LdsHas, PassportAssumption DEF Integrity, Own
<1>6. ActiveAuthOk(Verdict)
  <2>1. CASE 15 \in d.groups
    <3>1. PICK algo \in AaHashes : answer.signature = Sign(d.aaKey, algo, challenge)
      BY <2>1 DEF Fresh
    <3>2. answer # None /\ answer.file = File(d, 15) /\ answer.file.key = d.aaKey
      BY <2>1 DEF Fresh, File
    <3>3. d.aaKey # None
      BY <3>1, <3>2, AnswerIsOfItsChip
    <3>4. AaCovered(Lds(d), answer.file)
      BY <2>1, <3>2, LdsHas DEF AaCovered
    <3>5. VerifyActiveAuth(answer.file, challenge, answer.signature) = "verified"
      BY <2>1, <3>1, <3>2, <3>3 DEF VerifyActiveAuth
    <3>6. ActiveAuth(sod.lds, answer, challenge) = "verified"
      BY <1>1, <3>2, <3>4, <3>5 DEF ActiveAuth
    <3> QED BY <3>6, VerdictHas DEF ActiveAuthOk
  <2>2. CASE 15 \notin d.groups
    <3>1. \A file : ~AaCovered(Lds(d), file)
      BY <2>2, LdsHas DEF AaCovered
    <3>2. ActiveAuth(sod.lds, answer, challenge) = "none"
      BY <1>1, <3>1 DEF ActiveAuth
    <3>3. Verdict.activeAuth = "none" /\ ~SupportsActiveAuth(Verdict)
      BY <1>1, <2>2, <3>2, LdsHas, VerdictHas DEF SupportsActiveAuth
    <3> QED BY <3>3 DEF ActiveAuthOk
  <2> QED BY <2>1, <2>2
<1> QED BY <1>2, <1>5, <1>6, VerdictHas DEF IsGenuine

\* What may not be called failed.
LEMMA AnsweredIsNotFailed ==
  ASSUME AnswersSound, NEW d \in Documents, Fresh(d)
  PROVE  Verdict.activeAuth # "failed"
<1>1. PICK algo \in AaHashes : answer.signature = Sign(d.aaKey, algo, challenge)
  BY DEF Fresh
<1>2. answer # None /\ answer.file.key = d.aaKey
  BY DEF Fresh, File
<1>3. d.aaKey # None
  BY <1>1, <1>2, AnswerIsOfItsChip
<1>4. VerifyActiveAuth(answer.file, challenge, answer.signature) # "failed"
  BY <1>1, <1>2, <1>3 DEF VerifyActiveAuth
<1>5. ActiveAuth(sod.lds, answer, challenge) # "failed"
  BY <1>2, <1>4 DEF ActiveAuth
<1> QED BY <1>5, VerdictHas

LEMMA GenuineSound == AnswersSound => GenuineIffProved
<1> SUFFICES ASSUME AnswersSound, sod # None PROVE GenuineIffProved
  BY DEF GenuineIffProved
<1>1. IsGenuine(Verdict) => \E d \in Documents :
        /\ sod.lds = Lds(d) /\ d.csca \in anchors
        /\ \A n \in Required \ UncoveredDgs(Verdict, Required) : Own(d, n)
        /\ 15 \in d.groups => answered[challenge] = d
  BY GenuineIsProved
<1>2. \A d \in Documents :
        /\ sod = Sod(d) /\ sod.lds = Lds(d) /\ d.csca \in anchors /\ HashOf(d.certAlg) = "SHA-256"
        /\ \A n \in d.groups \ {15} : Own(d, n)
        /\ 15 \in d.groups => Fresh(d) /\ KindOf[d.aaKey] \in Readable
        => IsGenuine(Verdict)
  BY ProvedIsGenuine
<1>3. Verdict.activeAuth = "failed" => \A d \in Documents : ~Fresh(d)
  BY AnsweredIsNotFailed
<1> QED BY <1>1, <1>2, <1>3 DEF GenuineIffProved, Verdict, Own, Fresh

\* A passport called genuine is a state's, file by file and with its own chip
\* there, and one read whole is called genuine, for any documents and hashes
\* of the answers: verify_passport (emrtd/mod.rs 144-245) and is_genuine.
THEOREM GenuineIsIssued == Spec => []GenuineIffProved
<1>1. Init => AnswersSound
  BY InitSound
<1> QED BY <1>1, StepKeeps, GenuineSound, PTL DEF Spec

(***************************************************************************)
(* Numbers modulo n.                                                       *)
(***************************************************************************)
Cong(x, y, n) == \E t \in Int : x = y + n * t

LEMMA CongSame == ASSUME NEW n \in Nat, NEW x \in Int PROVE Cong(x, x, n)
<1>1. x = x + n * 0
  OBVIOUS
<1> QED BY <1>1 DEF Cong

LEMMA CongSym ==
  ASSUME NEW n \in Nat, NEW x \in Int, NEW y \in Int, Cong(x, y, n)
  PROVE  Cong(y, x, n)
<1>1. PICK t \in Int : x = y + n * t
  BY DEF Cong
<1>2. y = x + n * (-t) /\ -t \in Int
  BY <1>1
<1> QED BY <1>2 DEF Cong

LEMMA CongTrans ==
  ASSUME NEW n \in Nat, NEW x \in Int, NEW y \in Int, NEW z \in Int,
         Cong(x, y, n), Cong(y, z, n)
  PROVE  Cong(x, z, n)
<1>1. PICK t \in Int : x = y + n * t
  BY DEF Cong
<1>2. PICK u \in Int : y = z + n * u
  BY DEF Cong
<1>3. x = z + n * (t + u) /\ t + u \in Int
  BY <1>1, <1>2
<1> QED BY <1>3 DEF Cong

LEMMA CongPlus ==
  ASSUME NEW n \in Nat, NEW x \in Int, NEW y \in Int, NEW v \in Int, NEW w \in Int,
         Cong(x, y, n), Cong(v, w, n)
  PROVE  Cong(x + v, y + w, n)
<1>1. PICK t \in Int : x = y + n * t
  BY DEF Cong
<1>2. PICK u \in Int : v = w + n * u
  BY DEF Cong
<1>3. x + v = y + w + n * (t + u) /\ t + u \in Int
  BY <1>1, <1>2
<1> QED BY <1>3 DEF Cong

LEMMA CongTimes ==
  ASSUME NEW n \in Nat, NEW x \in Int, NEW y \in Int, NEW z \in Int, Cong(x, y, n)
  PROVE  Cong(x * z, y * z, n)
<1>1. PICK t \in Int : x = y + n * t
  BY DEF Cong
<1>2. x * z = y * z + n * (t * z) /\ t * z \in Int
  BY <1>1
<1> QED BY <1>2 DEF Cong

LEMMA CongMod ==
  ASSUME NEW n \in Nat \ {0}, NEW x \in Int
  PROVE  x % n \in 0 .. n - 1 /\ Cong(x % n, x, n)
<1> DEFINE q == x \div n
<1>1. x % n \in 0 .. n - 1 /\ q \in Int /\ x = (n * q) + (x % n)
  OBVIOUS
<1> HIDE DEF q
<1>2. x % n = x + n * (-q) /\ -q \in Int
  BY <1>1
<1> QED BY <1>1, <1>2 DEF Cong

\* Of what is congruent, one is less than n.
LEMMA CongEqual ==
  ASSUME NEW n \in Nat \ {0}, NEW x \in 0 .. n - 1, NEW y \in 0 .. n - 1, Cong(x, y, n)
  PROVE  x = y
<1>1. PICK t \in Int : x = y + n * t
  BY DEF Cong
<1>2. CASE t >= 1
  <2>1. n * t >= n
    BY <1>2
  <2> QED BY <1>1, <2>1
<1>3. CASE t =< -1
  <2>1. n * (-t) >= n
    BY <1>3
  <2>2. n * t =< -n
    BY <2>1
  <2> QED BY <1>1, <2>2
<1>4. CASE t = 0
  BY <1>1, <1>4
<1> QED BY <1>2, <1>3, <1>4

\* What stands for x modulo n is x % n.
LEMMA CongIsMod ==
  ASSUME NEW n \in Nat \ {0}, NEW x \in Int, NEW y \in 0 .. n - 1, Cong(y, x, n)
  PROVE  y = x % n
<1>1. x % n \in 0 .. n - 1 /\ Cong(x % n, x, n)
  BY CongMod
<1>2. Cong(x, x % n, n)
  BY <1>1, CongSym
<1>3. Cong(y, x % n, n)
  BY <1>1, <1>2, CongTrans
<1> QED BY <1>1, <1>3, CongEqual

(***************************************************************************)
(* Steps, counted.                                                         *)
(***************************************************************************)
LEMMA Counting ==
  ASSUME NEW m \in Nat, NEW S, 0 \in S, \A i \in 1 .. m : i - 1 \in S => i \in S
  PROVE  \A i \in 0 .. m : i \in S
<1> DEFINE Bad == {i \in 0 .. m : i \notin S}
<1> SUFFICES ASSUME Bad # {} PROVE FALSE
  OBVIOUS
<1>1. PICK i \in Bad : \A j \in Bad : ~(<<j, i>> \in OpToRel(<, Nat))
  <2> DEFINE R == OpToRel(<, Nat)
  <2>1. IsWellFoundedOn(R, Nat)
    BY NatLessThanWellFounded
  <2>2. Bad \subseteq Nat
    OBVIOUS
  <2> HIDE DEF R, Bad
  <2>3. \E i \in Bad : \A j \in Bad : ~(<<j, i>> \in R)
    BY <2>1, <2>2, WFMin
  <2> QED BY <2>3 DEF R
<1>2. i \in 0 .. m /\ i \notin S
  BY <1>1
<1>3. i \in 1 .. m /\ i \in Nat
  <2> HIDE DEF Bad
  <2> QED BY <1>2
<1>6. i - 1 \in Bad
  <2>1. i - 1 \in 0 .. m /\ i - 1 \notin S
    BY <1>2, <1>3
  <2> QED BY <2>1
<1> DEFINE ji == <<i - 1, i>>
<1>4. ji \in Nat \X Nat /\ ji[1] = i - 1 /\ ji[2] = i
  BY <1>3
<1> HIDE DEF ji
<1>5. ji \in OpToRel(<, Nat)
  BY <1>3, <1>4 DEF OpToRel
<1> QED BY <1>1, <1>5, <1>6 DEF ji

\* f is what comes of v by m steps in V.
Steps(f, V, v, step, m) ==
  f \in [0 .. m -> V] /\ f[0] = v /\ \A i \in 1 .. m : f[i] = step[f[i - 1]]

\* A step can be taken m times.
LEMMA StepsExist ==
  ASSUME NEW V, NEW v, NEW step, NEW m \in Nat, v \in V, step \in [V -> V]
  PROVE  \E f : Steps(f, V, v, step, m)
<1> DEFINE Runs(f, k) == f[0] = v /\ \A i \in 1 .. k : f[i] = step[f[i - 1]]
           S == {k \in 0 .. m : \E f \in [0 .. k -> V] : Runs(f, k)}
<1>1. 0 \in S
  <2> DEFINE f == [i \in 0 .. 0 |-> v]
  <2>1. f \in [0 .. 0 -> V] /\ Runs(f, 0)
    OBVIOUS
  <2> HIDE DEF f, Runs
  <2> QED BY <2>1
<1>2. ASSUME NEW k \in 1 .. m, k - 1 \in S PROVE k \in S
  <2>1. PICK f \in [0 .. k - 1 -> V] : Runs(f, k - 1)
    BY <1>2
  <2> DEFINE g == [i \in 0 .. k |-> IF i = k THEN step[f[k - 1]] ELSE f[i]]
  <2>2. \A i \in 0 .. k : i = k \/ i \in 0 .. k - 1
    OBVIOUS
  <2>3. g \in [0 .. k -> V]
    BY <2>1, <2>2
  <2>4. /\ g[k] = step[f[k - 1]]
        /\ \A i \in 0 .. k - 1 : g[i] = f[i]
    OBVIOUS
  <2> HIDE DEF g
  <2>5. g[0] = v
    <3>1. 0 \in 0 .. k - 1
      OBVIOUS
    <3> QED BY <2>1, <2>4, <3>1
  <2>6. ASSUME NEW i \in 1 .. k PROVE g[i] = step[g[i - 1]]
    <3>1. i - 1 \in 0 .. k - 1 /\ (i = k \/ (i \in 1 .. k - 1 /\ i \in 0 .. k - 1))
      OBVIOUS
    <3>2. i \in 1 .. k - 1 => f[i] = step[f[i - 1]]
      BY <2>1
    <3> QED BY <2>4, <3>1, <3>2
  <2>7. Runs(g, k)
    BY <2>5, <2>6
  <2> HIDE DEF Runs
  <2> QED BY <2>3, <2>7
<1> HIDE DEF S
<1>3. m \in 0 .. m /\ \A i \in 0 .. m : i \in S
  BY <1>1, <1>2, Counting
<1>4. m \in S
  BY <1>3
<1> QED BY <1>4 DEF S, Steps

\* The bits of a hash are a number.
LEMMA ShiftedIsNat ==
  ASSUME NEW k \in Nat, NEW places \in Nat
  PROVE  Shifted(k, places) \in Nat
<1> DEFINE Halves(f) == f = [i \in 0 .. places |-> IF i = 0 THEN k ELSE f[i - 1] \div 2]
           step == [x \in Nat |-> x \div 2]
           half == CHOOSE f : Halves(f)
<1>1. PICK f \in [0 .. places -> Nat] : f[0] = k /\ \A i \in 1 .. places : f[i] = step[f[i - 1]]
  <2> DEFINE V == Nat
  <2>1. step \in [V -> V] /\ k \in V
    OBVIOUS
  <2> HIDE DEF step, half, V, Halves
  <2>2. \E f : Steps(f, V, k, step, places)
    BY <2>1, StepsExist
  <2> QED BY <2>2 DEF V, Steps
<1>2. Halves(f)
  <2>1. f = [i \in 0 .. places |-> f[i]]
    OBVIOUS
  <2>2. ASSUME NEW i \in 0 .. places PROVE f[i] = IF i = 0 THEN k ELSE f[i - 1] \div 2
    <3>1. i # 0 => i \in 1 .. places /\ f[i - 1] \in Nat
      BY <1>1
    <3> QED BY <1>1, <3>1
  <2> QED BY <2>1, <2>2
<1>3. Shifted(k, places) = half[places]
  BY DEF Shifted
<1>4. Halves(half)
  <2> HIDE DEF Halves
  <2> QED BY <1>2
<1> HIDE DEF half
<1> DEFINE S == {i \in 0 .. places : half[i] \in Nat}
<1>5. \A i \in 0 .. places : half[i] = IF i = 0 THEN k ELSE half[i - 1] \div 2
  BY <1>4
<1> HIDE DEF Halves
<1>6. 0 \in S
  BY <1>5
<1>7. ASSUME NEW i \in 1 .. places, i - 1 \in S PROVE i \in S
  <2>1. i \in 0 .. places /\ i # 0 /\ half[i - 1] \in Nat
    BY <1>7
  <2>2. half[i - 1] \div 2 \in Nat
    BY <2>1
  <2> QED BY <1>5, <2>1, <2>2
<1> HIDE DEF S
<1>8. \A i \in 0 .. places : i \in S
  BY <1>6, <1>7, Counting
<1> QED BY <1>3, <1>8 DEF S

LEMMA LeftmostIsNat ==
  ASSUME NEW hash \in Nat, NEW width \in Nat, NEW n \in Nat
  PROVE  Leftmost(hash, width, n) \in Nat
<1> DEFINE B == {i \in 0 .. 29 : 2 ^ i =< n}
<1>1. IsFiniteSet(B)
  <2>1. B \subseteq 0 .. 29
    OBVIOUS
  <2> HIDE DEF B
  <2>2. IsFiniteSet(0 .. 29)
    <3> DEFINE last == 29
    <3>1. 0 \in Int /\ last \in Int
      OBVIOUS
    <3> HIDE DEF last
    <3>2. IsFiniteSet(0 .. last)
      BY <3>1, FS_Interval
    <3> QED BY <3>2 DEF last
  <2> QED BY <2>1, <2>2, FS_Subset
<1>2. Bits(n) \in Nat
  <2> HIDE DEF B
  <2>1. Cardinality(B) \in Nat
    BY <1>1, FS_CardinalityType
  <2> QED BY <2>1 DEF Bits, B
<1> HIDE DEF B
<1>3. width > Bits(n) => width - Bits(n) \in Nat
  BY <1>2
<1> QED BY <1>3, ShiftedIsNat DEF Leftmost

(***************************************************************************)
(* The group law, and pt_mul by it.                                        *)
(***************************************************************************)
\* M[j] is j times the generator: a point of the curve up to the order, and
\* adding points adds their factors.
Multiples(c, M) ==
  /\ M[0] = Infinity /\ M[1] = c.g
  /\ \A j \in 1 .. c.n - 1 : M[j] # Infinity /\ M[j][1] \in Nat /\ OnCurve(c, M[j])
  /\ \A i, j \in 0 .. c.n - 1 : PtAdd(M[i], M[j], c.a, c.p) = M[(i + j) % c.n]

\* What mathematics says of a curve and a generator of prime order: points
\* are a group under pt_add, and the power n - 2 is an inverse (Fermat).
GroupLaw(c) ==
  /\ c.n \in Nat \ {0, 1}
  /\ \E M : Multiples(c, M)
  /\ \A x \in 1 .. c.n - 1 : ModInv(x, c.n) \in Nat /\ (x * ModInv(x, c.n)) % c.n = 1

\* One round of pt_mul.
Round(acc, a, p) ==
  IF acc.kk = 0 THEN acc
  ELSE [kk |-> acc.kk \div 2,
        result |-> IF acc.kk % 2 = 1 THEN PtAdd(acc.result, acc.addend, a, p) ELSE acc.result,
        addend |-> PtAdd(acc.addend, acc.addend, a, p)]

\* What is added up and what is left to add come to t times the generator.
ComesTo(acc, M, n, t) ==
  /\ acc = [kk |-> acc.kk, result |-> acc.result, addend |-> acc.addend]
  /\ acc.kk \in Nat
  /\ \E x, y \in 0 .. n - 1 :
       acc.result = M[x] /\ acc.addend = M[y] /\ Cong(x + acc.kk * y, t, n)

LEMMA Halving ==
  ASSUME NEW k \in Nat \ {0}
  PROVE  /\ k \div 2 \in Nat /\ k \div 2 < k
         /\ k % 2 = 1 => k = 2 * (k \div 2) + 1
         /\ k % 2 # 1 => k = 2 * (k \div 2)
OBVIOUS

LEMMA RoundKeeps ==
  ASSUME NEW c, c.n \in Nat \ {0}, NEW M, Multiples(c, M), NEW t \in Int,
         NEW acc, ComesTo(acc, M, c.n, t)
  PROVE  ComesTo(Round(acc, c.a, c.p), M, c.n, t)
<1> DEFINE n == c.n
           k == acc.kk
           h == k \div 2
<1>1. PICK x \in 0 .. n - 1, y \in 0 .. n - 1 :
        acc.result = M[x] /\ acc.addend = M[y] /\ Cong(x + k * y, t, n)
  BY DEF ComesTo
<1>2. CASE k = 0
  BY <1>2 DEF Round
<1>3. CASE k # 0
  <2> DEFINE yy == (y + y) % n
             xx == (x + y) % n
  <2>1. /\ xx \in 0 .. n - 1 /\ Cong(xx, x + y, n)
        /\ yy \in 0 .. n - 1 /\ Cong(yy, y + y, n)
    <3>1. x + y \in Int /\ y + y \in Int /\ n \in Nat \ {0}
      OBVIOUS
    <3> HIDE DEF n
    <3> QED BY <3>1, CongMod
  <2>2. k \in Nat \ {0}
    BY <1>3 DEF ComesTo
  <2>3. /\ h \in Nat
        /\ k % 2 = 1 => k = 2 * h + 1
        /\ k % 2 # 1 => k = 2 * h
    <3> HIDE DEF k
    <3> QED BY <2>2, Halving
  <2>4. /\ PtAdd(M[y], M[y], c.a, c.p) = M[yy]
        /\ PtAdd(M[x], M[y], c.a, c.p) = M[xx]
    BY DEF Multiples
  <2> DEFINE r == IF k % 2 = 1 THEN xx ELSE x
             new == [kk |-> h, result |-> M[r], addend |-> M[yy]]
  <2>5. Round(acc, c.a, c.p) = new
    <3>1. Round(acc, c.a, c.p)
            = [kk |-> h,
               result |-> IF k % 2 = 1 THEN PtAdd(M[x], M[y], c.a, c.p) ELSE M[x],
               addend |-> PtAdd(M[y], M[y], c.a, c.p)]
      BY <1>1, <1>3 DEF Round
    <3> HIDE DEF k, h, xx, yy
    <3> QED BY <2>4, <3>1
  <2>6. n \in Nat /\ n \in Nat \ {0} /\ x \in Int /\ y \in Int /\ h \in Int /\ xx \in Int /\ yy \in Int
        /\ k \in Int
    BY <2>1, <2>2, <2>3
  <2> HIDE DEF n, k, h, xx, yy
  <2>7. Cong(yy * h, (y + y) * h, n)
    <3> DEFINE z == y + y
    <3>1. z \in Int /\ Cong(yy, z, n)
      BY <2>1, <2>6
    <3> HIDE DEF z
    <3>2. Cong(yy * h, z * h, n)
      BY <2>6, <3>1, CongTimes
    <3> QED BY <3>2 DEF z
  <2>8. CASE k % 2 = 1
    <3>1. Cong(xx + yy * h, (x + y) + (y + y) * h, n)
      <4>1. x + y \in Int /\ yy * h \in Int /\ (y + y) * h \in Int
        BY <2>6
      <4> QED BY <2>1, <2>6, <2>7, <4>1, CongPlus
    <3>2. (x + y) + (y + y) * h = x + k * y
      <4>1. k = 2 * h + 1
        BY <2>3, <2>8
      <4> QED BY <2>6, <4>1
    <3>3. xx + yy * h = xx + h * yy
      BY <2>6
    <3>4. Cong(xx + h * yy, t, n)
      <4>1. xx + h * yy \in Int /\ x + k * y \in Int
        BY <2>6
      <4> QED BY <1>1, <2>6, <3>1, <3>2, <3>3, <4>1, CongTrans
    <3>5. r = xx
      BY <2>8
    <3> HIDE DEF r
    <3> QED BY <2>1, <2>3, <2>5, <3>4, <3>5 DEF ComesTo, n
  <2>9. CASE k % 2 # 1
    <3>1. Cong(x + yy * h, x + (y + y) * h, n)
      <4>1. yy * h \in Int /\ (y + y) * h \in Int /\ Cong(x, x, n)
        BY <2>6, CongSame
      <4> QED BY <2>6, <2>7, <4>1, CongPlus
    <3>2. x + (y + y) * h = x + k * y
      <4>1. k = 2 * h
        BY <2>3, <2>9
      <4> QED BY <2>6, <4>1
    <3>3. x + yy * h = x + h * yy
      BY <2>6
    <3>4. Cong(x + h * yy, t, n)
      <4>1. x + h * yy \in Int /\ x + k * y \in Int
        BY <2>6
      <4> QED BY <1>1, <2>6, <3>1, <3>2, <3>3, <4>1, CongTrans
    <3>5. r = x
      BY <2>9
    <3> HIDE DEF r
    <3> QED BY <1>1, <2>1, <2>3, <2>5, <3>4, <3>5 DEF ComesTo, n
  <2> QED BY <2>8, <2>9
<1> QED BY <1>2, <1>3

\* pt_mul adds up k times, whatever the bits of k.
LEMMA MultiplesByRounds ==
  ASSUME NEW c, c.n \in Nat \ {0}, NEW M, Multiples(c, M), NEW k \in Nat, NEW b \in 0 .. c.n - 1
  PROVE  PtMul(k, M[b], c.a, c.p) = M[(k * b) % c.n]
<1> DEFINE n == c.n
           t == k * b
           v == [kk |-> k, result |-> Infinity, addend |-> M[b]]
           G == {M[j] : j \in 0 .. n - 1}
           V == [kk : Nat, result : G, addend : G]
           step == [acc \in V |-> Round(acc, c.a, c.p)]
           Loop(f) == f = [i \in 0 .. k |-> IF i = 0 THEN v ELSE Round(f[i - 1], c.a, c.p)]
           run == CHOOSE f : Loop(f)
<1>1. t \in Int /\ n \in Nat \ {0} /\ 0 \in 0 .. n - 1
  OBVIOUS
<1>2. ComesTo(v, M, n, t)
  <2>1. v = [kk |-> v.kk, result |-> v.result, addend |-> v.addend]
        /\ v.kk = k /\ v.result = M[0] /\ v.addend = M[b]
    BY DEF Multiples
  <2> HIDE DEF v
  <2>2. 0 + v.kk * b = t /\ Cong(t, t, n)
    BY <1>1, <2>1, CongSame
  <2> HIDE DEF n, t
  <2> QED BY <1>1, <2>1, <2>2 DEF ComesTo, n
<1>3. \A acc : ComesTo(acc, M, n, t) => acc \in V
  <2> SUFFICES ASSUME NEW acc, ComesTo(acc, M, n, t) PROVE acc \in V
    OBVIOUS
  <2>1. acc.kk \in Nat /\ acc.result \in G /\ acc.addend \in G
        /\ acc = [kk |-> acc.kk, result |-> acc.result, addend |-> acc.addend]
    BY DEF ComesTo
  <2> HIDE DEF G
  <2> QED BY <2>1
<1>4. ASSUME NEW acc \in V PROVE Round(acc, c.a, c.p) \in V
  <2>1. PICK x \in 0 .. n - 1 : acc.result = M[x]
    OBVIOUS
  <2>2. PICK y \in 0 .. n - 1 : acc.addend = M[y]
    OBVIOUS
  <2>3. acc.kk \in Nat /\ acc = [kk |-> acc.kk, result |-> acc.result, addend |-> acc.addend]
    OBVIOUS
  <2> DEFINE u == x + acc.kk * y
  <2>4. u \in Int /\ Cong(u, u, n)
    <3>1. u \in Int
      BY <2>3
    <3> HIDE DEF u
    <3> QED BY <1>1, <3>1, CongSame
  <2>5. ComesTo(acc, M, n, u)
    BY <2>1, <2>2, <2>3, <2>4 DEF ComesTo
  <2> HIDE DEF u
  <2>6. ComesTo(Round(acc, c.a, c.p), M, n, u)
    BY <2>4, <2>5, RoundKeeps
  <2> DEFINE new == Round(acc, c.a, c.p)
  <2>7. new.kk \in Nat /\ new.result \in G /\ new.addend \in G
        /\ new = [kk |-> new.kk, result |-> new.result, addend |-> new.addend]
    BY <2>6 DEF ComesTo
  <2> HIDE DEF new, G
  <2>8. new \in V
    BY <2>7
  <2> QED BY <2>8 DEF new
<1>5. \E f : Loop(f)
  <2>1. step \in [V -> V] /\ v \in V
    <3>1. v \in V
      BY <1>2, <1>3
    <3> HIDE DEF V, v
    <3> QED BY <1>4, <3>1
  <2>2. \A acc \in V : step[acc] = Round(acc, c.a, c.p)
    OBVIOUS
  <2> HIDE DEF step, V, v
  <2>3. PICK f : Steps(f, V, v, step, k)
    BY <2>1, StepsExist
  <2>4. f \in [0 .. k -> V] /\ f[0] = v /\ \A i \in 1 .. k : f[i] = step[f[i - 1]]
    BY <2>3 DEF Steps
  <2>5. ASSUME NEW i \in 0 .. k PROVE f[i] = IF i = 0 THEN v ELSE Round(f[i - 1], c.a, c.p)
    <3>1. i # 0 => i \in 1 .. k /\ f[i - 1] \in V
      BY <2>4
    <3> QED BY <2>2, <2>4, <3>1
  <2>6. f = [i \in 0 .. k |-> f[i]]
    BY <2>4
  <2>7. Loop(f)
    BY <2>5, <2>6
  <2> QED BY <2>7
<1>6. PtMul(k, M[b], c.a, c.p) = run[k].result
  BY DEF PtMul, Round
<1>7. Loop(run)
  <2> HIDE DEF Loop
  <2> QED BY <1>5
<1> HIDE DEF run
<1>8. run[0] = v /\ \A i \in 1 .. k : run[i] = Round(run[i - 1], c.a, c.p)
  <2>1. \A i \in 0 .. k : run[i] = IF i = 0 THEN v ELSE Round(run[i - 1], c.a, c.p)
    BY <1>7
  <2> HIDE DEF v, Loop
  <2> QED BY <2>1
<1> DEFINE Good(i) == /\ ComesTo(run[i], M, n, t)
                      /\ run[i].kk = 0 \/ run[i].kk + i =< k
           S == {i \in 0 .. k : Good(i)}
<1>9. 0 \in S
  BY <1>2, <1>8
<1>10. ASSUME NEW i \in 1 .. k, i - 1 \in S PROVE i \in S
  <2> DEFINE acc == run[i - 1]
  <2>1. ComesTo(acc, M, n, t) /\ (acc.kk = 0 \/ acc.kk + (i - 1) =< k) /\ run[i] = Round(acc, c.a, c.p)
    BY <1>8, <1>10
  <2> HIDE DEF acc, t
  <2>2. ComesTo(run[i], M, n, t)
    BY <1>1, <2>1, RoundKeeps
  <2>3. acc.kk \in Nat
    BY <2>1 DEF ComesTo
  <2>4. run[i].kk = 0 \/ run[i].kk + i =< k
    <3>1. CASE acc.kk = 0
      BY <2>1, <3>1 DEF Round
    <3>2. CASE acc.kk # 0
      <4>1. run[i].kk = acc.kk \div 2
        BY <2>1, <3>2 DEF Round
      <4>2. acc.kk \div 2 \in Nat /\ acc.kk \div 2 < acc.kk
        BY <2>3, <3>2, Halving
      <4> QED BY <2>1, <2>3, <3>2, <4>1, <4>2
    <3> QED BY <3>1, <3>2
  <2> QED BY <2>2, <2>4 DEF t
<1> HIDE DEF S, Good
<1>11. \A i \in 0 .. k : i \in S
  BY <1>9, <1>10, Counting
<1>12. Good(k)
  BY <1>11 DEF S
<1>13. PICK x \in 0 .. n - 1, y \in 0 .. n - 1 :
         run[k].result = M[x] /\ Cong(x + run[k].kk * y, t, n)
  BY <1>12 DEF Good, ComesTo
<1>14. run[k].kk = 0
  <2>1. run[k].kk \in Nat /\ (run[k].kk = 0 \/ run[k].kk + k =< k)
    BY <1>12 DEF Good, ComesTo
  <2> QED BY <2>1
<1>15. x + run[k].kk * y = x
  BY <1>14
<1>16. x = t % n
  <2> HIDE DEF t, n
  <2> QED BY <1>1, <1>13, <1>15, CongIsMod
<1> QED BY <1>6, <1>13, <1>16

(***************************************************************************)
(* ecdsa_verify_generic.                                                   *)
(***************************************************************************)
LEMMA TimesIs ==
  ASSUME NEW c, c.n \in Nat \ {0, 1}, NEW M, Multiples(c, M), NEW k \in Nat
  PROVE  Times(c, k) = M[k % c.n]
<1>1. M[1] = c.g /\ 1 \in 0 .. c.n - 1 /\ c.n \in Nat \ {0}
  BY DEF Multiples
<1>2. PtMul(k, M[1], c.a, c.p) = M[(k * 1) % c.n]
  BY <1>1, MultiplesByRounds
<1>3. k * 1 = k
  OBVIOUS
<1> QED BY <1>1, <1>2, <1>3 DEF Times

\* Where s and w, k and v are inverses, k is w of something where s is v of
\* it.
LEMMA Inverses ==
  ASSUME NEW n \in Nat, NEW s \in Int, NEW w \in Int, NEW k \in Int, NEW v \in Int, NEW x \in Int,
         Cong(s * w, 1, n), Cong(k * v, 1, n), Cong(k, w * x, n)
  PROVE  Cong(s, v * x, n)
<1> DEFINE sw == s * w
           kv == k * v
           vs == v * s
           vx == v * x
           wx == w * x
<1>1. sw \in Int /\ kv \in Int /\ vs \in Int /\ vx \in Int /\ wx \in Int /\ 1 \in Int
  OBVIOUS
<1>2. /\ kv * s = k * vs /\ wx * vs = sw * vx /\ 1 * s = s /\ 1 * vx = vx
      /\ k * vs \in Int /\ wx * vs \in Int
  OBVIOUS
<1>3. Cong(sw, 1, n) /\ Cong(kv, 1, n) /\ Cong(k, wx, n)
  OBVIOUS
<1> HIDE DEF sw, kv, vs, vx, wx
<1>4. Cong(k * vs, s, n)
  <2>1. Cong(kv * s, 1 * s, n)
    BY <1>1, <1>3, CongTimes
  <2> QED BY <1>2, <2>1
<1>5. Cong(k * vs, wx * vs, n)
  BY <1>1, <1>3, CongTimes
<1>6. Cong(wx * vs, vx, n)
  <2>1. Cong(sw * vx, 1 * vx, n)
    BY <1>1, <1>3, CongTimes
  <2> QED BY <1>2, <2>1
<1>7. Cong(s, k * vs, n)
  BY <1>2, <1>4, CongSym
<1>8. Cong(s, wx * vs, n)
  BY <1>2, <1>5, <1>7, CongTrans
<1>9. Cong(s, vx, n)
  BY <1>1, <1>2, <1>6, <1>8, CongTrans
<1> QED BY <1>9 DEF vx

\* The point that is verified, and what it is the multiple of.
Verified(c, key, e, r, w) ==
  PtAdd(PtMul((e * w) % c.n, c.g, c.a, c.p),
        PtMul((r * w) % c.n, Times(c, key), c.a, c.p), c.a, c.p)

VerifiedFactor(key, e, r, w, n) == (w * (e + r * key)) % n

LEMMA VerifiedPoint ==
  ASSUME NEW c, c.n \in Nat \ {0, 1}, NEW M, Multiples(c, M),
         NEW key \in Nat, NEW e \in Nat, NEW r \in Nat, NEW w \in Nat
  PROVE  Verified(c, key, e, r, w) = M[VerifiedFactor(key, e, r, w, c.n)]
<1> DEFINE n == c.n
           ew == e * w
           rw == r * w
           d == key % n
           u == ew % n
           v == rw % n
           vd == v * d
           x == w * (e + r * key)
<1>1. ew \in Nat /\ rw \in Nat /\ key \in Nat /\ n \in Nat \ {0} /\ x \in Nat
  OBVIOUS
<1>2. x = ew + rw * key
  OBVIOUS
<1> HIDE DEF n, ew, rw, x
<1>3. /\ d \in 0 .. n - 1 /\ Cong(d, key, n)
      /\ u \in 0 .. n - 1 /\ Cong(u, ew, n)
      /\ v \in 0 .. n - 1 /\ Cong(v, rw, n)
  BY <1>1, CongMod
<1> HIDE DEF d, u, v
<1>4. vd \in Nat
  BY <1>3
<1>5. Cong(vd, rw * key, n)
  <2>1. /\ v \in Int /\ d \in Int /\ rw \in Int /\ key \in Int /\ n \in Nat
        /\ v * d = d * v /\ rw * key = key * rw /\ key * v = v * key
        /\ d * v \in Int /\ key * v \in Int /\ key * rw \in Int /\ v * key \in Int /\ rw * key \in Int
    BY <1>1, <1>3
  <2>2. Cong(d * v, key * v, n)
    BY <1>3, <2>1, CongTimes
  <2>3. Cong(v * key, rw * key, n)
    BY <1>3, <2>1, CongTimes
  <2>4. Cong(vd, v * key, n)
    BY <2>1, <2>2
  <2> QED BY <1>4, <2>1, <2>3, <2>4, CongTrans
<1> HIDE DEF vd
<1> DEFINE uu == u % n
           vv == vd % n
<1>6. /\ uu \in 0 .. n - 1 /\ Cong(uu, u, n)
      /\ vv \in 0 .. n - 1 /\ Cong(vv, vd, n)
  <2>1. u \in Int /\ vd \in Int /\ n \in Nat \ {0}
    BY <1>1, <1>3, <1>4
  <2> QED BY <2>1, CongMod
<1> HIDE DEF uu, vv
<1>7. PtMul(u, c.g, c.a, c.p) = M[uu]
  BY <1>3, TimesIs DEF Times, uu, n
<1>8. PtMul(v, Times(c, key), c.a, c.p) = M[vv]
  <2>1. Times(c, key) = M[d]
    BY TimesIs DEF d, n
  <2>2. v \in Nat /\ d \in 0 .. c.n - 1 /\ c.n \in Nat \ {0}
    BY <1>1, <1>3 DEF n
  <2> QED BY <2>1, <2>2, MultiplesByRounds DEF vv, vd, n
<1>9. PtAdd(M[uu], M[vv], c.a, c.p) = M[(uu + vv) % n]
  BY <1>6 DEF Multiples, n
<1>10. Cong(uu + vv, x, n)
  <2>1. /\ uu \in Int /\ vv \in Int /\ u \in Int /\ vd \in Int /\ ew \in Int /\ rw * key \in Int /\ n \in Nat
    BY <1>1, <1>3, <1>4, <1>6
  <2>2. Cong(uu, ew, n)
    BY <1>3, <1>6, <2>1, CongTrans
  <2>3. Cong(vv, rw * key, n)
    BY <1>5, <1>6, <2>1, CongTrans
  <2>4. Cong(uu + vv, ew + rw * key, n)
    BY <2>1, <2>2, <2>3, CongPlus
  <2> QED BY <1>2, <2>4
<1>11. (uu + vv) % n = x % n
  <2>1. uu + vv \in Int /\ x \in Int
    BY <1>1, <1>6
  <2>2. (uu + vv) % n \in 0 .. n - 1 /\ Cong((uu + vv) % n, uu + vv, n)
    BY <1>1, <2>1, CongMod
  <2>3. Cong((uu + vv) % n, x, n)
    <3>1. (uu + vv) % n \in Int /\ n \in Nat
      BY <1>1, <2>2
    <3> QED BY <1>10, <2>1, <2>2, <3>1, CongTrans
  <2> QED BY <1>1, <2>1, <2>2, <2>3, CongIsMod
<1> QED BY <1>7, <1>8, <1>9, <1>11 DEF Verified, VerifiedFactor, n, u, v, ew, rw, x

\* What verifies is what can be signed: of every nonce one pair.
LEMMA VerifiesIffSigned ==
  ASSUME NEW c, GroupLaw(c), NEW key \in Nat, NEW e \in Nat, NEW r \in Nat, NEW s \in Nat
  PROVE  EcdsaVerify(c, Times(c, key), e, r, s) <=> <<r, s>> \in Signatures(c, key, e)
<1> DEFINE n == c.n
           x == e + r * key
           Inv(k) == ModInv(k, n)
<1>1. n \in Nat \ {0, 1} /\ n \in Nat \ {0} /\ x \in Nat
  BY DEF GroupLaw
<1>2. PICK M : Multiples(c, M)
  BY DEF GroupLaw
<1>3. \A k \in 1 .. n - 1 : Inv(k) \in Nat /\ Cong(k * Inv(k), 1, n)
  <2> SUFFICES ASSUME NEW k \in 1 .. n - 1 PROVE Inv(k) \in Nat /\ Cong(k * Inv(k), 1, n)
    OBVIOUS
  <2> DEFINE v == Inv(k)
             kv == k * v
  <2>1. v \in Nat /\ kv % n = 1
    BY DEF GroupLaw
  <2> HIDE DEF n, v
  <2>2. kv \in Int
    BY <2>1
  <2> HIDE DEF kv
  <2>3. Cong(1, kv, n)
    BY <1>1, <2>1, <2>2, CongMod
  <2>4. Cong(kv, 1, n)
    <3>1. 1 \in Int /\ n \in Nat
      BY <1>1
    <3> QED BY <2>2, <2>3, <3>1, CongSym
  <2> QED BY <2>1, <2>4 DEF kv, v
<1>4. \A k \in 1 .. n - 1 : Times(c, k) = M[k] /\ M[k] # Infinity /\ M[k][1] \in Nat
  <2> SUFFICES ASSUME NEW k \in 1 .. n - 1
               PROVE  Times(c, k) = M[k] /\ M[k] # Infinity /\ M[k][1] \in Nat
    OBVIOUS
  <2>1. Times(c, k) = M[k % n] /\ k % n = k
    BY <1>1, <1>2, TimesIs
  <2> QED BY <1>2, <2>1 DEF Multiples
<1> DEFINE Signs(k) == /\ r = M[k][1] % n
                       /\ s = (Inv(k) * (x % n)) % n
<1>5. <<r, s>> \in Signatures(c, key, e) <=> r # 0 /\ s # 0 /\ \E k \in 1 .. n - 1 : Signs(k)
  <2> DEFINE P(k) == LET q == Times(c, k)[1] % c.n
                     IN  <<q, (ModInv(k, c.n) * ((e + q * key) % c.n)) % c.n>>
             rs == <<r, s>>
  <2>1. rs \in Signatures(c, key, e) <=> (\E k \in 1 .. c.n - 1 : rs = P(k)) /\ 0 \notin {rs[1], rs[2]}
    BY DEF Signatures
  <2>2. rs[1] = r /\ rs[2] = s
    OBVIOUS
  <2>3. ASSUME NEW k \in 1 .. n - 1 PROVE rs = P(k) <=> Signs(k)
    <3> DEFINE q == Times(c, k)[1] % n
    <3>1. P(k) = <<q, (Inv(k) * ((e + q * key) % n)) % n>> /\ q = M[k][1] % n
      BY <1>4
    <3> HIDE DEF P, q, Inv, n
    <3>2. rs = P(k) <=> r = q /\ s = (Inv(k) * ((e + q * key) % n)) % n
      BY <3>1
    <3> QED BY <3>1, <3>2
  <2> HIDE DEF P, Signs, rs
  <2> QED BY <2>1, <2>2, <2>3 DEF rs
<1> DEFINE w == Inv(s)
           k0 == (w * x) % n
<1>6. ASSUME s \in 1 .. n - 1
      PROVE  /\ k0 \in 0 .. n - 1 /\ Cong(k0, w * x, n) /\ w \in Nat
             /\ \A k \in 1 .. n - 1 : k = k0 <=> s = (Inv(k) * (x % n)) % n
  <2>1. w \in Nat /\ Cong(s * w, 1, n)
    BY <1>3, <1>6
  <2> HIDE DEF x, w, n, Inv
  <2>2. w * x \in Nat /\ s \in Int /\ x \in Int /\ w \in Int /\ n \in Nat
    BY <1>1, <2>1
  <2>3. k0 \in 0 .. n - 1 /\ Cong(k0, w * x, n)
    BY <1>1, <2>2, CongMod
  <2> DEFINE xx == x % n
  <2>4. xx \in 0 .. n - 1 /\ Cong(xx, x, n)
    BY <1>1, <2>2, CongMod
  <2> HIDE DEF k0, xx
  <2>5. xx \in Int /\ k0 \in Int
    BY <2>3, <2>4
  <2>6. ASSUME NEW k \in 1 .. n - 1
        PROVE  k = k0 <=> s = (Inv(k) * xx) % n
    <3> DEFINE v == Inv(k)
    <3>1. v \in Nat /\ v \in Int /\ k \in Int /\ Cong(k * v, 1, n)
      BY <1>1, <1>3
    <3> HIDE DEF v
    <3>2. v * x \in Int /\ v * xx \in Int /\ x * v = v * x /\ xx * v = v * xx
      BY <2>2, <2>5, <3>1
    <3>3. Cong(v * xx, v * x, n)
      <4>1. Cong(xx * v, x * v, n)
        BY <2>2, <2>4, <2>5, <3>1, CongTimes
      <4> QED BY <3>2, <4>1
    <3>4. ASSUME k = k0 PROVE s = (v * xx) % n
      <4>1. Cong(s, v * x, n)
        BY <2>1, <2>2, <2>3, <3>1, <3>4, Inverses
      <4>2. Cong(v * x, v * xx, n)
        BY <2>2, <3>2, <3>3, CongSym
      <4>3. Cong(s, v * xx, n)
        BY <2>2, <3>2, <4>1, <4>2, CongTrans
      <4>4. s \in 0 .. n - 1
        BY <1>1, <1>6
      <4> QED BY <1>1, <3>2, <4>3, <4>4, CongIsMod
    <3>5. ASSUME s = (v * xx) % n PROVE k = k0
      <4>1. Cong(s, v * xx, n)
        BY <1>1, <3>2, <3>5, CongMod
      <4>2. Cong(s, v * x, n)
        BY <2>2, <3>2, <3>3, <4>1, CongTrans
      <4>3. Cong(k, w * x, n)
        BY <2>1, <2>2, <3>1, <4>2, Inverses
      <4>4. k \in 0 .. n - 1 /\ w * x \in Int
        BY <1>1, <2>2
      <4> QED BY <1>1, <4>3, <4>4, CongIsMod DEF k0
    <3> QED BY <3>4, <3>5 DEF v
  <2> QED BY <2>1, <2>3, <2>6 DEF xx
<1>7. EcdsaVerify(c, Times(c, key), e, r, s)
        <=> r \in 1 .. n - 1 /\ s \in 1 .. n - 1 /\ M[k0] # Infinity /\ M[k0][1] % n = r
  <2>1. s \in 1 .. n - 1 => Verified(c, key, e, r, w) = M[k0]
    <3> SUFFICES ASSUME s \in 1 .. n - 1 PROVE Verified(c, key, e, r, w) = M[k0]
      OBVIOUS
    <3>1. w \in Nat
      BY <1>6
    <3>2. c.n \in Nat \ {0, 1}
      BY <1>1
    <3>3. k0 = VerifiedFactor(key, e, r, w, c.n)
      BY DEF VerifiedFactor
    <3> HIDE DEF w, k0
    <3>4. Verified(c, key, e, r, w) = M[VerifiedFactor(key, e, r, w, c.n)]
      BY <1>2, <3>1, <3>2, VerifiedPoint
    <3> QED BY <3>3, <3>4
  <2> DEFINE point == Verified(c, key, e, r, w)
  <2>2. EcdsaVerify(c, Times(c, key), e, r, s)
          <=> r \in 1 .. n - 1 /\ s \in 1 .. n - 1 /\ point # Infinity /\ point[1] % n = r
    BY DEF EcdsaVerify, Verified
  <2>3. s \in 1 .. n - 1 => point = M[k0]
    BY <2>1
  <2> HIDE DEF point, k0
  <2> QED BY <2>2, <2>3
<1>8. ASSUME EcdsaVerify(c, Times(c, key), e, r, s)
      PROVE  <<r, s>> \in Signatures(c, key, e)
  <2>1. r \in 1 .. n - 1 /\ s \in 1 .. n - 1 /\ M[k0] # Infinity /\ M[k0][1] % n = r
    BY <1>7, <1>8
  <2>2. M[0] = Infinity
    BY <1>2 DEF Multiples
  <2>3. k0 \in 0 .. n - 1 /\ \A k \in 1 .. n - 1 : k = k0 <=> s = (Inv(k) * (x % n)) % n
    BY <1>6, <2>1
  <2> HIDE DEF k0, n, Inv, x
  <2>4. k0 \in 1 .. n - 1
    BY <1>1, <2>1, <2>2, <2>3
  <2>5. Signs(k0)
    BY <2>1, <2>3, <2>4
  <2>6. r # 0 /\ s # 0
    BY <2>1
  <2> HIDE DEF Signs
  <2> QED BY <1>5, <2>4, <2>5, <2>6
<1>9. ASSUME <<r, s>> \in Signatures(c, key, e)
      PROVE  EcdsaVerify(c, Times(c, key), e, r, s)
  <2>1. r # 0 /\ s # 0
    BY <1>5, <1>9
  <2>2. PICK k \in 1 .. n - 1 : Signs(k)
    BY <1>5, <1>9
  <2>3. r \in 1 .. n - 1
    <3> DEFINE m == M[k][1]
    <3>1. m \in Nat /\ r = m % n
      BY <1>4, <2>2
    <3> HIDE DEF m, n
    <3>2. r \in 0 .. n - 1
      BY <1>1, <3>1
    <3> QED BY <2>1, <3>2
  <2>4. s \in 1 .. n - 1
    <3> DEFINE m == Inv(k) * (x % n)
    <3>1. Inv(k) \in Nat /\ s = m % n
      BY <1>3, <2>2
    <3> HIDE DEF n, Inv, x
    <3>2. x % n \in Nat
      BY <1>1
    <3>3. m \in Nat
      BY <3>1, <3>2
    <3> HIDE DEF m
    <3>4. s \in 0 .. n - 1
      BY <1>1, <3>1, <3>3
    <3> QED BY <2>1, <3>4
  <2>5. k = k0
    BY <1>6, <2>2, <2>4
  <2> HIDE DEF k0
  <2>6. M[k] # Infinity /\ M[k][1] % n = r
    BY <1>4, <2>2
  <2> QED BY <1>7, <2>3, <2>4, <2>5, <2>6
<1> QED BY <1>8, <1>9

\* The rest of what VerifiesWhatWasSigned says of multiples.
LEMMA MultiplesAdd ==
  ASSUME NEW c, GroupLaw(c), NEW r \in Nat, NEW s \in Nat
  PROVE  /\ OnCurve(c, Times(c, r))
         /\ PtAdd(Times(c, r), Times(c, s), c.a, c.p) = Times(c, r + s)
         /\ Times(c, c.n) = Infinity
<1> DEFINE n == c.n
           rr == r % n
           ss == s % n
<1>1. n \in Nat \ {0, 1} /\ n \in Nat \ {0} /\ n \in Nat /\ r + s \in Nat
  BY DEF GroupLaw
<1>2. PICK M : Multiples(c, M)
  BY DEF GroupLaw
<1>3. /\ Times(c, r) = M[rr] /\ Times(c, s) = M[ss]
      /\ Times(c, r + s) = M[(r + s) % n] /\ Times(c, n) = M[n % n]
  BY <1>1, <1>2, TimesIs
<1>4. n % n = 0
  <2> HIDE DEF n
  <2> QED BY <1>1
<1>5. /\ rr \in 0 .. n - 1 /\ Cong(rr, r, n)
      /\ ss \in 0 .. n - 1 /\ Cong(ss, s, n)
  <2>1. n \in Nat \ {0} /\ r \in Int /\ s \in Int
    BY <1>1
  <2> HIDE DEF n
  <2> QED BY <2>1, CongMod
<1> HIDE DEF rr, ss
<1>6. OnCurve(c, M[rr])
  <2>1. rr = 0 \/ rr \in 1 .. n - 1
    BY <1>1, <1>5
  <2> QED BY <1>2, <2>1 DEF Multiples, OnCurve
<1>7. PtAdd(M[rr], M[ss], c.a, c.p) = M[(rr + ss) % n]
  BY <1>2, <1>5 DEF Multiples
<1>8. (rr + ss) % n = (r + s) % n
  <2> DEFINE y == rr + ss
             x == r + s
             z == y % n
  <2> HIDE DEF n
  <2>1. y \in Int /\ x \in Int /\ rr \in Int /\ ss \in Int
    BY <1>1, <1>5
  <2>2. Cong(y, x, n)
    BY <1>1, <1>5, <2>1, CongPlus
  <2> HIDE DEF x, y
  <2>3. z \in 0 .. n - 1 /\ Cong(z, y, n)
    BY <1>1, <2>1, CongMod
  <2> HIDE DEF z
  <2>4. z \in Int
    BY <1>1, <2>3
  <2>5. Cong(z, x, n)
    BY <1>1, <2>1, <2>2, <2>3, <2>4, CongTrans
  <2>6. z = x % n
    BY <1>1, <2>1, <2>3, <2>5, CongIsMod
  <2> QED BY <2>6 DEF x, y, z
<1>9. M[0] = Infinity
  BY <1>2 DEF Multiples
<1> QED BY <1>3, <1>4, <1>6, <1>7, <1>8, <1>9

\* Where the points of every curve are a group, exactly those pairs verify that
\* the holder of the key could have signed with, for any curve, key, hash and
\* numbers; and what pt_mul makes of the generator adds up
\* (ecdsa_verify_generic, emrtd/mod.rs 803).
THEOREM EcdsaVerifiesWhatWasSigned ==
  ASSUME \A c \in Curves : GroupLaw(c)
  PROVE  Spec => []VerifiesWhatWasSigned
<1>1. Init => Ask
  BY DEF Init
<1>2. Ask /\ [Next]_vars => Ask'
  BY DEF Ask, Next, vars
<1>3. Ask => VerifiesWhatWasSigned
  <2> SUFFICES ASSUME Ask, question # Infinity PROVE VerifiesWhatWasSigned
    BY DEF VerifiesWhatWasSigned
  <2> DEFINE c == question.curve
             key == question.key
             e == Leftmost(question.hash, 8, c.n)
             r == question.r
             s == question.s
  <2>1. c \in Curves /\ key \in Nat /\ question.hash \in Nat /\ r \in Nat /\ s \in Nat
    BY NumbersAssumption DEF Ask
  <2>2. GroupLaw(c) /\ c.n \in Nat
    BY <2>1 DEF GroupLaw
  <2>3. e \in Nat
    <3>1. 8 \in Nat
      OBVIOUS
    <3> HIDE DEF c
    <3> QED BY <2>1, <2>2, <3>1, LeftmostIsNat
  <2> HIDE DEF c, key, e, r, s
  <2>4. EcdsaVerify(c, Times(c, key), e, r, s) <=> <<r, s>> \in Signatures(c, key, e)
    BY <2>1, <2>2, <2>3, VerifiesIffSigned
  <2>5. /\ OnCurve(c, Times(c, r))
        /\ PtAdd(Times(c, r), Times(c, s), c.a, c.p) = Times(c, r + s)
        /\ Times(c, c.n) = Infinity
    BY <2>1, <2>2, MultiplesAdd
  <2> QED BY <2>4, <2>5 DEF VerifiesWhatWasSigned, c, key, e, r, s
<1> QED BY <1>1, <1>2, <1>3, PTL DEF Spec
=============================================================================
