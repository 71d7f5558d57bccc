--------------------------- MODULE RecoveryProofs ---------------------------
(***************************************************************************)
(* What a recovery file gives back, and that the phone it comes back to    *)
(* works with its own wallet and opens what that wallet sealed, for any    *)
(* wallets, passphrases, PINs and number of enrolments.                    *)
(***************************************************************************)
EXTENDS Phone, FiniteSetTheorems, SequenceTheorems, TLAPS

\* The state keeps to its types.
THEOREM TypeCorrect == Spec => []TypeOK
<1>1. Init => TypeOK
  BY DEF Init, TypeOK, Enrolled, None
<1>2. TypeOK /\ [Next]_vars => TypeOK'
  <2> SUFFICES ASSUME TypeOK, [Next]_vars PROVE TypeOK'
    OBVIOUS
  <2>1. ASSUME NEW phrase \in Phrases, NEW p \in Passphrases, Enrol(phrase, p) PROVE TypeOK'
    <3>1. /\ Len(enrolments) \in Nat /\ Len(enrolments') = Len(enrolments) + 1
          /\ enrolments' \in Seq([seed : Seeds, spelt : Spellings, pass : Passphrases])
      BY <2>1 DEF Enrol, TypeOK, Phrases
    <3>2. Enrolled \subseteq Enrolled'
      BY <3>1 DEF Enrolled
    <3> QED BY <2>1, <3>1, <3>2 DEF Enrol, TypeOK
  <2>2. ASSUME NEW n \in Enrolled, SaveFile(n) \/ Upload(n) PROVE TypeOK'
    BY <2>2 DEF SaveFile, Upload, TypeOK, Enrolled
  <2>3. ASSUME NEW n \in files, LoseFile(n) PROVE TypeOK'
    BY <2>3 DEF LoseFile, TypeOK, Enrolled
  <2>4. CASE ReleaseBlob \/ ReleaseShare
    BY <2>4 DEF ReleaseBlob, ReleaseShare, TypeOK, Enrolled
  <2>5. CASE UNCHANGED vars
    BY <2>5 DEF vars, TypeOK, Enrolled
  <2> QED BY <2>1, <2>2, <2>3, <2>4, <2>5 DEF Next
<1> QED BY <1>1, <1>2, PTL DEF Spec

\* A secret that is checked is the one the checksum is of, or there is none.
LEMMA CheckedIsTheSecret ==
  ASSUME NEW s, NEW t, s.check # Stripped
  PROVE  Reconstruct(<<s, t>>) \in {s.check, Failed}
  BY DEF Reconstruct

LEMMA SeedOf ==
  ASSUME TypeOK, NEW n \in Enrolled
  PROVE  /\ enrolments[n].seed \in Seeds
         /\ enrolments[n].seed \notin {Junk, Failed, Stripped}
<1>1. enrolments[n] \in [seed : Seeds, spelt : Spellings, pass : Passphrases]
  BY ElementOfSeq DEF TypeOK, Enrolled
<1> QED BY <1>1, RecoveryAssumption

\* Whatever the server's share is of, the file's seed or nothing comes back.
LEMMA FilesGiveTheirSeed ==
  ASSUME TypeOK
  PROVE  FileGivesItsSeed
<1> SUFFICES ASSUME NEW n \in files
    PROVE /\ \A p \in Passphrases : WithPassphrase(n, p) \in {enrolments[n].seed, Failed}
          /\ share # None => WithServerShare(n, share) \in {enrolments[n].seed, Failed}
  BY DEF FileGivesItsSeed
<1>1. enrolments[n].seed # Stripped
  BY SeedOf DEF TypeOK
<1>2. FileShare(n).check = enrolments[n].seed
  BY DEF FileShare, Split, Share
<1>3. ASSUME NEW p \in Passphrases
      PROVE  WithPassphrase(n, p) \in {enrolments[n].seed, Failed}
  <2>1. RestoreChecksum(Unmasked(n), FileShare(n)).check = enrolments[n].seed
    BY <1>2 DEF Unmasked, StripChecksum, Split, Share, RestoreChecksum
  <2>2. Reconstruct(<<RestoreChecksum(Unmasked(n), FileShare(n)), FileShare(n)>>)
          \in {enrolments[n].seed, Failed}
    BY <1>1, <2>1, CheckedIsTheSecret
  <2> QED BY <2>2 DEF WithPassphrase
<1>4. WithServerShare(n, share) \in {enrolments[n].seed, Failed}
  <2>1. RestoreChecksum(ServerShare(share), FileShare(n)).check = enrolments[n].seed
    BY <1>2 DEF ServerShare, StripChecksum, Split, Share, RestoreChecksum
  <2> QED BY <1>1, <2>1, CheckedIsTheSecret DEF WithServerShare
<1> QED BY <1>3, <1>4

\* FileGivesItsSeed: a file gives back its own wallet or nothing, with any
\* passphrase and any share the server releases (recover_with_passphrase,
\* recover_with_server_share).
THEOREM FileCorrect == Spec => []FileGivesItsSeed
<1>1. TypeOK => FileGivesItsSeed
  BY FilesGiveTheirSeed
<1> QED BY <1>1, TypeCorrect, PTL

\* Two shares of one split in different places, with one checksum that is
\* right or stripped, reconstruct its secret.
LEMMA TwoOfOneSplit ==
  ASSUME NEW s, NEW t, t.of = s.of, s.x # t.x,
         s.threshold = Threshold, t.threshold = Threshold, t.check = s.check,
         s.check \in {Stripped, enrolments[s.of].seed}
  PROVE  Reconstruct(<<s, t>>) = enrolments[s.of].seed
<1> DEFINE pair == <<s, t>>
<1>1. DOMAIN pair = {1, 2} /\ Len(pair) = 2 /\ pair[1] = s /\ pair[2] = t
  OBVIOUS
<1> HIDE DEF pair
<1>2. {pair[i].x : i \in DOMAIN pair} = {s.x, t.x}
  BY <1>1
<1>3. Cardinality({s.x, t.x}) = 2
  <2>1. IsFiniteSet({s.x}) /\ Cardinality({s.x}) = 1
    BY FS_Singleton
  <2>2. Cardinality({s.x} \cup {t.x}) = 2
    BY <2>1, FS_AddElement
  <2>3. {s.x} \cup {t.x} = {s.x, t.x}
    OBVIOUS
  <2> QED BY <2>2, <2>3
<1>4. Interpolated(pair) = enrolments[s.of].seed
  BY <1>1 DEF Interpolated
<1>5. Len(pair) % CountSpan = Threshold
  <2>1. 2 % CountSpan = 2
    BY RecoveryAssumption
  <2> QED BY <1>1, <2>1 DEF Threshold
<1>6. Cardinality({pair[i].x : i \in DOMAIN pair}) = Threshold
  BY <1>2, <1>3 DEF Threshold
<1>7. Reconstruct(pair) = enrolments[s.of].seed
  <2>1. Threshold >= Threshold
    BY DEF Threshold
  <2> QED BY <1>1, <1>4, <1>5, <1>6, <2>1 DEF Reconstruct
<1> QED BY <1>7 DEF pair

LEMMA PairsBringItBack == ASSUME TypeOK PROVE AnyTwoBringItBack
<1> SUFFICES ASSUME NEW n \in Enrolled
    PROVE /\ WithPassphrase(n, enrolments[n].pass) = enrolments[n].seed
          /\ WithServerShare(n, n) = enrolments[n].seed
          /\ WithoutFile(n, n, enrolments[n].pass) = enrolments[n].seed
  BY DEF AnyTwoBringItBack
<1>1. WithPassphrase(n, enrolments[n].pass) = enrolments[n].seed
  <2> DEFINE s == RestoreChecksum(Unmasked(n), FileShare(n))
             t == FileShare(n)
  <2>1. /\ s.of = n /\ s.x = 1 /\ s.threshold = Threshold /\ s.check = enrolments[n].seed
        /\ t.of = n /\ t.x = 3 /\ t.threshold = Threshold /\ t.check = enrolments[n].seed
    BY DEF RestoreChecksum, Unmasked, FileShare, StripChecksum, Split, Share
  <2>2. WithPassphrase(n, enrolments[n].pass) = Reconstruct(<<s, t>>)
    BY DEF WithPassphrase, Unmasks
  <2> HIDE DEF s, t
  <2>3. Reconstruct(<<s, t>>) = enrolments[n].seed
    BY <2>1, TwoOfOneSplit
  <2> QED BY <2>2, <2>3
<1>2. WithServerShare(n, n) = enrolments[n].seed
  <2> DEFINE s == RestoreChecksum(ServerShare(n), FileShare(n))
             t == FileShare(n)
  <2>1. /\ s.of = n /\ s.x = 2 /\ s.threshold = Threshold /\ s.check = enrolments[n].seed
        /\ t.of = n /\ t.x = 3 /\ t.threshold = Threshold /\ t.check = enrolments[n].seed
    BY DEF RestoreChecksum, ServerShare, FileShare, StripChecksum, Split, Share
  <2>2. WithServerShare(n, n) = Reconstruct(<<s, t>>)
    BY DEF WithServerShare
  <2> HIDE DEF s, t
  <2>3. Reconstruct(<<s, t>>) = enrolments[n].seed
    BY <2>1, TwoOfOneSplit
  <2> QED BY <2>2, <2>3
<1>3. WithoutFile(n, n, enrolments[n].pass) = enrolments[n].seed
  BY TwoOfOneSplit
     DEF WithoutFile, Unmasks, Unmasked, ServerShare, StripChecksum, Split, Share
<1> QED BY <1>1, <1>2, <1>3

\* AnyTwoBringItBack: the three pairs, which are the whole promise of the method
\* (recovery/simple.rs, test module).
THEOREM PairsCorrect == Spec => []AnyTwoBringItBack
<1>1. TypeOK => AnyTwoBringItBack
  BY PairsBringItBack
<1> QED BY <1>1, TypeCorrect, PTL

\* One share, however often it is given, reconstructs nothing.
LEMMA CopiesAreOneShare ==
  ASSUME NEW s, s.threshold = Threshold, NEW copies \in Nat \ {0}
  PROVE  Reconstruct([i \in 1 .. copies |-> s]) = Failed
<1> DEFINE shares == [i \in 1 .. copies |-> s]
<1>1. DOMAIN shares = 1 .. copies /\ shares[1] = s /\ 1 \in 1 .. copies
  OBVIOUS
<1>2. {shares[i].x : i \in DOMAIN shares} = {s.x}
  BY <1>1
<1>3. Cardinality({s.x}) = 1
  BY FS_Singleton
<1> HIDE DEF shares
<1>4. Cardinality({shares[i].x : i \in DOMAIN shares}) = 1
  BY <1>2, <1>3
<1>5. ~(Cardinality({shares[i].x : i \in DOMAIN shares}) >= shares[1].threshold)
  BY <1>1, <1>4 DEF Threshold
<1>6. Reconstruct(shares) = Failed
  BY <1>5 DEF Reconstruct
<1> QED BY <1>6 DEF shares

\* OneIsNotEnough: no share is a recovery by itself, given once or many times.
THEOREM OneShareCorrect == Spec => []OneIsNotEnough
<1>1. OneIsNotEnough
  <2>1. ASSUME NEW n \in Enrolled, NEW s \in {FileShare(n), ServerShare(n), Unmasked(n)}
        PROVE  s.threshold = Threshold
    BY DEF FileShare, ServerShare, Unmasked, StripChecksum, Split, Share
  <2>2. 1 .. CountSpan + Threshold \subseteq Nat \ {0}
    BY RecoveryAssumption DEF Threshold
  <2> QED BY <2>1, <2>2, CopiesAreOneShare DEF OneIsNotEnough
<1> QED BY <1>1, PTL

(***************************************************************************)
(* The phone.                                                              *)
(***************************************************************************)
phoneAll == <<vars, phoneVars>>

\* A phone does nothing to the pieces that the recovery does not do.
LEMMA PhoneRecovers == PhoneSpec => Spec
<1>1. PhoneInit => Init
  BY DEF PhoneInit
<1>2. [PhoneNext]_phoneAll => [Next]_vars
  <2> SUFFICES ASSUME [PhoneNext]_phoneAll PROVE Next \/ UNCHANGED vars
    OBVIOUS
  <2>1. CASE Next /\ UNCHANGED phoneVars
    BY <2>1
  <2>2. ASSUME NEW phrase, Begin(phrase) PROVE UNCHANGED vars
    BY <2>2 DEF Begin
  <2>3. CASE \E seed \in Seeds : NewWallet(seed)
    BY <2>2, <2>3 DEF NewWallet
  <2>4. CASE Recover
    BY <2>2, <2>4 DEF Recover
  <2>5. ASSUME NEW pass \in Pins, RecoverBackup(pass) \/ WriteBackup(pass) \/ SetPin(pass) \/ Unlock(pass)
        PROVE  UNCHANGED vars
    BY <2>2, <2>5 DEF RecoverBackup, WriteBackup, SetPin, Unlock
  <2>6. CASE Lock \/ DeleteApp \/ MovePhone
    BY <2>6 DEF Lock, DeleteApp, MovePhone
  <2>7. ASSUME NEW store \in Stores, Save(store) PROVE UNCHANGED vars
    BY <2>7 DEF Save
  <2>8. CASE UNCHANGED phoneAll
    BY <2>8 DEF phoneAll
  <2> QED BY <2>1, <2>3, <2>4, <2>5, <2>6, <2>7, <2>8 DEF PhoneNext
<1> QED BY <1>1, <1>2, PTL DEF PhoneSpec, Spec, phoneAll

\* What the keychain holds is bare or an envelope, and the app works with it.
KeychainSound == keychain.kdf \in {"none", "argon2id"}

WalletInv == KeychainSound /\ WorksWithItsWallet

\* On any phone the app works with the wallet of its keychain: every way to
\* tell an envelope from a phrase agrees with every way to write one
\* (recovery/mod.rs 187-203).
THEOREM TheWalletIsItsOwn == PhoneSpec => []WorksWithItsWallet
<1>1. PhoneInit => WalletInv
  BY DEF PhoneInit, WalletInv, KeychainSound, WorksWithItsWallet, Nothing, Bare
<1>2. WalletInv /\ [PhoneNext]_phoneAll => WalletInv'
  <2> SUFFICES ASSUME WalletInv, [PhoneNext]_phoneAll PROVE WalletInv'
    OBVIOUS
  <2> USE DEF WalletInv, KeychainSound, WorksWithItsWallet
  <2>1. CASE Next /\ UNCHANGED phoneVars
    BY <2>1 DEF phoneVars
  <2>2. ASSUME NEW phrase, Begin(phrase) PROVE WalletInv'
    BY <2>2 DEF Begin, Bare
  <2>3. CASE \E seed \in Seeds : NewWallet(seed)
    BY <2>2, <2>3 DEF NewWallet
  <2>4. CASE Recover
    BY <2>2, <2>4 DEF Recover
  <2>5. ASSUME NEW pass \in Pins, RecoverBackup(pass) PROVE WalletInv'
    BY <2>2, <2>5 DEF RecoverBackup
  <2>6. ASSUME NEW pass \in Pins, WriteBackup(pass) PROVE WalletInv'
    BY <2>6 DEF WriteBackup
  <2>7. ASSUME NEW pin \in Pins, SetPin(pin) PROVE WalletInv'
    BY <2>7 DEF SetPin, EncryptPin, EncryptWith
  <2>8. ASSUME NEW pin \in Pins, Unlock(pin) PROVE WalletInv'
    BY <2>8 DEF Unlock, IsSealed, DecryptBackup, Plain
  <2>9. CASE Lock \/ DeleteApp \/ MovePhone
    BY <2>9 DEF Lock, DeleteApp, MovePhone, Nothing, Bare
  <2>10. ASSUME NEW store \in Stores, Save(store) PROVE WalletInv'
    BY <2>10 DEF Save
  <2>11. CASE UNCHANGED phoneAll
    BY <2>11 DEF phoneAll, phoneVars
  <2> QED BY <2>1, <2>3, <2>4, <2>5, <2>6, <2>7, <2>8, <2>9, <2>10, <2>11 DEF PhoneNext
<1> QED BY <1>1, <1>2, PTL DEF PhoneSpec, WalletInv, phoneAll

\* Whatever lies in storage is nothing, or sealed by the key of what it says
\* it is of.
SealedAsNamed(sealed) ==
  \/ sealed = Unsaved
  \/ sealed.store \in Stores /\ sealed.key = StoreKey(sealed.of, sealed.store)

StorageSound ==
  /\ storage = [place \in Stores |-> storage[place]]
  /\ \A place \in Stores : SealedAsNamed(storage[place])

LEMMA StorageStaysSound == PhoneSpec => []StorageSound
<1>1. PhoneInit => StorageSound
  BY DEF PhoneInit, StorageSound, SealedAsNamed
<1>2. StorageSound /\ [PhoneNext]_phoneAll => StorageSound'
  <2> SUFFICES ASSUME StorageSound, [PhoneNext]_phoneAll PROVE StorageSound'
    OBVIOUS
  <2>1. ASSUME UNCHANGED storage PROVE StorageSound'
    BY <2>1 DEF StorageSound
  <2>2. ASSUME NEW phrase, Begin(phrase) PROVE UNCHANGED storage
    BY <2>2 DEF Begin
  <2>3. CASE (\E seed \in Seeds : NewWallet(seed)) \/ Recover
    BY <2>1, <2>2, <2>3 DEF NewWallet, Recover
  <2>4. ASSUME NEW pass \in Pins, RecoverBackup(pass) \/ WriteBackup(pass) \/ SetPin(pass) \/ Unlock(pass)
        PROVE  UNCHANGED storage
    BY <2>2, <2>4 DEF RecoverBackup, WriteBackup, SetPin, Unlock
  <2>5. CASE Lock \/ MovePhone
    BY <2>1, <2>5 DEF Lock, MovePhone
  <2>6. CASE DeleteApp
    BY <2>6 DEF DeleteApp, StorageSound, SealedAsNamed
  <2>7. ASSUME NEW store \in Stores, Save(store) PROVE StorageSound'
    <3>1. SealedAsNamed(SealStore(session.seed, store))
      BY DEF SealedAsNamed, SealStore
    <3>2. storage' = [storage EXCEPT ![store] = SealStore(session.seed, store)]
      BY <2>7 DEF Save
    <3> QED BY <3>1, <3>2 DEF StorageSound
  <2>8. CASE (Next /\ UNCHANGED phoneVars) \/ UNCHANGED phoneAll
    BY <2>1, <2>8 DEF phoneAll, phoneVars
  <2> QED BY <2>1, <2>3, <2>4, <2>5, <2>6, <2>7, <2>8 DEF PhoneNext
<1> QED BY <1>1, <1>2, PTL DEF PhoneSpec, phoneAll

\* A wallet opens exactly the stores it sealed, however it came to this phone
\* and whatever storage it finds there: the keys of two seeds, and the two
\* keys of one seed, differ (state.rs 25-36, 112-137).
THEOREM StoresOpenToTheirWallet == PhoneSpec => []OpensWhatItSealed
<1>1. ASSUME StorageSound, NEW place \in Stores, NEW store \in Stores
      PROVE  OpensStore(session.seed, store, storage[place])
               <=> storage[place].of = session.seed /\ storage[place].store = store
  <2>1. CASE storage[place] = Unsaved
    <3>1. storage[place].key = << >> /\ storage[place].store = "none"
      BY <2>1 DEF Unsaved
    <3>2. << >> # <<session.seed, "vaulet/chat", store>>
      OBVIOUS
    <3>3. "none" # store
      BY DEF Stores
    <3> QED BY <3>1, <3>2, <3>3 DEF OpensStore, StoreKey
  <2>2. CASE storage[place].key = StoreKey(storage[place].of, storage[place].store)
    BY <2>2 DEF OpensStore, StoreKey
  <2> QED BY <1>1, <2>1, <2>2 DEF StorageSound, SealedAsNamed
<1>2. StorageSound => OpensWhatItSealed
  BY <1>1 DEF OpensWhatItSealed
<1> QED BY <1>2, StorageStaysSound, PTL

\* Pieces of two enrolments give nobody's wallet, or none.
LEMMA TwoEnrolmentsGiveJunk ==
  ASSUME NEW k, NEW m, NEW pass, k # m
  PROVE  WithoutFile(k, m, pass) \in {Junk, Failed}
<1> DEFINE shares == <<Unmasked(k), ServerShare(m)>>
<1>1. /\ shares[1].of = k /\ shares[2].of = m
      /\ DOMAIN shares = {1, 2}
  BY DEF Unmasked, ServerShare, StripChecksum, Split, Share
<1>2. Interpolated(shares) = Junk
  <2> HIDE DEF shares
  <2> QED BY <1>1 DEF Interpolated
<1> HIDE DEF shares
<1>3. Reconstruct(shares) \in {Junk, Failed}
  BY <1>2 DEF Reconstruct
<1> QED BY <1>3 DEF WithoutFile, shares

LEMMA ContentsOpenToTheirWallet ==
  ASSUME TypeOK, FileGivesItsSeed
  PROVE  ContentsComeBack
<1>1. ASSUME NEW n, NEW seed
      PROVE  OpensContents(n, Encoded(seed))
               <=> seed = enrolments[n].seed /\ enrolments[n].spelt = "as encoded"
  BY DEF OpensContents, ContentsKey, Encoded
<1>2. ASSUME NEW n \in files, NEW seed \in FromFile(n) PROVE seed = enrolments[n].seed
  BY <1>2 DEF FromFile, FileGivesItsSeed
<1>3. ASSUME blob # share, NEW n \in files, NEW seed \in FromServer
      PROVE  seed # enrolments[n].seed
  <2>1. seed = Junk
    BY <1>3, TwoEnrolmentsGiveJunk DEF FromServer
  <2>2. enrolments[n].seed # Junk
    BY SeedOf DEF TypeOK
  <2> QED BY <2>1, <2>2
<1> QED BY <1>1, <1>2, <1>3 DEF ContentsComeBack

\* ContentsComeBack: of words enrolled as they are encoded the wallet opens its
\* files, whichever way it came back; whatever else is recovered opens none, and
\* pieces of two enrolments open nobody's (simple.rs 102-112, 198-240).
THEOREM ContentsOpen == PhoneSpec => []ContentsComeBack
<1>1. TypeOK /\ FileGivesItsSeed => ContentsComeBack
  BY ContentsOpenToTheirWallet
<1> QED BY <1>1, PhoneRecovers, TypeCorrect, FileCorrect, PTL
=============================================================================
