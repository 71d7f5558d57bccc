-------------------------------- MODULE Phone --------------------------------
(***************************************************************************)
(* A phone that keeps, seals, loses and recovers its wallet: the envelopes *)
(* of src/recovery/mod.rs, the sealed chat stores of src/chat/state.rs and *)
(* the recovery of module Recovery.                                        *)
(*                                                                         *)
(* The keychain outlives the app's own storage, and is itself left behind  *)
(* when storage moves to another phone.  Nothing says outside of a value   *)
(* whether the value is sealed.                                            *)
(***************************************************************************)
EXTENDS Recovery

CONSTANT Pins              \* and passwords of the file with one

VARIABLES keychain,      \* the wallet's phrase, bare or under a PIN
          backup,        \* the file of one passphrase
          storage,       \* the app's sealed chat state and history
          session        \* the phrase the app works with

phoneVars == <<keychain, backup, storage, session>>

Misread == "an envelope taken for a phrase"
NoPhrase == Encoded("none")

(***************************************************************************)
(* recovery: a phrase under a passphrase or a PIN, which differ in cost.   *)
(***************************************************************************)
Bare(phrase) == [kdf |-> "none", cost |-> 0, secret |-> phrase, pass |-> "none"]
Nothing == Bare(NoPhrase)

EncryptWith(phrase, pass, cost) ==
  [kdf |-> "argon2id", cost |-> cost, secret |-> phrase, pass |-> pass]

EncryptBackup(phrase, pass) == EncryptWith(phrase, pass, 65536)
EncryptPin(phrase, pin) == EncryptWith(phrase, pin, 19456)

\* Mutant of IsSealed: only the file's cost is known.
IsSealedFile(value) == value.kdf = "argon2id" /\ value.cost = 65536

IsSealed(value) == value.kdf = "argon2id"

Opens(value, pass) == value.kdf = "argon2id" /\ value.pass = pass
DecryptBackup(value) == value.secret

\* What a client takes for a phrase without opening it.
Plain(value) == IF value.kdf = "none" THEN value.secret ELSE Encoded(Misread)

(***************************************************************************)
(* state: keys of the seed, whichever way its words are spelt.             *)
(***************************************************************************)
Stores == {"state", "history"}

\* Mutant of StoreKey: one label for both.
StoreKeyOfBoth(seed, store) == <<seed, "vaulet/chat", "state">>

StoreKey(seed, store) == <<seed, "vaulet/chat", store>>

SealStore(seed, store) == [key |-> StoreKey(seed, store), of |-> seed, store |-> store]
OpensStore(seed, store, sealed) == StoreKey(seed, store) = sealed.key

Unsaved == [key |-> << >>, of |-> "none", store |-> "none"]

(***************************************************************************)
(* The phone.                                                              *)
(***************************************************************************)
PhoneInit ==
  /\ Init
  /\ keychain = Nothing /\ backup = Nothing
  /\ storage = [store \in Stores |-> Unsaved]
  /\ session = NoPhrase

Begin(phrase) ==
  /\ keychain = Nothing
  /\ keychain' = Bare(phrase) /\ session' = phrase
  /\ UNCHANGED <<vars, backup, storage>>

\* A wallet made here, or its words typed in.  How they were spelt then tells
\* nothing but for the contents of a file, and is left to Enrol.
NewWallet(seed) == Begin(Encoded(seed))

\* What comes back with a file and with none, whatever passphrase is tried.
FromFile(n) ==
  ({WithPassphrase(n, p) : p \in Passphrases}
     \cup IF share = None THEN {} ELSE {WithServerShare(n, share)}) \ {Failed}

FromServer ==
  IF None \in {blob, share} THEN {}
  ELSE {WithoutFile(blob, share, p) : p \in Passphrases} \ {Failed}

Recovered == FromServer \cup UNION {FromFile(n) : n \in files}

\* The caller is to compare the wallet's DID; here it does not.
Recover == \E seed \in Recovered : Begin(Encoded(seed))

RecoverBackup(pass) == Opens(backup, pass) /\ Begin(DecryptBackup(backup))

WriteBackup(pass) ==
  /\ session # NoPhrase
  /\ backup' = EncryptBackup(session, pass)
  /\ UNCHANGED <<vars, keychain, storage, session>>

SetPin(pin) ==
  /\ session # NoPhrase
  /\ keychain' = EncryptPin(session, pin)
  /\ UNCHANGED <<vars, backup, storage, session>>

Lock == session' = NoPhrase /\ UNCHANGED <<vars, keychain, backup, storage>>

Unlock(pin) ==
  /\ keychain # Nothing
  /\ session' = IF IsSealed(keychain) THEN DecryptBackup(keychain) ELSE Plain(keychain)
  /\ IsSealed(keychain) => Opens(keychain, pin)
  /\ UNCHANGED <<vars, keychain, backup, storage>>

Save(store) ==
  /\ session # NoPhrase
  /\ storage' = [storage EXCEPT ![store] = SealStore(session.seed, store)]
  /\ UNCHANGED <<vars, keychain, backup, session>>

\* The app is deleted: its storage goes and the keychain stays.
DeleteApp ==
  /\ storage' = [store \in Stores |-> Unsaved] /\ session' = NoPhrase
  /\ UNCHANGED <<vars, keychain, backup>>

\* Another phone is set up from this one's storage: the keychain is
\* ThisDeviceOnly and stays behind.
MovePhone ==
  /\ keychain' = Nothing /\ session' = NoPhrase
  /\ UNCHANGED <<vars, backup, storage>>

PhoneNext ==
  \/ Next /\ UNCHANGED phoneVars
  \/ \E seed \in Seeds : NewWallet(seed)
  \/ Recover
  \/ \E pass \in Pins :
       RecoverBackup(pass) \/ WriteBackup(pass) \/ SetPin(pass) \/ Unlock(pass)
  \/ Lock \/ DeleteApp \/ MovePhone
  \/ \E store \in Stores : Save(store)

PhoneSpec == PhoneInit /\ [][PhoneNext]_<<vars, phoneVars>>

(***************************************************************************)
(* Properties.                                                             *)
(***************************************************************************)
\* The app works with what the keychain holds, sealed or not, also when the
\* storage that might have said which is gone: "the app then [...] tried to
\* read a sealed envelope as a raw seed" (recovery/mod.rs 180-186).
WorksWithItsWallet == session \in {NoPhrase, keychain.secret}

\* Whatever way a wallet came here, it opens the stores it sealed, each by its
\* own key, and no others: the history is not read by the key of the state
\* (state.rs 229), and storage found beside another wallet, or beside one that
\* is nobody's, stays shut.
OpensWhatItSealed ==
  session # NoPhrase =>
    \A place, store \in Stores :
      LET sealed == storage[place]
      IN  OpensStore(session.seed, store, sealed)
            <=> sealed.of = session.seed /\ sealed.store = store

\* Enrolled by the words as they are encoded, the contents of a file open to its
\* wallet whichever way that comes back, by the file itself or by another
\* enrolment of the same wallet. Whatever else is recovered does not open them,
\* nor a wallet that is nobody's, put together of two enrolments (simple.rs
\* 102-112, 198-240).
ContentsComeBack ==
  \A n \in files :
    /\ enrolments[n].spelt = "as encoded" =>
         /\ \A seed \in FromFile(n) : OpensContents(n, Encoded(seed))
         /\ enrolments[n].seed \in Recovered =>
              OpensContents(n, Encoded(enrolments[n].seed))
    /\ \A seed \in Recovered :
         OpensContents(n, Encoded(seed)) => seed = enrolments[n].seed
    /\ blob # share =>
         \A seed \in FromServer : ~OpensContents(n, Encoded(seed))

\* "The wallet's cards and contacts, sealed under a seed-derived key", to be
\* opened "given the recovered seed" (simple.rs 65, 233). Enrolled by words that
\* were typed with other spaces they do not: the key is derived from the text.
ContentsOpenToTheSeed ==
  \A n \in files : \A seed \in FromFile(n) : OpensContents(n, Encoded(seed))
=============================================================================
