# vaulet-core in TLA+

This directory holds a specification of `vaulet-core`, the library under the
Vaulet wallets: end-to-end encrypted rooms and what a device still owes others,
how people meet, the credentials they are issued and show, the statements they
sign and the rules about who is enough, what Vaulet vouches for, passports, and
how a wallet is kept and recovered. The modules are written from the code. TLC
checks them on small instances (12 runs); TLAPS proves the theorems of the
`*Proofs` modules for all values of the constants.

    tlc -workers 2 -config MCRoom_forks.cfg MCRoom     # a run
    tlapm RoomProofs.tla                               # the proofs of a module

`PROJECT.json` lists the components, runs, mutants, the source lines behind
every definition, the hazards, the findings and the theorems.

## 1. The system

`vaulet-core` is a library without threads, network, disk or clock: a client
calls it, keeps the bytes it returns, and carries blobs to and from a mediator,
an issuer, a verifier or a cloud drive. What is hard is what happens *between*
calls: blobs arrive late, twice, out of order, at somebody else, or never; the
client crashes between a call and the write that should follow it; two devices
act at once; keys, documents and clocks change between what was made and when it
is checked.

| Part | State | Operations | Interacts with | What makes it correct |
|---|---|---|---|---|
| Room session (`chat/mod.rs`) | an MLS store: group, past secrets, init keys | create, key package, add, join, send, receive, remove, peek/rank, room info, rejoin, rejoin from backup, export, restore | other sessions through the mediator, the client's blobs, the recovery file | one branch survives a race; nobody reads outside their membership; crossing a commit loses nothing; eviction leaves nothing |
| Commit rank (`chat/mod.rs`, `rank`) | none | rank of a leaf at an epoch | used by the client to settle a race | a strict order that takes turns |
| Owed queues (`chat/owed.rs`) | six maps target → ids | owe, work, paid, forget, clear, to/from JSON | the client's drain loop, a network, a file | what is retired is exactly what went out; everything is retired in the end |
| Contacts (`chat/invitation.rs`, `handle`, `inbox`, `envelope`) | none (keys derived from a seed) | cards, handles and their rotation, boxes, introductions | mediators, whoever has a code | an answer arrives and opens, for its addressee alone; each derived key serves one code and one purpose |
| Push (`chat/push.rs`) | none | ticket, open ticket | cards, the relay | the ticket in a card names its sender's phone to the relay it was made for |
| Rules (`rule.rs`) | none | satisfied_by, check | mandates, certificates | a rule that is set can pass, and not by itself |
| Statements (`statement/mod.rs`) | none (signed artefacts) | seal, issue, open, verify | credentials, mandates | symbol and sentence agree; it does not bind longer than it verifies |
| Mandates (`mandate.rs`) | none | ask, read, enough | statements, rules | a signature is good for one manifest and one organisation |
| Credentials (`credential`), with `did:web` (`did`) | none (stored cards) | issue, verify, ingest, present, verify_presentation, status | issuers' documents, verifiers, status lists | what is stored is its issuer's; an answer is to this challenge and shows what was asked |
| OpenID4VC (`protocol`) | none | offers, tokens, proofs bound to a channel, asks and answers | wallets, issuers, verifiers | what is scanned is what was offered; a proof that is relayed is not taken |
| Vouching, certificates, attestations (`vouching`, `certificate`, `address`) | none | three readers of what one key signs | credentials, packages, reference data | no statement passes for another, none long after its term |
| Simple recovery (`recovery/simple.rs`, `shamir`) | file, two server pieces | enrol, three ways to recover, contents | server, customer's drive | any two of three, one enrolment or failure |
| Passphrase file, PIN, words (`recovery/mod.rs`, `mnemonic`) | a keychain, a file | seal under passphrase or PIN, is_sealed, open | the phone | the app works with its own wallet |
| Sealed chat state (`chat/state.rs`) | two sealed stores | seal, open | the room session's export | opens to its own wallet, each store to its own key |
| Vault file (`recovery/vault.rs`) | a file | seal, open | the cloud it is synced to | whole or not at all |
| Travel documents (`emrtd`) | none | verify_passport and its verdict; ECDSA over explicit curves | readers, trust stores | what is called genuine is; a fair check is not called failed |
| Messages, requests, CBOR, library surface (`chat/message.rs`, `requests.rs`, `dcbor.rs`, `lib.rs`, `vectors.rs`) | none | encode, decode | everything | round trip |

## 2. The modules

Each map entry of `PROJECT.json` gives the source lines of a definition. A
definition whose comment begins "Mutant of" is not part of the specification:
it is a bug the properties are shown to notice.

### Rank, Room, MCRoom, RoomProofs

`Rank` is `Session::rank`: `(leaf % size + size - epoch % size) % size` over
`leaf`, packed in one number. `LeafSpan` stands for 2^32, so the packing and the
width are those of the code at another size.

`Room` is one room. A row of `states` is a commit with the ratchet tree and
epoch it leads to, and the row it was made from; forks are rows with one
parent. A device's `session` is what its MLS store holds (`at`, `past` for the
message secrets kept by `MAX_PAST_EPOCHS`, `sent` and `seen` for the sender
ratchets, `packages` for the init keys). `disk` is its last export, `before` the
blob it exported before its last commit, `backup` the member keys in its
recovery file.

| Action | Code |
|---|---|
| `CreateRoom`, `KeyPackage`, `AddMembers`, `RemoveMember`, `Join`, `Send` | the `Session` function of that name |
| `ReceiveCommit`, `ReceiveText` | `Session::receive`, by what the blob is; `Verdict` is its answer with `is_replay` |
| `TieBreak` | `peek_commit`, `rank` twice, then `restore` of the earlier blob and `receive` |
| `RoomInfo`, `Rejoin`, `RejoinFromBackup` | `room_info`, `rejoin`, `rejoin_from_backup`, with `join_externally` inside |
| `Backup`, `Export`, `Restore`, `NewFromSeed` | `member_keys`, `export`, `restore`, `new_from_seed` |

Blobs are never taken out of `states`, `texts`, `infos` and `published`: an
action may use any of them at any time and again, which is every order of late,
repeated and lost delivery. OpenMLS is modelled by what it does here: newcomers
take the lowest blank leaves in some order, a removal blanks a leaf, a signature
key that has a leaf is refused, a Welcome opens with the init key it names and
deletes it, an external commit removes the committer's old leaf, texts of past
epochs open while their secrets are kept, a generation opens once.

The client's part is as the comments of `peek_commit` and `rank` tell it: it
exports before each commit, it breaks a tie only against its own commit, and it
does not hand its own blobs back to itself. `RatchetWindow` is OpenMLS's limit on
texts out of order within one epoch.

### Owed, OwedContract, MCOwed, OwedProofs

`Owed` has the six maps as one map keyed by queue and target (`entries`), the
file (`stored`), the deposits the client has under way (`inflight`) and what
reached the other side (`heard`). `promised` remembers what the device took on,
so that a loss can be told. `Owe`, `Forget`, `Clear`, `Confirm` (`paid`),
`Restart` (`from_json`, readable or not) and `Save` are the code's functions;
`Send`, `Arrive`, `Fail` are the drain loop of the file's header over a network
that loses requests and answers. `Clear` and `Forget` excuse the debt.

`OwedContract` is the abstract promise of the queues that carry ids: a debt
stops being due because it was heard, was written off, or was not on disk at a
restart. `Owed` implements it (`KeepsContract`), with `due` and `saved` defined
from the two maps.

### Card, Contacts, MCContacts, ContactsProofs

`Card` has the pure part: every key derived from a seed as the tuple of the label
and numbers it is derived from (`Derive` and the `…Key` operators), HPKE as a
record that opens to one key under one label, handles (`Mine`), cards (`Encode`,
`Decode`, `FitName` with its two limits, and `Decodes` for the mediators that are
a url, `Urls`) and tickets for any of the relay's keys.

`Contacts` puts people in front of it. `ShowCard` is a QR code, `RotateHandle` the
next rotation number, `Introduce` the answer to any code there is (a photograph
of a code is a code) with a card of one's own in it, key package and ticket
included; `Collect` opens any blob with any key of any box one still asks for,
so a mediator may put blobs in wrong boxes, late and again. A card whose mediator
is no url is neither answered nor read. The counting of contacts, which
mediator one uses at the time and the boxes one asks for are the client's.

### Rule, Statement, Mandate, MCMandate, MandateProofs

`Rule` is `satisfied_by` and `check` as operators. `Statement` has the credentials
that exist, what people read when they agreed, and a clock; `Issue` is
`issue_statement` with `seal`, and `Verifies` is `verify_statement` with `open`.
A template is what it says and which fields it shows, so that two symbols can
render to one sentence when the sentence does not show where they differ.
`Misprint` (another implementation showing the wrong sentence) and `Alter` (a
changed credential) are not code of this repository; they are why `open` exists.
`Mandate` composes the two: `Publish` is `read` and `enough`, `SetRule` is `check`
at the door.

### Credential, Vouching, Oid4vci, Oid4vp, Wallet, MCWallet, WalletProofs

Four modules of operators and one that composes them.

`Credential` is an SD-JWT as a body, the disclosures that come with it and a key
binding: `Issue`, `Verifies`, `Present` and `VerifiesPresentation`, the ways to find
an issuer's key (`HasIssuerJwk`, `SigningJwkForKid`, the resolver, a document in
hand, `Ingests` with its pins), and status lists. A hash of something is that
thing, a signature is the key it was made with.

`Oid4vci` has the offer, percent by percent: `PercentEncode` joins what each
character is escaped to, `PercentDecode` is the code's loop as a recursive
function, since whether a space, a plus, an ampersand, a bad escape or bytes that are no
UTF-8 (`IsUtf8`) survive a QR code is what `ScannedIsOffered` is about. Then tokens and the two proofs, with a channel and
without. `Oid4vp` is the ask and how an answer meets it. `Vouching` has the three
readers of what Vaulet's key signs; `ReadVoucher` is `vouching::read` with its three
answers, and `SameReport` takes reports that are objects or not, with values in
their lines that are no texts (`Scalar`).

`Wallet` is their life together. `web` and `served` are the documents there are and
were at each URL, `sessions` what each scan came to, `proofs`, `issued`, `kept`,
`shown`, `accepted` what was made, and `revoked` the entries the issuers have set;
`Lists` are the status lists they may have signed so far. Every use has a clock of
its own, any of `Instants`.

| Action | Code |
|---|---|
| `Scan` | `to_offer_uri`, then `parse_offer` and the token request |
| `Prove(s, n)` | `holder_proof`, `holder_proof_bound` in session `s`, with the nonce and token of session `n`: its own, or another's that an issuer of `Relays` passes on. The proof may be put to any server |
| `IssueFor` | the credential endpoint: `decode_proof_jwt`, then `issue` |
| `Ingest` | `ingest_via_resolver`, `ingest_with_did_document` with any document ever served, or one served in its place |
| `Show` | `present` for a request |
| `Accept` | `verify_presentation` of any answer ever given, or of the parts of two, with the status check on any list there is |
| `Rotate`, `Revoke` | the issuers' documents and lists |

### Recovery, Phone, MCRecovery, RecoveryProofs

`Recovery` numbers the calls of `enrol`; the file the customer keeps, the record
the server holds and the two pieces it has released each name one. Recovering is
a function of the state, so the invariants ask it of every file, piece and
passphrase. Shares of different splits interpolate to `Junk`, which is what a
four-byte checksum tells from the secret (a collision of the checksum is not
modelled). The number of shares is counted up to `CountSpan`, the 256 of a
`u8`, and goes round (`shamir/mod.rs` 67). A phrase is its seed and how it was spelt;
`ContentsKey` is derived from the text.

`Phone` EXTENDS it with what a client does around it: the keychain (a bare phrase
or an envelope under a PIN), the file of one passphrase, the two sealed stores,
and the phrase the app works with. `SetPin`, `Lock`, `Unlock`, `WriteBackup`,
`RecoverBackup`, `Recover` (any of the three ways, with whatever pieces are at
hand) and `Save` call the code; `DeleteApp` leaves the keychain behind, and
`MovePhone` takes the storage along and not the keychain.

### Vault, MCVault, VaultProofs

`Vault` names every unit of a vault file by its seal and place: the magic, which is
the same in all, the header with its length, and the chunks. `OpenVault` is `parse` and
the loop of `open_vault` over the pieces, with what authenticates where, and its
answers are told apart; where a file goes on with something that is no header, the
length found there makes it truncated or malformed; a download reads whatever
is in the cloud at its offset, which may be a newer vault, and may be continued
at a wrong place.

### Curve, Passport, MCPassport, PassportProofs

`Curve` is the arithmetic of `emrtd/mod.rs` written out (`ModInv`, `PtAdd`, `PtMul`,
`EcdsaVerify`): the rounds of `PtMul`, the shift of a hash and the power in `ModInv`
are recursive functions. `Passport` has
what a reader holds at one moment (`sod`, `groups`, `answer`), read file by file
from whatever documents come by, the verifier's trust store and `challenge`, and
`VerifyPassport` with `IsGenuine`, `ActiveAuthOk` and `UncoveredDgs`. `Answer` is a
chip that answers, `Repeat` an answer heard elsewhere, another key's, or junk.


## 3. The runs

Bounds are named in the modules and set in the `.cfg`; states are distinct ones.

| Run | What it shows | Bounds | States |
|---|---|---|---|
| `forks` | A race, an eviction, a Welcome, a rejoin in every order: devices hold only states they sit in (`HoldsOnlyWhereSeated`); a package opens one Welcome (`PackageOpensOnce`); nobody trades places (`NobodyTradesPlaces`); epochs go back only with a late Welcome (`NoWayBackButAWelcome`) | 3 devices, 6 commits (4 after the pair), 2 packages each, 1 room info | 650 000 |
| `texts` | From an empty world or a pair, the first copy of a text that crossed up to `MaxPast` commits opens (`FirstCopyOpens`, as long as no device is put back); a crash back to the last export, or a lost device with a recovery file, breaks neither `OneSeat`, `PastIsAncestry` nor `OnlyTheSeatedRead`; `TypeOK` | 2 devices (symmetric), 4 commits, 1 room info, `MaxPast` 1; from an empty world 2 texts and no crash, from a pair 1 text and 1 crash (`AsBegun`) | 327 000 |
| `race` | In every tree reached `OneWinner` and `TurnsComeRound`; under fair delivery `RaceSettles` | 3 devices with identities of their own, 6 commits, up to 2 added at once | 17 000 |
| `queues` | `NothingLost`, `LostOnlyWhenOvertaken`, the refinement `KeepsContract`, and the liveness `DebtsAreRetired`, `PromisesAreHeard` | 3 calls of owe, 2 deposits under way | 74 000 |
| `mandate` | `BindsOnlyWhileItVerifies`, `PublishedWasAgreed`, `RuleCanPass` | 2 signers, 2 organisations, 2 manifests, 2 statements, 1 publication, 2 days of 2 instants | 260 000 |
| `recovery` | What comes back is what was enrolled: `FileGivesItsSeed`, `AnyTwoBringItBack`, `OneIsNotEnough`; what a phone keeps around it: `WorksWithItsWallet`, `OpensWhatItSealed`, `ContentsComeBack` | 2 wallets and 2 passphrases (symmetric), 1 PIN, 2 enrolments; shares counted modulo 3, up to 5 copies of one | 600 000 |
| `vault` | `WholeOrNothing`, `TruncatedMeansGoOn` | contents of 0, 2 and 3 units in chunks of 2; 2 vaults, 2 wrong continuations | 336 000 |
| `wallet` | From offer to answer: `ScannedIsOffered`, `ProofsFitTheirSession`, `StoredIsTheIssuers`, `AnswersTheChallenge`, `ClearWasClear`; what Vaulet's key says: `WordIsVaulets` | 2 issuers on one host, one of which relays nonces, 2 wallets (symmetric), 1 credential, 1 rotation of keys, 2 presentations, instants 0 and 2 with `Skew` 1 | 70 000 |
| `contacts` | `AnswersArrive`, `ReadAsWritten`, `EachKeyServesOnce` | 2 people, 2 mediators and one that is no url, 2 cards each, 1 rotation, 2 relay keys, 2 introductions | 268 000 |
| `passport` | `GenuineIffProved`; `VerifiesWhatWasSigned` | 4 documents of 3 states and one nobody issued, 4 trust stores, 2 challenges, 2 hashes; one curve with p = 23 and order 19, 2 keys, 3 hashes, numbers 0 to 20 | 340 000 |

Two of the room's runs (`forks`, `race`) start in `PairInit`, a state
that every behaviour with a conversation passes: everybody has published its
packages, `a` has created the room and added `b`, `b` has joined. `texts` starts
there or from nothing, and so fires `CreateRoom` and `KeyPackage` too. The bounds leave room
for what the properties are about: two commits at one state, one that follows
on the loser, and a fourth that evicts or lets in again; three people and one
more leaf than two, so that blanks arise; a text two commits can overtake when
one past epoch is kept. Two rejoins at the same moment need two room infos and
are not reached in `forks`; the theorem `NoCircleOfYields` covers them.

The other bounds are as small as the case needs: two enrolments, since what goes
wrong mixes pieces of two; a vault of three units in chunks of two, so that a
last chunk is short and a cut falls between chunks and inside one; in `wallet` one
credential and two presentations, of which the parts of two are put together,
and two keys per issuer, of which a rotation puts the new one first, last or
alone; in `contacts` one rotation, a second mediator and a third that no url names, so that
answers to what was given before a move arrive after it; in `passport` two challenges, so that there is
an earlier answer to repeat. The curve has coordinates above its order, and the
numbers of a signature are taken from zero to beyond the order.

Two runs end in a counterexample, each to a sentence the repository says. `vacuous`
(`SomebodySigned`): `check` refuses a count of none and a fraction out of zero, but
not a fraction whose numerator is zero. Such a rule is satisfied by nobody
signing. `typed` (`ContentsOpenToTheSeed`): the contents of a recovery file are said to be
sealed "under a seed-derived key" and opened "given the recovered seed" (`simple.rs` 65,
233), and the key is derived from the text of the phrase (106). A wallet enrolled by
words that were typed with other spaces than `encode` writes comes back, and its
contents do not open to the phrase that did. `ContentsComeBack`, in the run `recovery`, is
what does hold: enrolled by the words as they are encoded, contents open to their
wallet by whichever way it returns, and to nothing else in any case.

### Read in the code, and not kept as runs

Rooms: the rank is compared with a commit of one's own only, so that of three commits at
one state whoever has yielded to the middle one, or got it first and made none, stays
on it while the lowest wins elsewhere (b removes a, a removes c, c removes b is one case);
that room comes together again by a rejoin only, and `RaceSettles` is about two. A device that was removed and has not processed the removal passes the
checks of `rejoin`; an identity with two leaves loses one to `remove_member`; an
external commit cannot be ranked against a member's, so that fork heals by a
further rejoin only; leaves beyond the member count, when there are blanks, may
wait longer for their turn than `size` epochs; a sender restored to before its
last send uses a generation twice, and its next text is dropped as a replay; a
device restored to before a `Join` opens the Welcome again, which is why
`PackagesAreSpent` is about devices that never were. In the queues without ids
(`owed.rs` 174) a change made while the older one is under way is retired with it.

Mandates: reading one compares `now` with the credential's `exp`, never with `until`
(`mandate.rs` 200), and `issue_statement` sees to it that `exp` is not before `until`
and nothing that it is not long after; any template for *authorise* is accepted
(`mandate.rs` 218), also one whose sentence does not show the organisation; a DID
listed twice in a group counts twice; only `did:jwk` signers are accepted, and
companies among the members are the caller's to count; the digest of the manifest
is in the symbol and not in the sentence.

Credentials: `issue` writes no `kid` (`credential/mod.rs` 630), so an issuer that lists a
new key first leaves its earlier credentials unverifiable from its document;
`did:web:host` and `did:web:host:.well-known` have one URL, which the theorem
`StoredIsGenuine` excludes (`OneUrlEach`).

Recovery: `recover_without_file` with pieces of two enrolments
gives a wallet that is nobody's, which the caller tells by its DID; a vault cut in
the middle of a chunk is reported as damaged, and only one cut between chunks as
truncated.

Passports: the hash of a DSC's own signature is looked up by the algorithm of the
signature, which `hash_name` takes for SHA-256 whatever it is (`emrtd/mod.rs` 550). A
DSC that was signed by way of another hash is judged *failed*, which the header
says is for what does not verify; `GenuineIffProved` asks completeness of the others
only.

### Fairness

`FairSpec` of `Room` assumes weak fairness of `Join`, `ReceiveCommit` and
`TieBreak` per device and commit: the mediator keeps a blob until it is
confirmed, and the client handles what it collects. No fairness is assumed of
anything somebody decides to do. `RaceSettles` is about two members who made the
only two commits of a state: it allows that one of the branches has moved on by then,
or that a third commit has joined, because neither is a race of two any longer.

`FairSpec` of `Owed` assumes that the drain loop comes back to every key (strong
fairness of `Send`, which a full pipe disables now and then), and that a deposit
tried for ever arrives and is confirmed (strong fairness, per key). `Fail` and
`Restart` are unfair: they may happen, and need not. Calls of `owe` are bounded,
so an id cannot be re-owed for ever.

The other modules assume none: nothing in them has to happen.

## 4. What is proved

`OwedProofs`: `TypeCorrect`; `NoPromiseLost` (`NothingLost`), with `CarriedIsNamed`
as the strengthening: a deposit in a queue with ids carries what it names, so
`paid` retires only ids that have been heard; `LossNeedsOvertaking`, the action
property; and `ImplementsContract`, step by step: each action of `Owed` is one of
`OwedContract` or a stutter, under the same invariant. Nothing is assumed but
`Queues \subseteq Owes`.

`RoomProofs` begins with `Rank`, for every width and leaf below it: ranks of
different leaves differ (`NoTies`), exactly one of two yields (`ExactlyOneYields`),
the number fits its width (`RankFits`), and without blanks every leaf has rotation
zero within `size` epochs (`TurnComes`).

For `Room`, `Inductive` shows that `IInv` holds throughout, for every set of
devices and all bounds: `TypeOK`; `RowsSound` (parents come earlier, trees are
injective, committers and newcomers are seated, epochs count the parents);
`StoresSound` (in all three stores of a device: it sits in every state retained,
those are each other's parents, it has only its own packages); `TextsSound` (a
text's leaf exists in its state); and `OnlyTheSeatedRead`. The named invariants
are not inductive alone. A Welcome opens by a package, so that its owner is
seated needs "newcomers are seated" and "a device has only its own packages";
that a tie-break lands in ancestry needs the blob `before` to be as sound as the
session. From it follow `TypeCorrect`, `NobodyIsSeatedTwice`, `HoldersAreSeated`,
`RetainedIsAncestry`, `OnlyMembersRead`, and `NobodyGoesBack` for the action
property, where merging goes to a child of the state held and a tie-break to its
sibling. The proof for each action is a lemma of its own.

Three further invariants are proved on top of `IInv`. `CommitsSound` (a commit made
as a member is made by a member of its parent) gives `RacesHaveOneWinner` and
`EverybodyHasATurn`. `NoCircleOfYields`: the commit a yield goes to has a lower rank
at its parent than the one it leaves (`YieldsSound`), so yields never close to a
circle. `PackagesAreSpent`, as long as no device was put back to an earlier export:
no init key in a session has opened anything, nor one in the blob `before` while the
device holds its own commit, which is when a tie-break goes back to it
(`KeysSound`). `FirstCopiesOpen` is `FirstCopyOpens`, which has the same condition in it, for any
`MaxPast` and window: what a session keeps of the past is the line of parents back
to its entry or `MaxPast` of them, whichever is shorter (`LineIn`), whatever key it
used is of a text it reported, and no two texts have one key (`CopiesSound`). A sender
that is restored uses a generation twice, and then it does not hold (section 3).

`MandateProofs`: what was enough stays enough when more people sign
(`MoreSignersAreEnough`), and a rule that `check` lets through is one its own
people can satisfy (`CheckedRuleCanPass`), for every rule of finite groups
(`IsRule`, which `MandateAssumption` asks of `Rules`). `NobodyIsLockedOut` follows:
`RuleCanPass` holds with whatever rules anybody writes. `WhatIsPublishedWasAgreed`
is `PublishedWasAgreed` under the hypothesis that every wording of an ask to
authorise shows the organisation (`SentencesNameTheOrg`), which `read` does not
see to. It rests on `StatementsSound` (an intact statement is one its signer read)
and on publications staying justified as more people agree.
`NobodyIsBoundUnverifiably` is `BindsOnlyWhileItVerifies`: the day of an intact
statement's `exp` is not before its `until` (`TermsSound`).

`RecoveryProofs`: for any number of wallets, passphrases and enrolments,
`TypeCorrect`, `FileCorrect`, `PairsCorrect` and `OneShareCorrect` for the
invariants of `Recovery`. The argument is that of the checksum: `Reconstruct` of
shares whose checksum is of a seed gives that seed or fails (`CheckedIsTheSecret`),
and two places of one split interpolate to its secret (`TwoOfOneSplit`). They
assume that a collision of checksums does not happen, in the shape of `Junk` not
being a seed. For `Phone`, `TheWalletIsItsOwn` needs that every envelope in the keychain was
written with the derivation by which an envelope is told from a phrase
(`KeychainSound`); `StoresOpenToTheirWallet` follows from what each
store was sealed with (`StorageSound`). `ContentsOpen` (`ContentsComeBack`) rests on
`FileGivesItsSeed`, on `PhoneRecovers` (the phone's steps are steps of `Recovery`) and on
pieces of two enrolments giving `Junk` (`TwoEnrolmentsGiveJunk`).

`VaultProofs`: `OpensWholeOrNot` and `TruncatedGoesOn` for any contents, chunk and tag
lengths, cuts in the header included (`Read`, `MagicBegins`). A file is cut in pieces of one chunk and its tag; every piece that
authenticates is its own seal's and place's (`OpenedPieces`), so what opens to the
end is one vault (`OpenedIsWhole`), and what is reported as truncated is as many
whole pieces from its start as there are (`TruncatedPieces`).

`WalletProofs`: `CredentialsSound` says that everything issued, kept or shown was
signed by an issuer and discloses nothing else. From it `OnlyTheHolderAnswers`
(an accepted answer was made by the holder for this verifier and challenge, and
shows what was asked), `StoredIsGenuine` (with every document that is served or was,
`WebSound`, and no two issuers at one URL, `OneUrlEach`) and `ClearIsClear` (the list
that says so).

`OffersAreRead` is `ScannedIsOffered` for any offers: whatever text and whatever bytes.
It asks that JSON is bytes in UTF-8 and different offers have different JSON
(`JsonAssumption`), and that what a query has in front of the offer is pairs of other
names (`OfferAssumption`). The argument is that percent-coding leaves none of the
query's own characters (`Plain`) and that `PercentDecode` undoes it byte by byte
(`ByteReads`, `EncodedReads`, over `Flattened`: where the pieces of a joined sequence
lie); a query of one such pair has one reading (`LastPair`). `ProofsFit` is
`ProofsFitTheirSession`: an issuer of `Relays` may have any wallet sign with any session's
nonce and token, but a wallet signs for whom it was asked by, so what an issuer that
relays nothing takes in a session was signed by the wallet that opened it.

`VauletsWord` is `WordIsVaulets`: under one key with nothing in a statement that says
its kind, the three readers still take each statement for what it was signed as
(`ReadVouching`, `ReadCertificate`, `ReadAttestation`), in its term (`InTimeInTerm`).
What Vaulet's server signs is external; `VoucherAssumption` says how far:
what is signed with a pinned key has the members of one kind (the keys of the
organisation, the report of the package, the name and hash of the data) and not
those of the others, and two packages with one report are one in what is agreed.

`ContactsProofs`: whatever is out was made by whom it names, each card once (`IInv`:
`CardCode`, `PostSound`, `ReadSound`). A derived key tells what it was derived from,
so what opens at somebody was sealed to a code of theirs (`OpenedByItsOwner`), and
two codes with one key are one code. From it `AnswersAreFound`, `CardsLeadBack`
(with `NamesFit` and `CutTwice`: cutting a name again changes nothing) and
`KeysServeOnce` (`KeysApart`), for any people, names, mediators and bounds. That two
contacts cannot find out that they know the same person is not claimed: introductions
carry a DID.

`PassportProofs`: `GenuineIsIssued`, both ways. Soundness rests on
`UnforgedAssumption` (with the keys of states in a trust store only their documents
were signed) and on `AnswersSound` (what a reader has for an answer is junk or some
chip's to some challenge); completeness on `IssuersAssumption` (states sign with keys
of the kind they say). All are assumptions on the constants that TLC evaluates in
the run `passport`.

`EcdsaVerifiesWhatWasSigned` is `VerifiesWhatWasSigned` for any curves, keys, hashes
and numbers, under one hypothesis, `GroupLaw`: of every curve, the points that are
multiples of its generator add up under `PtAdd` as their factors do modulo the order
and are points of the curve, and the power `n - 2` is an inverse modulo the order
(Fermat). That is mathematics of prime fields and would need an induction the
provers do not have. For the curve of the run TLC checks that points add up: with
`Times(c, j)` for the multiples it is the second half of `VerifiesWhatWasSigned`, which
the run asks of every two factors below the order; and if the inverse of a nonce
below the order were wrong, a signature made with it would not verify, which is the
first half. What is proved on top of it is the code's own part: that
doubling and adding from the lowest bit up gives the multiple, for any factor
(`RoundKeeps`: what is added up and what is left to add come to the same;
`MultiplesByRounds`), that the cut of a hash is a number (`LeftmostIsNat`), and that
the point which is verified is the nonce's, in range or out of it
(`VerifiedPoint`, `VerifiesIffSigned`).

Throughout, hashes, signatures and derived keys are what they were made of: a
collision or a forgery is outside every theorem.

Recursive functions (`PercentDecode`, `PtMul`, `Shifted`) are reasoned about without
induction over data: that the function exists is shown by a largest prefix on which
it does (`StepsExist`, `DecodeExists`), and what it computes by a least
counterexample (`Counting`, `LeastOne`), with the order of the natural numbers well
founded.

Left to TLC: liveness (`RaceSettles`, `DebtsAreRetired`, `PromisesAreHeard`), which
the installed provers do not reach, and `GroupLaw` of a given curve.

## 5. Not modelled

- `chat/message.rs`, `requests.rs` and `dcbor.rs` encode and decode; they keep nothing
  and decide nothing these modules tell apart. `lib.rs` and `vectors.rs` are version
  strings and test vectors.
- OpenID4VC in part: DCQL beyond claims and alternatives, issuer and verifier
  metadata and the layout of requests are left out; so are keys and DIDs beyond
  `did:web` and the derivation of keys, and of travel documents the ASN.1 layouts,
  the fields of data groups and RSA's arithmetic.
- Which of its keys a relay holds and for how long is decided outside `src/`, so that a
  ticket outlives its key is not modelled; nor is the framing of cards and envelopes
  (versions, lengths, the byte of the kind) and of headers of vaults that nobody wrote,
  and with it the refusal of what no function here has written.
- Padding, the wording of credentials and room ids are left out of `Room`: with
  several rooms sessions share nothing but key packages, and `PackageOpensOnce` is
  about those.
- The questions to a passphrase oracle that the comments of `recovery/simple.rs`
  discuss are not a matter of states and steps.

## 6. Plan

1. `Contacts` with rooms: the owed `reintroduce` and `reannounce` queues behind a
   rotation, cards with the key packages a room opens.
2. OpenID4VC: the DCQL query in full, and metadata that changes between an offer
   and its use.
3. Several rooms sharing one store, if key packages across rooms prove worth it.
4. Proofs: `GroupLaw` on a prime field, should a prover with induction be at hand.
