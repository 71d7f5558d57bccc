-------------------------------- MODULE Card --------------------------------
(***************************************************************************)
(* How a person is reached, src/chat: the keys derived from a seed         *)
(* (inbox.rs, envelope.rs, handle.rs, push.rs), what is sealed to them,    *)
(* and the handles, cards and push tickets that carry them.                *)
(*                                                                         *)
(* A derived key is the tuple of what it was derived from, and stands for  *)
(* its private and its public half.  Framing (versions, lengths, the byte  *)
(* of a kind), base64, links and the compression of points are left out,   *)
(* and with them the refusal of what none of these functions has written.  *)
(***************************************************************************)
EXTENDS Naturals, Sequences, FiniteSets

CONSTANTS WellKnown,       \* the mediator a card need not name
          Urls,            \* mediators that are http or https addresses
          Relay,           \* whose keys tickets are sealed to
          MaxNameChars, MaxNameBytes,
          Absent           \* what a card leaves out

ASSUME CardAssumption ==
  MaxNameChars \in Nat /\ MaxNameBytes \in Nat /\ WellKnown \in Urls

(***************************************************************************)
(* Derived keys: one label for each purpose, with the number of the        *)
(* contact, the rotation or the room in it.                                *)
(***************************************************************************)
Derive(seed, label, path) == <<seed, label, path>>

InboxKey(seed, index) == Derive(seed, "chat/inbox", <<index>>)

\* Mutants of EnvelopeKey: one for every contact; the key that signs.
EnvelopeKeyOfAll(seed, index) == Derive(seed, "chat/envelope", << >>)
EnvelopeKeyOfInbox(seed, index) == InboxKey(seed, index)

EnvelopeKey(seed, index) == Derive(seed, "chat/envelope", <<index>>)

RoomKey(seed, room) == Derive(seed, "chat/room", <<room>>)
RoomEnvelopeKey(seed, room) == Derive(seed, "chat/room-envelope", <<room>>)
AccountKey(seed) == Derive(seed, "chat/account", << >>)
GroupKey(seed) == Derive(seed, "chat/group", << >>)
PushKey(seed) == Derive(seed, "push", << >>)

\* Mutant of HandleKey: what opens knocks is not renewed.
HandleKeyOfOld(seed, rotation, purpose) ==
  Derive(seed, "chat/handle", <<IF purpose = 1 THEN 0 ELSE rotation, purpose>>)

HandleKey(seed, rotation, purpose) == Derive(seed, "chat/handle", <<rotation, purpose>>)

\* inbox::id, and push::id.  A box is collected from by whoever has its key.
Id(key) == <<"sha256", key>>

(***************************************************************************)
(* HPKE: what is sealed to a key for a purpose, randomised by n.           *)
(***************************************************************************)
SealTo(key, info, n, content) == [to |-> key, info |-> info, n |-> n, content |-> content]

OpensFrom(key, info, sealed) == sealed.to = key /\ sealed.info = info

\* envelope::seal and open.
Seal(key, kind, n, payload) == SealTo(key, "chat/envelope", n, [kind |-> kind, payload |-> payload])
Opens(key, sealed) == OpensFrom(key, "chat/envelope", sealed)

\* push: a ticket says in the clear which relay key opens it.
RelayKey(keyId) == Derive(Relay, "relay", <<keyId>>)

Ticket(keyId, pushKey, n) ==
  [keyId |-> keyId, sealed |-> SealTo(RelayKey(keyId), "push/ticket", n, pushKey)]

TicketKeyId(ticket) == ticket.keyId

\* open_ticket, with the relay key of that id: the push id.
OpenTicket(keyId, ticket) ==
  IF OpensFrom(RelayKey(keyId), "push/ticket", ticket.sealed) THEN Id(ticket.sealed.content)
  ELSE Absent

(***************************************************************************)
(* handle: the address one can publish.  It names no mediator.             *)
(***************************************************************************)
Mine(seed, rotation) ==
  [inbox |-> HandleKey(seed, rotation, 0), envelope |-> HandleKey(seed, rotation, 1)]

KnockInboxId(handle) == Id(handle.inbox)

(***************************************************************************)
(* invitation: the card for one contact.                                   *)
(***************************************************************************)
\* A name is a sequence of characters, each given by how many bytes it has in
\* UTF-8.
Bytes(name) == Cardinality({byte \in (DOMAIN name) \X (1 .. 4) : byte[2] =< name[byte[1]]})

\* The lengths of the beginnings of a name that fit a card.
Fitting(name) ==
  {n \in 0 .. Len(name) : n =< MaxNameChars /\ Bytes(SubSeq(name, 1, n)) =< MaxNameBytes}

\* Mutant of FitName: characters are counted and bytes are not.
FitNameChars(name) == SubSeq(name, 1, IF Len(name) < MaxNameChars THEN Len(name) ELSE MaxNameChars)

FitName(name) ==
  SubSeq(name, 1, CHOOSE n \in Fitting(name) : \A m \in Fitting(name) : m =< n)

\* Mutant of Encode: the mediator left out is whichever the sender uses.
EncodeRelative(invitation) == [invitation EXCEPT !.mediator = Absent, !.name = FitName(@)]

Encode(invitation) ==
  [invitation EXCEPT !.mediator = IF @ = WellKnown THEN Absent ELSE @,
                     !.name = FitName(@)]

\* Mutant of Decode: the flag of the known mediator is not read.
DecodeAsIs(card) == [card EXCEPT !.name = FitName(@)]

Decode(card) ==
  [card EXCEPT !.mediator = IF @ = Absent THEN WellKnown ELSE @,
               !.name = FitName(@)]

\* Mutant of Decodes: wherever it sends one.
DecodesAny(card) == TRUE

\* What names no url is refused, it "would send the first message somewhere
\* unintended" (344-348).
Decodes(card) == Decode(card).mediator \in Urls
=============================================================================
