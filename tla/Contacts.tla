------------------------------ MODULE Contacts ------------------------------
(***************************************************************************)
(* Meeting people: codes shown and answered by way of one mediator or      *)
(* another, and handles rotated.                                           *)
(*                                                                         *)
(* Cards, handles, envelopes and tickets are those of src/chat; mediators, *)
(* relays and the client's counting of its contacts are outside src/.      *)
(* A code may be photographed, so anybody may answer any; a blob may reach *)
(* any box, late and again.                                                *)
(***************************************************************************)
EXTENDS Card

CONSTANTS People,          \* by their seed
          Mediators,
          Name,            \* what each person calls themselves
          KeyIds,          \* of the relay's keys that tickets are made for
          MaxCards, MaxRotations, MaxPost   \* bounds

ASSUME ContactsAssumption ==
  /\ WellKnown \in Mediators /\ Absent \notin Mediators /\ Relay \notin People
  /\ {MaxCards, MaxRotations, MaxPost} \subseteq Nat
  /\ \A p \in People : Name[p] \in Seq(1 .. 4)

VARIABLES rotation,        \* the number of each handle
          cards,           \* where the box of each card is, by contact
          codes,           \* the cards that were ever shown
          post,            \* what was ever deposited
          read             \* what was collected and opened

addressVars == <<rotation, cards, codes>>
vars == <<addressVars, post, read>>

Init ==
  /\ rotation = [p \in People |-> 0]
  /\ cards = [p \in People |-> << >>]
  /\ codes = {}
  /\ post = {}
  /\ read = {}

(***************************************************************************)
(* Codes.  Each is kept with whose it is and what for: <<"handle", r>> or  *)
(* <<"card", i>>.                                                          *)
(***************************************************************************)
\* The i-th card of p as its bearer should read it.
Invitation(p, i, mediator, package, ticket) ==
  [mediator |-> mediator, inbox |-> InboxKey(p, i), envelope |-> EnvelopeKey(p, i),
   package |-> package, ticket |-> ticket, name |-> Name[p]]

\* Handles are out from the moment they exist.
Handles ==
  UNION {{[of |-> p, as |-> <<"handle", r>>, code |-> Mine(p, r)] : r \in 0 .. rotation[p]} :
           p \in People}

\* A QR code: no key package in it and no ticket.  The mediator is the one p
\* uses at the time.
ShowCard(p, mediator) ==
  LET i == Len(cards[p]) + 1
  IN  /\ i =< MaxCards
      /\ cards' = [cards EXCEPT ![p] = Append(@, mediator)]
      /\ codes' = codes \cup {[of |-> p, as |-> <<"card", i>>,
                               code |-> Encode(Invitation(p, i, mediator, Absent, Absent))]}
      /\ UNCHANGED <<rotation, post, read>>

RotateHandle(p) ==
  /\ rotation[p] < MaxRotations
  /\ rotation' = [rotation EXCEPT ![p] = @ + 1]
  /\ UNCHANGED <<cards, codes, post, read>>

(***************************************************************************)
(* An introduction: a card of one's own, sealed to the code one answers.   *)
(***************************************************************************)
\* Where anybody sends what it seals to a code.
Target(code) ==
  IF code.as[1] = "handle"
  THEN [mediator |-> WellKnown, box |-> KnockInboxId(code.code), key |-> code.code.envelope]
  ELSE LET card == Decode(code.code)
       IN  [mediator |-> card.mediator, box |-> Id(card.inbox), key |-> card.envelope]

Introduce(q, code, mediator, keyId) ==
  LET i == Len(cards[q]) + 1
      n == Cardinality(post) + 1
      mine == Invitation(q, i, mediator, <<q, i>>, Ticket(keyId, PushKey(q), n))
      target == Target(code)
  IN  /\ i =< MaxCards /\ n =< MaxPost
      /\ code.of # q
      /\ code.as[1] = "card" => Decodes(code.code)
      /\ cards' = [cards EXCEPT ![q] = Append(@, mediator)]
      /\ post' = post \cup {[mediator |-> target.mediator, box |-> target.box,
                             from |-> q, answers |-> code,
                             blob |-> Seal(target.key, "introduction", n, Encode(mine))]}
      /\ UNCHANGED <<rotation, codes, read>>

\* The boxes p asks for, and the key it opens what is in each with.
Boxes(p) ==
  {[mediator |-> cards[p][i], box |-> Id(InboxKey(p, i)), key |-> EnvelopeKey(p, i)] :
     i \in DOMAIN cards[p]}
  \cup {[mediator |-> WellKnown, box |-> Id(HandleKey(p, rotation[p], 0)),
         key |-> HandleKey(p, rotation[p], 1)]}

\* A blob collected from one of p's boxes, whichever it was deposited in.
Collect(p, d) ==
  /\ \E box \in Boxes(p) : Opens(box.key, d.blob)
  /\ Decodes(d.blob.content.payload)
  /\ read' = read \cup {[by |-> p, from |-> d.from, answers |-> d.answers,
                         card |-> Decode(d.blob.content.payload)]}
  /\ UNCHANGED <<addressVars, post>>

\* The card in an introduction is a code for whoever has read it.
Answerable(q) ==
  codes \cup Handles \cup {[of |-> r.from, as |-> <<"card", r.card.package[2]>>,
               code |-> Encode(r.card)] : r \in {x \in read : x.by = q}}

Next ==
  \/ \E p \in People : RotateHandle(p)
  \/ \E p \in People, mediator \in Mediators : ShowCard(p, mediator)
  \/ \E q \in People, mediator \in Mediators, keyId \in KeyIds :
       \E code \in Answerable(q) : Introduce(q, code, mediator, keyId)
  \/ \E p \in People, d \in post : Collect(p, d)

Spec == Init /\ [][Next]_vars

(***************************************************************************)
(* Properties.                                                             *)
(***************************************************************************)
\* An answer is where its addressee looks and opens there, whichever mediator
\* the addressee uses by now, and never where no url leads; what was knocked
\* with an old handle is not looked for and opens with nothing, "which is
\* exactly who rotation is meant to shed" (handle.rs 45-48).
AnswersArrive ==
  \A d \in post :
    LET of == d.answers.of
        looked == {box \in Boxes(of) : box.mediator = d.mediator /\ box.box = d.box}
        opening == {box \in Boxes(of) : Opens(box.key, d.blob)}
        shed == d.answers.as[1] = "handle" /\ d.answers.as[2] # rotation[of]
    IN  /\ d.mediator \in Urls
        /\ IF shed THEN looked \cup opening = {} ELSE looked \cap opening # {}

\* What a card has room for of a name, and no less.
LongestThatFits(name, whole) ==
  /\ Len(name) =< Len(whole) /\ name = SubSeq(whole, 1, Len(name))
  /\ Len(name) =< MaxNameChars /\ Bytes(name) =< MaxNameBytes
  /\ \A n \in Len(name) + 1 .. Len(whole) :
       n > MaxNameChars \/ Bytes(SubSeq(whole, 1, n)) > MaxNameBytes

\* Whatever box a blob ends up in, only the person whose code it answers
\* reads it, and reads the card as its sender meant it: the box the sender
\* collects from and the keys and package that go with it, a ticket that names
\* the sender's phone to the relay it is for, and of the name, written and read
\* with the limits of a card, the longest beginning that fits one.  No card is
\* refused that was made with a url.
ReadAsWritten ==
  /\ \A c \in codes : cards[c.of][c.as[2]] \in Urls => Decodes(c.code)
  /\ \A r \in read :
       /\ r.by = r.answers.of
       /\ \E i \in DOMAIN cards[r.from] :
            /\ r.card = [Invitation(r.from, i, cards[r.from][i], <<r.from, i>>, r.card.ticket)
                           EXCEPT !.name = r.card.name]
            /\ [mediator |-> r.card.mediator, box |-> Id(r.card.inbox), key |-> r.card.envelope]
                 \in Boxes(r.from)
       /\ OpenTicket(TicketKeyId(r.card.ticket), r.card.ticket) = Id(PushKey(r.from))
       /\ LongestThatFits(r.card.name, Name[r.from])

\* The keys that name a person's phone, everybody it writes to, and its rooms.
Unpublished(p) ==
  {AccountKey(p), GroupKey(p), PushKey(p)}
    \cup UNION {{RoomKey(p, room), RoomEnvelopeKey(p, room)} : room \in 1 .. MaxCards}

\* Each key serves one code and one purpose: none is in two of the codes and
\* introductions that are out, none both signs and opens, and none names the
\* phone, a group or a room as well.  That is of keys: an introduction says who
\* sends it, and a code what they call themselves (invitation.rs 20-26).
EachKeyServesOnce ==
  LET given == {c.code : c \in codes \cup Handles} \cup {d.blob.content.payload : d \in post}
  IN  /\ \A c, e \in given : c # e =>
           {c.inbox, c.envelope} \cap {e.inbox, e.envelope} = {}
      /\ \A c \in given : c.inbox # c.envelope
      /\ \A c \in given, p \in People : {c.inbox, c.envelope} \cap Unpublished(p) = {}
=============================================================================
