--------------------------- MODULE ContactsProofs ---------------------------
(***************************************************************************)
(* Theorems about Contacts, for any people, mediators, names and bounds.   *)
(***************************************************************************)
EXTENDS Contacts, FiniteSetTheorems, SequenceTheorems, WellFoundedInduction, TLAPS

(***************************************************************************)
(* Derived keys tell what they were derived from.                          *)
(***************************************************************************)
LEMMA ContactKeys ==
  ASSUME NEW p, NEW i
  PROVE  /\ InboxKey(p, i) = <<p, "chat/inbox", <<i>>>>
         /\ EnvelopeKey(p, i) = <<p, "chat/envelope", <<i>>>>
BY DEF InboxKey, EnvelopeKey, Derive

LEMMA HandleKeys ==
  ASSUME NEW p, NEW r, NEW purpose
  PROVE  HandleKey(p, r, purpose) = <<p, "chat/handle", <<r, purpose>>>>
BY DEF HandleKey, Derive

LEMMA OtherKeys ==
  ASSUME NEW p, NEW room
  PROVE  /\ AccountKey(p)[2] = "chat/account" /\ GroupKey(p)[2] = "chat/group"
         /\ PushKey(p)[2] = "push" /\ RoomKey(p, room)[2] = "chat/room"
         /\ RoomEnvelopeKey(p, room)[2] = "chat/room-envelope"
BY DEF AccountKey, GroupKey, PushKey, RoomKey, RoomEnvelopeKey, Derive

LEMMA IdsDiffer ==
  ASSUME NEW k, NEW l, Id(k) = Id(l)
  PROVE  k = l
BY DEF Id

(***************************************************************************)
(* Names.                                                                  *)
(***************************************************************************)

\* Of the numbers up to a bound in a set that is not empty one is the greatest.
LEMMA GreatestThere ==
  ASSUME NEW n \in Nat, NEW S \in SUBSET (0 .. n), S # {}
  PROVE  \E m \in S : \A k \in S : k =< m
<1> DEFINE C == {n - x : x \in S}
<1>0. \A x \in S : n - x \in Nat
  OBVIOUS
<1>1. C \subseteq Nat /\ C # {}
  BY <1>0
<1>2. (\A x \in S : n - x \in C) /\ \A c \in C : \E x \in S : c = n - x
  OBVIOUS
<1> HIDE DEF C
<1>3. PICK c \in C : \A e \in C : ~(<<e, c>> \in OpToRel(<, Nat))
  <2> DEFINE R == OpToRel(<, Nat)
  <2>1. IsWellFoundedOn(R, Nat)
    BY NatLessThanWellFounded
  <2> HIDE DEF R
  <2>2. \E c \in C : \A e \in C : ~(<<e, c>> \in R)
    BY <1>1, <2>1, WFMin
  <2> QED BY <2>2 DEF R
<1>4. \A e \in C : c =< e
  <2> SUFFICES ASSUME NEW e \in C, e < c PROVE FALSE
    BY <1>1
  <2> DEFINE ec == <<e, c>>
  <2>1. ec \in Nat \X Nat /\ ec[1] = e /\ ec[2] = c
    BY <1>1
  <2> HIDE DEF ec
  <2>2. ec \in OpToRel(<, Nat)
    BY <2>1 DEF OpToRel
  <2> QED BY <1>3, <2>2 DEF ec
<1>5. PICK m \in S : c = n - m
  BY <1>2
<1> QED BY <1>2, <1>4, <1>5

\* A beginning of a name has so many bytes.
LEMMA BytesCount ==
  ASSUME NEW name \in Seq(1 .. 4), NEW m \in 0 .. Len(name)
  PROVE  Bytes(SubSeq(name, 1, m)) \in Nat
<1> DEFINE cut == SubSeq(name, 1, m)
           all == (1 .. m) \X (1 .. 4)
           bytes == {byte \in (DOMAIN cut) \X (1 .. 4) : byte[2] =< cut[byte[1]]}
<1>1. m \in Nat /\ m =< Len(name) /\ Len(name) \in Nat
  BY LenProperties
<1>2. cut \in Seq(1 .. 4) /\ Len(cut) = m
  BY <1>1, SubSeqProperties
<1>3. DOMAIN cut = 1 .. m
  BY <1>2
<1>4. IsFiniteSet(all)
  <2> DEFINE places == 1 .. m
             widths == 1 .. 4
  <2>1. IsFiniteSet(places)
    BY <1>1, FS_Interval
  <2>2. IsFiniteSet(widths)
    <3>1. ASSUME NEW w \in Int PROVE IsFiniteSet(1 .. w)
      BY FS_Interval
    <3>2. 4 \in Int
      OBVIOUS
    <3> QED BY <3>1, <3>2, Zenon
  <2> HIDE DEF places, widths
  <2>3. IsFiniteSet(places \X widths)
    BY <2>1, <2>2, FS_Product
  <2> QED BY <2>3 DEF places, widths
<1>5. bytes \subseteq all
  BY <1>3
<1>6. IsFiniteSet(bytes)
  BY <1>4, <1>5, FS_Subset
<1>7. Cardinality(bytes) \in Nat
  BY <1>6, FS_CardinalityType
<1> QED BY <1>7 DEF Bytes

\* What is left of a name is the longest of its beginnings that fit a card.
LEMMA NamesFit ==
  ASSUME NEW name \in Seq(1 .. 4)
  PROVE  \E n \in Fitting(name) :
           /\ FitName(name) = SubSeq(name, 1, n) /\ \A m \in Fitting(name) : m =< n
           /\ SubSeq(name, 1, n) \in Seq(1 .. 4) /\ Len(SubSeq(name, 1, n)) = n
<1>1. Len(name) \in Nat /\ MaxNameChars \in Nat /\ MaxNameBytes \in Nat
  BY CardAssumption
<1>2. 0 \in Fitting(name)
  <2>1. SubSeq(name, 1, 0) = << >> /\ DOMAIN << >> = {}
    OBVIOUS
  <2>2. {byte \in (DOMAIN << >>) \X (1 .. 4) : byte[2] =< << >>[byte[1]]} = {}
    BY <2>1
  <2>3. Bytes(SubSeq(name, 1, 0)) = 0
    BY <2>1, <2>2, FS_EmptySet DEF Bytes
  <2> QED BY <1>1, <2>3 DEF Fitting
<1>3. Fitting(name) \in SUBSET (0 .. Len(name))
  BY DEF Fitting
<1>4. \E n \in Fitting(name) : \A m \in Fitting(name) : m =< n
  BY <1>1, <1>2, <1>3, GreatestThere
<1>5. PICK n \in Fitting(name) :
        FitName(name) = SubSeq(name, 1, n) /\ \A m \in Fitting(name) : m =< n
  BY <1>4 DEF FitName
<1>6. n \in 0 .. Len(name)
  BY <1>5 DEF Fitting
<1>7. SubSeq(name, 1, n) \in Seq(1 .. 4) /\ Len(SubSeq(name, 1, n)) = n
  BY <1>1, <1>6, SubSeqProperties
<1> QED BY <1>5, <1>7

\* A name that was cut to the limits of a card is not cut again.
LEMMA CutTwice ==
  ASSUME NEW name \in Seq(1 .. 4)
  PROVE  LongestThatFits(FitName(FitName(name)), name)
<1>1. PICK n \in Fitting(name) :
        /\ FitName(name) = SubSeq(name, 1, n) /\ \A m \in Fitting(name) : m =< n
        /\ SubSeq(name, 1, n) \in Seq(1 .. 4) /\ Len(SubSeq(name, 1, n)) = n
  BY NamesFit
<1> DEFINE cut == SubSeq(name, 1, n)
<1>2. /\ n \in Nat /\ n =< Len(name) /\ Len(name) \in Nat
      /\ n =< MaxNameChars /\ Bytes(cut) =< MaxNameBytes
  BY LenProperties DEF Fitting
<1>3. cut \in Seq(1 .. 4) /\ Len(cut) = n
  BY <1>1
<1> HIDE DEF cut
<1>4. SubSeq(cut, 1, n) = cut
  <2>1. \A k \in 1 .. n : cut[k] \in 1 .. 4
    BY <1>3, ElementOfSeq
  <2>2. /\ SubSeq(cut, 1, n) \in Seq(1 .. 4)
        /\ Len(SubSeq(cut, 1, n)) = IF 1 <= n THEN n - 1 + 1 ELSE 0
        /\ \A k \in 1 .. n - 1 + 1 : SubSeq(cut, 1, n)[k] = cut[1 + k - 1]
    BY <1>2, <2>1, SubSeqProperties
  <2>3. Len(SubSeq(cut, 1, n)) = n /\ \A k \in 1 .. n : SubSeq(cut, 1, n)[k] = cut[k]
    BY <1>2, <2>2
  <2> QED BY <1>3, <2>2, <2>3, SeqEqual
<1>5. n \in Fitting(cut)
  <2>1. n \in 0 .. Len(cut)
    BY <1>2, <1>3
  <2>2. Bytes(SubSeq(cut, 1, n)) =< MaxNameBytes
    BY <1>2, <1>4
  <2> QED BY <1>2, <2>1, <2>2 DEF Fitting
<1>6. PICK k \in Fitting(cut) :
        FitName(cut) = SubSeq(cut, 1, k) /\ \A m \in Fitting(cut) : m =< k
  BY <1>3, NamesFit
<1>7. k = n
  <2>1. k \in 0 .. n /\ n =< k
    BY <1>3, <1>5, <1>6 DEF Fitting
  <2> QED BY <1>2, <2>1
<1>8. FitName(FitName(name)) = cut
  BY <1>1, <1>4, <1>6, <1>7 DEF cut
<1>9. \A m \in n + 1 .. Len(name) :
        m > MaxNameChars \/ Bytes(SubSeq(name, 1, m)) > MaxNameBytes
  <2> SUFFICES ASSUME NEW m \in n + 1 .. Len(name),
                      m =< MaxNameChars, ~(Bytes(SubSeq(name, 1, m)) > MaxNameBytes)
               PROVE  FALSE
    BY <1>2, CardAssumption
  <2>1. Bytes(SubSeq(name, 1, m)) \in Nat
    BY <1>2, BytesCount
  <2>2. m \in Fitting(name)
    BY <1>2, <2>1, CardAssumption DEF Fitting
  <2> QED BY <1>1, <1>2, <2>2
<1>10. cut = SubSeq(name, 1, n)
  BY DEF cut
<1> QED BY <1>2, <1>3, <1>8, <1>9, <1>10 DEF LongestThatFits

(***************************************************************************)
(* Cards.  A card that names the known mediator leaves it out.             *)
(***************************************************************************)
Made(m, p, i, package, ticket, name) ==
  [mediator |-> m, inbox |-> InboxKey(p, i), envelope |-> EnvelopeKey(p, i),
   package |-> package, ticket |-> ticket, name |-> name]

OnCard(m) == IF m = WellKnown THEN Absent ELSE m

LEMMA EncodeMade ==
  ASSUME NEW m, NEW p, NEW i, NEW package, NEW ticket, NEW name
  PROVE  Encode(Made(m, p, i, package, ticket, name))
           = Made(OnCard(m), p, i, package, ticket, FitName(name))
<1> DEFINE card == Made(m, p, i, package, ticket, name)
<1>1. card.mediator = m /\ card.name = name
  BY DEF Made
<1>2. Encode(card) = [card EXCEPT !.mediator = OnCard(m), !.name = FitName(name)]
  BY <1>1 DEF Encode, OnCard
<1> QED BY <1>2 DEF Made

LEMMA DecodeMade ==
  ASSUME NEW m \in Mediators, NEW p, NEW i, NEW package, NEW ticket, NEW name
  PROVE  Decode(Made(OnCard(m), p, i, package, ticket, name))
           = Made(m, p, i, package, ticket, FitName(name))
<1> DEFINE card == Made(OnCard(m), p, i, package, ticket, name)
<1>1. card.mediator = OnCard(m) /\ card.name = name
  BY DEF Made
<1>2. (IF OnCard(m) = Absent THEN WellKnown ELSE OnCard(m)) = m
  BY ContactsAssumption DEF OnCard
<1>3. Decode(card) = [card EXCEPT !.mediator = m, !.name = FitName(name)]
  BY <1>1, <1>2 DEF Decode
<1> QED BY <1>3 DEF Made

(***************************************************************************)
(* The invariant: what is out was made by whom it names, each card once.   *)
(***************************************************************************)
CardCode(c) ==
  \E p \in People : \E i \in DOMAIN cards[p] : \E package, ticket, name :
    c = [of |-> p, as |-> <<"card", i>>,
         code |-> Made(OnCard(cards[p][i]), p, i, package, ticket, name)]

HandleCode(c) ==
  \E p \in People : \E r \in 0 .. rotation[p] :
    c = [of |-> p, as |-> <<"handle", r>>, code |-> Mine(p, r)]

CodeSound(c) == CardCode(c) \/ HandleCode(c)

Payload(q, i, keyId, n) ==
  Made(OnCard(cards[q][i]), q, i, <<q, i>>, Ticket(keyId, PushKey(q), n), FitName(Name[q]))

PostSound(d) ==
  /\ CodeSound(d.answers)
  /\ d.mediator = Target(d.answers).mediator /\ d.box = Target(d.answers).box
  /\ d.mediator \in Urls /\ d.from \in People
  /\ \E i \in DOMAIN cards[d.from] : \E n, keyId :
       d.blob = Seal(Target(d.answers).key, "introduction", n, Payload(d.from, i, keyId, n))

ReadSound(r) ==
  /\ r.by = r.answers.of /\ r.from \in People
  /\ \E i \in DOMAIN cards[r.from] : \E n, keyId :
       r.card = Made(cards[r.from][i], r.from, i, <<r.from, i>>,
                     Ticket(keyId, PushKey(r.from), n), FitName(FitName(Name[r.from])))

Given == {c.code : c \in codes} \cup {d.blob.content.payload : d \in post}

TypeOK ==
  /\ rotation \in [People -> Nat]
  /\ cards \in [People -> Seq(Mediators)]

IInv ==
  /\ TypeOK
  /\ \A c \in codes : CardCode(c)
  /\ \A d \in post : PostSound(d)
  /\ \A r \in read : ReadSound(r)
  /\ \A x, y \in Given : x.inbox = y.inbox => x = y

LEMMA CardCodeIntro ==
  ASSUME NEW p \in People, NEW i \in DOMAIN cards[p], NEW package, NEW ticket, NEW name
  PROVE  CardCode([of |-> p, as |-> <<"card", i>>,
                   code |-> Made(OnCard(cards[p][i]), p, i, package, ticket, name)])
BY DEF CardCode

\* Where an answer goes to a card and to a handle.
LEMMA CardTarget ==
  ASSUME TypeOK, NEW p \in People, NEW i \in DOMAIN cards[p], NEW package, NEW ticket, NEW name,
         NEW c, c = [of |-> p, as |-> <<"card", i>>,
                     code |-> Made(OnCard(cards[p][i]), p, i, package, ticket, name)]
  PROVE  /\ c.of = p /\ c.as[1] = "card"
         /\ Target(c) = [mediator |-> cards[p][i], box |-> Id(InboxKey(p, i)),
                         key |-> EnvelopeKey(p, i)]
<1>1. cards[p][i] \in Mediators
  <2>1. cards[p] \in Seq(Mediators)
    BY DEF TypeOK
  <2> QED BY <2>1, ElementOfSeq
<1> DEFINE card == Made(cards[p][i], p, i, package, ticket, FitName(name))
<1>2. Decode(c.code) = card
  BY <1>1, DecodeMade
<1>3. c.of = p /\ c.as[1] = "card"
  OBVIOUS
<1>4. /\ card.mediator = cards[p][i] /\ card.inbox = InboxKey(p, i)
      /\ card.envelope = EnvelopeKey(p, i)
  BY DEF Made
<1> HIDE DEF card
<1> QED BY <1>2, <1>3, <1>4 DEF Target

LEMMA HandleTarget ==
  ASSUME NEW p, NEW r, NEW c, c = [of |-> p, as |-> <<"handle", r>>, code |-> Mine(p, r)]
  PROVE  /\ c.of = p /\ c.as[1] = "handle" /\ c.as[2] = r
         /\ Target(c) = [mediator |-> WellKnown, box |-> Id(HandleKey(p, r, 0)),
                         key |-> HandleKey(p, r, 1)]
BY DEF Target, Mine, KnockInboxId

(***************************************************************************)
(* Every step.                                                             *)
(***************************************************************************)

\* What was made stays where it is: cards are only added, rotations go on.
Goes ==
  /\ \A p \in People : \A i \in DOMAIN cards[p] :
       i \in DOMAIN cards'[p] /\ cards'[p][i] = cards[p][i]
  /\ \A p \in People : 0 .. rotation[p] \subseteq 0 .. rotation'[p]

LEMMA CodesStay ==
  ASSUME Goes, NEW c
  PROVE  (CardCode(c) => CardCode(c)') /\ (CodeSound(c) => CodeSound(c)')
BY DEF Goes, CardCode, HandleCode, CodeSound

LEMMA PostStays ==
  ASSUME Goes, NEW d, PostSound(d)
  PROVE  PostSound(d)'
<1>1. PICK i \in DOMAIN cards[d.from] : \E n, keyId :
        d.blob = Seal(Target(d.answers).key, "introduction", n, Payload(d.from, i, keyId, n))
  BY DEF PostSound
<1>2. i \in DOMAIN cards'[d.from]
  BY DEF Goes, PostSound
<1>3. \A n, keyId : Payload(d.from, i, keyId, n)' = Payload(d.from, i, keyId, n)
  BY DEF Goes, PostSound, Payload
<1> QED BY <1>1, <1>2, <1>3, CodesStay DEF PostSound

LEMMA ReadStays ==
  ASSUME Goes, NEW r, ReadSound(r)
  PROVE  ReadSound(r)'
BY DEF Goes, ReadSound

\* Any code there is to answer was made by whom it names.
LEMMA AnswerableSound ==
  ASSUME IInv, NEW q \in People, NEW code \in Answerable(q)
  PROVE  CodeSound(code)
<1>1. CASE code \in codes
  BY <1>1 DEF IInv, CodeSound
<1>2. CASE code \in Handles
  BY <1>2 DEF Handles, CodeSound, HandleCode
<1>3. ASSUME NEW r \in read,
             code = [of |-> r.from, as |-> <<"card", r.card.package[2]>>, code |-> Encode(r.card)]
      PROVE  CodeSound(code)
  <2>1. ReadSound(r)
    BY DEF IInv
  <2>2. PICK i \in DOMAIN cards[r.from] : \E ticket :
          r.card = Made(cards[r.from][i], r.from, i, <<r.from, i>>, ticket,
                        FitName(FitName(Name[r.from])))
    BY <2>1 DEF ReadSound
  <2>3. r.card.package[2] = i
    BY <2>2 DEF Made
  <2>4. \E ticket : Encode(r.card) = Made(OnCard(cards[r.from][i]), r.from, i, <<r.from, i>>,
                                          ticket, FitName(FitName(FitName(Name[r.from]))))
    BY <2>2, EncodeMade
  <2>5. r.from \in People
    BY <2>1 DEF ReadSound
  <2> QED BY <1>3, <2>3, <2>4, <2>5, CardCodeIntro DEF CodeSound
<1> QED BY <1>1, <1>2, <1>3 DEF Answerable

\* What is given carries the keys of a card of somebody's.
LEMMA GivenIsACard ==
  ASSUME IInv, NEW x \in Given
  PROVE  \E e \in People : \E j \in DOMAIN cards[e] :
           x.inbox = InboxKey(e, j) /\ x.envelope = EnvelopeKey(e, j)
<1>1. ASSUME NEW c \in codes, x = c.code
      PROVE  \E e \in People : \E j \in DOMAIN cards[e] :
               x.inbox = InboxKey(e, j) /\ x.envelope = EnvelopeKey(e, j)
  <2>1. CardCode(c)
    BY DEF IInv
  <2>2. PICK e \in People : \E j \in DOMAIN cards[e] : \E package, ticket, name :
          c = [of |-> e, as |-> <<"card", j>>,
               code |-> Made(OnCard(cards[e][j]), e, j, package, ticket, name)]
    BY <2>1 DEF CardCode
  <2>3. PICK j \in DOMAIN cards[e] : \E package, ticket, name :
          c = [of |-> e, as |-> <<"card", j>>,
               code |-> Made(OnCard(cards[e][j]), e, j, package, ticket, name)]
    BY <2>2
  <2>4. c.code.inbox = InboxKey(e, j) /\ c.code.envelope = EnvelopeKey(e, j)
    BY <2>3 DEF Made
  <2> QED BY <1>1, <2>4
<1>2. ASSUME NEW d \in post, x = d.blob.content.payload
      PROVE  \E e \in People : \E j \in DOMAIN cards[e] :
               x.inbox = InboxKey(e, j) /\ x.envelope = EnvelopeKey(e, j)
  <2>1. PostSound(d)
    BY DEF IInv
  <2>2. PICK j \in DOMAIN cards[d.from] : \E n, keyId :
          d.blob = Seal(Target(d.answers).key, "introduction", n, Payload(d.from, j, keyId, n))
    BY <2>1 DEF PostSound
  <2>3. /\ d.blob.content.payload.inbox = InboxKey(d.from, j)
        /\ d.blob.content.payload.envelope = EnvelopeKey(d.from, j)
    BY <2>2 DEF Seal, SealTo, Payload, Made
  <2> QED BY <1>2, <2>1, <2>3 DEF PostSound
<1> QED BY <1>1, <1>2 DEF Given

\* One more card of p: its number was nobody's before.
LEMMA CardIsNew ==
  ASSUME IInv, NEW p \in People, NEW mediator \in Mediators,
         cards' = [cards EXCEPT ![p] = Append(@, mediator)]
  PROVE  LET i == Len(cards[p]) + 1
         IN  /\ i \in DOMAIN cards'[p] /\ cards'[p][i] = mediator
             /\ cards' \in [People -> Seq(Mediators)]
             /\ \A e \in People : \A j \in DOMAIN cards[e] :
                  j \in DOMAIN cards'[e] /\ cards'[e][j] = cards[e][j]
             /\ \A x \in Given : x.inbox # InboxKey(p, i)
<1> DEFINE i == Len(cards[p]) + 1
<1>1. cards \in [People -> Seq(Mediators)] /\ cards[p] \in Seq(Mediators) /\ Len(cards[p]) \in Nat
  BY DEF IInv, TypeOK
<1>2. cards'[p] = Append(cards[p], mediator) /\ \A e \in People \ {p} : cards'[e] = cards[e]
  BY <1>1
<1>3. cards'[p] \in Seq(Mediators) /\ i \in DOMAIN cards'[p] /\ cards'[p][i] = mediator
  BY <1>1, <1>2
<1>4. \A j \in DOMAIN cards[p] : j \in DOMAIN cards'[p] /\ cards'[p][j] = cards[p][j]
  BY <1>1, <1>2
<1>5. i \notin DOMAIN cards[p]
  BY <1>1
<1> HIDE DEF i
<1>6. ASSUME NEW x \in Given, x.inbox = InboxKey(p, i) PROVE FALSE
  <2>1. PICK e \in People : \E j \in DOMAIN cards[e] : InboxKey(e, j) = InboxKey(p, i)
    BY <1>6, GivenIsACard
  <2>2. e = p /\ i \in DOMAIN cards[e]
    BY <2>1, ContactKeys
  <2> QED BY <1>5, <2>2
<1> QED BY <1>1, <1>2, <1>3, <1>4, <1>6 DEF i

\* What is there stays sound.
LEMMA AllStay ==
  ASSUME IInv, Goes
  PROVE  /\ \A c \in codes : CardCode(c)'
         /\ \A d \in post : PostSound(d)'
         /\ \A r \in read : ReadSound(r)'
<1>1. \A c \in codes : CardCode(c)'
  BY CodesStay DEF IInv
<1>2. \A d \in post : PostSound(d)'
  BY PostStays DEF IInv
<1>3. \A r \in read : ReadSound(r)'
  BY ReadStays DEF IInv
<1> QED BY <1>1, <1>2, <1>3

LEMMA InitSound ==
  ASSUME Init
  PROVE  IInv
<1>1. TypeOK
  BY DEF Init, TypeOK
<1>2. Given = {}
  BY DEF Init, Given
<1> QED BY <1>1, <1>2 DEF Init, IInv

LEMMA RotateKeeps ==
  ASSUME IInv, NEW p \in People, RotateHandle(p)
  PROVE  IInv'
<1>1. rotation' \in [People -> Nat] /\ \A e \in People : 0 .. rotation[e] \subseteq 0 .. rotation'[e]
  BY DEF IInv, TypeOK, RotateHandle
<1>2. cards' = cards /\ codes' = codes /\ post' = post /\ read' = read
  BY DEF RotateHandle
<1>3. Goes
  BY <1>1, <1>2 DEF Goes
<1>4. TypeOK'
  BY <1>1, <1>2 DEF IInv, TypeOK
<1>5. Given' = Given
  BY <1>2 DEF Given
<1> QED BY <1>2, <1>3, <1>4, <1>5, AllStay DEF IInv

LEMMA ShowKeeps ==
  ASSUME IInv, NEW p \in People, NEW mediator \in Mediators, ShowCard(p, mediator)
  PROVE  IInv'
<1>i. PICK i : i = Len(cards[p]) + 1
  OBVIOUS
<1>c. PICK code : code = Made(OnCard(mediator), p, i, Absent, Absent, FitName(Name[p]))
  OBVIOUS
<1>s. PICK shown : shown = [of |-> p, as |-> <<"card", i>>, code |-> code]
  OBVIOUS
<1>1. /\ cards' = [cards EXCEPT ![p] = Append(@, mediator)]
      /\ rotation' = rotation /\ post' = post /\ read' = read
  BY DEF ShowCard
<1>2. Encode(Invitation(p, i, mediator, Absent, Absent)) = code
  BY <1>c, EncodeMade DEF Invitation, Made
<1>3. codes' = codes \cup {shown}
  BY <1>i, <1>s, <1>2 DEF ShowCard
<1>4. /\ i \in DOMAIN cards'[p] /\ cards'[p][i] = mediator
      /\ cards' \in [People -> Seq(Mediators)]
      /\ \A e \in People : \A j \in DOMAIN cards[e] :
           j \in DOMAIN cards'[e] /\ cards'[e][j] = cards[e][j]
      /\ \A x \in Given : x.inbox # InboxKey(p, i)
  BY <1>i, <1>1, CardIsNew
<1>6. Goes
  BY <1>1, <1>4 DEF Goes
<1>7. TypeOK'
  BY <1>1, <1>4 DEF IInv, TypeOK
<1>8. code.inbox = InboxKey(p, i)
  BY <1>c DEF Made
<1>9. CardCode(shown)'
  BY <1>c, <1>s, <1>4 DEF CardCode
<1>10. shown.code = code
  BY <1>s
<1>11. Given' = Given \cup {code}
  BY <1>1, <1>3, <1>10 DEF Given
<1>12. \A x, y \in Given' : x.inbox = y.inbox => x = y
  BY <1>4, <1>8, <1>11 DEF IInv
<1>13. \A c \in codes' : CardCode(c)'
  BY <1>3, <1>6, <1>9, AllStay
<1> QED BY <1>1, <1>6, <1>7, <1>12, <1>13, AllStay DEF IInv

LEMMA IntroduceKeeps ==
  ASSUME IInv, NEW q \in People, NEW mediator \in Mediators, NEW keyId,
         NEW code \in Answerable(q), Introduce(q, code, mediator, keyId)
  PROVE  IInv'
<1>i. PICK i : i = Len(cards[q]) + 1
  OBVIOUS
<1>n. PICK n : n = Cardinality(post) + 1
  OBVIOUS
<1>t. PICK ticket : ticket = Ticket(keyId, PushKey(q), n)
  OBVIOUS
<1>c. PICK card : card = Made(OnCard(mediator), q, i, <<q, i>>, ticket, FitName(Name[q]))
  OBVIOUS
<1>b. PICK blob : blob = Seal(Target(code).key, "introduction", n, card)
  OBVIOUS
<1>s. PICK sent : sent = [mediator |-> Target(code).mediator, box |-> Target(code).box,
                          from |-> q, answers |-> code, blob |-> blob]
  OBVIOUS
<1>1. /\ cards' = [cards EXCEPT ![q] = Append(@, mediator)]
      /\ rotation' = rotation /\ codes' = codes /\ read' = read
  BY DEF Introduce
<1>2. Encode(Invitation(q, i, mediator, <<q, i>>, ticket)) = card
  BY <1>c, EncodeMade DEF Invitation, Made
<1>3. post' = post \cup {sent}
  BY <1>i, <1>n, <1>t, <1>b, <1>s, <1>2 DEF Introduce
<1>4. /\ i \in DOMAIN cards'[q] /\ cards'[q][i] = mediator
      /\ cards' \in [People -> Seq(Mediators)]
      /\ \A e \in People : \A j \in DOMAIN cards[e] :
           j \in DOMAIN cards'[e] /\ cards'[e][j] = cards[e][j]
      /\ \A x \in Given : x.inbox # InboxKey(q, i)
  BY <1>i, <1>1, CardIsNew
<1>5. /\ sent.mediator = Target(code).mediator /\ sent.box = Target(code).box
      /\ sent.from = q /\ sent.answers = code /\ sent.blob = blob
      /\ blob.content.payload = card
  BY <1>b, <1>s DEF Seal, SealTo
<1>6. card.inbox = InboxKey(q, i)
  BY <1>c DEF Made
<1>7. card = Payload(q, i, keyId, n)'
  BY <1>c, <1>t, <1>4 DEF Payload
<1>8. Goes
  BY <1>1, <1>4 DEF Goes
<1>9. TypeOK'
  BY <1>1, <1>4 DEF IInv, TypeOK
<1>10. CodeSound(code) /\ CodeSound(code)'
  BY <1>8, AnswerableSound, CodesStay
<1>11. Target(code).mediator \in Urls
  <2>1. CASE code.as[1] = "handle"
    BY <2>1, CardAssumption DEF Target
  <2>2. CASE code.as[1] = "card"
    BY <2>2 DEF Target, Introduce, Decodes
  <2>3. code.as[1] \in {"handle", "card"}
    BY <1>10 DEF CodeSound, CardCode, HandleCode
  <2> QED BY <2>1, <2>2, <2>3
<1>12. PostSound(sent)'
  <2>1. sent.blob = Seal(Target(sent.answers).key, "introduction", n, Payload(q, i, keyId, n)')
    BY <1>b, <1>5, <1>7
  <2> QED BY <1>4, <1>5, <1>10, <1>11, <2>1 DEF PostSound
<1>13. \A d \in post' : PostSound(d)'
  BY <1>3, <1>8, <1>12, AllStay
<1>14. Given' = Given \cup {card}
  BY <1>1, <1>3, <1>5 DEF Given
<1>15. \A x, y \in Given' : x.inbox = y.inbox => x = y
  BY <1>4, <1>6, <1>14 DEF IInv
<1> QED BY <1>1, <1>8, <1>9, <1>13, <1>15, AllStay DEF IInv

\* How an introduction was sealed.
LEMMA SealedAs ==
  ASSUME IInv, NEW d \in post
  PROVE  /\ d.blob.to = Target(d.answers).key /\ d.blob.info = "chat/envelope"
         /\ CodeSound(d.answers) /\ d.from \in People
         /\ \E i \in DOMAIN cards[d.from] : \E n, keyId :
              d.blob.content.payload = Payload(d.from, i, keyId, n)
<1>1. PostSound(d)
  BY DEF IInv
<1>2. PICK i \in DOMAIN cards[d.from] : \E n, keyId :
        d.blob = Seal(Target(d.answers).key, "introduction", n, Payload(d.from, i, keyId, n))
  BY <1>1 DEF PostSound
<1> QED BY <1>1, <1>2 DEF PostSound, Seal, SealTo

\* What opens at a person's was sealed to a code of theirs.
LEMMA OpenedByItsOwner ==
  ASSUME IInv, NEW c, CodeSound(c), NEW p \in People, NEW box \in Boxes(p),
         box.key = Target(c).key
  PROVE  p = c.of
<1>1. \/ \E i \in DOMAIN cards[p] : box.key = EnvelopeKey(p, i)
      \/ box.key = HandleKey(p, rotation[p], 1)
  BY DEF Boxes
<1>2. box.key[1] = p
  BY <1>1, ContactKeys, HandleKeys
<1>3. CASE CardCode(c)
  <2>1. PICK e \in People : \E i \in DOMAIN cards[e] : \E package, ticket, name :
          c = [of |-> e, as |-> <<"card", i>>,
               code |-> Made(OnCard(cards[e][i]), e, i, package, ticket, name)]
    BY <1>3 DEF CardCode
  <2>2. c.of = e /\ \E i \in DOMAIN cards[e] : Target(c).key = EnvelopeKey(e, i)
    BY <2>1, CardTarget DEF IInv
  <2> QED BY <1>2, <2>2, ContactKeys
<1>4. CASE HandleCode(c)
  <2>1. PICK e \in People : \E r \in 0 .. rotation[e] :
          c = [of |-> e, as |-> <<"handle", r>>, code |-> Mine(e, r)]
    BY <1>4 DEF HandleCode
  <2> QED BY <1>2, <2>1, HandleTarget, HandleKeys
<1> QED BY <1>3, <1>4 DEF CodeSound

LEMMA CollectKeeps ==
  ASSUME IInv, NEW p \in People, NEW d \in post, Collect(p, d)
  PROVE  IInv'
<1>1. /\ cards' = cards /\ rotation' = rotation /\ codes' = codes /\ post' = post
      /\ \E box \in Boxes(p) : Opens(box.key, d.blob)
  BY DEF Collect, addressVars
<1>2. PICK got : got = [by |-> p, from |-> d.from, answers |-> d.answers,
                        card |-> Decode(d.blob.content.payload)]
  OBVIOUS
<1>3. read' = read \cup {got}
  BY <1>2 DEF Collect
<1>4. Goes
  BY <1>1 DEF Goes
<1>5. p = d.answers.of
  BY <1>1, SealedAs, OpenedByItsOwner DEF Opens, OpensFrom
<1>6. d.from \in People
  BY SealedAs
<1>7. PICK i \in DOMAIN cards[d.from] : \E n, keyId :
        d.blob.content.payload = Payload(d.from, i, keyId, n)
  BY SealedAs
<1>8. cards[d.from][i] \in Mediators
  <2>1. cards[d.from] \in Seq(Mediators)
    BY <1>6 DEF IInv, TypeOK
  <2> QED BY <1>7, <2>1, ElementOfSeq
<1>9. \E n, keyId : Decode(d.blob.content.payload)
         = Made(cards[d.from][i], d.from, i, <<d.from, i>>, Ticket(keyId, PushKey(d.from), n),
                FitName(FitName(Name[d.from])))
  BY <1>7, <1>8, DecodeMade DEF Payload
<1>10. ReadSound(got)
  BY <1>2, <1>5, <1>6, <1>7, <1>9 DEF ReadSound
<1>11. ReadSound(got)'
  BY <1>4, <1>10, ReadStays
<1>12. \A r \in read' : ReadSound(r)'
  BY <1>3, <1>4, <1>11, AllStay
<1>13. Given' = Given /\ TypeOK'
  BY <1>1 DEF Given, IInv, TypeOK
<1> QED BY <1>1, <1>4, <1>12, <1>13, AllStay DEF IInv

LEMMA StepKeeps == IInv /\ [Next]_vars => IInv'
<1> SUFFICES ASSUME IInv, [Next]_vars PROVE IInv'
  OBVIOUS
<1>1. CASE \E p \in People : RotateHandle(p)
  BY <1>1, RotateKeeps
<1>2. CASE \E p \in People, mediator \in Mediators : ShowCard(p, mediator)
  BY <1>2, ShowKeeps
<1>3. CASE \E q \in People, mediator \in Mediators, keyId \in KeyIds :
             \E code \in Answerable(q) : Introduce(q, code, mediator, keyId)
  BY <1>3, IntroduceKeeps
<1>4. CASE \E p \in People, d \in post : Collect(p, d)
  BY <1>4, CollectKeeps
<1>5. CASE UNCHANGED vars
  <2>1. Goes /\ UNCHANGED <<rotation, cards, codes, post, read>>
    BY <1>5 DEF vars, addressVars, Goes
  <2>2. Given' = Given /\ TypeOK'
    BY <2>1 DEF Given, IInv, TypeOK
  <2> QED BY <2>1, <2>2, AllStay DEF IInv
<1> QED BY <1>1, <1>2, <1>3, <1>4, <1>5 DEF Next

LEMMA Sound == Spec => []IInv
<1>1. Init => IInv
  BY InitSound
<1> QED BY <1>1, StepKeeps, PTL DEF Spec


(***************************************************************************)
(* Theorems.                                                               *)
(***************************************************************************)
LEMMA Arrives == IInv => AnswersArrive
<1> SUFFICES ASSUME IInv, NEW d \in post
             PROVE  LET of == d.answers.of
                        looked == {box \in Boxes(of) : box.mediator = d.mediator /\ box.box = d.box}
                        opening == {box \in Boxes(of) : Opens(box.key, d.blob)}
                        shed == d.answers.as[1] = "handle" /\ d.answers.as[2] # rotation[of]
                    IN  /\ d.mediator \in Urls
                        /\ IF shed THEN looked \cup opening = {} ELSE looked \cap opening # {}
  BY DEF AnswersArrive
<1> DEFINE of == d.answers.of
           looked == {box \in Boxes(of) : box.mediator = d.mediator /\ box.box = d.box}
           opening == {box \in Boxes(of) : Opens(box.key, d.blob)}
           shed == d.answers.as[1] = "handle" /\ d.answers.as[2] # rotation[of]
<1>1. /\ d.mediator = Target(d.answers).mediator /\ d.box = Target(d.answers).box
      /\ d.mediator \in Urls
  BY DEF IInv, PostSound
<1>2. d.blob.to = Target(d.answers).key /\ d.blob.info = "chat/envelope" /\ CodeSound(d.answers)
  BY SealedAs
<1>3. CASE CardCode(d.answers)
  <2>1. PICK p \in People : \E i \in DOMAIN cards[p] : \E package, ticket, name :
          d.answers = [of |-> p, as |-> <<"card", i>>,
                       code |-> Made(OnCard(cards[p][i]), p, i, package, ticket, name)]
    BY <1>3 DEF CardCode
  <2>2. PICK i \in DOMAIN cards[p] :
          /\ of = p /\ d.answers.as[1] = "card"
          /\ Target(d.answers) = [mediator |-> cards[p][i], box |-> Id(InboxKey(p, i)),
                                  key |-> EnvelopeKey(p, i)]
    BY <2>1, CardTarget DEF IInv
  <2>3. Target(d.answers) \in Boxes(p)
    BY <2>2 DEF Boxes
  <2>4. Target(d.answers) \in looked \cap opening
    BY <1>1, <1>2, <2>2, <2>3 DEF Opens, OpensFrom
  <2> QED BY <1>1, <2>2, <2>4
<1>4. CASE HandleCode(d.answers)
  <2>1. PICK p \in People : \E r \in 0 .. rotation[p] :
          d.answers = [of |-> p, as |-> <<"handle", r>>, code |-> Mine(p, r)]
    BY <1>4 DEF HandleCode
  <2>2. PICK r \in 0 .. rotation[p] :
          /\ of = p /\ d.answers.as[1] = "handle" /\ d.answers.as[2] = r
          /\ Target(d.answers) = [mediator |-> WellKnown, box |-> Id(HandleKey(p, r, 0)),
                                  key |-> HandleKey(p, r, 1)]
    BY <2>1, HandleTarget
  <2>3. CASE r = rotation[p]
    <3>1. Target(d.answers) \in Boxes(p)
      BY <2>2, <2>3 DEF Boxes
    <3>2. Target(d.answers) \in looked \cap opening
      BY <1>1, <1>2, <2>2, <3>1 DEF Opens, OpensFrom
    <3> QED BY <1>1, <2>2, <2>3, <3>2
  <2>4. CASE r # rotation[p]
    <3>1. ASSUME NEW box \in Boxes(p),
                 box.box = Id(HandleKey(p, r, 0)) \/ box.key = HandleKey(p, r, 1)
          PROVE  FALSE
      <4>1. CASE \E i \in DOMAIN cards[p] :
                   box.box = Id(InboxKey(p, i)) /\ box.key = EnvelopeKey(p, i)
        BY <3>1, <4>1, IdsDiffer, ContactKeys, HandleKeys
      <4>2. CASE /\ box.box = Id(HandleKey(p, rotation[p], 0))
                 /\ box.key = HandleKey(p, rotation[p], 1)
        BY <2>4, <3>1, <4>2, IdsDiffer, HandleKeys
      <4> QED BY <4>1, <4>2 DEF Boxes
    <3>2. looked = {} /\ opening = {}
      BY <1>1, <1>2, <2>2, <3>1 DEF Opens, OpensFrom
    <3> QED BY <1>1, <2>2, <2>4, <3>2
  <2> QED BY <2>3, <2>4
<1> QED BY <1>1, <1>2, <1>3, <1>4 DEF CodeSound

\* Whatever mediators and handles people have changed to since, what was
\* sealed to a code is found and opened by whom the code names, and what was
\* sealed to a handle that was rotated away is neither: handle.rs, inbox.rs.
THEOREM AnswersAreFound == Spec => []AnswersArrive
<1> QED BY Sound, Arrives, PTL

\* A card made with a url decodes.
LEMMA UrlsDecode ==
  ASSUME IInv, NEW c \in codes, cards[c.of][c.as[2]] \in Urls
  PROVE  Decodes(c.code)
<1>1. PICK p \in People : \E i \in DOMAIN cards[p] : \E package, ticket, name :
        c = [of |-> p, as |-> <<"card", i>>,
             code |-> Made(OnCard(cards[p][i]), p, i, package, ticket, name)]
  BY DEF IInv, CardCode
<1>2. PICK i \in DOMAIN cards[p] : \E package, ticket, name :
        c = [of |-> p, as |-> <<"card", i>>,
             code |-> Made(OnCard(cards[p][i]), p, i, package, ticket, name)]
  BY <1>1
<1>3. cards[p][i] \in Mediators /\ cards[p][i] \in Urls
  <2>1. cards[p] \in Seq(Mediators)
    BY DEF IInv, TypeOK
  <2> QED BY <1>2, <2>1, ElementOfSeq
<1>4. \E package, ticket, name : Decode(c.code) = Made(cards[p][i], p, i, package, ticket, name)
  BY <1>2, <1>3, DecodeMade
<1>5. Decode(c.code).mediator = cards[p][i]
  BY <1>4 DEF Made
<1> QED BY <1>3, <1>5 DEF Decodes

LEMMA ReadAsMade ==
  ASSUME IInv, NEW r \in read
  PROVE  /\ r.by = r.answers.of
         /\ \E i \in DOMAIN cards[r.from] :
              /\ r.card = [Invitation(r.from, i, cards[r.from][i], <<r.from, i>>, r.card.ticket)
                             EXCEPT !.name = r.card.name]
              /\ [mediator |-> r.card.mediator, box |-> Id(r.card.inbox),
                  key |-> r.card.envelope] \in Boxes(r.from)
         /\ OpenTicket(TicketKeyId(r.card.ticket), r.card.ticket) = Id(PushKey(r.from))
         /\ LongestThatFits(r.card.name, Name[r.from])
<1>1. ReadSound(r)
  BY DEF IInv
<1>2. r.by = r.answers.of /\ r.from \in People
  BY <1>1 DEF ReadSound
<1>3. PICK i \in DOMAIN cards[r.from] : \E n, keyId :
        r.card = Made(cards[r.from][i], r.from, i, <<r.from, i>>,
                      Ticket(keyId, PushKey(r.from), n), FitName(FitName(Name[r.from])))
  BY <1>1 DEF ReadSound
<1>4. PICK n, keyId :
        r.card = Made(cards[r.from][i], r.from, i, <<r.from, i>>,
                      Ticket(keyId, PushKey(r.from), n), FitName(FitName(Name[r.from])))
  BY <1>3
<1>5. /\ r.card.mediator = cards[r.from][i] /\ r.card.inbox = InboxKey(r.from, i)
      /\ r.card.envelope = EnvelopeKey(r.from, i) /\ r.card.name = FitName(FitName(Name[r.from]))
      /\ r.card.ticket = Ticket(keyId, PushKey(r.from), n)
  BY <1>4 DEF Made
<1>6. [mediator |-> r.card.mediator, box |-> Id(r.card.inbox), key |-> r.card.envelope]
        \in Boxes(r.from)
  BY <1>5 DEF Boxes
<1>7. r.card = [Invitation(r.from, i, cards[r.from][i], <<r.from, i>>, r.card.ticket)
                  EXCEPT !.name = r.card.name]
  BY <1>4 DEF Made, Invitation
<1>8. OpenTicket(TicketKeyId(r.card.ticket), r.card.ticket) = Id(PushKey(r.from))
  BY <1>5 DEF OpenTicket, TicketKeyId, Ticket, SealTo, OpensFrom
<1>9. LongestThatFits(r.card.name, Name[r.from])
  <2>1. Name[r.from] \in Seq(1 .. 4)
    BY <1>2, ContactsAssumption
  <2> QED BY <1>5, <2>1, CutTwice
<1> QED BY <1>2, <1>6, <1>7, <1>8, <1>9

\* An introduction is read by whom it answers and by nobody else, and its
\* card leads back to a box its sender collects from, with what the sender put
\* in it, for any names, known mediator and bounds on names: invitation.rs,
\* envelope.rs, push.rs.
THEOREM CardsLeadBack == Spec => []ReadAsWritten
<1>1. IInv => ReadAsWritten
  BY UrlsDecode, ReadAsMade DEF ReadAsWritten
<1> QED BY <1>1, Sound, PTL

\* The keys in a code are those of one card or of one handle.
LEMMA GivenOrHandle ==
  ASSUME IInv, NEW x \in {c.code : c \in codes \cup Handles} \cup {d.blob.content.payload : d \in post}
  PROVE  \/ x \in Given
         \/ \E p \in People : \E r \in 0 .. rotation[p] : x = Mine(p, r)
BY DEF Given, Handles

LEMMA HandleHas ==
  ASSUME NEW p, NEW r
  PROVE  /\ Mine(p, r).inbox = <<p, "chat/handle", <<r, 0>>>>
         /\ Mine(p, r).envelope = <<p, "chat/handle", <<r, 1>>>>
BY HandleKeys DEF Mine

LEMMA KeysApart == IInv => EachKeyServesOnce
<1> SUFFICES ASSUME IInv PROVE EachKeyServesOnce
  OBVIOUS
<1> DEFINE given == {c.code : c \in codes \cup Handles} \cup {d.blob.content.payload : d \in post}
           OfCard(x) == \E p \in People : \E i \in DOMAIN cards[p] :
                          x.inbox = <<p, "chat/inbox", <<i>>>> /\ x.envelope = <<p, "chat/envelope", <<i>>>>
           OfHandle(x) == \E p \in People : \E r \in 0 .. rotation[p] :
                            /\ x = Mine(p, r)
                            /\ x.inbox = <<p, "chat/handle", <<r, 0>>>>
                            /\ x.envelope = <<p, "chat/handle", <<r, 1>>>>
<1>1. \A x \in given : (x \in Given /\ OfCard(x)) \/ OfHandle(x)
  BY GivenOrHandle, GivenIsACard, ContactKeys, HandleHas
<1>2. \A x, y \in Given : x.inbox = y.inbox => x = y
  BY DEF IInv
<1> HIDE DEF given
<1>3. ASSUME NEW c \in given, NEW e \in given, c # e
      PROVE  {c.inbox, c.envelope} \cap {e.inbox, e.envelope} = {}
  <2>1. CASE c \in Given /\ OfCard(c) /\ e \in Given /\ OfCard(e)
    <3>1. c.inbox # e.inbox
      BY <1>2, <1>3, <2>1
    <3>2. PICK p \in People : \E i \in DOMAIN cards[p] :
            c.inbox = <<p, "chat/inbox", <<i>>>> /\ c.envelope = <<p, "chat/envelope", <<i>>>>
      BY <2>1
    <3>3. PICK q \in People : \E i \in DOMAIN cards[q] :
            e.inbox = <<q, "chat/inbox", <<i>>>> /\ e.envelope = <<q, "chat/envelope", <<i>>>>
      BY <2>1
    <3> QED BY <3>1, <3>2, <3>3
  <2>2. CASE OfCard(c) /\ OfHandle(e)
    BY <2>2
  <2>3. CASE OfHandle(c) /\ OfCard(e)
    BY <2>3
  <2>4. CASE OfHandle(c) /\ OfHandle(e)
    <3>1. PICK p \in People : \E r \in 0 .. rotation[p] :
            /\ c = Mine(p, r) /\ c.inbox = <<p, "chat/handle", <<r, 0>>>>
            /\ c.envelope = <<p, "chat/handle", <<r, 1>>>>
      BY <2>4
    <3>2. PICK q \in People : \E r \in 0 .. rotation[q] :
            /\ e = Mine(q, r) /\ e.inbox = <<q, "chat/handle", <<r, 0>>>>
            /\ e.envelope = <<q, "chat/handle", <<r, 1>>>>
      BY <2>4
    <3> QED BY <1>3, <3>1, <3>2
  <2> QED BY <1>1, <2>1, <2>2, <2>3, <2>4
<1>4. \A c \in given : c.inbox # c.envelope
  BY <1>1
<1>5. ASSUME NEW c \in given, NEW p \in People
      PROVE  {c.inbox, c.envelope} \cap Unpublished(p) = {}
  <2>1. {c.inbox[2], c.envelope[2]} \subseteq {"chat/inbox", "chat/envelope", "chat/handle"}
    BY <1>1
  <2>2. \A key \in Unpublished(p) : key[2] \in {"chat/account", "chat/group", "push", "chat/room",
                                                "chat/room-envelope"}
    BY OtherKeys DEF Unpublished
  <2> QED BY <2>1, <2>2
<1> QED BY <1>3, <1>4, <1>5 DEF EachKeyServesOnce, given

\* No two codes or introductions that are out share a key, with each other or
\* with what names their owner: the labels of inbox.rs, envelope.rs, handle.rs
\* and push.rs, for any numbers of people, cards, rotations and rooms.
THEOREM KeysServeOnce == Spec => []EachKeyServesOnce
<1> QED BY Sound, KeysApart, PTL
=============================================================================
