------------------------------ MODULE Oid4vci -------------------------------
(***************************************************************************)
(* Claiming a credential, the pre-authorized flow of src/protocol/mod.rs:  *)
(* the offer in a QR code, the token, the holder's proof.  An offer is the *)
(* record [issuer, code, txCode] and its JSON a sequence of bytes; the     *)
(* name of a query parameter is one symbol, no byte.                       *)
(***************************************************************************)
EXTENDS Integers, Sequences, SequencesExt

CONSTANTS Json,          \* the JSON text of each offer
          Absent         \* an optional member that is left out

Byte == 0 .. 255

\* Every byte is in a character of up to four: a first byte and those it says
\* follow.  Characters written longer than they need be are not told apart.
Follow(b) ==
  CASE b < 128 -> 0 [] b \in 194 .. 223 -> 1 [] b \in 224 .. 239 -> 2
    [] b \in 240 .. 244 -> 3 [] OTHER -> -1

IsUtf8(text) ==
  \A n \in DOMAIN text : \E first \in DOMAIN text :
    LET last == first + Follow(text[first])
    IN  /\ n \in first .. last /\ last \in DOMAIN text
        /\ \A k \in first + 1 .. last : text[k] \in 128 .. 191

\* An offer is read back from its JSON as it was written.
ASSUME JsonAssumption ==
  \A o, q \in DOMAIN Json :
    Json[o] \in Seq(Byte) /\ IsUtf8(Json[o]) /\ (Json[o] = Json[q] => o = q)

Percent == 37
Plus == 43
Space == 32
Ampersand == 38
Equals == 61
CredentialOffer == 300
CredentialOfferUri == 301
BadEscape == 256         \* percent_decode gave up here: no byte of a text

(***************************************************************************)
(* percent_encode and percent_decode.                                      *)
(***************************************************************************)
Digits == 48 .. 57
Unreserved == Digits \cup 65 .. 90 \cup 97 .. 122 \cup {45, 46, 95, 126}

HexDigit(n) == IF n < 10 THEN 48 + n ELSE 55 + n

IsHexDigit(b) == b \in Digits \cup 65 .. 70 \cup 97 .. 102

HexValue(b) ==
  CASE b \in Digits     -> b - 48
    [] b \in 65 .. 70   -> b - 55
    [] b \in 97 .. 102  -> b - 87

\* Mutant of Escaped: a space is sent as a plus and a plus as itself.
EscapedForm(b) ==
  IF b \in Unreserved \cup {Plus} THEN <<b>>
  ELSE IF b = Space THEN <<Plus>>
  ELSE <<Percent, HexDigit(b \div 16), HexDigit(b % 16)>>

Escaped(b) ==
  IF b \in Unreserved THEN <<b>>
  ELSE <<Percent, HexDigit(b \div 16), HexDigit(b % 16)>>

PercentEncode(text) == FlattenSeq([n \in DOMAIN text |-> Escaped(text[n])])

PercentDecode(text) ==
  LET From[n \in 1 .. Len(text) + 1] ==
        IF n > Len(text) THEN << >>
        ELSE IF text[n] = Percent
             THEN IF n + 2 > Len(text) \/ ~IsHexDigit(text[n + 1]) \/ ~IsHexDigit(text[n + 2])
                  THEN <<BadEscape>>
                  ELSE <<16 * HexValue(text[n + 1]) + HexValue(text[n + 2])>> \o From[n + 3]
             ELSE <<IF text[n] = Plus THEN Space ELSE text[n]>> \o From[n + 1]
  IN  From[1]

(***************************************************************************)
(* to_offer_uri and parse_offer.  What follows the scheme is a query, and  *)
(* of its pairs the first that carries an offer or points at one counts.   *)
(***************************************************************************)
ToOfferUri(offer) == <<CredentialOffer, Equals>> \o PercentEncode(Json[offer])

OfferByReference(url) == <<CredentialOfferUri, Equals>> \o PercentEncode(url)

PairAt(query, n) ==
  LET last == CHOOSE k \in n - 1 .. Len(query) :
                /\ k = Len(query) \/ query[k + 1] = Ampersand
                /\ \A m \in n .. k : query[m] # Ampersand
  IN  SubSeq(query, n, last)

CarriesOffer(pair) ==
  /\ Len(pair) >= 2
  /\ pair[1] \in {CredentialOffer, CredentialOfferUri}
  /\ pair[2] = Equals

\* [kind, text]: the JSON, or the URL it is to be fetched from.
ParseOffer(query) ==
  LET starts == {n \in 1 .. Len(query) :
                   /\ n = 1 \/ query[n - 1] = Ampersand
                   /\ CarriesOffer(PairAt(query, n))}
      first == PairAt(query, CHOOSE n \in starts : \A m \in starts : n =< m)
      text == PercentDecode(SubSeq(first, 3, Len(first)))
  IN  IF starts = {} \/ ~IsUtf8(text)
      THEN [kind |-> "error", text |-> << >>]
      ELSE [kind |-> IF first[1] = CredentialOffer THEN "value" ELSE "reference",
            text |-> text]

\* CredentialOffer, from the JSON of a QR code or of the page it points at.
IsOffer(text) == \E offer \in DOMAIN Json : Json[offer] = text
OfferOf(text) == CHOOSE offer \in DOMAIN Json : Json[offer] = text

\* CredentialOffer::pre_authorized_code, TokenRequest::pre_authorized: the
\* holder types a transaction code where the offer says it takes one.
PreAuthorizedCode(offer) == offer.code

PreAuthorized(offer) ==
  [grantType |-> "pre-authorized_code", code |-> PreAuthorizedCode(offer),
   txCode |-> IF offer.txCode THEN "typed" ELSE Absent]

(***************************************************************************)
(* The holder's proof: a header with the key it is signed with and the     *)
(* claims.  Decoding it verifies nothing.                                  *)
(***************************************************************************)
Es256Jwk(jwk) == [typ |-> "openid4vci-proof+jwt", jwk |-> jwk]

BuildProofJwt(header, claims, holderKey) ==
  [header |-> header, claims |-> claims, signedBy |-> holderKey]

HolderProofBound(issuer, cNonce, cb, holderKey) ==
  BuildProofJwt(Es256Jwk(holderKey),
                [aud |-> issuer, nonce |-> cNonce, cb |-> cb], holderKey)

HolderProof(issuer, cNonce, holderKey) ==
  HolderProofBound(issuer, cNonce, Absent, holderKey)

DecodeProofJwt(proof) == <<proof.header, proof.claims>>
=============================================================================
