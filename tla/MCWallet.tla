----------------------------- MODULE MCWallet ------------------------------
(***************************************************************************)
(* Wallet with two issuers on one host: a bank, pinned, whose document is  *)
(* also served with another's key in it, and a shop nobody pinned, which   *)
(* may be handed the bank's nonces and pass them on.                       *)
(***************************************************************************)
EXTENDS Wallet, TLC

Bank == [host |-> "vaulet.example", path |-> <<"bank">>]
Shop == [host |-> "vaulet.example", path |-> << >>]

MCIssuers == {Bank, Shop}
MCRelays == {Shop}
MCPins == Bank :> {Key(Bank, 1), Key(Bank, 2)} @@ Shop :> {}
MCMisserved ==
  {[id |-> Bank, methods |-> <<[did |-> Bank, fragment |-> 1, jwk |-> Key(Shop, 1)]>>]}

BankOffer == [issuer |-> Bank, code |-> "badge", txCode |-> TRUE]
ShopOffer == [issuer |-> Shop, code |-> "card", txCode |-> FALSE]

\* {a 9%41+&=} and an accented letter, and {}: bytes a query gives a meaning of
\* its own, and a character of two.
MCOffers == {BankOffer, ShopOffer}
MCJson == BankOffer :> <<123, 97, 32, 57, 37, 52, 49, 43, 38, 61, 195, 169, 125>> @@ ShopOffer :> <<123, 125>>
MCOfferUrls == BankOffer :> <<104, 47, 63, 61, 38>> @@ ShopOffer :> <<104, 47>>

\* Nothing, and a=b before the offer.
MCPreambles == {<< >>, <<302, 61, 98, 38>>}

MCMembers == "address" :> {"region", "house"}

Writes(iss, kid, status) ==
  [iss |-> iss, kid |-> kid, status |-> status, exp |-> 0,
   disclosable |-> {"name", "address"}, memberDisclosable |-> {"address", "name"},
   visible |-> {"employed", "exp"}]

\* Each can also be set up to write the other's name.
MCConfigurations ==
  Bank :> {Writes(Bank, TRUE, "list"), Writes(Shop, FALSE, "none")}
  @@ Shop :> {Writes(Shop, FALSE, "list"), Writes(Shop, TRUE, "half"), Writes(Bank, FALSE, "none")}

Region == {<<"address", "region">>}
NameAndHouse == {<<"name">>, <<"address", "house">>}

Form(audience, nonce, ofBadge, ofCard) ==
  PresentationRequest(audience, nonce,
    {RequestedCredential("badge", claims) : claims \in ofBadge}
      \cup {RequestedCredential("card", claims) : claims \in ofCard})

\* Two sessions of one verifier, which asks for the badge twice, and one of
\* another.
MCAsks == {Form("pub", 1, {Region, NameAndHouse}, {Region}),
           Form("pub", 2, {NameAndHouse}, {Region}),
           Form("bar", 1, {Region}, {NameAndHouse})}

Vaulet == [host |-> "vaulet.example", path |-> <<"id">>]
VaultKey == Key(Vaulet, 1)
Method(jwk) == [did |-> Vaulet, fragment |-> 1, jwk |-> jwk]

MCVoucherPins == {VaultKey}

\* Vaulet's document, and one in its place with a key of the shop's in front.
MCVoucherDocs ==
  {[id |-> Vaulet, methods |-> <<Method(VaultKey)>>],
   [id |-> Vaulet, methods |-> <<Method(Key(Shop, 1)), Method(VaultKey)>>]}

\* The bytes, the lines of the report made from them, and what is agreed to.
Package(code, hosts, agreed) ==
  [code |-> [bytes |-> code], agreed |-> agreed, publisher |-> Bank, app |-> [text |-> "tickets"],
   version |-> [text |-> "1"], report |-> [net |-> hosts]]
MCPackages == {Package(1, <<"a", "b">>, "a and b"), Package(2, <<"a", "b">>, "a and b"),
               Package(1, <<"a", "a">>, "a")}

Of(field, word, upper, data) ==
  [field |-> field, name |-> [word |-> word, upper |-> upper], data |-> data]
MCData ==
  {Of("country", "th", TRUE, 1), Of("dataset", "th", TRUE, 1), Of("country", "la", TRUE, 1),
   Of("country", "th", TRUE, 2)}

Silent ==
  [key |-> VaultKey, truth |-> None, sub |-> None, keys |-> None, exp |-> None,
   publisher |-> None, app |-> None, version |-> None, report |-> None,
   digest |-> None, country |-> None, dataset |-> None]

VouchingFor(key, of, keys, exp) ==
  [Silent EXCEPT !.key = key, !.truth = [kind |-> "vouching", of |-> IF key = VaultKey THEN of ELSE None],
                 !.sub = of, !.keys = keys, !.exp = exp]
Certificate(p, report) ==
  [Silent EXCEPT !.truth = [kind |-> "certificate", of |-> <<p.code, p.agreed>>], !.sub = p.code,
                 !.publisher = p.publisher, !.app = p.app, !.version = p.version,
                 !.report = report, !.exp = 0]
Attestation(d) ==
  [Silent EXCEPT !.truth = [kind |-> "attestation", of |-> d], !.digest = d.data, !.version = [text |-> "1"],
                 ![d.field] = [d.name EXCEPT !.upper = FALSE]]

\* The last is in Vaulet's name and of the shop's making.
MCStatements ==
  {VouchingFor(VaultKey, Bank, {Key(Bank, 1)}, 0), VouchingFor(VaultKey, Shop, {Key(Shop, 1)}, 1),
   VouchingFor(VaultKey, Bank, {Key(Bank, 2)}, None),
   Certificate(Package(1, <<"a", "b">>, "a and b"), [net |-> <<"b", Scalar, "a">>]),
   Attestation(Of("country", "th", TRUE, 1)), Attestation(Of("dataset", "th", TRUE, 1)),
   VouchingFor(Key(Shop, 1), Bank, {Key(Shop, 1)}, 1)}

Symmetry == Permutations(Wallets)
=============================================================================
