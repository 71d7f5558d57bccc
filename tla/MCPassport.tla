----------------------------- MODULE MCPassport -----------------------------
(***************************************************************************)
(* Passports of three states with every kind of key, one of them without   *)
(* anything to prove, and a small curve of prime order on which            *)
(* coordinates exceed the order.                                           *)
(***************************************************************************)
EXTENDS Passport, TLC

MCCurves == {[p |-> 23, a |-> 1, b |-> 19, n |-> 19, g |-> <<2, 11>>]}

Issued(name, csca, dsc, algs, hashAlgo, dgs, aaKey) ==
  [name |-> name, csca |-> csca, dsc |-> dsc, certAlg |-> algs[1], sodAlg |-> algs[2],
   hashAlgo |-> hashAlgo, groups |-> dgs, aaKey |-> aaKey]

Sha256 == <<"ecdsa-with-SHA256", "ecdsa-with-SHA256">>
Thai == Issued("thai", "th", "th1", Sha256, "SHA-1", {1, 2, 15}, "chip1")
Plain == Issued("plain", "th", "th1", Sha256, "SHA-256", {1, 2}, None)
Utopia == Issued("utopia", "ut", "ut1", <<"ecdsa-with-SHA384", "RSASSA-PSS">>, "SHA-384", {1, 15}, "chip2")
Laos == Issued("laos", "la", "la1", <<"sha256WithRSA", "ecdsa-with-SHA256">>, "SHA-256", {1, 15}, "chip3")
MCDocuments == {Thai, Plain, Utopia, Laos}

\* A document nobody issued.
Own == Issued("own", "own", "own1", Sha256, "SHA-256", {1, 2}, None)

MCKindOf ==
  "th" :> "explicit" @@ "th1" :> "explicit" @@ "ut" :> "P-384" @@ "ut1" :> "RSA"
  @@ "la" :> "RSA" @@ "la1" :> "P-256" @@ "own" :> "P-256" @@ "own1" :> "P-256"
  @@ "chip1" :> "explicit" @@ "chip2" :> "P-256" @@ "chip3" :> "RSA" @@ "torn" :> "unreadable"

MCAnchorSets == {{}, {"torn"}, {"th", "ut"}, {"la", "torn"}}

\* Documents', and what can be put together from the parts of one of them and
\* of what nobody issued.
MCSods ==
  {Sod(d) : d \in MCDocuments} \cup
  {[lds |-> lds, certificates |-> certificates, signerInfo |-> signerInfo] :
     lds \in {Lds(Plain), Lds(Own)},
     certificates \in {<<Certificate(Plain)>>, <<Certificate(Own)>>,
                       <<Certificate(Plain), Certificate(Own)>>},
     signerInfo \in {SignerInfo("th1", Lds(Plain)), SignerInfo("own1", Lds(Own))}} \cup
  {[Sod(Thai) EXCEPT !.certificates = << >>], [Sod(Thai) EXCEPT !.signerInfo = None],
   [Sod(Plain) EXCEPT !.signerInfo.attrs = None,
                      !.signerInfo.signature = Sign("th1", "SHA-256", Lds(Plain))]}

MCFiles ==
  1 :> {File(d, 1) : d \in {Thai, Plain, Laos, Own}} @@ 2 :> {File(d, 2) : d \in {Thai, Plain, Own}}
=============================================================================
