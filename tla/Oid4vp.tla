------------------------------- MODULE Oid4vp -------------------------------
(***************************************************************************)
(* Asking for credentials, module oid4vp of src/protocol/mod.rs: what a    *)
(* form requires and how it is answered.                                   *)
(***************************************************************************)
EXTENDS FiniteSets

\* A vct is a URL [host, name]; claims are paths.
RequestedCredential(vct, claims) == [vct |-> vct, claims |-> claims]

PresentationRequest(audience, nonce, required) ==
  [audience |-> audience, nonce |-> nonce, required |-> required]

\* The requirements a credential can be presented for.
MatchedBy(request, vct) == {r \in request.required : r.vct = vct}

\* One presentation of each credential asked for, all under one nonce.
SatisfyRequest(presentations, nonce) == [presentations |-> presentations, nonce |-> nonce]

\* The verifier matches a presentation to a requirement by its vct.
Meets(request, vct, reveals) ==
  \E r \in MatchedBy(request, vct) : r.claims \subseteq reveals
=============================================================================
