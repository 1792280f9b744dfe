----------------------------- MODULE Signatures -----------------------------
(***************************************************************************)
(* Who signed what: bindings (pkg/contract/binding.go) carry a signature   *)
(* of either party, offers (pkg/negotiation/negotiation.go) one signature. *)
(* Each holder has a copy of one document; copies are signed, sent on and  *)
(* edited in any order.  A signature is the pair of the key and the text   *)
(* it was made over, and nobody makes one without the key.                 *)
(*                                                                         *)
(* A definition D_Bug is a plausible mistake in D.                         *)
(***************************************************************************)
EXTENDS Naturals

CONSTANTS
    Holders,      \* whoever has a copy of the document
    Keys,         \* key pairs
    NoSig,        \* the empty signature
    Terms,        \* pricing, SLA and whatever else was agreed on
    Nonces,
    OperatorKey   \* the key pair NewEngine is given

VARIABLES
    copy,         \* the document as each holder has it
    providerKey,  \* Engine.providerKey
    consumerKey,  \* Engine.consumerKey
    signed        \* history: <<key, what>> for everything a key was used on

vars == <<copy, providerKey, consumerKey, signed>>

Parties == {"provider", "consumer"}

\* The fields that say something, without the signatures.
Content == [terms : Terms, nonce : Nonces]

ContentOf(d) == [terms |-> d.terms, nonce |-> d.nonce]

\* Signatures of a binding and of an offer.
BindingSig == [key : Keys, over : Content]

OfferSig == [key : Keys, over : [content : Content, carriesSig : BOOLEAN]]

ASSUME SignaturesAssumption == OperatorKey \in Keys /\ NoSig \notin BindingSig \cup OfferSig

-----------------------------------------------------------------------------
(* Bindings *)

CanonicalBytes_WithoutTerms(b) == [nonce |-> b.nonce]

CanonicalBytes_WithSignatures(b) ==
    [terms |-> b.terms, nonce |-> b.nonce,
     signed |-> <<b.providerSig # NoSig, b.consumerSig # NoSig>>]

\* CanonicalBytes: every field but the two signatures.
CanonicalBytes(b) == [terms |-> b.terms, nonce |-> b.nonce]

\* SignBinding writes the signature of the party named.
SignBinding(b, key, party) ==
    LET sig == [key |-> key, over |-> CanonicalBytes(b)] IN
    IF party = "provider" THEN [b EXCEPT !.providerSig = sig]
                          ELSE [b EXCEPT !.consumerSig = sig]

SignatureOf(b, party) == IF party = "provider" THEN b.providerSig ELSE b.consumerSig

VerifyBindingSignature(key, b, party) ==
    SignatureOf(b, party) = [key |-> key, over |-> CanonicalBytes(b)]

-----------------------------------------------------------------------------
(* Offers: what is signed is the whole offer, with a signature it may carry  *)
(* already; what is verified is the offer without any.                       *)

OfferText(o, carriesSig) == [content |-> ContentOf(o), carriesSig |-> carriesSig]

OfferMarshal_NoNonce(o) == OfferText([o EXCEPT !.nonce = "none"], o.sig # NoSig)

\* json.Marshal(offer), where the signature has omitempty.
OfferMarshal(o) == OfferText(o, o.sig # NoSig)

SignOfferWith(o, key) == [o EXCEPT !.sig = [key |-> key, over |-> OfferMarshal(o)]]

VerifyOffer(o, key) == o.sig = [key |-> key, over |-> OfferText(o, FALSE)]

-----------------------------------------------------------------------------
UnsignedBindings == {[kind |-> "binding", terms |-> c.terms, nonce |-> c.nonce,
                      providerSig |-> NoSig, consumerSig |-> NoSig] : c \in Content}

UnsignedOffers == {[kind |-> "offer", terms |-> c.terms, nonce |-> c.nonce,
                    sig |-> NoSig] : c \in Content}

\* One document, of which every holder has a copy, and a fresh engine.
Init ==
    /\ \E d \in UnsignedBindings \cup UnsignedOffers : copy = [h \in Holders |-> d]
    /\ providerKey = OperatorKey
    /\ consumerKey = NoSig
    /\ signed = {}

Used(key, d) == signed' = signed \cup {<<key, ContentOf(d)>>}

SignContract(h, key, party) ==
    /\ copy[h].kind = "binding"
    /\ copy' = [copy EXCEPT ![h] = SignBinding(@, key, party)]
    /\ Used(key, copy[h])
    /\ UNCHANGED <<providerKey, consumerKey>>

\* SignOfferWith: the caller's own key pair.
SignOfferWithKey(h, key) ==
    /\ copy[h].kind = "offer"
    /\ copy' = [copy EXCEPT ![h] = SignOfferWith(@, key)]
    /\ Used(key, copy[h])
    /\ UNCHANGED <<providerKey, consumerKey>>

\* SignOffer: the engine's own key pair.
SignOffer(h) ==
    /\ copy[h].kind = "offer"
    /\ copy' = [copy EXCEPT ![h] = SignOfferWith(@, providerKey)]
    /\ Used(providerKey, copy[h])
    /\ UNCHANGED <<providerKey, consumerKey>>

\* SetConsumerKey assigns the provider's key.
SetConsumerKey(key) ==
    /\ providerKey' = key
    /\ UNCHANGED <<copy, consumerKey, signed>>

\* A holder hands its copy to another.
Send(from, to) ==
    /\ copy' = [copy EXCEPT ![to] = copy[from]]
    /\ UNCHANGED <<providerKey, consumerKey, signed>>

\* A holder changes the text of its copy and leaves the signatures there.
Edit(h, c) ==
    /\ copy' = [copy EXCEPT ![h].terms = c.terms, ![h].nonce = c.nonce]
    /\ UNCHANGED <<providerKey, consumerKey, signed>>

Next ==
    \/ \E h \in Holders, key \in Keys, party \in Parties : SignContract(h, key, party)
    \/ \E h \in Holders, key \in Keys : SignOfferWithKey(h, key)
    \/ \E h \in Holders : SignOffer(h)
    \/ \E key \in Keys : SetConsumerKey(key)
    \/ \E from, to \in Holders : Send(from, to)
    \/ \E h \in Holders, c \in Content : Edit(h, c)

Spec == Init /\ [][Next]_vars

-----------------------------------------------------------------------------
(* Properties *)

Verifies(d, key, party) ==
    IF d.kind = "binding" THEN VerifyBindingSignature(key, d, party) ELSE VerifyOffer(d, key)

\* A document that verifies under a key was signed with it as it stands, after
\* whatever signing, copying and editing: two parties whose signatures both
\* verify on one copy of a binding have signed the same terms and nonce.
VerifiedMeansSigned == \A h \in Holders, key \in Keys, party \in Parties :
    Verifies(copy[h], key, party) => <<key, ContentOf(copy[h])>> \in signed

\* The signing ceremony can be held in either order: to sign for one party does
\* not spoil the other's signature.
CeremonyKeepsSignatures == [][
    \A h \in Holders, key, other \in Keys, party, mine \in Parties :
        (/\ party # mine
         /\ SignContract(h, other, mine)
         /\ VerifyBindingSignature(key, copy[h], party))
            => VerifyBindingSignature(key, copy'[h], party)]_vars

\* An offer that carries no signature verifies once it is signed.
FirstSignatureVerifies == [][
    \A h \in Holders, key \in Keys :
        SignOfferWithKey(h, key) /\ copy[h].sig = NoSig => VerifyOffer(copy'[h], key)]_vars

-----------------------------------------------------------------------------
(* What the repository says and the code does not do. *)

\* negotiation.go: NewEngine's key pair is "the engine operator's identity", and
\* SetConsumerKey "sets the consumer key pair".  SignOffer signs for the operator.
EngineSignsForItsOperator == [][
    \A h \in Holders : SignOffer(h) => copy'[h].sig.key = OperatorKey]_vars
=============================================================================
