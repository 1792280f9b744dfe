-------------------------- MODULE SignatureProofs --------------------------
(***************************************************************************)
(* Proofs about the signatures on bindings and offers, for any holders,    *)
(* keys and contents.                                                      *)
(*                                                                         *)
(* VerifiedMeansSigned speaks of the document as it stands and is not      *)
(* inductive: an edited document may be edited back.  IInv speaks of the   *)
(* signatures: each was made, whatever has become of the text around it.   *)
(***************************************************************************)
EXTENDS Signatures, TLAPS

Binding == [kind : {"binding"}, terms : Terms, nonce : Nonces,
            providerSig : BindingSig \cup {NoSig}, consumerSig : BindingSig \cup {NoSig}]

SomeOffer == [kind : {"offer"}, terms : Terms, nonce : Nonces, sig : OfferSig \cup {NoSig}]

\* A binding whose signatures are among those of the history s, and an offer.
BindingBacked(b, s) ==
    /\ b \in Binding
    /\ b.providerSig # NoSig => <<b.providerSig.key, b.providerSig.over>> \in s
    /\ b.consumerSig # NoSig => <<b.consumerSig.key, b.consumerSig.over>> \in s

OfferBacked(o, s) ==
    /\ o \in SomeOffer
    /\ o.sig # NoSig => <<o.sig.key, o.sig.over.content>> \in s

Backed(d, s) == BindingBacked(d, s) \/ OfferBacked(d, s)

\* Every signature on every copy was made by the key it names.
IInv ==
    /\ providerKey \in Keys
    /\ DOMAIN copy = Holders /\ copy = [h \in Holders |-> copy[h]]
    /\ \A h \in Holders : Backed(copy[h], signed)

-----------------------------------------------------------------------------
LEMMA BackedKind ==
    ASSUME NEW d, NEW s, Backed(d, s)
    PROVE  /\ d.kind = "binding" => BindingBacked(d, s)
           /\ d.kind = "offer" => OfferBacked(d, s)
           /\ d.kind \in {"binding", "offer"}
           /\ ContentOf(d) \in Content
BY DEF Backed, BindingBacked, OfferBacked, Binding, SomeOffer, ContentOf, Content

\* What was signed stays signed.
LEMMA BackedMonotone ==
    ASSUME NEW d, NEW s, NEW t, s \subseteq t, Backed(d, s)
    PROVE  Backed(d, t)
BY DEF Backed, BindingBacked, OfferBacked

\* A signature that is added to a binding, or replaced, is the last one made.
LEMMA SignBindingBacked ==
    ASSUME NEW b, NEW s, BindingBacked(b, s), NEW key \in Keys, NEW party \in Parties
    PROVE  BindingBacked(SignBinding(b, key, party), s \cup {<<key, ContentOf(b)>>})
<1>. DEFINE sig == [key |-> key, over |-> CanonicalBytes(b)]
<1>1. /\ sig \in BindingSig /\ sig.key = key /\ sig.over = ContentOf(b)
      /\ b \in Binding
    BY DEF BindingBacked, Binding, BindingSig, CanonicalBytes, ContentOf, Content
<1>2. SignBinding(b, key, party) = IF party = "provider" THEN [b EXCEPT !.providerSig = sig]
                                   ELSE [b EXCEPT !.consumerSig = sig]
    BY DEF SignBinding
<1>. HIDE DEF sig
<1>3. CASE party = "provider"
    BY <1>1, <1>2, <1>3 DEF BindingBacked, Binding
<1>4. CASE party # "provider"
    BY <1>1, <1>2, <1>4 DEF BindingBacked, Binding
<1>. QED
    BY <1>3, <1>4

LEMMA SignOfferBacked ==
    ASSUME NEW o, NEW s, OfferBacked(o, s), NEW key \in Keys
    PROVE  OfferBacked(SignOfferWith(o, key), s \cup {<<key, ContentOf(o)>>})
<1>. DEFINE sig == [key |-> key, over |-> OfferMarshal(o)]
<1>1. /\ sig \in OfferSig /\ sig.key = key /\ sig.over.content = ContentOf(o)
      /\ o \in SomeOffer
    BY DEF OfferBacked, SomeOffer, OfferSig, OfferMarshal, OfferText, ContentOf, Content
<1>2. SignOfferWith(o, key) = [o EXCEPT !.sig = sig]
    BY DEF SignOfferWith
<1>. HIDE DEF sig
<1>. QED
    BY <1>1, <1>2 DEF OfferBacked, SomeOffer

\* Another text under the same signatures.
LEMMA EditBacked ==
    ASSUME NEW d, NEW s, Backed(d, s), NEW c \in Content
    PROVE  Backed([d EXCEPT !.terms = c.terms, !.nonce = c.nonce], s)
<1>1. CASE BindingBacked(d, s)
    BY <1>1 DEF Backed, BindingBacked, Binding, Content
<1>2. CASE OfferBacked(d, s)
    BY <1>2 DEF Backed, OfferBacked, SomeOffer, Content
<1>. QED
    BY <1>1, <1>2 DEF Backed

-----------------------------------------------------------------------------
LEMMA InitInvariant == Init => IInv
<1> SUFFICES ASSUME Init PROVE IInv
    OBVIOUS
<1>1. PICK d \in UnsignedBindings \cup UnsignedOffers : copy = [h \in Holders |-> d]
    BY DEF Init
<1>2. Backed(d, signed)
    BY <1>1 DEF UnsignedBindings, UnsignedOffers, Content, Backed, BindingBacked, OfferBacked,
                Binding, SomeOffer
<1>. QED
    BY <1>1, <1>2, SignaturesAssumption DEF Init, IInv

\* One copy becomes another document, which is backed as well.
LEMMA ReplaceStep ==
    ASSUME IInv, NEW h \in Holders, NEW d, copy' = [copy EXCEPT ![h] = d],
           signed \subseteq signed', Backed(d, signed'), providerKey' \in Keys
    PROVE  IInv'
BY BackedMonotone DEF IInv

LEMMA NextInvariant == IInv /\ [Next]_vars => IInv'
<1> SUFFICES ASSUME IInv, [Next]_vars PROVE IInv'
    OBVIOUS
<1>1. ASSUME NEW h \in Holders, NEW key \in Keys, NEW party \in Parties, SignContract(h, key, party)
      PROVE  IInv'
    <2>1. BindingBacked(copy[h], signed)
        BY <1>1, BackedKind DEF SignContract, IInv
    <2>2. BindingBacked(SignBinding(copy[h], key, party), signed')
        BY <1>1, <2>1, SignBindingBacked DEF SignContract, Used
    <2>. QED
        BY <1>1, <2>2, ReplaceStep DEF SignContract, Used, Backed, IInv
<1>2. ASSUME NEW h \in Holders, NEW key \in Keys, copy[h].kind = "offer", Used(key, copy[h]),
             copy' = [copy EXCEPT ![h] = SignOfferWith(copy[h], key)],
             UNCHANGED <<providerKey, consumerKey>>
      PROVE  IInv'
    <2>1. OfferBacked(copy[h], signed)
        BY <1>2, BackedKind DEF IInv
    <2>2. OfferBacked(SignOfferWith(copy[h], key), signed')
        BY <1>2, <2>1, SignOfferBacked DEF Used
    <2>. QED
        BY <1>2, <2>2, ReplaceStep DEF Used, Backed, IInv
<1>3. ASSUME NEW h \in Holders, NEW key \in Keys, SignOfferWithKey(h, key)
      PROVE  IInv'
    BY <1>2, <1>3 DEF SignOfferWithKey
<1>4. ASSUME NEW h \in Holders, SignOffer(h)
      PROVE  IInv'
    BY <1>2, <1>4 DEF SignOffer, IInv
<1>5. ASSUME NEW key \in Keys, SetConsumerKey(key)
      PROVE  IInv'
    BY <1>5 DEF SetConsumerKey, IInv
<1>6. ASSUME NEW from \in Holders, NEW to \in Holders, Send(from, to)
      PROVE  IInv'
    BY <1>6, ReplaceStep DEF Send, IInv
<1>7. ASSUME NEW h \in Holders, NEW c \in Content, Edit(h, c)
      PROVE  IInv'
    <2>1. copy' = [copy EXCEPT ![h] = [copy[h] EXCEPT !.terms = c.terms, !.nonce = c.nonce]]
        BY <1>7 DEF Edit
    <2>2. Backed([copy[h] EXCEPT !.terms = c.terms, !.nonce = c.nonce], signed')
        BY <1>7, EditBacked DEF Edit, IInv
    <2>. QED
        BY <1>7, <2>1, <2>2, ReplaceStep DEF Edit, IInv
<1>8. CASE UNCHANGED vars
    BY <1>8 DEF vars, IInv
<1>. QED
    BY <1>1, <1>3, <1>4, <1>5, <1>6, <1>7, <1>8 DEF Next

\* Every signature was made, whatever is signed, sent and edited.
THEOREM Invariant == Spec => []IInv
BY InitInvariant, NextInvariant, PTL DEF Spec

-----------------------------------------------------------------------------
\* A document that verifies under a key was signed with that key as it stands.
THEOREM VerifiedCorrect == Spec => []VerifiedMeansSigned
<1>1. IInv => VerifiedMeansSigned
    <2> SUFFICES ASSUME IInv, NEW h \in Holders, NEW key \in Keys, NEW party \in Parties,
                        Verifies(copy[h], key, party)
                 PROVE  <<key, ContentOf(copy[h])>> \in signed
        BY DEF VerifiedMeansSigned
    <2>. DEFINE d == copy[h]
    <2>1. Backed(d, signed) /\ ContentOf(d) \in Content
        BY BackedKind DEF IInv
    <2>2. CASE d.kind = "binding"
        <3>1. SignatureOf(d, party) = [key |-> key, over |-> ContentOf(d)]
            BY <2>2 DEF Verifies, VerifyBindingSignature, CanonicalBytes, ContentOf
        <3>2. SignatureOf(d, party) # NoSig
            BY <2>1, <3>1, SignaturesAssumption DEF BindingSig
        <3>3. BindingBacked(d, signed)
            BY <2>1, <2>2, BackedKind
        <3>. QED
            BY <3>1, <3>2, <3>3 DEF SignatureOf, BindingBacked
    <2>3. CASE d.kind = "offer"
        <3>1. d.sig = [key |-> key, over |-> [content |-> ContentOf(d), carriesSig |-> FALSE]]
            BY <2>3 DEF Verifies, VerifyOffer, OfferText
        <3>2. [content |-> ContentOf(d), carriesSig |-> FALSE]
                  \in [content : Content, carriesSig : BOOLEAN]
            BY <2>1
        <3>3. d.sig \in OfferSig
            BY <3>1, <3>2 DEF OfferSig
        <3>4. d.sig # NoSig
            BY <3>3, SignaturesAssumption
        <3>5. OfferBacked(d, signed)
            BY <2>1, <2>3, BackedKind
        <3>. QED
            BY <3>1, <3>4, <3>5 DEF OfferBacked
    <2>. QED
        BY <2>1, <2>2, <2>3, BackedKind
<1>. QED
    BY <1>1, Invariant, PTL

\* To sign a binding for one party keeps the other's signature good.
THEOREM CeremonyCorrect == Spec => CeremonyKeepsSignatures
<1>1. ASSUME IInv, NEW h \in Holders, NEW key \in Keys, NEW other \in Keys,
             NEW party \in Parties, NEW mine \in Parties, party # mine,
             SignContract(h, other, mine), VerifyBindingSignature(key, copy[h], party)
      PROVE  VerifyBindingSignature(key, copy'[h], party)
    <2>1. copy[h] \in Binding
        BY <1>1, BackedKind DEF SignContract, IInv, BindingBacked
    <2>2. copy'[h] = SignBinding(copy[h], other, mine)
        BY <1>1 DEF SignContract, IInv
    <2>3. /\ CanonicalBytes(copy'[h]) = CanonicalBytes(copy[h])
          /\ SignatureOf(copy'[h], party) = SignatureOf(copy[h], party)
        BY <1>1, <2>1, <2>2 DEF SignBinding, CanonicalBytes, SignatureOf, Binding, Parties
    <2>. QED
        BY <1>1, <2>3 DEF VerifyBindingSignature
<1>2. IInv => \A h \in Holders, key, other \in Keys, party, mine \in Parties :
          (/\ party # mine
           /\ SignContract(h, other, mine)
           /\ VerifyBindingSignature(key, copy[h], party))
              => VerifyBindingSignature(key, copy'[h], party)
    BY <1>1
<1>. QED
    BY <1>2, Invariant, PTL DEF CeremonyKeepsSignatures

\* An offer that carries no signature verifies once it is signed.
THEOREM FirstSignatureCorrect == Spec => FirstSignatureVerifies
<1>1. ASSUME IInv, NEW h \in Holders, NEW key \in Keys, SignOfferWithKey(h, key),
             copy[h].sig = NoSig
      PROVE  VerifyOffer(copy'[h], key)
    <2>1. copy[h] \in SomeOffer
        BY <1>1, BackedKind DEF SignOfferWithKey, IInv, OfferBacked
    <2>2. copy'[h] = [copy[h] EXCEPT !.sig = [key |-> key, over |-> OfferText(copy[h], FALSE)]]
        BY <1>1 DEF SignOfferWithKey, SignOfferWith, OfferMarshal, IInv
    <2>3. OfferText(copy'[h], FALSE) = OfferText(copy[h], FALSE)
        BY <2>1, <2>2 DEF OfferText, ContentOf, SomeOffer
    <2>. QED
        BY <2>1, <2>2, <2>3 DEF VerifyOffer, SomeOffer
<1>2. IInv => \A h \in Holders, key \in Keys :
          SignOfferWithKey(h, key) /\ copy[h].sig = NoSig => VerifyOffer(copy'[h], key)
    BY <1>1
<1>. QED
    BY <1>2, Invariant, PTL DEF FirstSignatureVerifies
=============================================================================
