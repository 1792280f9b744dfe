---------------------------- MODULE Negotiation ----------------------------
(***************************************************************************)
(* The negotiation engine (pkg/negotiation/negotiation.go) with each call  *)
(* one atomic step: every call that changes a session runs to its end      *)
(* under the engine's mutex and the session's.                             *)
(*                                                                         *)
(* A session lives in heap, at the reference NewSession returned; the      *)
(* engine's map takes a session ID to a reference, and every call but      *)
(* NewSession goes through that map.  A call that returns an error without *)
(* expiring the session leaves the state alone and is a stuttering step.   *)
(*                                                                         *)
(* Left out: fields the engine stores and never reads (Offer.To,           *)
(* Offer.Signature, CreatedAt), the lookups GetSession and IsExpired,      *)
(* which change nothing, and the fields of a binding that depend on the    *)
(* clock alone.                                                            *)
(*                                                                         *)
(* A definition D_Bug is a plausible mistake in D: it serves to show which *)
(* property would notice it.                                               *)
(***************************************************************************)
EXTENDS SessionStates, Naturals, SequencesExt

CONSTANTS
    Agents,          \* the names a caller may give for itself
    Pairings,        \* the <<provider, consumer>> pairs sessions are opened for
    Joined,          \* Joined[pair]: the "provider_consumer" part of an ID
    Actions,         \* action IDs
    Params,          \* what the params of an offer may be, the empty ones too
    ReadableParams,  \* those that unmarshal into pricing and SLA
    NoTerms,         \* the terms of a binding whose pricing and SLA are nil
    Nonces,
    Keys,            \* key pairs a binding may be signed with
    NoKey,           \* a nil key pair, a missing signature
    TTLs,            \* times to live
    Refs,            \* addresses of sessions
    Free,            \* the content of an address no session was put at
    NoBinding,       \* the nil binding
    NoOne,           \* nobody closed the session
    MaxOffers,       \* bound on the offers of a session
    MaxTime          \* bound on the clock

ASSUME NegotiationAssumption ==
    /\ Pairings \subseteq Agents \X Agents
    /\ ReadableParams \subseteq Params
    /\ NoTerms \notin ReadableParams
    /\ NoKey \notin Keys
    /\ NoOne \notin Agents
    /\ TTLs \subseteq Nat
    /\ MaxOffers \in Nat
    /\ MaxTime \in Nat

VARIABLES
    heap,       \* the sessions, by reference
    sessions,   \* Engine.sessions: from session ID to reference
    now,        \* the clock
    closedBy    \* history: the party whose call accepted or declined

vars == <<heap, sessions, now, closedBy>>

-----------------------------------------------------------------------------
(* Data *)

Offer == [from : Agents, action : Actions, params : Params, nonce : Nonces]

Terms == ReadableParams \cup {NoTerms}

Agreed == [provider : Agents, consumer : Agents, action : Actions,
           terms : Terms, nonce : Nonces]

Binding == [agreed : Agreed, providerSig : Keys \cup {NoKey},
            consumerSig : Keys \cup {NoKey}]

IDs == {Joined[pair] : pair \in Pairings} \X Nat

\* openedAt is history: the reading of the clock that went into the ID.
Session == [id : IDs, state : SessionState, provider : Agents, consumer : Agents,
            action : Actions, offers : Seq(Offer),
            binding : Binding \cup {NoBinding},
            openedAt : Nat, expiresAt : Nat]

SessionID_NoTime(provider, consumer, time) == <<Joined[<<provider, consumer>>], 0>>

\* "neg_<provider>_<consumer>_<time>".  Two pairs of names may join alike.
SessionID(provider, consumer, time) == <<Joined[<<provider, consumer>>], time>>

ParsedTerms_Raw(params) == params

\* json.Unmarshal fills pricing and SLA together or, on any error, neither.
ParsedTerms(params) == IF params \in ReadableParams THEN params ELSE NoTerms

AgreedOn_FirstNonce(s, o) ==
    [provider |-> s.provider, consumer |-> s.consumer, action |-> s.action,
     terms |-> ParsedTerms(o.params), nonce |-> s.offers[1].nonce]

\* What the binding of session s says if offer o is the one accepted: the
\* action is the session's, whatever action the offer names.
AgreedOn(s, o) == [provider |-> s.provider, consumer |-> s.consumer,
                   action |-> s.action, terms |-> ParsedTerms(o.params),
                   nonce |-> o.nonce]

StandingOffer_First(s) == s.offers[1]

\* session.Offers[len(session.Offers)-1]
StandingOffer(s) == Last(s.offers)

\* The binding of an acceptance: active, and not signed yet.
NewBinding(s) == [agreed      |-> AgreedOn(s, StandingOffer(s)),
                  providerSig |-> NoKey,
                  consumerSig |-> NoKey]

\* The nil values are none of the values they stand for the absence of.
ASSUME NilAssumption ==
    /\ Free \notin Session
    /\ NoBinding \notin Binding
    /\ NoTerms \notin Agreed

Allocated == {r \in Refs : heap[r] # Free}

-----------------------------------------------------------------------------
(* Guards *)

\* time.Now().After(s.ExpiresAt)
IsExpired(s) == now > s.expiresAt

checkExpired_AnyState(s) == IsExpired(s)

checkExpired_AfterOffer(s) == IsExpired(s) /\ s.state \in {"offered", "countered"}

\* checkExpired returns TRUE, and has moved the session to "expired".
checkExpired(s) == IsExpired(s) /\ s.state \notin TerminalStates

MayOffer_EitherCounters(s, party) ==
    \/ s.state = "initiated" /\ party = s.consumer
    \/ s.state \in {"offered", "countered"} /\ party \in {s.provider, s.consumer}

\* The party SubmitOffer expects an offer from.
MayOffer(s, party) ==
    \/ s.state = "initiated" /\ party = s.consumer
    \/ s.state = "offered"   /\ party = s.provider
    \/ s.state = "countered" /\ party = s.consumer

\* The state an offer moves the session to.
OfferTarget(s) == IF s.state = "initiated" THEN "offered" ELSE "countered"

MayAccept_EitherParty(s, party) ==
    s.state \in {"offered", "countered"} /\ party \in {s.provider, s.consumer}

\* The party AcceptOffer lets accept.
MayAccept(s, party) ==
    \/ s.state = "offered"   /\ party = s.provider
    \/ s.state = "countered" /\ party = s.consumer

\* The party DeclineOffer lets decline: before the first offer, anybody.
MayDecline(s, party) ==
    \/ s.state = "initiated"
    \/ s.state = "offered"   /\ party = s.provider
    \/ s.state = "countered" /\ party = s.consumer

-----------------------------------------------------------------------------
(* What the calls make of a session *)

Expired(s) == [s EXCEPT !.state = "expired"]

Offered(s, offer) == [s EXCEPT !.state = OfferTarget(s), !.offers = Append(s.offers, offer)]

Accepted(s) == [s EXCEPT !.state = "accepted", !.binding = NewBinding(s)]

Declined(s) == [s EXCEPT !.state = "declined"]

\* A nil key leaves that party's signature as it is.
SignedWith(key, sig) == IF key = NoKey THEN sig ELSE key

Signed(s, providerKP, consumerKP) ==
    [s EXCEPT !.binding =
        [s.binding EXCEPT !.providerSig = SignedWith(providerKP, s.binding.providerSig),
                          !.consumerSig = SignedWith(consumerKP, s.binding.consumerSig)]]

-----------------------------------------------------------------------------
Init ==
    /\ heap     = [r \in Refs |-> Free]
    /\ sessions = [id \in {} |-> Free]
    /\ now      = 0
    /\ closedBy = [r \in Refs |-> NoOne]

\* The clock is read for the ID, and again, by then perhaps later, for the
\* deadline.  A map entry of the same ID is overwritten.
NewSession(r, pair, action, ttl, later) ==
    LET id == SessionID(pair[1], pair[2], now) IN
    /\ heap[r] = Free
    /\ heap' = [heap EXCEPT ![r] =
           [id |-> id, state |-> "initiated", provider |-> pair[1],
            consumer |-> pair[2], action |-> action, offers |-> <<>>,
            binding |-> NoBinding, openedAt |-> now, expiresAt |-> later + ttl]]
    /\ sessions' = [i \in DOMAIN sessions \cup {id} |->
                       IF i = id THEN r ELSE sessions[i]]
    /\ now' = later
    /\ UNCHANGED closedBy

\* Any call on an open session past its deadline expires it and fails.
Expire(r) ==
    /\ checkExpired(heap[r])
    /\ heap' = [heap EXCEPT ![r] = Expired(heap[r])]
    /\ UNCHANGED <<sessions, now, closedBy>>

SubmitOffer(r, offer) ==
    LET s == heap[r] IN
    /\ ~checkExpired(s)
    /\ MayOffer(s, offer.from)
    /\ checkTransition(s.state, OfferTarget(s))
    /\ Len(s.offers) < MaxOffers
    /\ heap' = [heap EXCEPT ![r] = Offered(s, offer)]
    /\ UNCHANGED <<sessions, now, closedBy>>

AcceptOffer(r, party) ==
    LET s == heap[r] IN
    /\ ~checkExpired(s)
    /\ MayAccept(s, party)
    /\ checkTransition(s.state, "accepted")
    /\ heap' = [heap EXCEPT ![r] = Accepted(s)]
    /\ closedBy' = [closedBy EXCEPT ![r] = party]
    /\ UNCHANGED <<sessions, now>>

DeclineOffer(r, party) ==
    LET s == heap[r] IN
    /\ ~checkExpired(s)
    /\ MayDecline(s, party)
    /\ checkTransition(s.state, "declined")
    /\ heap' = [heap EXCEPT ![r] = Declined(s)]
    /\ closedBy' = [closedBy EXCEPT ![r] = party]
    /\ UNCHANGED <<sessions, now>>

\* Neither the state nor the deadline is looked at: only the binding.  The
\* engine's lock is released before the session's is taken, so that the session
\* looked up may have lost its entry in the map by now.
SignBindingOnAccept(r, providerKP, consumerKP) ==
    LET s == heap[r] IN
    /\ s.binding # NoBinding
    /\ heap' = [heap EXCEPT ![r] = Signed(s, providerKP, consumerKP)]
    /\ UNCHANGED <<sessions, now, closedBy>>

Tick ==
    /\ now < MaxTime
    /\ now' = now + 1
    /\ UNCHANGED <<heap, sessions, closedBy>>

\* The engine looks the session up by its ID, or answers "session not found".
Call(id) ==
    LET r == sessions[id] IN
    \/ Expire(r)
    \/ \E offer \in Offer : SubmitOffer(r, offer)
    \/ \E party \in Agents : AcceptOffer(r, party)
    \/ \E party \in Agents : DeclineOffer(r, party)

Next ==
    \/ \E r \in Refs, pair \in Pairings, action \in Actions, ttl \in TTLs,
          later \in now .. MaxTime : NewSession(r, pair, action, ttl, later)
    \/ \E id \in DOMAIN sessions : Call(id)
    \/ \E r \in Allocated, kp, kc \in Keys \cup {NoKey} : SignBindingOnAccept(r, kp, kc)
    \/ Tick

Spec == Init /\ [][Next]_vars

-----------------------------------------------------------------------------
(* Properties *)

\* Types of the state: sessions are typed records, the map is a finite partial
\* function into allocated references, keyed by the ID stored there.
TypeOK ==
    /\ heap \in [Refs -> Session \cup {Free}]
    /\ DOMAIN sessions \subseteq IDs
    /\ \A id \in DOMAIN sessions :
           sessions[id] \in Allocated /\ heap[sessions[id]].id = id
    /\ now \in Nat
    /\ closedBy \in [Refs -> Agents \cup {NoOne}]

\* The offers of one session: how many for its state, and whose.
FollowsTurns(s) ==
    LET n == Len(s.offers) IN
    /\ s.state = "initiated" => n = 0
    /\ s.state = "offered"   => n = 1
    /\ s.state = "countered" => n >= 2
    /\ s.state = "accepted"  => n >= 1
    /\ \A i \in 1..n :
           s.offers[i].from = IF i = 2 THEN s.provider ELSE s.consumer

\* The state of a session tells how many offers it holds, and the second offer
\* is the provider's, every other one the consumer's.  AcceptOffer indexes the
\* last offer without looking whether there is one, and SubmitOffer derives
\* whose turn it is from the state alone: both rest on this.
OffersFollowTurns == \A r \in Allocated : FollowsTurns(heap[r])

\* The binding of one session against its parties and its last offer.
BindsLastOffer(s) ==
    LET o == s.offers[Len(s.offers)]
        a == s.binding.agreed
    IN  /\ s.binding # NoBinding <=> s.state = "accepted"
        /\ s.binding # NoBinding =>
               /\ a.provider = s.provider /\ a.consumer = s.consumer
               /\ a.nonce = o.nonce
               /\ a.terms = IF o.params \in ReadableParams THEN o.params ELSE NoTerms

\* A session has a binding exactly when it was accepted, and the binding carries
\* the parties of the session and the nonce and terms of the offer that stood
\* last, or no terms if those could not be read (AcceptOffer).
BindingIsTheLastOffer == \A r \in Allocated : BindsLastOffer(heap[r])

\* Up to the provider's counter-offer, a negotiation between two agents ends in
\* a deal only if the one that did not make the last offer accepts it.
ShortNegotiationsAreBilateral == \A r \in Allocated :
    LET s == heap[r] IN
    s.state = "accepted" /\ s.provider # s.consumer /\ Len(s.offers) <= 2
        => closedBy[r] # s.offers[Len(s.offers)].from

\* What a session's ID leads to in the engine's map: the session itself, or one
\* opened at the same reading of the clock for parties whose names join to
\* the same text (NewSession overwrites the entry).  Nothing else ever takes a
\* session from the map, or leads a call on it to another one.
SessionsReachable == \A r \in Allocated :
    /\ heap[r].id \in DOMAIN sessions
    /\ LET found == heap[sessions[heap[r].id]] IN
       /\ found.openedAt = heap[r].openedAt
       /\ Joined[<<found.provider, found.consumer>>]
              = Joined[<<heap[r].provider, heap[r].consumer>>]

\* A session that is accepted, declined or expired never changes again, whatever
\* calls come late, except for the signatures of its binding.
ClosedIsFinal == [][\A r \in Allocated :
    heap[r].state \in TerminalStates =>
        /\ heap'[r] = [heap[r] EXCEPT !.binding = heap'[r].binding]
        /\ heap[r].binding = NoBinding => heap'[r].binding = NoBinding
        /\ heap[r].binding # NoBinding =>
               heap'[r].binding.agreed = heap[r].binding.agreed
        /\ closedBy'[r] = closedBy[r]]_vars

\* Past its deadline a session takes no offer, acceptance or refusal: it expires,
\* or was accepted in time and gets signatures.
DeadlineHonoured == [][\A r \in Allocated :
    now > heap[r].expiresAt /\ heap'[r] # heap[r] =>
        \/ heap'[r].state = "expired"
        \/ heap[r].state = "accepted" /\ heap'[r].state = "accepted"]_vars

-----------------------------------------------------------------------------
(* The engine implements Agreement: the proposal on the table is what the    *)
(* binding would say if the last offer were accepted.                        *)

StatusOf(s) == CASE s.state = "accepted" -> "agreed"
                 [] s.state \in {"declined", "expired"} -> "failed"
                 [] OTHER -> "open"

StatusBar == [r \in Refs |-> IF heap[r] = Free THEN "none" ELSE StatusOf(heap[r])]

ProposalBar == [r \in Refs |->
    IF heap[r] = Free THEN NoTerms
    ELSE IF heap[r].offers = <<>> THEN NoTerms
    ELSE AgreedOn(heap[r], heap[r].offers[Len(heap[r].offers)])]

DealBar == [r \in Refs |->
    IF heap[r] = Free THEN NoTerms
    ELSE IF heap[r].binding = NoBinding THEN NoTerms
    ELSE heap[r].binding.agreed]

Promise == INSTANCE Agreement WITH
    Talks <- Refs, Deals <- Agreed, NoDeal <- NoTerms,
    status <- StatusBar, proposal <- ProposalBar, deal <- DealBar

\* Every step of the engine opens, proposes, agrees or abandons in one session,
\* or changes nothing a party was promised.
ImplementsAgreement == Promise!Spec

-----------------------------------------------------------------------------
(* What the repository says and the engine does not do. *)

\* README.md: "Contract executed when both accept identical terms".  The party
\* whose acceptance makes the binding is not the author of the accepted offer.
BothPartiesConsented == \A r \in Allocated :
    LET s == heap[r] IN
    s.state = "accepted" /\ s.provider # s.consumer
        => closedBy[r] # s.offers[Len(s.offers)].from

\* negotiation.go, AcceptOffer: "Use the most recent offer's terms".  The action
\* of the binding is the one the accepted offer names.
OfferedActionIsBound == \A r \in Allocated :
    LET s == heap[r] IN
    s.binding # NoBinding =>
        s.binding.agreed.action = s.offers[Len(s.offers)].action
=============================================================================

