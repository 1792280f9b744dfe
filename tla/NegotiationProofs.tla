------------------------- MODULE NegotiationProofs -------------------------
(***************************************************************************)
(* Proofs about the negotiation engine, for every choice of the constants. *)
(*                                                                         *)
(* TypeOK is not inductive: AcceptOffer reads the last offer without       *)
(* asking whether there is one, and only the turns of the offers tell that *)
(* there is.  IInv is TypeOK with OffersFollowTurns; the other results     *)
(* rest on it.                                                             *)
(***************************************************************************)
EXTENDS Negotiation, TLAPS

IInv == TypeOK /\ OffersFollowTurns

-----------------------------------------------------------------------------
(* The shape of the steps. *)

\* A stored session is a session, and its address is an address.
LEMMA AllocatedType ==
    ASSUME TypeOK, NEW r \in Allocated
    PROVE  r \in Refs /\ heap[r] \in Session /\ heap[r] # Free
BY DEF TypeOK, Allocated

\* Storing a session of the same ID at an allocated address keeps the types.
LEMMA StoreKeepsTypes ==
    ASSUME TypeOK, NEW r \in Allocated, NEW s \in Session,
           s.id = heap[r].id,
           heap' = [heap EXCEPT ![r] = s],
           UNCHANGED <<sessions, now>>,
           closedBy' \in [Refs -> Agents \cup {NoOne}]
    PROVE  /\ TypeOK'
           /\ Allocated' = Allocated
           /\ heap'[r] = s
           /\ \A q \in Allocated \ {r} : heap'[q] = heap[q]
<1>1. heap' \in [Refs -> Session \cup {Free}]
    BY DEF TypeOK, Allocated
<1>2. r \in Refs /\ s # Free /\ heap[r] # Free
    BY NilAssumption DEF Allocated
<1>3. heap'[r] = s /\ \A q \in Refs \ {r} : heap'[q] = heap[q]
    BY <1>2 DEF TypeOK
<1>4. Allocated' = Allocated
    BY <1>2, <1>3 DEF Allocated
<1>5. \A id \in DOMAIN sessions : heap'[sessions[id]].id = id
    BY <1>2, <1>3 DEF TypeOK, Allocated
<1>. QED
    BY <1>1, <1>3, <1>4, <1>5 DEF TypeOK, Allocated

\* An accepted session's binding names an offer that is there.
LEMMA NewBindingType ==
    ASSUME NEW s \in Session, Len(s.offers) >= 1
    PROVE  /\ StandingOffer(s) \in Offer
           /\ StandingOffer(s) = s.offers[Len(s.offers)]
           /\ NewBinding(s) \in Binding
           /\ NewBinding(s) # NoBinding
<1>1. s.offers \in Seq(Offer) /\ Len(s.offers) \in 1..Len(s.offers)
    BY DEF Session
<1>2. StandingOffer(s) = s.offers[Len(s.offers)]
    BY DEF StandingOffer, Last
<1>3. s.offers[Len(s.offers)] \in Offer
    BY <1>1
<1>4. AgreedOn(s, StandingOffer(s)) \in Agreed
    BY <1>2, <1>3 DEF AgreedOn, Agreed, ParsedTerms, Terms, Offer, Session
<1>5. NewBinding(s) \in Binding
    BY <1>4 DEF NewBinding, Binding
<1>. QED
    BY <1>2, <1>3, <1>5, NilAssumption

-----------------------------------------------------------------------------
(* What a call does to the session it finds, seen from outside. *)

\* Parties, action, ID and times of a session are fixed when it is opened.
SameIdentity(h, s) ==
    /\ s.id = h.id
    /\ s.provider = h.provider /\ s.consumer = h.consumer /\ s.action = h.action
    /\ s.openedAt = h.openedAt /\ s.expiresAt = h.expiresAt

\* Only the session at r may have changed.
OnlyAt(r) ==
    /\ r \in Allocated /\ heap[r] \in Session /\ heap'[r] \in Session
    /\ SameIdentity(heap[r], heap'[r])
    /\ \A q \in Refs \ {r} : heap'[q] = heap[q] /\ closedBy'[q] = closedBy[q]
    /\ Allocated' = Allocated /\ sessions' = sessions /\ now' = now

Expires(h, s) ==
    /\ now > h.expiresAt /\ h.state \notin TerminalStates /\ s.state = "expired"
    /\ s.offers = h.offers /\ s.binding = h.binding

Submits(h, s, offer) ==
    /\ now <= h.expiresAt /\ MayOffer(h, offer.from)
    /\ s.state \in {"offered", "countered"}
    /\ s.offers = Append(h.offers, offer) /\ s.binding = h.binding

Accepts(h, s, party) ==
    /\ now <= h.expiresAt /\ MayAccept(h, party) /\ Len(h.offers) \in Nat /\ Len(h.offers) >= 1
    /\ s.state = "accepted"
    /\ s.offers = h.offers /\ s.binding = NewBinding(h)

Declines(h, s, party) ==
    /\ now <= h.expiresAt /\ MayDecline(h, party)
    /\ s.state = "declined"
    /\ s.offers = h.offers /\ s.binding = h.binding

Signs(h, s) ==
    /\ h.binding # NoBinding /\ s.binding \in Binding
    /\ s.binding.agreed = h.binding.agreed
    /\ s.state = h.state /\ s.offers = h.offers

Effect(r) ==
    LET h == heap[r]
        s == heap'[r]
    IN  /\ OnlyAt(r)
        /\ \/ Expires(h, s) /\ closedBy' = closedBy
           \/ \E offer \in Offer : Submits(h, s, offer) /\ closedBy' = closedBy
           \/ \E party \in Agents :
                  Accepts(h, s, party) /\ closedBy' = [closedBy EXCEPT ![r] = party]
           \/ \E party \in Agents :
                  Declines(h, s, party) /\ closedBy' = [closedBy EXCEPT ![r] = party]
           \/ Signs(h, s) /\ closedBy' = closedBy

LEMMA InTime ==
    ASSUME IInv, NEW r \in Allocated, ~checkExpired(heap[r]),
           heap[r].state \notin TerminalStates
    PROVE  now <= heap[r].expiresAt
<1>1. heap[r].expiresAt \in Nat /\ now \in Nat
    BY AllocatedType DEF IInv, TypeOK, Session
<1>. QED
    BY <1>1 DEF checkExpired, IsExpired

-----------------------------------------------------------------------------
(* Every call preserves the types and the turns. *)

LEMMA InitIInv == Init => IInv
BY DEF Init, IInv, TypeOK, OffersFollowTurns, Allocated

LEMMA NewSessionIInv ==
    ASSUME IInv, NEW r \in Refs, NEW pair \in Pairings, NEW action \in Actions,
           NEW ttl \in TTLs, NEW later \in now .. MaxTime,
           NewSession(r, pair, action, ttl, later)
    PROVE  IInv'
<1>. DEFINE id == SessionID(pair[1], pair[2], now)
            s  == [id |-> id, state |-> "initiated", provider |-> pair[1],
                   consumer |-> pair[2], action |-> action, offers |-> <<>>,
                   binding |-> NoBinding, openedAt |-> now, expiresAt |-> later + ttl]
<1>1. pair = <<pair[1], pair[2]>> /\ pair[1] \in Agents /\ pair[2] \in Agents
    BY NegotiationAssumption
<1>2. id \in IDs
    BY <1>1 DEF SessionID, IDs, IInv, TypeOK
<1>3. s \in Session /\ s # Free
  <2>1. <<>> \in Seq(Offer) /\ now \in Nat /\ later \in Nat /\ later + ttl \in Nat
    BY NegotiationAssumption DEF IInv, TypeOK
  <2>2. s \in Session
    BY <1>1, <1>2, <2>1 DEF Session, SessionState
  <2>. QED
    BY <2>2, NilAssumption
<1>4. heap[r] = Free /\ heap' = [heap EXCEPT ![r] = s]
    BY DEF NewSession
<1>5. heap'[r] = s /\ \A q \in Refs \ {r} : heap'[q] = heap[q]
    BY <1>4 DEF IInv, TypeOK
<1>6. Allocated' = Allocated \cup {r} /\ r \notin Allocated
    BY <1>3, <1>4, <1>5 DEF Allocated
<1>7. TypeOK'
  <2>1. heap' \in [Refs -> Session \cup {Free}]
    BY <1>3, <1>4 DEF IInv, TypeOK
  <2>2. sessions' = [i \in DOMAIN sessions \cup {id} |->
                       IF i = id THEN r ELSE sessions[i]]
    BY DEF NewSession
  <2>3. \A i \in DOMAIN sessions' :
           sessions'[i] \in Allocated' /\ heap'[sessions'[i]].id = i
    BY <1>5, <1>6, <2>2 DEF IInv, TypeOK, Allocated
  <2>4. DOMAIN sessions' \subseteq IDs /\ now' \in Nat
        /\ closedBy' \in [Refs -> Agents \cup {NoOne}]
    BY <1>2, <2>2 DEF NewSession, IInv, TypeOK
  <2>. QED
    BY <2>1, <2>3, <2>4 DEF TypeOK
<1>8. OffersFollowTurns'
  <2>1. FollowsTurns(s)
    BY DEF FollowsTurns
  <2>. HIDE DEF s
  <2>2. \A q \in Allocated : q \in Refs \ {r} /\ FollowsTurns(heap[q])
    BY <1>6 DEF IInv, OffersFollowTurns, Allocated
  <2>. QED
    BY <1>5, <1>6, <2>1, <2>2 DEF OffersFollowTurns
<1>. QED
    BY <1>7, <1>8 DEF IInv

\* What is left to show of a call that stores session s at r.
LEMMA StoreIInv ==
    ASSUME IInv, NEW r \in Allocated, NEW s \in Session,
           SameIdentity(heap[r], s), FollowsTurns(s),
           heap' = [heap EXCEPT ![r] = s],
           UNCHANGED <<sessions, now>>,
           \/ closedBy' = closedBy
           \/ \E party \in Agents : closedBy' = [closedBy EXCEPT ![r] = party]
    PROVE  IInv' /\ OnlyAt(r) /\ heap'[r] = s
<1>1. /\ closedBy' \in [Refs -> Agents \cup {NoOne}]
      /\ \A q \in Refs \ {r} : closedBy'[q] = closedBy[q]
    BY DEF IInv, TypeOK
<1>2. /\ TypeOK'
      /\ Allocated' = Allocated
      /\ heap'[r] = s
      /\ \A q \in Allocated \ {r} : heap'[q] = heap[q]
    BY <1>1, StoreKeepsTypes DEF IInv, SameIdentity
<1>3. OffersFollowTurns'
    BY <1>2 DEF OffersFollowTurns, IInv
<1>4. \A q \in Refs \ {r} : heap'[q] = heap[q]
    BY DEF IInv, TypeOK
<1>. QED
    BY <1>1, <1>2, <1>3, <1>4, AllocatedType DEF IInv, OnlyAt

LEMMA ExpireEffect ==
    ASSUME IInv, NEW r \in Allocated, Expire(r)
    PROVE  IInv' /\ Effect(r)
<1>. DEFINE h == heap[r]
            s == Expired(h)
<1>1. h \in Session /\ FollowsTurns(h)
    BY AllocatedType DEF IInv, OffersFollowTurns
<1>2. s \in Session /\ SameIdentity(h, s) /\ FollowsTurns(s)
    BY <1>1 DEF Expired, Session, SessionState, FollowsTurns, SameIdentity
<1>3. heap' = [heap EXCEPT ![r] = s] /\ UNCHANGED <<sessions, now, closedBy>>
    BY DEF Expire
<1>4. Expires(h, s)
    BY <1>1 DEF Expires, Expired, Expire, checkExpired, IsExpired, Session
<1>. HIDE DEF s
<1>. QED
    BY <1>2, <1>3, <1>4, StoreIInv DEF Effect

LEMMA SubmitOfferEffect ==
    ASSUME IInv, NEW r \in Allocated, NEW offer \in Offer, SubmitOffer(r, offer)
    PROVE  IInv' /\ Effect(r)
<1>. DEFINE h == heap[r]
            s == Offered(h, offer)
<1>1. h \in Session /\ FollowsTurns(h)
    BY AllocatedType DEF IInv, OffersFollowTurns
<1>2. MayOffer(h, offer.from)
    BY DEF SubmitOffer
<1>3. h.offers \in Seq(Offer)
    BY <1>1 DEF Session
<1>4. /\ s \in Session /\ SameIdentity(h, s) /\ s.binding = h.binding
      /\ s.state = OfferTarget(h) /\ s.offers = Append(h.offers, offer)
      /\ s.provider = h.provider /\ s.consumer = h.consumer
  <2>1. Append(h.offers, offer) \in Seq(Offer)
    BY <1>3
  <2>2. OfferTarget(h) \in SessionState
    BY DEF OfferTarget, SessionState
  <2>. QED
    BY <1>1, <2>1, <2>2 DEF Offered, Session, SameIdentity
<1>5. FollowsTurns(s)
  <2>1. /\ Len(s.offers) = Len(h.offers) + 1
        /\ s.offers[Len(s.offers)] = offer
        /\ \A i \in 1..Len(h.offers) : s.offers[i] = h.offers[i]
    BY <1>3, <1>4
  <2>2. \/ s.state = "offered" /\ Len(s.offers) = 1 /\ offer.from = s.consumer
        \/ s.state = "countered" /\ Len(s.offers) = 2 /\ offer.from = s.provider
        \/ s.state = "countered" /\ Len(s.offers) > 2 /\ offer.from = s.consumer
    <3>1. CASE h.state = "initiated" /\ offer.from = h.consumer
      BY <1>1, <1>4, <2>1, <3>1 DEF FollowsTurns, OfferTarget
    <3>2. CASE h.state = "offered" /\ offer.from = h.provider
      <4>1. Len(h.offers) = 1
        BY <1>1, <3>2 DEF FollowsTurns
      <4>2. s.state = "countered"
        BY <1>4, <3>2 DEF OfferTarget
      <4>. QED
        BY <1>4, <2>1, <3>2, <4>1, <4>2
    <3>3. CASE h.state = "countered" /\ offer.from = h.consumer
      <4>1. Len(h.offers) \in Nat /\ Len(h.offers) >= 2
        BY <1>1, <1>3, <3>3 DEF FollowsTurns
      <4>2. s.state = "countered"
        BY <1>4, <3>3 DEF OfferTarget
      <4>. QED
        BY <1>4, <2>1, <3>3, <4>1, <4>2
    <3>. QED
      BY <1>2, <3>1, <3>2, <3>3 DEF MayOffer
  <2>. QED
    BY <1>1, <1>3, <1>4, <2>1, <2>2 DEF FollowsTurns
<1>6. heap' = [heap EXCEPT ![r] = s] /\ UNCHANGED <<sessions, now, closedBy>>
    BY DEF SubmitOffer
<1>7. Submits(h, s, offer)
  <2>1. h.state \notin TerminalStates
    BY <1>2 DEF MayOffer, TerminalStates
  <2>2. now <= h.expiresAt
    BY <2>1, InTime DEF SubmitOffer
  <2>. QED
    BY <1>2, <1>4, <2>2 DEF Submits, OfferTarget
<1>. HIDE DEF s
<1>. QED
    BY <1>4, <1>5, <1>6, <1>7, StoreIInv DEF Effect

LEMMA AcceptOfferEffect ==
    ASSUME IInv, NEW r \in Allocated, NEW party \in Agents, AcceptOffer(r, party)
    PROVE  IInv' /\ Effect(r)
<1>. DEFINE h == heap[r]
            s == Accepted(h)
<1>1. h \in Session /\ FollowsTurns(h)
    BY AllocatedType DEF IInv, OffersFollowTurns
<1>2. h.state \in {"offered", "countered"} /\ MayAccept(h, party)
    BY DEF AcceptOffer, MayAccept
<1>3. Len(h.offers) \in Nat /\ Len(h.offers) >= 1
  <2>1. Len(h.offers) \in Nat
    BY <1>1 DEF Session
  <2>2. CASE h.state = "offered"
    BY <1>1, <2>1, <2>2 DEF FollowsTurns
  <2>3. CASE h.state = "countered"
    <3>1. Len(h.offers) >= 2
      BY <1>1, <2>3 DEF FollowsTurns
    <3>. QED
      BY <2>1, <3>1
  <2>. QED
    BY <1>2, <2>1, <2>2, <2>3
<1>4. NewBinding(h) \in Binding
    BY <1>1, <1>3, NewBindingType
<1>5. /\ s \in Session /\ SameIdentity(h, s)
      /\ s.state = "accepted" /\ s.offers = h.offers /\ s.binding = NewBinding(h)
    BY <1>1, <1>4 DEF Accepted, Session, SessionState, SameIdentity
<1>6. /\ heap' = [heap EXCEPT ![r] = s] /\ UNCHANGED <<sessions, now>>
      /\ closedBy' = [closedBy EXCEPT ![r] = party]
    BY DEF AcceptOffer
<1>7. Accepts(h, s, party)
  <2>1. now <= h.expiresAt
    BY <1>2, InTime DEF AcceptOffer, TerminalStates
  <2>. QED
    BY <1>2, <1>3, <1>5, <2>1 DEF Accepts
<1>. HIDE DEF s
<1>8. FollowsTurns(s)
    BY <1>1, <1>3, <1>5 DEF FollowsTurns, SameIdentity
<1>. QED
    BY <1>5, <1>6, <1>7, <1>8, StoreIInv DEF Effect

LEMMA DeclineOfferEffect ==
    ASSUME IInv, NEW r \in Allocated, NEW party \in Agents, DeclineOffer(r, party)
    PROVE  IInv' /\ Effect(r)
<1>. DEFINE h == heap[r]
            s == Declined(h)
<1>1. h \in Session /\ FollowsTurns(h)
    BY AllocatedType DEF IInv, OffersFollowTurns
<1>2. s \in Session /\ SameIdentity(h, s) /\ FollowsTurns(s)
    BY <1>1 DEF Declined, Session, SessionState, FollowsTurns, SameIdentity
<1>3. /\ heap' = [heap EXCEPT ![r] = s] /\ UNCHANGED <<sessions, now>>
      /\ closedBy' = [closedBy EXCEPT ![r] = party]
    BY DEF DeclineOffer
<1>4. Declines(h, s, party)
  <2>1. h.state \notin TerminalStates /\ MayDecline(h, party)
    BY DEF DeclineOffer, MayDecline, TerminalStates
  <2>2. now <= h.expiresAt
    BY <2>1, InTime DEF DeclineOffer
  <2>3. s.state = "declined" /\ s.offers = h.offers /\ s.binding = h.binding
    BY <1>1 DEF Declined, Session
  <2>. QED
    BY <2>1, <2>2, <2>3 DEF Declines
<1>. HIDE DEF s
<1>. QED
    BY <1>2, <1>3, <1>4, StoreIInv DEF Effect

LEMMA SignBindingEffect ==
    ASSUME IInv, NEW r \in Allocated, NEW kp \in Keys \cup {NoKey},
           NEW kc \in Keys \cup {NoKey}, SignBindingOnAccept(r, kp, kc)
    PROVE  IInv' /\ Effect(r)
<1>. DEFINE h == heap[r]
            b == [h.binding EXCEPT
                     !.providerSig = SignedWith(kp, h.binding.providerSig),
                     !.consumerSig = SignedWith(kc, h.binding.consumerSig)]
            s == Signed(h, kp, kc)
<1>1. h \in Session /\ FollowsTurns(h)
    BY AllocatedType DEF IInv, OffersFollowTurns
<1>2. h.binding # NoBinding /\ h.binding \in Binding
    BY <1>1 DEF SignBindingOnAccept, Session
<1>3. b \in Binding /\ b.agreed = h.binding.agreed
    BY <1>2 DEF Binding, SignedWith
<1>4. /\ heap' = [heap EXCEPT ![r] = s] /\ UNCHANGED <<sessions, now, closedBy>>
      /\ s = [h EXCEPT !.binding = b]
    BY DEF SignBindingOnAccept, Signed
<1>. HIDE DEF b, s
<1>5. s \in Session /\ SameIdentity(h, s) /\ FollowsTurns(s)
    BY <1>1, <1>3, <1>4 DEF Session, FollowsTurns, SameIdentity
<1>6. Signs(h, s)
    BY <1>1, <1>2, <1>3, <1>4 DEF Signs, Session
<1>. QED
    BY <1>4, <1>5, <1>6, StoreIInv DEF Effect

LEMMA CallEffect ==
    ASSUME IInv, NEW id \in DOMAIN sessions, Call(id)
    PROVE  IInv' /\ Effect(sessions[id])
<1>1. sessions[id] \in Allocated
    BY DEF IInv, TypeOK
<1>. QED
    BY <1>1, ExpireEffect, SubmitOfferEffect, AcceptOfferEffect, DeclineOfferEffect DEF Call

LEMMA NextIInv ==
    ASSUME IInv, [Next]_vars
    PROVE  IInv'
<1>1. CASE UNCHANGED vars
    BY <1>1 DEF vars, IInv, TypeOK, OffersFollowTurns, Allocated
<1>2. CASE \E r \in Refs, pair \in Pairings, action \in Actions, ttl \in TTLs,
                  later \in now .. MaxTime : NewSession(r, pair, action, ttl, later)
    BY <1>2, NewSessionIInv
<1>3. CASE \E id \in DOMAIN sessions : Call(id)
    BY <1>3, CallEffect
<1>4. CASE \E r \in Allocated, kp, kc \in Keys \cup {NoKey} : SignBindingOnAccept(r, kp, kc)
    BY <1>4, SignBindingEffect
<1>5. CASE Tick
    BY <1>5 DEF Tick, IInv, TypeOK, OffersFollowTurns, Allocated
<1>. QED
    BY <1>1, <1>2, <1>3, <1>4, <1>5 DEF Next

\* The engine's sessions are well typed, its map leads to sessions stored under
\* their own IDs, and the offers of every session alternate as its state says.
THEOREM Invariant == Spec => []IInv
<1>1. Init => IInv
    BY InitIInv
<1>2. IInv /\ [Next]_vars => IInv'
    BY NextIInv
<1>. QED
    BY <1>1, <1>2, PTL DEF Spec

\* Sessions are well-formed and bindings are made of parsed terms, whatever the
\* parties call (negotiation.go's Session and contract.Binding).
THEOREM TypeCorrect == Spec => []TypeOK
<1>1. IInv => TypeOK
    BY DEF IInv
<1>. QED
    BY <1>1, Invariant, PTL

\* AcceptOffer never indexes an empty list, and no party speaks out of turn.
THEOREM TurnsCorrect == Spec => []OffersFollowTurns
<1>1. IInv => OffersFollowTurns
    BY DEF IInv
<1>. QED
    BY <1>1, Invariant, PTL

-----------------------------------------------------------------------------
(* The binding of an accepted session. *)

\* A fresh session, seen from outside.
LEMMA NewSessionEffect ==
    ASSUME IInv, NEW r \in Refs, NEW pair \in Pairings, NEW action \in Actions,
           NEW ttl \in TTLs, NEW later \in now .. MaxTime,
           NewSession(r, pair, action, ttl, later)
    PROVE  /\ r \notin Allocated /\ Allocated' = Allocated \cup {r}
           /\ heap'[r].state = "initiated" /\ heap'[r].offers = <<>>
           /\ heap'[r].binding = NoBinding
           /\ heap'[r].id = SessionID(pair[1], pair[2], now)
           /\ heap'[r].openedAt = now
           /\ heap'[r].provider = pair[1] /\ heap'[r].consumer = pair[2]
           /\ \A q \in Refs \ {r} : heap'[q] = heap[q]
           /\ closedBy' = closedBy
<1>1. IInv'
    BY NewSessionIInv
<1>2. heap[r] = Free /\ closedBy' = closedBy
    BY DEF NewSession
<1>3. \A q \in Refs \ {r} : heap'[q] = heap[q]
    BY DEF NewSession, IInv, TypeOK
<1>4. /\ heap'[r].state = "initiated" /\ heap'[r].offers = <<>>
      /\ heap'[r].binding = NoBinding
      /\ heap'[r].id = SessionID(pair[1], pair[2], now)
      /\ heap'[r].openedAt = now
      /\ heap'[r].provider = pair[1] /\ heap'[r].consumer = pair[2]
    BY DEF NewSession, IInv, TypeOK
<1>5. sessions'[SessionID(pair[1], pair[2], now)] = r
      /\ SessionID(pair[1], pair[2], now) \in DOMAIN sessions'
    BY DEF NewSession
<1>6. r \in Allocated'
    BY <1>1, <1>5 DEF IInv, TypeOK
<1>. QED
    BY <1>2, <1>3, <1>4, <1>6 DEF Allocated

\* Every step opens a session, changes one, or leaves the sessions alone.
LEMMA StepCases ==
    ASSUME IInv, [Next]_vars
    PROVE  \/ \E r \in Refs, pair \in Pairings, action \in Actions, ttl \in TTLs,
                 later \in now .. MaxTime : NewSession(r, pair, action, ttl, later)
           \/ \E r \in Allocated : Effect(r)
           \/ UNCHANGED <<heap, sessions, closedBy>>
<1>1. ASSUME NEW id \in DOMAIN sessions, Call(id)
      PROVE  \E r \in Allocated : Effect(r)
    BY <1>1, CallEffect DEF IInv, TypeOK
<1>. QED
    BY <1>1, SignBindingEffect DEF Next, Tick, vars

LEMMA AcceptedBinding ==
    ASSUME NEW h \in Session, NEW s \in Session, NEW party,
           SameIdentity(h, s), Accepts(h, s, party)
    PROVE  BindsLastOffer(s)
<1>1. s.offers = h.offers /\ s.binding = NewBinding(h) /\ s.state = "accepted"
    BY DEF Accepts
<1>2. /\ StandingOffer(h) = s.offers[Len(s.offers)]
      /\ s.binding # NoBinding
    BY <1>1, NewBindingType DEF Accepts
<1>3. s.binding.agreed = AgreedOn(s, s.offers[Len(s.offers)])
    BY <1>1, <1>2 DEF NewBinding, AgreedOn, SameIdentity
<1>. HIDE <1>1
<1>. QED
    BY <1>1, <1>2, <1>3 DEF BindsLastOffer, AgreedOn, ParsedTerms

LEMMA NextBinding ==
    ASSUME IInv, BindingIsTheLastOffer, [Next]_vars
    PROVE  BindingIsTheLastOffer'
<1>1. ASSUME NEW r \in Refs, NEW pair \in Pairings, NEW action \in Actions,
             NEW ttl \in TTLs, NEW later \in now .. MaxTime,
             NewSession(r, pair, action, ttl, later)
      PROVE  BindingIsTheLastOffer'
  <2>1. BindsLastOffer(heap'[r])
    BY <1>1, NewSessionEffect DEF BindsLastOffer
  <2>. QED
    BY <1>1, <2>1, NewSessionEffect DEF BindingIsTheLastOffer, Allocated
<1>2. ASSUME NEW r \in Allocated, Effect(r)
      PROVE  BindingIsTheLastOffer'
  <2>. DEFINE h == heap[r]
              s == heap'[r]
  <2>1. BindsLastOffer(h)
    BY DEF BindingIsTheLastOffer
  <2>2. h \in Session /\ s \in Session /\ SameIdentity(h, s)
    BY <1>2 DEF Effect, OnlyAt
  <2>3. BindsLastOffer(s)
    <3>1. CASE Expires(h, s)
      BY <2>1, <3>1 DEF Expires, BindsLastOffer, TerminalStates
    <3>2. CASE \E offer \in Offer : Submits(h, s, offer)
      BY <2>1, <3>2 DEF Submits, MayOffer, BindsLastOffer
    <3>3. CASE \E party \in Agents : Accepts(h, s, party)
      BY <2>2, <3>3, AcceptedBinding
    <3>4. CASE \E party \in Agents : Declines(h, s, party)
      BY <2>1, <3>4 DEF Declines, MayDecline, BindsLastOffer
    <3>5. CASE Signs(h, s)
      <4>1. s.binding # NoBinding
        BY <3>5, NilAssumption DEF Signs
      <4>. QED
        BY <2>1, <2>2, <3>5, <4>1 DEF Signs, BindsLastOffer, SameIdentity
    <3>. QED
      BY <1>2, <3>1, <3>2, <3>3, <3>4, <3>5 DEF Effect
  <2>. QED
    BY <1>2, <2>3 DEF BindingIsTheLastOffer, Effect, OnlyAt, Allocated
<1>3. ASSUME UNCHANGED heap
      PROVE  BindingIsTheLastOffer'
    BY <1>3 DEF BindingIsTheLastOffer, Allocated
<1>. QED
    BY <1>1, <1>2, <1>3, StepCases

\* A session has a binding exactly when it was accepted, and the binding says
\* what the session and its last offer say.
THEOREM BindingCorrect == Spec => []BindingIsTheLastOffer
<1>1. Init => BindingIsTheLastOffer
    BY DEF Init, BindingIsTheLastOffer, Allocated
<1>2. IInv /\ BindingIsTheLastOffer /\ [Next]_vars => BindingIsTheLastOffer'
    BY NextBinding
<1>. QED
    BY <1>1, <1>2, Invariant, PTL DEF Spec

-----------------------------------------------------------------------------
(* Action properties. *)

\* Late calls cannot reopen or alter a session that ended.
THEOREM ClosedCorrect == Spec => ClosedIsFinal
<1>. DEFINE Final(r) == heap[r].state \in TerminalStates =>
        /\ heap'[r] = [heap[r] EXCEPT !.binding = heap'[r].binding]
        /\ heap[r].binding = NoBinding => heap'[r].binding = NoBinding
        /\ heap[r].binding # NoBinding =>
               heap'[r].binding.agreed = heap[r].binding.agreed
        /\ closedBy'[r] = closedBy[r]
<1>1. ASSUME IInv, [Next]_vars, NEW r \in Allocated
      PROVE  Final(r)
  <2>. USE <1>1
  <2>1. heap[r] \in Session /\ r \in Refs
    BY AllocatedType DEF IInv
  <2>2. CASE heap'[r] = heap[r] /\ closedBy'[r] = closedBy[r]
    BY <2>1, <2>2 DEF Session
  <2>3. CASE Effect(r)
    <3>. DEFINE h == heap[r]
                s == heap'[r]
    <3>1. h \in Session /\ s \in Session /\ SameIdentity(h, s)
      BY <2>3 DEF Effect, OnlyAt
    <3>2. CASE Signs(h, s) /\ closedBy' = closedBy
      <4>1. s = [h EXCEPT !.binding = s.binding]
        BY <3>1, <3>2 DEF Signs, SameIdentity, Session
      <4>. QED
        BY <3>2, <4>1 DEF Signs
    <3>3. CASE h.state \notin TerminalStates
      BY <3>3
    <3>4. Expires(h, s) => h.state \notin TerminalStates
      BY DEF Expires
    <3>5. \A offer : Submits(h, s, offer) => h.state \notin TerminalStates
      BY DEF Submits, MayOffer, TerminalStates
    <3>6. \A party : Accepts(h, s, party) => h.state \notin TerminalStates
      BY DEF Accepts, MayAccept, TerminalStates
    <3>7. \A party : Declines(h, s, party) => h.state \notin TerminalStates
      BY DEF Declines, MayDecline, TerminalStates
    <3>. QED
      BY <2>3, <3>2, <3>3, <3>4, <3>5, <3>6, <3>7 DEF Effect
  <2>4. Effect(r) \/ (heap'[r] = heap[r] /\ closedBy'[r] = closedBy[r])
    BY <2>1, StepCases, NewSessionEffect DEF Effect, OnlyAt
  <2>. QED
    BY <2>2, <2>3, <2>4
<1>2. IInv /\ [Next]_vars => [\A r \in Allocated : Final(r)]_vars
    BY <1>1
<1>. QED
    BY <1>2, Invariant, PTL DEF Spec, ClosedIsFinal

\* Past its deadline a session can only expire, or get signatures if accepted.
THEOREM DeadlineCorrect == Spec => DeadlineHonoured
<1>. DEFINE Honoured(r) == now > heap[r].expiresAt /\ heap'[r] # heap[r] =>
        \/ heap'[r].state = "expired"
        \/ heap[r].state = "accepted" /\ heap'[r].state = "accepted"
<1>1. ASSUME IInv, BindingIsTheLastOffer, [Next]_vars, NEW r \in Allocated
      PROVE  Honoured(r)
  <2>. DEFINE h == heap[r]
              s == heap'[r]
  <2>. USE <1>1
  <2>1. h.expiresAt \in Nat /\ now \in Nat /\ r \in Refs
    BY AllocatedType DEF IInv, TypeOK, Session
  <2>2. Effect(r) \/ s = h
    BY <2>1, StepCases, NewSessionEffect DEF Effect, OnlyAt
  <2>3. CASE Effect(r) /\ now > h.expiresAt
    <3>1. \A offer : ~Submits(h, s, offer)
      BY <2>1, <2>3 DEF Submits
    <3>2. \A party : ~Accepts(h, s, party) /\ ~Declines(h, s, party)
      BY <2>1, <2>3 DEF Accepts, Declines
    <3>3. Expires(h, s) \/ Signs(h, s)
      BY <2>3, <3>1, <3>2 DEF Effect
    <3>4. BindsLastOffer(h)
      BY DEF BindingIsTheLastOffer
    <3>. QED
      BY <3>3, <3>4 DEF Expires, Signs, BindsLastOffer
  <2>. QED
    BY <2>2, <2>3
<1>2. IInv /\ BindingIsTheLastOffer /\ [Next]_vars
        => [\A r \in Allocated : Honoured(r)]_vars
    BY <1>1
<1>. QED
    BY <1>2, Invariant, BindingCorrect, PTL DEF Spec, DeadlineHonoured

-----------------------------------------------------------------------------
(* Who accepts. *)

Bilateral(r) ==
    LET s == heap[r] IN
    s.state = "accepted" /\ s.provider # s.consumer /\ Len(s.offers) <= 2
        => closedBy[r] # s.offers[Len(s.offers)].from

LEMMA AcceptIsBilateral ==
    ASSUME NEW h \in Session, NEW s \in Session, NEW party,
           SameIdentity(h, s), FollowsTurns(h), Accepts(h, s, party),
           s.provider # s.consumer, Len(s.offers) <= 2
    PROVE  party # s.offers[Len(s.offers)].from
<1>1. /\ h.provider = s.provider /\ h.consumer = s.consumer /\ h.offers = s.offers
      /\ Len(h.offers) \in Nat /\ Len(h.offers) >= 1
    BY DEF Accepts, SameIdentity
<1>2. CASE h.state = "offered" /\ party = h.provider
  <2>1. Len(h.offers) = 1
    BY <1>2 DEF FollowsTurns
  <2>2. h.offers[1].from = h.consumer
    BY <2>1 DEF FollowsTurns
  <2>. QED
    BY <1>1, <1>2, <2>1, <2>2
<1>3. CASE h.state = "countered" /\ party = h.consumer
  <2>1. Len(h.offers) >= 2
    BY <1>3 DEF FollowsTurns
  <2>2. Len(h.offers) <= 2
    BY <1>1
  <2>3. Len(h.offers) = 2
    <3>. DEFINE n == Len(h.offers)
    <3>1. n \in Nat /\ n >= 2 /\ n <= 2
      BY <1>1, <2>1, <2>2
    <3>. HIDE DEF n
    <3>2. n = 2
      BY <3>1
    <3>. QED
      BY <3>2 DEF n
  <2>4. h.offers[2].from = h.provider
    BY <2>3 DEF FollowsTurns
  <2>. QED
    BY <1>1, <1>3, <2>3, <2>4
<1>. QED
    BY <1>2, <1>3 DEF Accepts, MayAccept

LEMMA NextBilateral ==
    ASSUME IInv, ShortNegotiationsAreBilateral, [Next]_vars, NEW q \in Allocated'
    PROVE  Bilateral(q)'
<1>1. \A r \in Allocated : Bilateral(r)
    BY DEF ShortNegotiationsAreBilateral, Bilateral
<1>2. ASSUME NEW r \in Refs, NEW pair \in Pairings, NEW action \in Actions,
             NEW ttl \in TTLs, NEW later \in now .. MaxTime,
             NewSession(r, pair, action, ttl, later)
      PROVE  Bilateral(q)'
  <2>1. CASE q = r
    BY <1>2, <2>1, NewSessionEffect DEF Bilateral
  <2>2. CASE q # r
    BY <1>1, <1>2, <2>2, NewSessionEffect DEF Bilateral, Allocated
  <2>. QED
    BY <2>1, <2>2
<1>3. ASSUME NEW r \in Allocated, Effect(r)
      PROVE  Bilateral(q)'
  <2>. DEFINE h == heap[r]
              s == heap'[r]
  <2>1. CASE q # r
    BY <1>1, <1>3, <2>1 DEF Effect, OnlyAt, Bilateral, Allocated
  <2>2. CASE q = r
    <3>1. h \in Session /\ s \in Session /\ SameIdentity(h, s) /\ FollowsTurns(h)
      BY <1>3 DEF Effect, OnlyAt, IInv, OffersFollowTurns
    <3>2. CASE s.state # "accepted"
      BY <2>2, <3>2 DEF Bilateral
    <3>3. CASE Signs(h, s) /\ closedBy' = closedBy
      BY <1>1, <2>2, <3>1, <3>3 DEF Signs, SameIdentity, Bilateral
    <3>4. ASSUME NEW party \in Agents, Accepts(h, s, party),
                 closedBy' = [closedBy EXCEPT ![r] = party]
          PROVE  Bilateral(q)'
      <4>1. closedBy'[r] = party
        BY <3>4 DEF IInv, TypeOK, Allocated
      <4>. QED
        BY <2>2, <3>1, <3>4, <4>1, AcceptIsBilateral DEF Bilateral
    <3>5. Expires(h, s) => s.state # "accepted"
      BY DEF Expires
    <3>6. \A offer : Submits(h, s, offer) => s.state # "accepted"
      BY DEF Submits
    <3>7. \A party : Declines(h, s, party) => s.state # "accepted"
      BY DEF Declines
    <3>. QED
      BY <1>3, <3>2, <3>3, <3>4, <3>5, <3>6, <3>7 DEF Effect
  <2>. QED
    BY <2>1, <2>2
<1>4. ASSUME UNCHANGED <<heap, closedBy>>
      PROVE  Bilateral(q)'
    BY <1>1, <1>4 DEF Bilateral, Allocated
<1>. QED
    BY <1>2, <1>3, <1>4, StepCases

\* Nobody accepts an offer of its own as long as at most one counter-offer was
\* made.
THEOREM BilateralCorrect == Spec => []ShortNegotiationsAreBilateral
<1>1. Init => ShortNegotiationsAreBilateral
    BY DEF Init, ShortNegotiationsAreBilateral, Allocated
<1>2. IInv /\ ShortNegotiationsAreBilateral /\ [Next]_vars
        => ShortNegotiationsAreBilateral'
    BY NextBilateral DEF ShortNegotiationsAreBilateral, Bilateral
<1>. QED
    BY <1>1, <1>2, Invariant, PTL DEF Spec

-----------------------------------------------------------------------------
(* The engine's map. *)

\* An ID tells the joined names and the reading of the clock it was made of.
IDTells(s) == s.id = <<Joined[<<s.provider, s.consumer>>], s.openedAt>>

\* Every session has such an ID, and the map an entry for it.
InMap ==
    /\ \A r \in Allocated : IDTells(heap[r]) /\ heap[r].id \in DOMAIN sessions
    /\ \A id \in DOMAIN sessions : sessions[id] \in Allocated /\ heap[sessions[id]].id = id

LEMMA InMapReachable == InMap => SessionsReachable
<1> SUFFICES ASSUME InMap, NEW r \in Allocated
             PROVE  /\ heap[r].id \in DOMAIN sessions
                    /\ LET found == heap[sessions[heap[r].id]] IN
                       /\ found.openedAt = heap[r].openedAt
                       /\ Joined[<<found.provider, found.consumer>>]
                              = Joined[<<heap[r].provider, heap[r].consumer>>]
    BY DEF SessionsReachable
<1>. DEFINE q == sessions[heap[r].id]
<1>1. heap[r].id \in DOMAIN sessions /\ q \in Allocated /\ heap[q].id = heap[r].id
    BY DEF InMap
<1>2. IDTells(heap[q]) /\ IDTells(heap[r])
    BY <1>1 DEF InMap
<1>. HIDE DEF q
<1>3. /\ Joined[<<heap[q].provider, heap[q].consumer>>]
             = Joined[<<heap[r].provider, heap[r].consumer>>]
      /\ heap[q].openedAt = heap[r].openedAt
  <2>1. \A a, b, c, d : <<a, b>> = <<c, d>> => a = c /\ b = d
    OBVIOUS
  <2>2. <<Joined[<<heap[q].provider, heap[q].consumer>>], heap[q].openedAt>>
            = <<Joined[<<heap[r].provider, heap[r].consumer>>], heap[r].openedAt>>
    BY <1>1, <1>2 DEF IDTells
  <2>. QED
    BY Zenon, <2>1, <2>2
<1>. QED
    BY <1>1, <1>3 DEF q

LEMMA NextInMap ==
    ASSUME IInv, IInv', InMap, [Next]_vars
    PROVE  InMap'
<1>0. \A id \in DOMAIN sessions' : sessions'[id] \in Allocated' /\ heap'[sessions'[id]].id = id
    BY DEF IInv, TypeOK
<1>1. SUFFICES ASSUME NEW q \in Allocated'
               PROVE  IDTells(heap'[q]) /\ heap'[q].id \in DOMAIN sessions'
    BY <1>0 DEF InMap, IDTells
<1>2. ASSUME NEW r \in Refs, NEW pair \in Pairings, NEW action \in Actions,
             NEW ttl \in TTLs, NEW later \in now .. MaxTime,
             NewSession(r, pair, action, ttl, later)
      PROVE  IDTells(heap'[q]) /\ heap'[q].id \in DOMAIN sessions'
  <2>. DEFINE id == SessionID(pair[1], pair[2], now)
  <2>1. DOMAIN sessions' = DOMAIN sessions \cup {id}
    BY <1>2 DEF NewSession
  <2>2. CASE q = r
    BY <1>2, <2>1, <2>2, NewSessionEffect DEF IDTells, SessionID
  <2>3. CASE q # r
    <3>1. q \in Allocated /\ heap'[q] = heap[q]
      BY <1>2, <2>3, NewSessionEffect DEF Allocated
    <3>. QED
      BY <2>1, <3>1 DEF InMap
  <2>. QED
    BY <2>2, <2>3
<1>3. ASSUME NEW r \in Allocated, Effect(r)
      PROVE  IDTells(heap'[q]) /\ heap'[q].id \in DOMAIN sessions'
  <2>1. /\ q \in Allocated /\ sessions' = sessions
        /\ heap'[q].id = heap[q].id /\ heap'[q].openedAt = heap[q].openedAt
        /\ heap'[q].provider = heap[q].provider /\ heap'[q].consumer = heap[q].consumer
    BY <1>3 DEF Effect, OnlyAt, SameIdentity, Allocated
  <2>. QED
    BY <2>1 DEF InMap, IDTells
<1>4. CASE UNCHANGED <<heap, sessions>>
    BY <1>4 DEF InMap, Allocated
<1>. QED
    BY <1>2, <1>3, <1>4, StepCases

THEOREM InMapCorrect == Spec => []InMap
<1>1. Init => InMap
    BY DEF Init, InMap, Allocated
<1>. QED
    BY <1>1, NextInMap, Invariant, PTL DEF Spec

\* Whatever sessions are opened and however they go on, a call with a session's
\* ID finds that session, or one opened at the same reading of the clock for
\* parties whose names join alike.
THEOREM ReachableCorrect == Spec => []SessionsReachable
BY InMapCorrect, InMapReachable, PTL

-----------------------------------------------------------------------------
(* The engine implements Agreement. *)

\* A step that touches the session at r alone touches the conversation r alone.
LEMMA BarFrame ==
    ASSUME NEW r \in Refs, \A q \in Refs \ {r} : heap'[q] = heap[q]
    PROVE  /\ StatusBar'   = [StatusBar EXCEPT ![r] = StatusBar'[r]]
           /\ ProposalBar' = [ProposalBar EXCEPT ![r] = ProposalBar'[r]]
           /\ DealBar'     = [DealBar EXCEPT ![r] = DealBar'[r]]
<1>1. StatusBar' = [StatusBar EXCEPT ![r] = StatusBar'[r]]
    BY DEF StatusBar
<1>2. ProposalBar' = [ProposalBar EXCEPT ![r] = ProposalBar'[r]]
    BY DEF ProposalBar
<1>3. DealBar' = [DealBar EXCEPT ![r] = DealBar'[r]]
    BY DEF DealBar
<1>. QED
    BY <1>1, <1>2, <1>3

\* The conversation at an allocated address.
LEMMA BarAt ==
    ASSUME NEW r \in Allocated
    PROVE  /\ StatusBar[r] = StatusOf(heap[r])
           /\ ProposalBar[r] = IF heap[r].offers = <<>> THEN NoTerms
                  ELSE AgreedOn(heap[r], heap[r].offers[Len(heap[r].offers)])
           /\ DealBar[r] = IF heap[r].binding = NoBinding THEN NoTerms
                           ELSE heap[r].binding.agreed
BY DEF StatusBar, ProposalBar, DealBar, Allocated

LEMMA OpenStep ==
    ASSUME IInv, NEW r \in Refs, NEW pair \in Pairings, NEW action \in Actions,
           NEW ttl \in TTLs, NEW later \in now .. MaxTime,
           NewSession(r, pair, action, ttl, later)
    PROVE  Promise!Open(r)
<1>1. /\ r \notin Allocated /\ r \in Allocated'
      /\ heap'[r].state = "initiated" /\ heap'[r].offers = <<>>
      /\ heap'[r].binding = NoBinding
      /\ \A q \in Refs \ {r} : heap'[q] = heap[q]
    BY NewSessionEffect
<1>2. StatusBar[r] = "none" /\ ProposalBar[r] = NoTerms /\ DealBar[r] = NoTerms
    BY <1>1 DEF StatusBar, ProposalBar, DealBar, Allocated
<1>3. StatusBar'[r] = "open" /\ ProposalBar'[r] = NoTerms /\ DealBar'[r] = NoTerms
    BY <1>1 DEF StatusBar, StatusOf, ProposalBar, DealBar, Allocated
<1>4. ProposalBar' = ProposalBar /\ DealBar' = DealBar
    BY <1>1, <1>2, <1>3, BarFrame DEF ProposalBar, DealBar
<1>5. StatusBar' = [StatusBar EXCEPT ![r] = "open"]
    BY <1>1, <1>3, BarFrame
<1>. QED
    BY <1>2, <1>4, <1>5 DEF Promise!Open

\* What an effect does to a conversation, whenever it does it: nothing here
\* depends on the clock.
Moves(h, s) ==
    \/ /\ h.state \notin TerminalStates /\ s.state \in {"declined", "expired"}
       /\ s.offers = h.offers /\ s.binding = h.binding
    \/ /\ h.state \notin TerminalStates /\ s.state \in {"offered", "countered"}
       /\ \E offer \in Offer : s.offers = Append(h.offers, offer)
       /\ s.binding = h.binding
    \/ /\ h.state \notin TerminalStates /\ s.state = "accepted"
       /\ Len(h.offers) >= 1
       /\ s.offers = h.offers /\ s.binding = NewBinding(h)
    \/ Signs(h, s)

LEMMA EffectMoves ==
    ASSUME NEW r \in Allocated, Effect(r)
    PROVE  Moves(heap[r], heap'[r])
BY DEF Effect, Moves, Expires, Submits, Accepts, Declines, MayOffer, MayAccept, MayDecline,
   TerminalStates

LEMMA SessionStep ==
    ASSUME NEW r \in Allocated, heap[r] \in Session, heap'[r] \in Session,
           SameIdentity(heap[r], heap'[r]), Moves(heap[r], heap'[r]),
           \A q \in Refs \ {r} : heap'[q] = heap[q]
    PROVE  \/ \E d \in Agreed : Promise!Propose(r, d)
           \/ Promise!Agree(r)
           \/ Promise!Abandon(r)
           \/ UNCHANGED <<StatusBar, ProposalBar, DealBar>>
<1>. DEFINE h == heap[r]
            s == heap'[r]
            standing == h.offers[Len(h.offers)]
<1>1. r \in Refs /\ r \in Allocated'
    BY NilAssumption DEF Allocated
<1>2. /\ StatusBar'   = [StatusBar EXCEPT ![r] = StatusBar'[r]]
      /\ ProposalBar' = [ProposalBar EXCEPT ![r] = ProposalBar'[r]]
      /\ DealBar'     = [DealBar EXCEPT ![r] = DealBar'[r]]
    BY <1>1, BarFrame
<1>3. /\ StatusBar[r] = StatusOf(h)
      /\ ProposalBar[r] = IF h.offers = <<>> THEN NoTerms ELSE AgreedOn(h, standing)
      /\ DealBar[r] = IF h.binding = NoBinding THEN NoTerms ELSE h.binding.agreed
    BY BarAt
<1>4. /\ StatusBar'[r] = StatusOf(s)
      /\ ProposalBar'[r] = IF s.offers = <<>> THEN NoTerms
                           ELSE AgreedOn(s, s.offers[Len(s.offers)])
      /\ DealBar'[r] = IF s.binding = NoBinding THEN NoTerms ELSE s.binding.agreed
    BY <1>1 DEF StatusBar, ProposalBar, DealBar, Allocated
<1>5. \A o : AgreedOn(s, o) = AgreedOn(h, o)
    BY <1>1 DEF SameIdentity, AgreedOn
<1>6. \A f \in {ProposalBar, DealBar} : f = [f EXCEPT ![r] = f[r]]
    BY DEF ProposalBar, DealBar
<1>7. s.offers = h.offers => ProposalBar' = ProposalBar
    BY <1>2, <1>3, <1>4, <1>5, <1>6
<1>8. s.binding = h.binding => DealBar' = DealBar
    BY <1>2, <1>3, <1>4, <1>6
<1>9. CASE h.state \notin TerminalStates /\ s.state \in {"declined", "expired"}
           /\ s.offers = h.offers /\ s.binding = h.binding
  <2>1. StatusBar[r] = "open" /\ StatusBar'[r] = "failed"
    BY <1>3, <1>4, <1>9 DEF StatusOf, TerminalStates
  <2>2. ProposalBar' = ProposalBar /\ DealBar' = DealBar
    BY <1>7, <1>8, <1>9
  <2>. QED
    BY <1>2, <2>1, <2>2 DEF Promise!Abandon
<1>10. ASSUME NEW offer \in Offer, h.state \notin TerminalStates,
              s.state \in {"offered", "countered"},
              s.offers = Append(h.offers, offer), s.binding = h.binding
       PROVE  \E d \in Agreed : Promise!Propose(r, d)
  <2>1. StatusBar[r] = "open" /\ StatusBar'[r] = "open"
    BY <1>3, <1>4, <1>10 DEF StatusOf, TerminalStates
  <2>2. StatusBar' = StatusBar
    BY <1>2, <2>1 DEF StatusBar
  <2>3. ProposalBar'[r] = AgreedOn(h, offer)
    <3>1. h.offers \in Seq(Offer)
      BY DEF Session
    <3>2. s.offers # <<>> /\ s.offers[Len(s.offers)] = offer
      BY <1>10, <3>1
    <3>. QED
      BY <1>4, <1>5, <3>2
  <2>4. AgreedOn(h, offer) \in Agreed
    BY DEF AgreedOn, Agreed, ParsedTerms, Terms, Offer, Session
  <2>5. DealBar' = DealBar
    BY <1>8, <1>10
  <2>6. Promise!Propose(r, AgreedOn(h, offer))
    BY <1>2, <2>1, <2>2, <2>3, <2>5 DEF Promise!Propose
  <2>. QED
    BY <2>4, <2>6
<1>11. CASE h.state \notin TerminalStates /\ s.state = "accepted" /\ Len(h.offers) >= 1
            /\ s.offers = h.offers /\ s.binding = NewBinding(h)
  <2>1. StatusBar[r] = "open" /\ StatusBar'[r] = "agreed"
    BY <1>3, <1>4, <1>11 DEF StatusOf, TerminalStates
  <2>2. h.offers \in Seq(Offer) /\ Len(h.offers) \in Nat /\ h.offers # <<>>
    BY <1>11 DEF Session
  <2>3. /\ StandingOffer(h) = standing /\ StandingOffer(h) \in Offer
        /\ NewBinding(h) # NoBinding
    BY <1>11, <2>2, NewBindingType
  <2>4. AgreedOn(h, standing) # NoTerms
    <3>1. AgreedOn(h, standing) \in Agreed
      BY <2>3 DEF AgreedOn, Agreed, ParsedTerms, Terms, Offer, Session
    <3>. QED
      BY <3>1, NilAssumption
  <2>5. ProposalBar[r] = AgreedOn(h, standing) /\ ProposalBar' = ProposalBar
    BY <1>3, <1>7, <1>11, <2>2
  <2>6. DealBar'[r] = AgreedOn(h, standing)
    BY <1>4, <1>11, <2>3 DEF NewBinding
  <2>. QED
    BY <1>2, <2>1, <2>4, <2>5, <2>6 DEF Promise!Agree
<1>12. CASE Signs(h, s)
  <2>1. StatusBar' = StatusBar
    BY <1>2, <1>3, <1>4, <1>12 DEF Signs, StatusOf, StatusBar
  <2>2. ProposalBar' = ProposalBar
    BY <1>7, <1>12 DEF Signs
  <2>3. DealBar'[r] = DealBar[r]
    BY <1>3, <1>4, <1>12, NilAssumption DEF Signs
  <2>. QED
    BY <1>2, <1>6, <2>1, <2>2, <2>3
<1>. QED
    BY <1>9, <1>10, <1>11, <1>12 DEF Moves

\* Whatever calls come, in whatever order, a session is a conversation that has
\* one proposal on the table at a time and ends at most once: with no deal, or
\* with a binding on exactly the proposal that was on the table.
THEOREM Refinement == Spec => ImplementsAgreement
<1>1. Init => Promise!Init
    BY DEF Init, Promise!Init, StatusBar, ProposalBar, DealBar
<1>2. IInv /\ IInv' /\ BindingIsTheLastOffer /\ [Next]_vars
        => [Promise!Next]_(Promise!vars)
  <2>1. ASSUME IInv, IInv', BindingIsTheLastOffer, [Next]_vars
        PROVE  Promise!Next \/ UNCHANGED Promise!vars
    <3>. USE <2>1
    <3>1. CASE \E r \in Refs, pair \in Pairings, action \in Actions, ttl \in TTLs,
                     later \in now .. MaxTime : NewSession(r, pair, action, ttl, later)
      BY <3>1, OpenStep DEF Promise!Next
    <3>2. CASE \E r \in Allocated : Effect(r)
      BY <3>2, SessionStep, EffectMoves DEF Effect, OnlyAt, Promise!Next, Promise!vars, Allocated
    <3>3. CASE UNCHANGED heap
      BY <3>3 DEF Promise!vars, StatusBar, ProposalBar, DealBar
    <3>. QED
      BY <3>1, <3>2, <3>3, StepCases
  <2>. QED
    BY <2>1
<1>. QED
    BY <1>1, <1>2, Invariant, BindingCorrect, PTL DEF Spec, ImplementsAgreement, Promise!Spec
=============================================================================
