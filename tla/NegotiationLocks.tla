-------------------------- MODULE NegotiationLocks --------------------------
(***************************************************************************)
(* The negotiation engine as goroutines run it: each call takes the        *)
(* engine's sync.RWMutex, looks its session up, takes the session's, reads *)
(* the clock and the session, writes its decision and unlocks in reverse   *)
(* order.  SignBindingOnAccept lets go of the engine before it locks the   *)
(* session; GetSession locks only the engine, IsExpired only the session.  *)
(* The clock may move between any two steps, so that a decision taken in   *)
(* time may be written after the deadline.                                 *)
(*                                                                         *)
(* The operators on sessions are those of Negotiation.  A call of          *)
(* NewSession reads the clock, twice, and stores its session in one step:  *)
(* it holds the engine's lock, and nobody has the new session yet.         *)
(***************************************************************************)
EXTENDS Negotiation

CONSTANTS
    Procs,        \* goroutines that call the engine
    NoProc,       \* nobody
    UnknownID,    \* an ID the engine never issued
    NoRef,        \* the nil *Session
    NoCall,       \* a goroutine between two calls makes no call
    NoDecision    \* a goroutine with nothing to write

ASSUME LocksAssumption == NoProc \notin Procs

VARIABLES
    pc,        \* where each goroutine is in its call
    call,      \* the call it makes, with its arguments
    ref,       \* the session it looked up
    decision,  \* what it is about to write to that session
    emu,       \* Engine.mu
    smu        \* Session.mu, by session

locals   == <<pc, call, ref, decision>>
lockVars == <<vars, locals, emu, smu>>

-----------------------------------------------------------------------------
(* The calls *)

Calls(ids) ==
    [op : {"NewSession"}, pair : Pairings, action : Actions, ttl : TTLs] \cup
    [op : {"SubmitOffer"}, id : ids, offer : Offer] \cup
    [op : {"AcceptOffer", "DeclineOffer"}, id : ids, party : Agents] \cup
    [op : {"SignBindingOnAccept"}, id : ids, kp : Keys \cup {NoKey}, kc : Keys \cup {NoKey}] \cup
    [op : {"GetSession"}, id : ids]

WriteLocks_AcceptReads ==
    [engine  |-> {"NewSession", "SubmitOffer", "DeclineOffer"},
     session |-> {"SubmitOffer", "DeclineOffer", "SignBindingOnAccept"}]

\* The locks a call takes with Lock; it takes the others with RLock.
WriteLocks ==
    [engine  |-> {"NewSession", "SubmitOffer", "AcceptOffer", "DeclineOffer"},
     session |-> {"SubmitOffer", "AcceptOffer", "DeclineOffer", "SignBindingOnAccept"}]

\* The calls that hold the engine's lock until they return.
Nested == {"SubmitOffer", "AcceptOffer", "DeclineOffer"}

Permits_AnyoneOffers(c, s) ==
    \/ c.op = "SubmitOffer" /\ s.state \notin TerminalStates /\ Len(s.offers) < MaxOffers
    \/ c.op = "AcceptOffer" /\ MayAccept(s, c.party)
    \/ c.op = "DeclineOffer" /\ MayDecline(s, c.party)
    \/ c.op = "SignBindingOnAccept" /\ s.binding # NoBinding

\* The call finds the session ready for it.
Permits(c, s) ==
    \/ c.op = "SubmitOffer" /\ MayOffer(s, c.offer.from) /\ Len(s.offers) < MaxOffers
    \/ c.op = "AcceptOffer" /\ MayAccept(s, c.party)
    \/ c.op = "DeclineOffer" /\ MayDecline(s, c.party)
    \/ c.op = "SignBindingOnAccept" /\ s.binding # NoBinding

Outcome(c, s) ==
    CASE c.op = "SubmitOffer"  -> Offered(s, c.offer)
      [] c.op = "AcceptOffer"  -> Accepted(s)
      [] c.op = "DeclineOffer" -> Declined(s)
      [] c.op = "SignBindingOnAccept" -> Signed(s, c.kp, c.kc)

\* The party a decision to close the session is recorded for.
Closer(c, nobody) == IF c.op \in {"AcceptOffer", "DeclineOffer"} THEN c.party ELSE nobody

-----------------------------------------------------------------------------
(* sync.RWMutex: one writer at a time stands in line, keeps new readers out  *)
(* from then on, and enters when the readers inside have left.               *)

Unlocked == [writer |-> NoProc, readers |-> {}]

Open(m) == m.writer = NoProc

Claim(m, p) == [m EXCEPT !.writer = p]

Join(m, p) == [m EXCEPT !.readers = @ \cup {p}]

Entered(m, p) == m.writer = p /\ m.readers = {}

Release(m, p) == [writer  |-> IF m.writer = p THEN NoProc ELSE m.writer,
                  readers |-> m.readers \ {p}]

-----------------------------------------------------------------------------
LockInit ==
    /\ Init
    /\ pc       = [p \in Procs |-> "idle"]
    /\ call     = [p \in Procs |-> NoCall]
    /\ ref      = [p \in Procs |-> NoRef]
    /\ decision = [p \in Procs |-> NoDecision]
    /\ emu      = Unlocked
    /\ smu      = [r \in Refs |-> Unlocked]

Goto(p, label) == pc' = [pc EXCEPT ![p] = label]

Return(p) ==
    /\ Goto(p, "idle")
    /\ call' = [call EXCEPT ![p] = NoCall]
    /\ ref'  = [ref EXCEPT ![p] = NoRef]

Begin(p) ==
    /\ pc[p] = "idle"
    /\ \E c \in Calls(DOMAIN sessions \cup {UnknownID}) : call' = [call EXCEPT ![p] = c]
    /\ Goto(p, "engine")
    /\ UNCHANGED <<vars, ref, decision, emu, smu>>

\* IsExpired is called on a session the caller holds.
BeginIsExpired(p) ==
    /\ pc[p] = "idle"
    /\ \E r \in Allocated : ref' = [ref EXCEPT ![p] = r]
    /\ call' = [call EXCEPT ![p] = [op |-> "IsExpired"]]
    /\ Goto(p, "session")
    /\ UNCHANGED <<vars, decision, emu, smu>>

\* e.mu.Lock() stands in line, e.mu.RLock() enters.
EngineLock(p) ==
    /\ pc[p] = "engine"
    /\ Open(emu)
    /\ \/ /\ call[p].op \in WriteLocks.engine
          /\ emu' = Claim(emu, p)
          /\ Goto(p, "engineWait")
       \/ /\ call[p].op \notin WriteLocks.engine
          /\ emu' = Join(emu, p)
          /\ Goto(p, "lookup")
    /\ UNCHANGED <<vars, call, ref, decision, smu>>

EngineEnter(p) ==
    /\ pc[p] = "engineWait"
    /\ Entered(emu, p)
    /\ Goto(p, "lookup")
    /\ UNCHANGED <<vars, call, ref, decision, emu, smu>>

Create(p) ==
    /\ pc[p] = "lookup"
    /\ call[p].op = "NewSession"
    /\ \E r \in Refs, later \in now .. MaxTime :
           NewSession(r, call[p].pair, call[p].action, call[p].ttl, later)
    /\ Goto(p, "unlockEngine")
    /\ UNCHANGED <<call, ref, decision, emu, smu>>

\* The bound on the number of sessions: a call of NewSession past it fails.
CreateNone(p) ==
    /\ pc[p] = "lookup"
    /\ call[p].op = "NewSession"
    /\ Allocated = Refs
    /\ Goto(p, "unlockEngine")
    /\ UNCHANGED <<vars, call, ref, decision, emu, smu>>

Lookup(p) ==
    /\ pc[p] = "lookup"
    /\ call[p].op # "NewSession"
    /\ \/ /\ call[p].id \in DOMAIN sessions
          /\ ref' = [ref EXCEPT ![p] = sessions[call[p].id]]
          /\ Goto(p, IF call[p].op \in Nested THEN "session" ELSE "unlockEngine")
       \/ /\ call[p].id \notin DOMAIN sessions
          /\ Goto(p, "unlockEngine")
          /\ UNCHANGED ref
    /\ UNCHANGED <<vars, call, decision, emu, smu>>

SessionLock(p) ==
    LET r == ref[p] IN
    /\ pc[p] = "session"
    /\ Open(smu[r])
    /\ \/ /\ call[p].op \in WriteLocks.session
          /\ smu' = [smu EXCEPT ![r] = Claim(@, p)]
          /\ Goto(p, "sessionWait")
       \/ /\ call[p].op \notin WriteLocks.session
          /\ smu' = [smu EXCEPT ![r] = Join(@, p)]
          /\ Goto(p, "check")
    /\ UNCHANGED <<vars, call, ref, decision, emu>>

Locked_CallsIsExpired == "session"

\* checkExpired runs with the session locked: were it to call IsExpired, which
\* locks the session itself, the goroutine would wait for itself.
Locked == "check"

SessionEnter(p) ==
    /\ pc[p] = "sessionWait"
    /\ Entered(smu[ref[p]], p)
    /\ Goto(p, Locked)
    /\ UNCHANGED <<vars, call, ref, decision, emu, smu>>

\* checkExpired finds the session past its deadline and expires it.
CheckExpired(p) ==
    LET s == heap[ref[p]] IN
    /\ pc[p] = "check"
    /\ call[p].op \in Nested
    /\ checkExpired(s)
    /\ heap' = [heap EXCEPT ![ref[p]] = Expired(s)]
    /\ Goto(p, "unlockSession")
    /\ UNCHANGED <<sessions, now, closedBy, call, ref, decision, emu, smu>>

CheckRefused_LeavesItLocked(p) ==
    LET s == heap[ref[p]] IN
    /\ pc[p] = "check"
    /\ ~(call[p].op \in Nested /\ checkExpired(s))
    /\ ~Permits(call[p], s)
    /\ IF call[p].op \in Nested
       THEN Goto(p, "unlockEngine") /\ UNCHANGED <<call, ref>>
       ELSE Return(p)
    /\ UNCHANGED <<vars, decision, emu, smu>>

\* The call is refused, or was only a question.
CheckRefused(p) ==
    LET s == heap[ref[p]] IN
    /\ pc[p] = "check"
    /\ ~(call[p].op \in Nested /\ checkExpired(s))
    /\ ~Permits(call[p], s)
    /\ Goto(p, "unlockSession")
    /\ UNCHANGED <<vars, call, ref, decision, emu, smu>>

CheckPassed(p) ==
    LET s == heap[ref[p]] IN
    /\ pc[p] = "check"
    /\ ~(call[p].op \in Nested /\ checkExpired(s))
    /\ Permits(call[p], s)
    /\ decision' = [decision EXCEPT ![p] = Outcome(call[p], s)]
    /\ Goto(p, "commit")
    /\ UNCHANGED <<vars, call, ref, emu, smu>>

Commit(p) ==
    LET r == ref[p] IN
    /\ pc[p] = "commit"
    /\ heap' = [heap EXCEPT ![r] = decision[p]]
    /\ closedBy' = [closedBy EXCEPT ![r] = Closer(call[p], @)]
    /\ decision' = [decision EXCEPT ![p] = NoDecision]
    /\ Goto(p, "unlockSession")
    /\ UNCHANGED <<sessions, now, call, ref, emu, smu>>

SessionUnlock(p) ==
    /\ pc[p] = "unlockSession"
    /\ smu' = [smu EXCEPT ![ref[p]] = Release(@, p)]
    /\ IF call[p].op \in Nested
       THEN Goto(p, "unlockEngine") /\ UNCHANGED <<call, ref>>
       ELSE Return(p)
    /\ UNCHANGED <<vars, decision, emu>>

EngineUnlock(p) ==
    /\ pc[p] = "unlockEngine"
    /\ emu' = Release(emu, p)
    /\ IF call[p].op = "SignBindingOnAccept" /\ ref[p] # NoRef
       THEN Goto(p, "session") /\ UNCHANGED <<call, ref>>
       ELSE Return(p)
    /\ UNCHANGED <<vars, decision, smu>>

\* Taking a lock, as against everything a goroutine does between two locks.
TakeLock(p) == EngineLock(p) \/ SessionLock(p)

Run(p) ==
    \/ EngineEnter(p) \/ Create(p) \/ CreateNone(p) \/ Lookup(p)
    \/ SessionEnter(p) \/ CheckExpired(p) \/ CheckRefused(p) \/ CheckPassed(p)
    \/ Commit(p) \/ SessionUnlock(p) \/ EngineUnlock(p)

LockTick == Tick /\ UNCHANGED <<locals, emu, smu>>

LockNext ==
    \/ \E p \in Procs : Begin(p) \/ BeginIsExpired(p) \/ TakeLock(p) \/ Run(p)
    \/ LockTick

\* The scheduler runs every goroutine that can go on, and a Go mutex serves
\* whoever has waited long enough: a lock that is free again and again is got.
\* Nobody has to make a call, and the clock does not have to move.
LockFairness == \A p \in Procs : WF_lockVars(Run(p)) /\ SF_lockVars(TakeLock(p))

LockSpec == LockInit /\ [][LockNext]_lockVars /\ LockFairness

-----------------------------------------------------------------------------
(* Properties *)

\* Between taking the engine's lock and giving it back.
InEngine(p) ==
    \/ pc[p] \in {"lookup", "unlockEngine"}
    \/ pc[p] \in {"session", "sessionWait", "check", "commit", "unlockSession"}
       /\ call[p].op \in {"SubmitOffer", "AcceptOffer", "DeclineOffer"}

\* Between taking a session's lock and giving it back.
InSession(p) == pc[p] \in {"check", "commit", "unlockSession"}

\* Two goroutines are inside the engine together only if neither changes the
\* map or answers an offer, and with one session only if both ask IsExpired.
NoIntruders == \A p, q \in Procs : p # q =>
    /\ InEngine(p) /\ InEngine(q)
           => call[p].op \in {"GetSession", "SignBindingOnAccept"}
    /\ InSession(p) /\ InSession(q) /\ ref[p] = ref[q]
           => call[p].op = "IsExpired"

\* p cannot go on before q does: q has the lock p wants, or stands in line for it
\* ahead of p.
WaitsFor(p, q) ==
    \/ pc[p] = "engine" /\ q = emu.writer
    \/ pc[p] = "engineWait" /\ q \in emu.readers
    \/ pc[p] = "session" /\ q = smu[ref[p]].writer
    \/ pc[p] = "sessionWait" /\ q \in smu[ref[p]].readers

\* Nobody waits for a goroutine that has returned, so that every lock that is held
\* is going to be given back, and no goroutines wait for each other, or one for
\* itself.
NoCircularWait ==
    /\ \A p, q \in Procs : WaitsFor(p, q) => pc[q] # "idle"
    /\ \A circle \in (SUBSET Procs) \ {{}} :
           \E p \in circle : \A q \in circle : ~WaitsFor(p, q)

\* What a goroutine decided from its session is still what it would decide when
\* it writes it, deadline apart: no other call got in between check and write.
DecisionsAreFresh == \A p \in Procs :
    pc[p] = "commit" =>
        /\ Permits(call[p], heap[ref[p]])
        /\ decision[p] = Outcome(call[p], heap[ref[p]])

\* The engine with locks implements the engine with atomic calls: a call takes
\* effect when its checks pass, and may be late only in writing that down.
Deciding(r) == {p \in Procs : pc[p] = "commit" /\ ref[p] = r}

HeapBar == [r \in Refs |->
    IF Deciding(r) = {} THEN heap[r] ELSE decision[CHOOSE p \in Deciding(r) : TRUE]]

ClosedByBar == [r \in Refs |->
    IF Deciding(r) = {} THEN closedBy[r]
    ELSE Closer(call[CHOOSE p \in Deciding(r) : TRUE], closedBy[r])]

Atomic == INSTANCE Negotiation WITH heap <- HeapBar, closedBy <- ClosedByBar

ImplementsNegotiation == Atomic!Spec

\* Every call returns, whatever the others do: no deadlock, and no goroutine
\* starves at a lock.
EveryCallReturns == \A p \in Procs : pc[p] # "idle" ~> pc[p] = "idle"
=============================================================================
