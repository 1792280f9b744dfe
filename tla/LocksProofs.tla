---------------------------- MODULE LocksProofs ----------------------------
(***************************************************************************)
(* Proofs about the locks of the negotiation engine, for any number of     *)
(* goroutines, sessions and calls: nobody intrudes, no decision is stale,  *)
(* the engine with locks implements the engine with atomic calls, and the  *)
(* sessions that goroutines find in memory keep what Agreement promises.   *)
(*                                                                         *)
(* The engine as it would be if every decision were written the moment it  *)
(* is taken is an instance, Bar, of the proofs about Negotiation: what     *)
(* holds there of heap holds here of HeapBar.  The last part carries it    *)
(* over to heap itself, the sessions as they have been written.            *)
(***************************************************************************)
EXTENDS NegotiationLocks, NegotiationProofs

Bar == INSTANCE NegotiationProofs WITH heap <- HeapBar, closedBy <- ClosedByBar

-----------------------------------------------------------------------------
(* The locks.  What a lock says is who stands in line for it, who writes and *)
(* who reads under it; there is one writer at a time, and then no reader.    *)

Holds(m, waiting, writing, reading) ==
    /\ waiting \cup writing \cup reading \subseteq Procs
    /\ m = [writer |-> m.writer, readers |-> reading]
    /\ \A p \in Procs : m.writer = p <=> p \in waiting \cup writing
    /\ writing # {} => reading = {}

LEMMA UnlockedHolds == Holds(Unlocked, {}, {}, {})
BY LocksAssumption DEF Holds, Unlocked

LEMMA ClaimHolds ==
    ASSUME NEW m, NEW w, NEW i, NEW r, Holds(m, w, i, r), Open(m), NEW p \in Procs
    PROVE  w = {} /\ i = {} /\ Holds(Claim(m, p), {p}, {}, r)
<1>1. w = {} /\ i = {}
    BY LocksAssumption DEF Holds, Open
<1>2. Claim(m, p) = [writer |-> p, readers |-> r]
    BY DEF Holds, Claim
<1>. QED
    BY <1>1, <1>2 DEF Holds

LEMMA JoinHolds ==
    ASSUME NEW m, NEW w, NEW i, NEW r, Holds(m, w, i, r), Open(m), NEW p \in Procs
    PROVE  w = {} /\ i = {} /\ Holds(Join(m, p), {}, {}, r \cup {p})
<1>1. w = {} /\ i = {}
    BY LocksAssumption DEF Holds, Open
<1>2. Join(m, p) = [writer |-> m.writer, readers |-> r \cup {p}]
    BY DEF Holds, Join
<1>. QED
    BY <1>1, <1>2 DEF Holds

LEMMA EnterHolds ==
    ASSUME NEW m, NEW w, NEW i, NEW r, Holds(m, w, i, r), NEW p \in w, Entered(m, p)
    PROVE  r = {} /\ Holds(m, w \ {p}, i \cup {p}, {})
<1>1. r = {}
    BY DEF Holds, Entered
<1>. QED
    BY <1>1 DEF Holds

LEMMA ReleaseHolds ==
    ASSUME NEW m, NEW w, NEW i, NEW r, Holds(m, w, i, r), NEW p \in (i \cup r) \ w
    PROVE  Holds(Release(m, p), w, i \ {p}, r \ {p})
<1>1. Release(m, p) = [writer |-> IF m.writer = p THEN NoProc ELSE m.writer,
                       readers |-> r \ {p}]
    BY DEF Holds, Release
<1>2. \A q \in Procs : Release(m, p).writer = q <=> q \in w \cup (i \ {p})
    BY <1>1, LocksAssumption DEF Holds
<1>. QED
    BY <1>1, <1>2 DEF Holds

\* Two goroutines under one lock both read.
LEMMA TogetherTheyRead ==
    ASSUME NEW m, NEW w, NEW i, NEW r, Holds(m, w, i, r),
           NEW p \in i \cup r, NEW q \in i \cup r, p # q
    PROVE  p \in r /\ q \in r
BY DEF Holds

-----------------------------------------------------------------------------
EngineLabels == {"engine", "engineWait", "lookup", "unlockEngine"}

SessionLabels == {"session", "sessionWait", "check", "commit", "unlockSession"}

CallOK(c) ==
    \/ /\ c.op = "NewSession"
       /\ c.pair \in Pairings /\ c.action \in Actions /\ c.ttl \in TTLs
    \/ c.op = "SubmitOffer" /\ c.offer \in Offer
    \/ c.op \in {"AcceptOffer", "DeclineOffer"} /\ c.party \in Agents
    \/ c.op = "SignBindingOnAccept" /\ c.kp \in Keys \cup {NoKey} /\ c.kc \in Keys \cup {NoKey}
    \/ c.op \in {"GetSession", "IsExpired"}

\* A goroutine in the session part of its call has a session that is there, and,
\* if it has kept the engine's lock, the one its ID leads to.
ControlAt(p) ==
    /\ pc[p] \in {"idle"} \cup EngineLabels \cup SessionLabels
    /\ ref[p] \in Allocated \cup {NoRef}
    /\ pc[p] # "idle" => CallOK(call[p])
    /\ pc[p] \in EngineLabels => call[p].op # "IsExpired"
    /\ pc[p] = "engineWait" => call[p].op \in WriteLocks.engine
    /\ pc[p] \in {"sessionWait", "commit"} => call[p].op \in WriteLocks.session
    /\ pc[p] \in SessionLabels =>
           /\ ref[p] \in Allocated
           /\ call[p].op \in WriteLocks.session \cup {"IsExpired"}
           /\ call[p].op \in Nested =>
                  call[p].id \in DOMAIN sessions /\ sessions[call[p].id] = ref[p]

Control ==
    /\ DOMAIN pc = Procs /\ DOMAIN call = Procs /\ DOMAIN ref = Procs
    /\ DOMAIN decision = Procs /\ DOMAIN smu = Refs
    /\ DOMAIN heap = Refs /\ DOMAIN closedBy = Refs
    /\ \A id \in DOMAIN sessions : sessions[id] \in Allocated
    /\ \A p \in Procs : ControlAt(p)

EngineWaiting == {p \in Procs : pc[p] = "engineWait"}
EngineWriting == {p \in Procs : InEngine(p) /\ call[p].op \in WriteLocks.engine}
EngineReading == {p \in Procs : InEngine(p) /\ call[p].op \notin WriteLocks.engine}

SessionWaiting(r) == {p \in Procs : ref[p] = r /\ pc[p] = "sessionWait"}
SessionWriting(r) == {p \in Procs : ref[p] = r /\ InSession(p) /\ call[p].op \in WriteLocks.session}
SessionReading(r) == {p \in Procs : ref[p] = r /\ InSession(p) /\ call[p].op \notin WriteLocks.session}

EngineMutex == Holds(emu, EngineWaiting, EngineWriting, EngineReading)

SessionMutex == \A r \in Refs :
    Holds(smu[r], SessionWaiting(r), SessionWriting(r), SessionReading(r))

Locking == Control /\ EngineMutex /\ SessionMutex

-----------------------------------------------------------------------------
(* Mutual exclusion *)

LEMMA Exclusion == Locking => NoIntruders
<1> SUFFICES ASSUME Locking, NEW p \in Procs, NEW q \in Procs, p # q
             PROVE  /\ InEngine(p) /\ InEngine(q)
                           => call[p].op \in {"GetSession", "SignBindingOnAccept"}
                    /\ InSession(p) /\ InSession(q) /\ ref[p] = ref[q]
                           => call[p].op = "IsExpired"
    BY DEF NoIntruders
<1>1. ASSUME InEngine(p), InEngine(q)
      PROVE  call[p].op \in {"GetSession", "SignBindingOnAccept"}
    <2>1. call[p].op \notin WriteLocks.engine
        <3>1. p \in EngineWriting \cup EngineReading /\ q \in EngineWriting \cup EngineReading
            BY <1>1 DEF EngineWriting, EngineReading
        <3>2. p \in EngineReading
            BY <3>1, TogetherTheyRead DEF Locking, EngineMutex
        <3>. QED
            BY <3>2 DEF EngineReading
    <2>2. CallOK(call[p]) /\ call[p].op # "IsExpired"
        BY <1>1, <2>1 DEF Locking, Control, ControlAt, InEngine, EngineLabels, WriteLocks
    <2>. QED
        BY <2>1, <2>2 DEF CallOK, WriteLocks
<1>2. ASSUME InSession(p), InSession(q), ref[p] = ref[q]
      PROVE  call[p].op = "IsExpired"
    <2>1. /\ ref[p] \in Refs
          /\ call[p].op \in WriteLocks.session \cup {"IsExpired"}
        BY <1>2 DEF Locking, Control, ControlAt, InSession, SessionLabels, Allocated
    <2>2. call[p].op \notin WriteLocks.session
        <3>. DEFINE r == ref[p]
        <3>1. /\ p \in SessionWriting(r) \cup SessionReading(r)
              /\ q \in SessionWriting(r) \cup SessionReading(r)
            BY <1>2 DEF SessionWriting, SessionReading
        <3>2. p \in SessionReading(r)
            BY <2>1, <3>1, TogetherTheyRead DEF Locking, SessionMutex
        <3>. QED
            BY <3>2 DEF SessionReading
    <2>. QED
        BY <2>1, <2>2
<1>. QED
    BY <1>1, <1>2

-----------------------------------------------------------------------------
(* Waiting.  Whoever waits, waits for somebody who is further on.            *)

\* How far a goroutine is from running on with every lock it has asked for.
Behind(p) ==
    CASE pc[p] = "engine"      -> 4
      [] pc[p] = "engineWait"  -> 3
      [] pc[p] = "session"     -> 2
      [] pc[p] = "sessionWait" -> 1
      [] OTHER                 -> 0

LEMMA WaitsForNext ==
    ASSUME Locking, NEW p \in Procs, NEW q \in Procs, WaitsFor(p, q)
    PROVE  Behind(q) < Behind(p) /\ pc[q] # "idle"
<1>1. CASE pc[p] = "engine"
    <2>1. q \in EngineWaiting \cup EngineWriting
        BY <1>1 DEF WaitsFor, Locking, EngineMutex, Holds
    <2>2. pc[q] = "engineWait" \/ InEngine(q)
        BY <2>1 DEF EngineWaiting, EngineWriting
    <2>. QED
        BY <1>1, <2>2 DEF Behind, InEngine
<1>2. CASE pc[p] = "engineWait"
    <2>1. q \in EngineReading
        BY <1>2 DEF WaitsFor, Locking, EngineMutex, Holds
    <2>2. pc[q] \in {"lookup", "unlockEngine"}
        BY <2>1 DEF EngineReading, InEngine, WriteLocks
    <2>. QED
        BY <1>2, <2>2 DEF Behind
<1>3. ASSUME pc[p] \in {"session", "sessionWait"}
      PROVE  Holds(smu[ref[p]], SessionWaiting(ref[p]), SessionWriting(ref[p]), SessionReading(ref[p]))
    BY <1>3 DEF Locking, Control, ControlAt, SessionLabels, SessionMutex, Allocated
<1>4. CASE pc[p] = "session"
    <2>1. q \in SessionWaiting(ref[p]) \cup SessionWriting(ref[p])
        BY <1>3, <1>4 DEF WaitsFor, Holds
    <2>2. pc[q] \in {"sessionWait", "check", "commit", "unlockSession"}
        BY <2>1 DEF SessionWaiting, SessionWriting, InSession
    <2>. QED
        BY <1>4, <2>2 DEF Behind
<1>5. CASE pc[p] = "sessionWait"
    <2>1. q \in SessionReading(ref[p])
        BY <1>3, <1>5 DEF WaitsFor, Holds
    <2>2. pc[q] \in {"check", "commit", "unlockSession"}
        BY <2>1 DEF SessionReading, InSession
    <2>. QED
        BY <1>5, <2>2 DEF Behind
<1>. QED
    BY <1>1, <1>2, <1>4, <1>5 DEF WaitsFor

\* Whoever waits within a set waits for somebody less far behind, who waits in
\* turn: five steps, and nobody is left to wait for.
LEMMA NoCircle ==
    ASSUME Locking, NEW circle \in SUBSET Procs, circle # {}
    PROVE  \E p \in circle : \A q \in circle : ~WaitsFor(p, q)
<1> SUFFICES ASSUME \A p \in circle : \E q \in circle : WaitsFor(p, q)
             PROVE  FALSE
    OBVIOUS
<1>1. ASSUME NEW p \in circle PROVE \E q \in circle : Behind(q) < Behind(p)
    <2>1. PICK q \in circle : WaitsFor(p, q)
        OBVIOUS
    <2>. QED
        BY <2>1, WaitsForNext
<1>2. \A p \in circle : Behind(p) \in 0 .. 4
    BY DEF Behind
<1>3. \A p \in circle : Behind(p) # 0
    BY <1>1, <1>2
<1>4. \A p \in circle : Behind(p) # 1
    BY <1>1, <1>2, <1>3
<1>5. \A p \in circle : Behind(p) # 2
    BY <1>1, <1>2, <1>3, <1>4
<1>6. \A p \in circle : Behind(p) # 3
    BY <1>1, <1>2, <1>3, <1>4, <1>5
<1>7. \A p \in circle : Behind(p) # 4
    BY <1>1, <1>2, <1>3, <1>4, <1>5, <1>6
<1>. QED
    BY <1>2, <1>3, <1>4, <1>5, <1>6, <1>7

LEMMA WaitingIsRight == Locking => NoCircularWait
<1> SUFFICES ASSUME Locking PROVE NoCircularWait
    OBVIOUS
<1>1. \A p, q \in Procs : WaitsFor(p, q) => pc[q] # "idle"
    BY WaitsForNext
<1>2. ASSUME NEW circle \in (SUBSET Procs) \ {{}}
      PROVE  \E p \in circle : \A q \in circle : ~WaitsFor(p, q)
    BY <1>2, NoCircle
<1>. QED
    BY Zenon, <1>1, <1>2 DEF NoCircularWait

-----------------------------------------------------------------------------
(* What a step of one goroutine leaves alone *)

\* Only p has moved.
Alone(p) ==
    /\ DOMAIN pc' = Procs /\ DOMAIN call' = Procs /\ DOMAIN ref' = Procs
    /\ \A q \in Procs \ {p} : pc'[q] = pc[q] /\ call'[q] = call[q] /\ ref'[q] = ref[q]

LEMMA ControlStep ==
    ASSUME Control, NEW p \in Procs, Alone(p), sessions' = sessions,
           DOMAIN smu' = Refs, DOMAIN heap' = Refs, DOMAIN closedBy' = Refs, DOMAIN decision' = Procs,
           Allocated \subseteq Allocated', ControlAt(p)'
    PROVE  Control'
<1>1. ASSUME NEW q \in Procs \ {p} PROVE ControlAt(q)'
    BY <1>1 DEF Control, ControlAt, Alone
<1>. QED
    BY <1>1 DEF Control, Alone

\* The engine's lock as p has it is as it was.
LEMMA EngineKeeps ==
    ASSUME EngineMutex, NEW p \in Procs, Alone(p), emu' = emu,
           pc[p] = "engineWait" <=> pc'[p] = "engineWait",
           InEngine(p) <=> InEngine(p)',
           InEngine(p) => call'[p].op = call[p].op
    PROVE  EngineMutex'
<1>1. /\ EngineWaiting' = EngineWaiting
      /\ EngineWriting' = EngineWriting
      /\ EngineReading' = EngineReading
    BY DEF EngineWaiting, EngineWriting, EngineReading, Alone, InEngine
<1>. QED
    BY <1>1 DEF EngineMutex

LEMMA SessionKeeps ==
    ASSUME SessionMutex, NEW p \in Procs, Alone(p), smu' = smu,
           pc[p] = "sessionWait" <=> pc'[p] = "sessionWait",
           InSession(p) <=> InSession(p)',
           pc[p] = "sessionWait" \/ InSession(p) =>
               ref'[p] = ref[p] /\ call'[p].op = call[p].op
    PROVE  SessionMutex'
<1> SUFFICES ASSUME NEW r \in Refs
             PROVE  Holds(smu[r], SessionWaiting(r), SessionWriting(r), SessionReading(r))'
    BY DEF SessionMutex
<1>1. /\ SessionWaiting(r)' = SessionWaiting(r)
      /\ SessionWriting(r)' = SessionWriting(r)
      /\ SessionReading(r)' = SessionReading(r)
    BY DEF SessionWaiting, SessionWriting, SessionReading, Alone, InSession
<1>. QED
    BY <1>1 DEF SessionMutex

-----------------------------------------------------------------------------
(* The steps that only concern locks *)

LEMMA BeginLocking ==
    ASSUME Locking, NEW p \in Procs, Begin(p) \/ BeginIsExpired(p)
    PROVE  Locking' /\ Alone(p)
<1>1. /\ pc[p] = "idle" /\ pc'[p] \in {"engine", "session"}
      /\ Alone(p) /\ UNCHANGED <<vars, decision, emu, smu>>
    BY DEF Begin, BeginIsExpired, Goto, Alone, Locking, Control
<1>2. CallOK(call'[p])
    BY DEF Begin, BeginIsExpired, Calls, CallOK, Locking, Control
<1>3. ControlAt(p)'
    <2>1. CASE Begin(p)
        BY <1>1, <1>2, <2>1 DEF Begin, Goto, Calls, Locking, Control, ControlAt,
              EngineLabels, SessionLabels, vars, Allocated
    <2>2. CASE BeginIsExpired(p)
        BY <1>1, <1>2, <2>2 DEF BeginIsExpired, Goto, Locking, Control, ControlAt,
              EngineLabels, SessionLabels, Nested, vars, Allocated
    <2>. QED
        BY <2>1, <2>2
<1>4. Control'
    BY <1>1, <1>3, ControlStep DEF Locking, Control, vars, Allocated
<1>5. EngineMutex'
    <2>1. InEngine(p)' = FALSE /\ InEngine(p) = FALSE
        BY <1>1 DEF InEngine, Begin, BeginIsExpired, Goto, Locking, Control
    <2>. QED
        BY <1>1, <2>1, EngineKeeps DEF Locking
<1>6. SessionMutex'
    BY <1>1, SessionKeeps DEF Locking, InSession
<1>. QED
    BY <1>1, <1>4, <1>5, <1>6 DEF Locking

LEMMA EngineLockLocking ==
    ASSUME Locking, NEW p \in Procs, EngineLock(p)
    PROVE  Locking' /\ Alone(p)
<1>1. /\ pc[p] = "engine" /\ pc'[p] \in {"engineWait", "lookup"}
      /\ Alone(p) /\ UNCHANGED <<vars, call, ref, decision, smu>>
    BY DEF EngineLock, Goto, Alone, Locking, Control
<1>2. Control'
    <2>1. ControlAt(p)'
        BY <1>1 DEF EngineLock, Goto, Locking, Control, ControlAt, EngineLabels, SessionLabels,
              vars, Allocated
    <2>. QED
        BY <1>1, <2>1, ControlStep DEF Locking, Control, vars, Allocated
<1>3. SessionMutex'
    BY <1>1, SessionKeeps DEF Locking, InSession
<1>4. Holds(emu, EngineWaiting, EngineWriting, EngineReading) /\ Open(emu)
    BY DEF Locking, EngineMutex, EngineLock
<1>5. CASE call[p].op \in WriteLocks.engine
    <2>1. emu' = Claim(emu, p) /\ pc' = [pc EXCEPT ![p] = "engineWait"]
        BY <1>5 DEF EngineLock, Goto
    <2>2. EngineWaiting = {} /\ EngineWriting = {} /\ Holds(Claim(emu, p), {p}, {}, EngineReading)
        BY <1>4, ClaimHolds
    <2>3. EngineWaiting' = {p} /\ EngineWriting' = {} /\ EngineReading' = EngineReading
        BY <1>1, <2>1, <2>2 DEF EngineWaiting, EngineWriting, EngineReading, InEngine, Alone
    <2>. QED
        BY <1>1, <1>2, <1>3, <2>1, <2>2, <2>3 DEF Locking, EngineMutex
<1>6. CASE call[p].op \notin WriteLocks.engine
    <2>1. emu' = Join(emu, p) /\ pc' = [pc EXCEPT ![p] = "lookup"]
        BY <1>6 DEF EngineLock, Goto
    <2>2. /\ EngineWaiting = {} /\ EngineWriting = {}
          /\ Holds(Join(emu, p), {}, {}, EngineReading \cup {p})
        BY <1>4, JoinHolds
    <2>3. EngineWaiting' = {} /\ EngineWriting' = {} /\ EngineReading' = EngineReading \cup {p}
        BY <1>1, <1>6, <2>1, <2>2 DEF EngineWaiting, EngineWriting, EngineReading, InEngine, Alone
    <2>. QED
        BY <1>1, <1>2, <1>3, <2>1, <2>2, <2>3 DEF Locking, EngineMutex
<1>. QED
    BY <1>5, <1>6

LEMMA EngineEnterLocking ==
    ASSUME Locking, NEW p \in Procs, EngineEnter(p)
    PROVE  Locking' /\ Alone(p)
<1>1. /\ pc[p] = "engineWait" /\ pc' = [pc EXCEPT ![p] = "lookup"] /\ pc'[p] = "lookup"
      /\ Alone(p) /\ UNCHANGED <<vars, call, ref, decision, emu, smu>>
    BY DEF EngineEnter, Goto, Alone, Locking, Control
<1>2. Control'
    <2>1. ControlAt(p)'
        BY <1>1 DEF Locking, Control, ControlAt, EngineLabels, SessionLabels, vars, Allocated
    <2>. QED
        BY <1>1, <2>1, ControlStep DEF Locking, Control, vars, Allocated
<1>3. SessionMutex'
    BY <1>1, SessionKeeps DEF Locking, InSession
<1>4. EngineMutex'
    <2>1. p \in EngineWaiting /\ call[p].op \in WriteLocks.engine
        BY <1>1 DEF EngineWaiting, Locking, Control, ControlAt
    <2>2. EngineReading = {} /\ Holds(emu, EngineWaiting \ {p}, EngineWriting \cup {p}, {})
        BY <2>1, EnterHolds DEF Locking, EngineMutex, EngineEnter
    <2>3. /\ EngineWaiting' = EngineWaiting \ {p}
          /\ EngineWriting' = EngineWriting \cup {p}
          /\ EngineReading' = {}
        BY <1>1, <2>1, <2>2 DEF EngineWaiting, EngineWriting, EngineReading, InEngine, Alone
    <2>. QED
        BY <1>1, <2>2, <2>3 DEF EngineMutex
<1>. QED
    BY <1>1, <1>2, <1>3, <1>4 DEF Locking

LEMMA LookupLocking ==
    ASSUME Locking, NEW p \in Procs, Lookup(p) \/ CreateNone(p)
    PROVE  Locking' /\ Alone(p)
<1>1. /\ pc[p] = "lookup" /\ pc'[p] \in {"session", "unlockEngine"}
      /\ Alone(p) /\ UNCHANGED <<vars, call, decision, emu, smu>>
    BY DEF Lookup, CreateNone, Goto, Alone, Locking, Control
<1>2. Control'
    <2>1. ControlAt(p)'
        <3>1. CASE pc'[p] = "session"
            BY <1>1, <3>1 DEF Lookup, CreateNone, Goto, Locking, Control, ControlAt, EngineLabels,
                  SessionLabels, Nested, WriteLocks, vars, Allocated
        <3>2. CASE pc'[p] = "unlockEngine"
            BY <1>1, <3>2 DEF Lookup, CreateNone, Locking, Control, ControlAt, EngineLabels,
                  SessionLabels, vars, Allocated
        <3>. QED
            BY <1>1, <3>1, <3>2
    <2>. QED
        BY <1>1, <2>1, ControlStep DEF Locking, Control, vars, Allocated
<1>3. SessionMutex'
    BY <1>1, SessionKeeps DEF Locking, InSession
<1>4. EngineMutex'
    <2>1. pc'[p] = "session" => call[p].op \in Nested
        BY <1>1 DEF Lookup, CreateNone, Goto, Locking, Control
    <2>2. InEngine(p) /\ InEngine(p)'
        BY <1>1, <2>1 DEF InEngine, Nested
    <2>. QED
        BY <1>1, <2>2, EngineKeeps DEF Locking
<1>. QED
    BY <1>1, <1>2, <1>3, <1>4 DEF Locking

\* The lock of a session that p has nothing to do with.
LEMMA SessionElsewhere ==
    ASSUME SessionMutex, NEW p \in Procs, Alone(p), NEW r \in Refs, smu'[r] = smu[r],
           p \notin SessionWaiting(r) \cup SessionWriting(r) \cup SessionReading(r),
           p \notin SessionWaiting(r)' \cup SessionWriting(r)' \cup SessionReading(r)'
    PROVE  Holds(smu[r], SessionWaiting(r), SessionWriting(r), SessionReading(r))'
<1>1. /\ SessionWaiting(r)' = SessionWaiting(r)
      /\ SessionWriting(r)' = SessionWriting(r)
      /\ SessionReading(r)' = SessionReading(r)
    BY DEF SessionWaiting, SessionWriting, SessionReading, Alone, InSession
<1>. QED
    BY <1>1 DEF SessionMutex

LEMMA SessionLockLocking ==
    ASSUME Locking, NEW p \in Procs, SessionLock(p)
    PROVE  Locking' /\ Alone(p)
<1>. DEFINE r == ref[p]
<1>1. /\ pc[p] = "session" /\ pc'[p] \in {"sessionWait", "check"}
      /\ Alone(p) /\ UNCHANGED <<vars, call, ref, decision, emu>>
      /\ r \in Refs /\ DOMAIN smu' = Refs /\ \A q \in Refs \ {r} : smu'[q] = smu[q]
    BY DEF SessionLock, Goto, Alone, Locking, Control, ControlAt, SessionLabels, Allocated
<1>2. Control'
    <2>1. ControlAt(p)'
        BY <1>1 DEF SessionLock, Goto, Locking, Control, ControlAt, EngineLabels, SessionLabels,
              vars, Allocated
    <2>. QED
        BY <1>1, <2>1, ControlStep DEF Locking, Control, vars, Allocated
<1>3. EngineMutex'
    BY <1>1, EngineKeeps DEF Locking, InEngine
<1>4. ASSUME NEW q \in Refs \ {r}
      PROVE  Holds(smu[q], SessionWaiting(q), SessionWriting(q), SessionReading(q))'
    BY <1>1, SessionElsewhere DEF Locking, SessionWaiting, SessionWriting, SessionReading
<1>5. Holds(smu[r], SessionWaiting(r), SessionWriting(r), SessionReading(r)) /\ Open(smu[r])
    BY <1>1 DEF Locking, SessionMutex, SessionLock
<1>6. Holds(smu'[r], SessionWaiting(r)', SessionWriting(r)', SessionReading(r)')
    <2>1. CASE call[p].op \in WriteLocks.session
        <3>1. smu'[r] = Claim(smu[r], p) /\ pc' = [pc EXCEPT ![p] = "sessionWait"]
            BY <1>1, <2>1 DEF SessionLock, Goto, Locking, Control
        <3>2. /\ SessionWaiting(r) = {} /\ SessionWriting(r) = {}
              /\ Holds(Claim(smu[r], p), {p}, {}, SessionReading(r))
            BY <1>5, ClaimHolds
        <3>3. /\ SessionWaiting(r)' = {p} /\ SessionWriting(r)' = {}
              /\ SessionReading(r)' = SessionReading(r)
            BY <1>1, <3>1, <3>2 DEF SessionWaiting, SessionWriting, SessionReading, InSession, Alone
        <3>. QED
            BY <3>1, <3>2, <3>3
    <2>2. CASE call[p].op \notin WriteLocks.session
        <3>1. smu'[r] = Join(smu[r], p) /\ pc' = [pc EXCEPT ![p] = "check"]
            BY <1>1, <2>2 DEF SessionLock, Goto, Locking, Control
        <3>2. /\ SessionWaiting(r) = {} /\ SessionWriting(r) = {}
              /\ Holds(Join(smu[r], p), {}, {}, SessionReading(r) \cup {p})
            BY <1>5, JoinHolds
        <3>3. /\ SessionWaiting(r)' = {} /\ SessionWriting(r)' = {}
              /\ SessionReading(r)' = SessionReading(r) \cup {p}
            BY <1>1, <2>2, <3>1, <3>2
            DEF SessionWaiting, SessionWriting, SessionReading, InSession, Alone
        <3>. QED
            BY <3>1, <3>2, <3>3
    <2>. QED
        BY <2>1, <2>2
<1>7. SessionMutex'
    <2>1. r' = r
        BY <1>1
    <2>. QED
        BY <1>4, <1>6, <2>1 DEF SessionMutex, SessionWaiting, SessionWriting, SessionReading
<1>. QED
    BY <1>1, <1>2, <1>3, <1>7 DEF Locking

LEMMA SessionEnterLocking ==
    ASSUME Locking, NEW p \in Procs, SessionEnter(p)
    PROVE  Locking' /\ Alone(p)
<1>. DEFINE r == ref[p]
<1>1. /\ pc[p] = "sessionWait" /\ pc' = [pc EXCEPT ![p] = "check"] /\ pc'[p] = "check"
      /\ Alone(p) /\ UNCHANGED <<vars, call, ref, decision, emu, smu>> /\ r \in Refs
      /\ call[p].op \in WriteLocks.session /\ Entered(smu[r], p)
    BY DEF SessionEnter, Goto, Locked, Alone, Locking, Control, ControlAt, SessionLabels, Allocated
<1>2. Control'
    <2>1. ControlAt(p)'
        BY <1>1 DEF Locking, Control, ControlAt, EngineLabels, SessionLabels, vars, Allocated
    <2>. QED
        BY <1>1, <2>1, ControlStep DEF Locking, Control, vars, Allocated
<1>3. EngineMutex'
    BY <1>1, EngineKeeps DEF Locking, InEngine
<1>4. ASSUME NEW q \in Refs \ {r}
      PROVE  Holds(smu[q], SessionWaiting(q), SessionWriting(q), SessionReading(q))'
    BY <1>1, SessionElsewhere DEF Locking, SessionWaiting, SessionWriting, SessionReading
<1>5. Holds(smu'[r], SessionWaiting(r)', SessionWriting(r)', SessionReading(r)')
    <2>1. p \in SessionWaiting(r)
        BY <1>1 DEF SessionWaiting
    <2>2. /\ SessionReading(r) = {}
          /\ Holds(smu[r], SessionWaiting(r) \ {p}, SessionWriting(r) \cup {p}, {})
        BY <1>1, <2>1, EnterHolds DEF Locking, SessionMutex
    <2>3. /\ SessionWaiting(r)' = SessionWaiting(r) \ {p}
          /\ SessionWriting(r)' = SessionWriting(r) \cup {p}
          /\ SessionReading(r)' = {}
        BY <1>1, <2>2 DEF SessionWaiting, SessionWriting, SessionReading, InSession, Alone
    <2>. QED
        BY <1>1, <2>2, <2>3
<1>6. SessionMutex'
    <2>1. r' = r
        BY <1>1
    <2>. QED
        BY <1>4, <1>5, <2>1 DEF SessionMutex, SessionWaiting, SessionWriting, SessionReading
<1>. QED
    BY <1>1, <1>2, <1>3, <1>6 DEF Locking

LEMMA CheckRefusedLocking ==
    ASSUME Locking, NEW p \in Procs, CheckRefused(p)
    PROVE  Locking' /\ Alone(p)
<1>1. /\ pc[p] = "check" /\ pc'[p] = "unlockSession"
      /\ Alone(p) /\ UNCHANGED <<vars, call, ref, decision, emu, smu>>
    BY DEF CheckRefused, Goto, Alone, Locking, Control
<1>2. Control'
    <2>1. ControlAt(p)'
        BY <1>1 DEF Locking, Control, ControlAt, EngineLabels, SessionLabels, vars, Allocated
    <2>. QED
        BY <1>1, <2>1, ControlStep DEF Locking, Control, vars, Allocated
<1>3. EngineMutex' /\ SessionMutex'
    BY <1>1, EngineKeeps, SessionKeeps DEF Locking, InEngine, InSession
<1>. QED
    BY <1>1, <1>2, <1>3 DEF Locking

LEMMA SessionUnlockLocking ==
    ASSUME Locking, NEW p \in Procs, SessionUnlock(p)
    PROVE  Locking' /\ Alone(p)
<1>. DEFINE r == ref[p]
<1>1. /\ pc[p] = "unlockSession" /\ pc'[p] \in {"unlockEngine", "idle"}
      /\ Alone(p) /\ UNCHANGED <<vars, decision, emu>>
      /\ r \in Refs /\ smu' = [smu EXCEPT ![r] = Release(smu[r], p)]
      /\ DOMAIN smu' = Refs /\ \A q \in Refs \ {r} : smu'[q] = smu[q]
      /\ smu'[r] = Release(smu[r], p)
    BY DEF SessionUnlock, Return, Goto, Alone, Locking, Control, ControlAt, SessionLabels, Allocated
<1>2. Control'
    <2>1. ControlAt(p)'
        BY <1>1 DEF SessionUnlock, Return, Goto, Nested, Locking, Control, ControlAt, EngineLabels,
              SessionLabels, vars, Allocated
    <2>. QED
        BY <1>1, <2>1, ControlStep DEF Locking, Control, vars, Allocated
<1>3. EngineMutex'
    <2>1. CASE call[p].op \in Nested
        BY <1>1, <2>1, EngineKeeps DEF Locking, Control, InEngine, Nested, SessionUnlock, Goto
    <2>2. CASE call[p].op \notin Nested
        BY <1>1, <2>2, EngineKeeps DEF Locking, Control, InEngine, Nested, SessionUnlock, Return, Goto
    <2>. QED
        BY <2>1, <2>2
<1>4. ASSUME NEW q \in Refs \ {r}
      PROVE  Holds(smu[q], SessionWaiting(q), SessionWriting(q), SessionReading(q))'
    BY <1>1, SessionElsewhere DEF Locking, SessionWaiting, SessionWriting, SessionReading, InSession
<1>5. \A q \in Refs : q = r =>
          Holds(smu'[q], SessionWaiting(q)', SessionWriting(q)', SessionReading(q)')
    <2>1. p \in (SessionWriting(r) \cup SessionReading(r)) \ SessionWaiting(r)
        BY <1>1 DEF SessionWaiting, SessionWriting, SessionReading, InSession
    <2>2. Holds(smu'[r], SessionWaiting(r), SessionWriting(r) \ {p}, SessionReading(r) \ {p})
        BY <1>1, <2>1, ReleaseHolds DEF Locking, SessionMutex
    <2>3. ASSUME NEW q \in Refs, q = r
          PROVE  /\ SessionWaiting(q)' = SessionWaiting(r)
                 /\ SessionWriting(q)' = SessionWriting(r) \ {p}
                 /\ SessionReading(q)' = SessionReading(r) \ {p}
        BY <1>1, <2>1, <2>3 DEF SessionWaiting, SessionWriting, SessionReading, InSession, Alone
    <2>. QED
        BY <2>2, <2>3
<1>6. SessionMutex'
    BY <1>4, <1>5 DEF SessionMutex
<1>. QED
    BY <1>1, <1>2, <1>3, <1>6 DEF Locking

LEMMA EngineUnlockLocking ==
    ASSUME Locking, NEW p \in Procs, EngineUnlock(p)
    PROVE  Locking' /\ Alone(p)
<1>1. /\ pc[p] = "unlockEngine" /\ pc'[p] \in {"session", "idle"}
      /\ Alone(p) /\ UNCHANGED <<vars, decision, smu>> /\ emu' = Release(emu, p)
    BY DEF EngineUnlock, Return, Goto, Alone, Locking, Control
<1>2. Control'
    <2>1. ControlAt(p)'
        <3>1. CASE pc'[p] = "session"
            BY <1>1, <3>1 DEF EngineUnlock, Return, Goto, Nested, WriteLocks, Locking, Control,
                  ControlAt, EngineLabels, SessionLabels, vars, Allocated
        <3>2. CASE pc'[p] = "idle"
            BY <1>1, <3>2 DEF EngineUnlock, Return, Goto, Locking, Control,
                  ControlAt, EngineLabels, SessionLabels, vars, Allocated
        <3>. QED
            BY <1>1, <3>1, <3>2
    <2>. QED
        BY <1>1, <2>1, ControlStep DEF Locking, Control, vars, Allocated
<1>3. SessionMutex'
    BY <1>1, SessionKeeps DEF Locking, InSession
<1>4. EngineMutex'
    <2>1. p \in (EngineWriting \cup EngineReading) \ EngineWaiting
        BY <1>1 DEF EngineWaiting, EngineWriting, EngineReading, InEngine
    <2>2. Holds(emu', EngineWaiting, EngineWriting \ {p}, EngineReading \ {p})
        BY <1>1, <2>1, ReleaseHolds DEF Locking, EngineMutex
    <2>3. ~InEngine(p)'
        BY <1>1 DEF EngineUnlock, Return, Goto, InEngine, Locking, Control
    <2>4. /\ EngineWaiting' = EngineWaiting
          /\ EngineWriting' = EngineWriting \ {p}
          /\ EngineReading' = EngineReading \ {p}
        BY <1>1, <2>1, <2>3 DEF EngineWaiting, EngineWriting, EngineReading, InEngine, Alone
    <2>. QED
        BY <2>2, <2>4 DEF EngineMutex
<1>. QED
    BY <1>1, <1>2, <1>3, <1>4 DEF Locking

-----------------------------------------------------------------------------
(* The engine whose decisions are written as they are taken *)

LEMMA TheOnly ==
    ASSUME NEW D, NEW p, D = {p}
    PROVE  (CHOOSE q \in D : TRUE) = p
OBVIOUS

LEMMA DecidingAlone ==
    ASSUME Locking, NEW p \in Procs, pc[p] = "commit"
    PROVE  Deciding(ref[p]) = {p}
<1>1. call[p].op # "IsExpired" /\ InSession(p)
    BY DEF Locking, Control, ControlAt, WriteLocks, InSession
<1>2. ASSUME NEW q \in Procs, pc[q] = "commit", ref[q] = ref[p] PROVE q = p
    BY <1>1, <1>2, Exclusion DEF NoIntruders, InSession
<1>. QED
    BY <1>2 DEF Deciding

LEMMA NobodyDecides ==
    ASSUME Locking, NEW p \in Procs, pc[p] = "check", call[p].op \in WriteLocks.session
    PROVE  Deciding(ref[p]) = {}
<1>1. call[p].op # "IsExpired" /\ InSession(p)
    BY DEF WriteLocks, InSession
<1>2. ASSUME NEW q \in Procs, pc[q] = "commit", ref[q] = ref[p] PROVE FALSE
    BY <1>1, <1>2, Exclusion DEF NoIntruders, InSession
<1>. QED
    BY <1>2 DEF Deciding

\* What HeapBar and ClosedByBar are, whoever CHOOSE finds.
HeapBarAt(r) ==
    /\ Deciding(r) = {} => HeapBar[r] = heap[r] /\ ClosedByBar[r] = closedBy[r]
    /\ \A p \in Procs : pc[p] = "commit" /\ ref[p] = r =>
           HeapBar[r] = decision[p] /\ ClosedByBar[r] = Closer(call[p], closedBy[r])

LEMMA BarsAt == Locking => \A r \in Refs : HeapBarAt(r)
<1> SUFFICES ASSUME Locking, NEW r \in Refs PROVE HeapBarAt(r)
    OBVIOUS
<1>1. ASSUME NEW p \in Procs, pc[p] = "commit", ref[p] = r
      PROVE  HeapBar[r] = decision[p] /\ ClosedByBar[r] = Closer(call[p], closedBy[r])
    <2>1. Deciding(r) = {p}
        BY <1>1, DecidingAlone
    <2>2. (CHOOSE q \in Deciding(r) : TRUE) = p
        BY <2>1, TheOnly
    <2>. QED
        BY <2>1, <2>2 DEF HeapBar, ClosedByBar
<1>. QED
    BY <1>1 DEF HeapBarAt, HeapBar, ClosedByBar

LEMMA NextBarsAt == Locking' => \A r \in Refs : HeapBarAt(r)'
<1>1. (Locking => \A r \in Refs : HeapBarAt(r))'
    BY BarsAt, PTL
<1>. QED
    BY <1>1

LEMMA BarFunctions ==
    /\ HeapBar = [r \in Refs |-> HeapBar[r]] /\ HeapBar' = [r \in Refs |-> HeapBar'[r]]
    /\ ClosedByBar = [r \in Refs |-> ClosedByBar[r]]
    /\ ClosedByBar' = [r \in Refs |-> ClosedByBar'[r]]
<1>1. HeapBar = [r \in Refs |-> HeapBar[r]] /\ HeapBar' = [r \in Refs |-> HeapBar'[r]]
    BY DEF HeapBar
<1>2. /\ ClosedByBar = [r \in Refs |-> ClosedByBar[r]]
      /\ ClosedByBar' = [r \in Refs |-> ClosedByBar'[r]]
    BY DEF ClosedByBar
<1>. QED
    BY <1>1, <1>2

\* Decisions are neither taken nor written.
LEMMA Quiet ==
    ASSUME Locking, NEW p \in Procs, Alone(p), pc[p] # "commit", pc'[p] # "commit",
           NEW r \in Refs, heap'[r] = heap[r], closedBy'[r] = closedBy[r], decision' = decision
    PROVE  /\ Deciding(r)' = Deciding(r)
           /\ HeapBar'[r] = HeapBar[r] /\ ClosedByBar'[r] = ClosedByBar[r]
<1>1. Deciding(r)' = Deciding(r)
    BY DEF Deciding, Alone
<1>2. CASE Deciding(r) = {}
    BY <1>1, <1>2 DEF HeapBar, ClosedByBar
<1>3. ASSUME NEW q \in Deciding(r)
      PROVE  HeapBar'[r] = HeapBar[r] /\ ClosedByBar'[r] = ClosedByBar[r]
    <2>1. Deciding(r) = {q} /\ call'[q] = call[q]
        BY DecidingAlone DEF Deciding, Alone
    <2>2. (CHOOSE x \in Deciding(r) : TRUE) = q /\ (CHOOSE x \in Deciding(r)' : TRUE) = q
        BY <1>1, <2>1, TheOnly
    <2>. QED
        BY <1>1, <2>1, <2>2 DEF HeapBar, ClosedByBar
<1>. QED
    BY <1>1, <1>2, <1>3

-----------------------------------------------------------------------------
(* The proofs about Negotiation, taken over for HeapBar *)

LEMMA SameTypes ==
    /\ Bar!Session = Session /\ Bar!Binding = Binding /\ Bar!Agreed = Agreed
    /\ Bar!Offer = Offer /\ Bar!IDs = IDs /\ Bar!Terms = Terms
BY DEF Bar!Session, Session, Bar!Binding, Binding, Bar!Agreed, Agreed, Bar!IDs, IDs,
       Bar!SessionState, SessionState, Bar!Offer, Offer, Bar!Terms, Terms

LEMMA SameNil ==
    Free \notin Bar!Session /\ NoBinding \notin Bar!Binding /\ NoTerms \notin Bar!Agreed
BY SameTypes, NilAssumption

\* A session that is there is one in both heaps.
BarOK == Bar!IInv /\ Bar!Allocated = Allocated

Full == Locking /\ DecisionsAreFresh /\ BarOK

LEMMA HeapBarFrame ==
    ASSUME Full, UNCHANGED <<HeapBar, ClosedByBar, sessions, now>>
    PROVE  Bar!IInv' /\ Bar!Allocated' = Bar!Allocated
<1>1. [Bar!Next]_Bar!vars
    BY DEF Bar!vars
<1>2. Bar!IInv'
    BY <1>1, Bar!NextIInv, NegotiationAssumption, SameNil DEF Full, BarOK
<1>. QED
    BY <1>2 DEF Bar!Allocated

\* An effect on the session at r keeps the addresses in use.
LEMMA BarEffect ==
    ASSUME NEW r, Bar!Effect(r)
    PROVE  Bar!Allocated' = Bar!Allocated /\ r \in Bar!Allocated'
BY DEF Bar!Effect, Bar!OnlyAt

\* What a step has to show.
Steps == Full' /\ [Bar!Next]_Bar!vars

LEMMA QuietStep ==
    ASSUME Full, Locking', NEW p \in Procs, Alone(p), pc[p] # "commit", pc'[p] # "commit",
           UNCHANGED <<vars, decision>>
    PROVE  Steps
<1>1. UNCHANGED <<HeapBar, ClosedByBar>>
    <2>1. \A r \in Refs : HeapBar'[r] = HeapBar[r] /\ ClosedByBar'[r] = ClosedByBar[r]
        BY Quiet DEF Full, vars
    <2>. QED
        BY <2>1, BarFunctions
<1>2. Bar!IInv' /\ Bar!Allocated' = Bar!Allocated
    BY <1>1, HeapBarFrame DEF vars
<1>3. DecisionsAreFresh'
    BY DEF Full, DecisionsAreFresh, Alone, vars
<1>. QED
    BY <1>1, <1>2, <1>3 DEF Steps, Full, BarOK, Bar!vars, vars, Allocated

LEMMA CreateStep ==
    ASSUME Full, NEW p \in Procs, Create(p)
    PROVE  Steps
<1>1. /\ pc[p] = "lookup" /\ call[p].op = "NewSession" /\ pc' = [pc EXCEPT ![p] = "unlockEngine"]
      /\ pc'[p] = "unlockEngine"
      /\ Alone(p) /\ UNCHANGED <<call, ref, decision, emu, smu>>
    BY DEF Create, Goto, Alone, Full, Locking, Control
<1>2. PICK r \in Refs, later \in now .. MaxTime :
          NewSession(r, call[p].pair, call[p].action, call[p].ttl, later)
    BY DEF Create
<1>3. /\ call[p].pair \in Pairings /\ call[p].action \in Actions /\ call[p].ttl \in TTLs
    BY <1>1 DEF Full, Locking, Control, ControlAt, CallOK
<1>. DEFINE id == SessionID(call[p].pair[1], call[p].pair[2], now)
            s  == [id |-> id, state |-> "initiated", provider |-> call[p].pair[1],
                   consumer |-> call[p].pair[2], action |-> call[p].action, offers |-> <<>>,
                   binding |-> NoBinding, openedAt |-> now, expiresAt |-> later + call[p].ttl]
<1>4. /\ heap[r] = Free /\ heap' = [heap EXCEPT ![r] = s] /\ now' = later /\ closedBy' = closedBy
      /\ sessions' = [i \in DOMAIN sessions \cup {id} |-> IF i = id THEN r ELSE sessions[i]]
    BY <1>2 DEF NewSession
<1>. HIDE DEF s, id
<1>5. /\ heap'[r] = s /\ DOMAIN heap' = Refs
      /\ \A q \in Refs \ {r} : heap'[q] = heap[q]
    BY <1>4 DEF Full, Locking, Control
<1>6. Deciding(r) = {} /\ Deciding(r)' = {}
    BY <1>1, <1>4 DEF Deciding, Alone, Full, Locking, Control, ControlAt, Allocated, SessionLabels
<1>7. HeapBar' = [HeapBar EXCEPT ![r] = s] /\ ClosedByBar' = ClosedByBar /\ HeapBar[r] = Free
      /\ HeapBar'[r] = s
    <2>1. \A q \in Refs \ {r} : HeapBar'[q] = HeapBar[q] /\ ClosedByBar'[q] = ClosedByBar[q]
        BY <1>1, <1>4, <1>5, Quiet DEF Full
    <2>2. HeapBar[r] = Free /\ HeapBar'[r] = s /\ ClosedByBar'[r] = ClosedByBar[r]
        <3>1. HeapBar[r] = heap[r] /\ HeapBar'[r] = heap'[r]
            BY <1>6 DEF HeapBar
        <3>2. ClosedByBar[r] = closedBy[r] /\ ClosedByBar'[r] = closedBy'[r]
            BY <1>6 DEF ClosedByBar
        <3>. QED
            BY <1>4, <1>5, <3>1, <3>2
    <2>. QED
        BY <2>1, <2>2, BarFunctions
<1>8. Bar!NewSession(r, call[p].pair, call[p].action, call[p].ttl, later)
    BY <1>4, <1>7 DEF Bar!NewSession, Bar!SessionID, SessionID, s, id
<1>9. Bar!IInv' /\ Bar!Allocated' = Bar!Allocated \cup {r}
    BY <1>3, <1>8, Bar!NewSessionIInv, Bar!NewSessionEffect, NegotiationAssumption, SameNil
    DEF Full, BarOK
<1>10. Allocated' = Allocated \cup {r}
    <2>1. s # Free
        BY <1>7, <1>9 DEF Bar!Allocated
    <2>. QED
        BY <1>5, <2>1 DEF Allocated
<1>11. Control'
    <2>1. ASSUME NEW q \in Procs PROVE ControlAt(q)'
        <3>1. CASE q = p
            BY <1>1, <1>10, <3>1 DEF Full, Locking, Control, ControlAt, EngineLabels, SessionLabels
        <3>2. CASE q # p
            <4>1. pc[q] \in SessionLabels => call[q].op \notin Nested
                BY <1>1, <3>2, Exclusion DEF Full, NoIntruders, InEngine, SessionLabels, Nested
            <4>. QED
                BY <1>1, <1>10, <3>2, <4>1 DEF Full, Locking, Control, ControlAt, Alone
        <3>. QED
            BY <3>1, <3>2
    <2>2. \A i \in DOMAIN sessions' : sessions'[i] \in Allocated'
        BY <1>4, <1>10 DEF Full, Locking, Control
    <2>. QED
        BY <1>1, <1>4, <1>5, <2>1, <2>2 DEF Full, Locking, Control, Alone
<1>12. EngineMutex' /\ SessionMutex'
    BY <1>1, EngineKeeps, SessionKeeps DEF Full, Locking, InEngine, InSession
<1>13. DecisionsAreFresh'
    BY <1>1, <1>4, <1>5 DEF Full, DecisionsAreFresh, Locking, Control, ControlAt, Alone,
       SessionLabels, Allocated
<1>14. Bar!Next
    BY <1>3, <1>8 DEF Bar!Next
<1>. QED
    BY <1>9, <1>10, <1>11, <1>12, <1>13, <1>14 DEF Steps, Full, Locking, BarOK

\* The session p is at, and what leads to it: nobody else decides about it.
LEMMA AtTheSession ==
    ASSUME Full, NEW p \in Procs, pc[p] = "check", call[p].op \in WriteLocks.session
    PROVE  /\ ref[p] \in Bar!Allocated /\ ref[p] \in Refs /\ Deciding(ref[p]) = {}
           /\ HeapBar[ref[p]] = heap[ref[p]] /\ ClosedByBar[ref[p]] = closedBy[ref[p]]
           /\ call[p].op \in Nested =>
                  call[p].id \in DOMAIN sessions /\ sessions[call[p].id] = ref[p]
<1>1. ref[p] \in Allocated /\ ref[p] \in Refs /\ ref[p] \in Bar!Allocated
    BY DEF Full, Locking, Control, ControlAt, SessionLabels, BarOK, Allocated
<1>2. Deciding(ref[p]) = {}
    BY NobodyDecides DEF Full
<1>3. HeapBar[ref[p]] = heap[ref[p]] /\ ClosedByBar[ref[p]] = closedBy[ref[p]]
    BY <1>1, <1>2, BarsAt DEF Full, HeapBarAt
<1>. QED
    BY <1>1, <1>2, <1>3 DEF Full, Locking, Control, ControlAt, SessionLabels

LEMMA CheckExpiredStep ==
    ASSUME Full, NEW p \in Procs, CheckExpired(p)
    PROVE  Steps
<1>. DEFINE r == ref[p]
            s == Expired(heap[r])
<1>1. /\ pc[p] = "check" /\ call[p].op \in Nested /\ pc'[p] = "unlockSession"
      /\ Alone(p) /\ UNCHANGED <<sessions, now, closedBy, call, ref, decision, emu, smu>>
      /\ checkExpired(heap[r]) /\ heap' = [heap EXCEPT ![r] = s]
    BY DEF CheckExpired, Goto, Alone, Full, Locking, Control
<1>2. call[p].op \in WriteLocks.session /\ call[p].op # "IsExpired"
    BY <1>1 DEF Nested, WriteLocks
<1>3. /\ r \in Bar!Allocated /\ r \in Refs /\ Deciding(r) = {} /\ HeapBar[r] = heap[r]
      /\ call[p].id \in DOMAIN sessions /\ sessions[call[p].id] = r
    BY <1>1, <1>2, AtTheSession
<1>. HIDE DEF s
<1>4. /\ heap'[r] = s /\ DOMAIN heap' = Refs /\ \A q \in Refs \ {r} : heap'[q] = heap[q]
    BY <1>1, <1>3 DEF Full, Locking, Control
<1>5. HeapBar' = [HeapBar EXCEPT ![r] = s] /\ ClosedByBar' = ClosedByBar /\ HeapBar'[r] = s
    <2>1. \A q \in Refs \ {r} : HeapBar'[q] = HeapBar[q] /\ ClosedByBar'[q] = ClosedByBar[q]
        BY <1>1, <1>4, Quiet DEF Full
    <2>2. Deciding(r)' = {}
        BY <1>1, <1>3 DEF Deciding, Alone
    <2>3. HeapBar'[r] = heap'[r]
        BY <1>1, <1>3, <2>2 DEF HeapBar
    <2>4. ClosedByBar[r] = closedBy[r] /\ ClosedByBar'[r] = closedBy'[r]
        BY <1>1, <1>3, <2>2 DEF ClosedByBar
    <2>. QED
        BY <1>1, <1>3, <1>4, <2>1, <2>3, <2>4, BarFunctions
<1>6. Bar!Expire(r)
    BY <1>1, <1>3, <1>5 DEF Bar!Expire, Bar!checkExpired, checkExpired, Bar!IsExpired, IsExpired,
       Bar!TerminalStates, TerminalStates, Bar!Expired, Expired, s
<1>7. Bar!IInv' /\ Bar!Allocated' = Bar!Allocated
    BY <1>3, <1>6, BarEffect, Bar!ExpireEffect, NegotiationAssumption, SameNil DEF Full, BarOK
<1>8. Allocated' = Allocated
    <2>1. s # Free /\ heap[r] # Free
        BY <1>3, <1>5, <1>7 DEF Bar!Allocated
    <2>. QED
        BY <1>3, <1>4, <2>1 DEF Allocated
<1>9. Control'
    <2>1. ControlAt(p)'
        BY <1>1, <1>8 DEF Full, Locking, Control, ControlAt, EngineLabels, SessionLabels
    <2>. QED
        BY <1>1, <1>4, <1>8, <2>1, ControlStep DEF Full, Locking, Control
<1>10. EngineMutex' /\ SessionMutex'
    BY <1>1, EngineKeeps, SessionKeeps DEF Full, Locking, InEngine, InSession, Nested
<1>11. DecisionsAreFresh'
    <2>1. ASSUME NEW q \in Procs, pc'[q] = "commit"
          PROVE  q # p /\ pc[q] = "commit" /\ ref[q] \in Refs \ {r}
        BY <1>1, <1>3, <2>1 DEF Deciding, Alone, Full, Locking, Control, ControlAt, SessionLabels,
           Allocated
    <2>. QED
        BY <1>1, <1>4, <2>1 DEF Full, DecisionsAreFresh, Alone
<1>12. Bar!Next
    BY <1>3, <1>6 DEF Bar!Next, Bar!Call
<1>. QED
    BY <1>7, <1>8, <1>9, <1>10, <1>11, <1>12 DEF Steps, Full, Locking, BarOK

LEMMA CommitStep ==
    ASSUME Full, NEW p \in Procs, Commit(p)
    PROVE  Steps
<1>. DEFINE r == ref[p]
<1>1. /\ pc[p] = "commit" /\ pc'[p] = "unlockSession"
      /\ Alone(p) /\ UNCHANGED <<sessions, now, call, ref, emu, smu>>
      /\ heap' = [heap EXCEPT ![r] = decision[p]] /\ DOMAIN decision' = Procs
      /\ closedBy' = [closedBy EXCEPT ![r] = Closer(call[p], closedBy[r])]
      /\ \A q \in Procs \ {p} : decision'[q] = decision[q]
    BY DEF Commit, Goto, Alone, Full, Locking, Control
<1>2. r \in Refs /\ r \in Allocated /\ r \in Bar!Allocated /\ Deciding(r) = {p}
    BY <1>1, DecidingAlone DEF Full, BarOK, Locking, Control, ControlAt, SessionLabels, Allocated
<1>3. HeapBar[r] = decision[p] /\ ClosedByBar[r] = Closer(call[p], closedBy[r])
    BY <1>1, <1>2, BarsAt DEF Full, HeapBarAt
<1>4. /\ heap'[r] = decision[p] /\ closedBy'[r] = Closer(call[p], closedBy[r])
      /\ DOMAIN heap' = Refs /\ DOMAIN closedBy' = Refs
      /\ \A q \in Refs \ {r} : heap'[q] = heap[q] /\ closedBy'[q] = closedBy[q]
    BY <1>1, <1>2 DEF Full, Locking, Control
<1>5. Allocated' = Allocated
    <2>1. decision[p] # Free
        BY <1>2, <1>3 DEF Bar!Allocated
    <2>. QED
        BY <1>2, <1>4, <2>1 DEF Allocated
<1>6. Control'
    <2>1. ControlAt(p)'
        BY <1>1, <1>5 DEF Full, Locking, Control, ControlAt, EngineLabels, SessionLabels
    <2>. QED
        BY <1>1, <1>4, <1>5, <2>1, ControlStep DEF Full, Locking, Control
<1>7. EngineMutex' /\ SessionMutex'
    BY <1>1, EngineKeeps, SessionKeeps DEF Full, Locking, InEngine, InSession
<1>8. UNCHANGED <<HeapBar, ClosedByBar>>
    <2>1. Deciding(r)' = {}
        BY <1>1, <1>2 DEF Deciding, Alone
    <2>2. HeapBar'[r] = HeapBar[r] /\ ClosedByBar'[r] = ClosedByBar[r]
        <3>1. HeapBar'[r] = heap'[r]
            BY <1>1, <1>2, <2>1 DEF HeapBar
        <3>2. ClosedByBar'[r] = closedBy'[r]
            BY <1>1, <1>2, <2>1 DEF ClosedByBar
        <3>. QED
            BY <1>3, <1>4, <3>1, <3>2
    <2>3. ASSUME NEW q \in Refs \ {r}
          PROVE  HeapBar'[q] = HeapBar[q] /\ ClosedByBar'[q] = ClosedByBar[q]
        <3>1. HeapBarAt(q) /\ HeapBarAt(q)'
            BY <1>6, <1>7, BarsAt, NextBarsAt DEF Full, Locking
        <3>2. Deciding(q)' = Deciding(q)
            BY <1>1 DEF Deciding, Alone
        <3>3. CASE Deciding(q) = {}
            BY <1>4, <3>1, <3>2, <3>3 DEF HeapBarAt
        <3>4. ASSUME NEW x \in Deciding(q)
              PROVE  HeapBar'[q] = HeapBar[q] /\ ClosedByBar'[q] = ClosedByBar[q]
            <4>1. x \in Procs \ {p} /\ pc[x] = "commit" /\ ref[x] = q
                BY DEF Deciding
            <4>. QED
                BY <1>1, <1>4, <3>1, <4>1 DEF HeapBarAt, Alone
        <3>. QED
            BY <3>3, <3>4
    <2>. QED
        BY <2>2, <2>3, BarFunctions
<1>9. Bar!IInv' /\ Bar!Allocated' = Bar!Allocated
    BY <1>1, <1>8, HeapBarFrame
<1>10. DecisionsAreFresh'
    <2>1. ASSUME NEW q \in Procs, pc'[q] = "commit"
          PROVE  q # p /\ pc[q] = "commit" /\ ref[q] \in Refs \ {r}
        BY <1>1, <1>2, <2>1 DEF Deciding, Alone, Full, Locking, Control, ControlAt, SessionLabels,
           Allocated
    <2>. QED
        BY <1>1, <1>4, <2>1 DEF Full, DecisionsAreFresh, Alone
<1>. QED
    BY <1>1, <1>5, <1>6, <1>7, <1>8, <1>9, <1>10 DEF Steps, Full, Locking, BarOK, Bar!vars

\* What a call finds and makes of a session is the same here and in Bar.
LEMMA SameGuards ==
    ASSUME NEW s, NEW party
    PROVE  /\ Bar!checkExpired(s) <=> checkExpired(s)
           /\ MayOffer(s, party) =>
                  Bar!MayOffer(s, party) /\ Bar!checkTransition(s.state, Bar!OfferTarget(s))
           /\ MayAccept(s, party) =>
                  Bar!MayAccept(s, party) /\ Bar!checkTransition(s.state, "accepted")
           /\ MayDecline(s, party) =>
                  Bar!MayDecline(s, party) /\ Bar!checkTransition(s.state, "declined")
<1>1. Bar!checkExpired(s) <=> checkExpired(s)
    BY DEF Bar!checkExpired, checkExpired, Bar!IsExpired, IsExpired,
           Bar!TerminalStates, TerminalStates
<1>2. /\ {"offered", "declined"} \subseteq Bar!validTransitions["initiated"]
      /\ {"accepted", "countered", "declined"} \subseteq Bar!validTransitions["offered"]
      /\ {"accepted", "countered", "declined"} \subseteq Bar!validTransitions["countered"]
    BY DEF Bar!validTransitions, Bar!SessionState
<1>3. MayOffer(s, party) =>
          Bar!MayOffer(s, party) /\ Bar!checkTransition(s.state, Bar!OfferTarget(s))
    BY <1>2 DEF Bar!MayOffer, MayOffer, Bar!checkTransition, Bar!OfferTarget
<1>4. MayAccept(s, party) =>
          Bar!MayAccept(s, party) /\ Bar!checkTransition(s.state, "accepted")
    BY <1>2 DEF Bar!MayAccept, MayAccept, Bar!checkTransition
<1>5. MayDecline(s, party) =>
          Bar!MayDecline(s, party) /\ Bar!checkTransition(s.state, "declined")
    BY <1>2 DEF Bar!MayDecline, MayDecline, Bar!checkTransition
<1>. QED
    BY <1>1, <1>3, <1>4, <1>5

LEMMA SameEffects ==
    ASSUME NEW s, NEW offer, NEW kp, NEW kc
    PROVE  /\ Bar!Offered(s, offer) = Offered(s, offer)
           /\ Bar!Accepted(s) = Accepted(s) /\ Bar!Declined(s) = Declined(s)
           /\ Bar!Signed(s, kp, kc) = Signed(s, kp, kc)
<1>1. Bar!Offered(s, offer) = Offered(s, offer)
    BY DEF Bar!Offered, Offered, Bar!OfferTarget, OfferTarget
<1>2. Bar!NewBinding(s) = NewBinding(s)
    BY DEF Bar!NewBinding, NewBinding, Bar!AgreedOn, AgreedOn, Bar!StandingOffer, StandingOffer,
           Bar!ParsedTerms, ParsedTerms, Bar!Last, Last
<1>3. Bar!Accepted(s) = Accepted(s) /\ Bar!Declined(s) = Declined(s)
    BY <1>2 DEF Bar!Accepted, Accepted, Bar!Declined, Declined
<1>4. Bar!Signed(s, kp, kc) = Signed(s, kp, kc)
    BY DEF Bar!Signed, Signed, Bar!SignedWith, SignedWith
<1>. QED
    BY <1>1, <1>3, <1>4

\* A decision, taken as a call of the engine without locks.
LEMMA DecisionIsACall ==
    ASSUME Full, NEW p \in Procs, pc[p] = "check", Permits(call[p], heap[ref[p]]),
           ~(call[p].op \in Nested /\ checkExpired(heap[ref[p]])),
           HeapBar' = [HeapBar EXCEPT ![ref[p]] = Outcome(call[p], heap[ref[p]])],
           ClosedByBar' = [ClosedByBar EXCEPT ![ref[p]] = Closer(call[p], closedBy[ref[p]])],
           UNCHANGED <<sessions, now>>
    PROVE  Bar!IInv' /\ Bar!Allocated' = Bar!Allocated /\ Bar!Next
<1>. DEFINE r == ref[p]
            c == call[p]
<1>1. c.op \in WriteLocks.session
    BY DEF Permits, WriteLocks
<1>2. /\ r \in Bar!Allocated /\ r \in Refs /\ HeapBar[r] = heap[r]
      /\ ClosedByBar[r] = closedBy[r] /\ CallOK(c)
      /\ c.op \in Nested => c.id \in DOMAIN sessions /\ sessions[c.id] = r
    BY <1>1, AtTheSession DEF Full, Locking, Control, ControlAt
<1>3. CASE c.op = "SubmitOffer"
    <2>1. c.offer \in Offer /\ MayOffer(heap[r], c.offer.from) /\ Len(heap[r].offers) < MaxOffers
          /\ ~checkExpired(heap[r]) /\ c.op \in Nested
        BY <1>2, <1>3 DEF CallOK, Permits, Nested
    <2>2. /\ Outcome(c, heap[r]) = Bar!Offered(heap[r], c.offer)
          /\ Closer(c, closedBy[r]) = ClosedByBar[r]
        BY <1>2, <1>3, SameEffects DEF Outcome, Closer
    <2>3. ClosedByBar' = ClosedByBar
        BY <1>2, <2>2, BarFunctions
    <2>4. Bar!SubmitOffer(r, c.offer)
        BY <1>2, <2>1, <2>2, <2>3, SameGuards DEF Bar!SubmitOffer
    <2>5. Bar!IInv' /\ Bar!Effect(r)
        BY <1>2, <2>1, <2>4, Bar!SubmitOfferEffect, NegotiationAssumption, SameNil, SameTypes
        DEF Full, BarOK
    <2>. QED
        BY <1>2, <2>1, <2>4, <2>5, BarEffect, SameTypes DEF Bar!Next, Bar!Call
<1>4. CASE c.op = "AcceptOffer"
    <2>1. c.party \in Agents /\ MayAccept(heap[r], c.party) /\ ~checkExpired(heap[r])
          /\ c.op \in Nested
        BY <1>2, <1>4 DEF CallOK, Permits, Nested
    <2>2. Outcome(c, heap[r]) = Bar!Accepted(heap[r]) /\ Closer(c, closedBy[r]) = c.party
        BY <1>4, SameEffects DEF Outcome, Closer
    <2>3. Bar!AcceptOffer(r, c.party)
        BY <1>2, <2>1, <2>2, SameGuards DEF Bar!AcceptOffer
    <2>4. Bar!IInv' /\ Bar!Effect(r)
        BY <1>2, <2>1, <2>3, Bar!AcceptOfferEffect, NegotiationAssumption, SameNil DEF Full, BarOK
    <2>. QED
        BY <1>2, <2>1, <2>3, <2>4, BarEffect DEF Bar!Next, Bar!Call
<1>5. CASE c.op = "DeclineOffer"
    <2>1. c.party \in Agents /\ MayDecline(heap[r], c.party) /\ ~checkExpired(heap[r])
          /\ c.op \in Nested
        BY <1>2, <1>5 DEF CallOK, Permits, Nested
    <2>2. Outcome(c, heap[r]) = Bar!Declined(heap[r]) /\ Closer(c, closedBy[r]) = c.party
        BY <1>5, SameEffects DEF Outcome, Closer
    <2>3. Bar!DeclineOffer(r, c.party)
        BY <1>2, <2>1, <2>2, SameGuards DEF Bar!DeclineOffer
    <2>4. Bar!IInv' /\ Bar!Effect(r)
        BY <1>2, <2>1, <2>3, Bar!DeclineOfferEffect, NegotiationAssumption, SameNil DEF Full, BarOK
    <2>. QED
        BY <1>2, <2>1, <2>3, <2>4, BarEffect DEF Bar!Next, Bar!Call
<1>6. CASE c.op = "SignBindingOnAccept"
    <2>1. c.kp \in Keys \cup {NoKey} /\ c.kc \in Keys \cup {NoKey} /\ heap[r].binding # NoBinding
        BY <1>2, <1>6 DEF CallOK, Permits
    <2>2. /\ Outcome(c, heap[r]) = Bar!Signed(heap[r], c.kp, c.kc)
          /\ Closer(c, closedBy[r]) = ClosedByBar[r]
        BY <1>2, <1>6, SameEffects DEF Outcome, Closer
    <2>3. ClosedByBar' = ClosedByBar
        BY <1>2, <2>2, BarFunctions
    <2>4. Bar!SignBindingOnAccept(r, c.kp, c.kc)
        BY <1>2, <2>1, <2>2, <2>3 DEF Bar!SignBindingOnAccept
    <2>5. Bar!IInv' /\ Bar!Effect(r)
        BY <1>2, <2>1, <2>4, Bar!SignBindingEffect, NegotiationAssumption, SameNil DEF Full, BarOK
    <2>. QED
        BY <1>2, <2>1, <2>4, <2>5, BarEffect DEF Bar!Next
<1>. QED
    BY <1>1, <1>3, <1>4, <1>5, <1>6 DEF WriteLocks

LEMMA CheckPassedStep ==
    ASSUME Full, NEW p \in Procs, CheckPassed(p)
    PROVE  Steps
<1>. DEFINE r == ref[p]
            d == Outcome(call[p], heap[r])
<1>1. /\ pc[p] = "check" /\ pc'[p] = "commit" /\ Permits(call[p], heap[r])
      /\ ~(call[p].op \in Nested /\ checkExpired(heap[r]))
      /\ Alone(p) /\ UNCHANGED <<vars, call, ref, emu, smu>>
      /\ decision'[p] = d /\ DOMAIN decision' = Procs
      /\ \A q \in Procs \ {p} : decision'[q] = decision[q]
    BY DEF CheckPassed, Goto, Alone, Full, Locking, Control
<1>. HIDE DEF d
<1>2. call[p].op \in WriteLocks.session
    BY <1>1 DEF Permits, WriteLocks
<1>3. r \in Refs /\ Deciding(r) = {}
    BY <1>1, <1>2, AtTheSession
<1>4. Locking'
    <2>1. ControlAt(p)'
        BY <1>1, <1>2 DEF Full, Locking, Control, ControlAt, EngineLabels, SessionLabels, vars,
           Allocated
    <2>2. Control'
        BY <1>1, <2>1, ControlStep DEF Full, Locking, Control, vars, Allocated
    <2>3. EngineMutex' /\ SessionMutex'
        BY <1>1, EngineKeeps, SessionKeeps DEF Full, Locking, InEngine, InSession
    <2>. QED
        BY <2>2, <2>3 DEF Locking
<1>5. /\ HeapBar' = [HeapBar EXCEPT ![r] = d]
      /\ ClosedByBar' = [ClosedByBar EXCEPT ![r] = Closer(call[p], closedBy[r])]
    <2>1. HeapBar'[r] = d /\ ClosedByBar'[r] = Closer(call[p], closedBy[r])
        <3>1. HeapBarAt(r)'
            BY <1>1, <1>3, <1>4, NextBarsAt
        <3>. QED
            BY <1>1, <1>3, <3>1 DEF HeapBarAt, vars
    <2>2. ASSUME NEW q \in Refs \ {r}
          PROVE  HeapBar'[q] = HeapBar[q] /\ ClosedByBar'[q] = ClosedByBar[q]
        <3>1. HeapBarAt(q) /\ HeapBarAt(q)'
            BY <1>4, BarsAt, NextBarsAt DEF Full
        <3>2. Deciding(q)' = Deciding(q)
            BY <1>1 DEF Deciding, Alone
        <3>3. CASE Deciding(q) = {}
            BY <1>1, <3>1, <3>2, <3>3 DEF HeapBarAt, vars
        <3>4. ASSUME NEW x \in Deciding(q)
              PROVE  HeapBar'[q] = HeapBar[q] /\ ClosedByBar'[q] = ClosedByBar[q]
            <4>1. x \in Procs \ {p} /\ pc[x] = "commit" /\ ref[x] = q
                BY <1>1 DEF Deciding
            <4>. QED
                BY <1>1, <3>1, <4>1 DEF HeapBarAt, Alone, vars
        <3>. QED
            BY <3>3, <3>4
    <2>. QED
        BY <2>1, <2>2, BarFunctions
<1>6. Bar!IInv' /\ Bar!Allocated' = Bar!Allocated /\ Bar!Next
    BY <1>1, <1>5, DecisionIsACall DEF vars, d
<1>7. DecisionsAreFresh'
    <2>1. Permits(call[p], heap[r])' /\ decision'[p] = Outcome(call[p], heap[r])'
        BY <1>1 DEF vars, d, Permits, Outcome, Offered, Accepted, Declined, Signed, MayOffer,
           MayAccept, MayDecline
    <2>. QED
        BY <1>1, <2>1 DEF Full, DecisionsAreFresh, Alone, vars
<1>. QED
    BY <1>1, <1>4, <1>6, <1>7 DEF Steps, Full, BarOK, vars, Allocated

LEMMA TickStep ==
    ASSUME Full, LockTick
    PROVE  Steps
<1>1. /\ UNCHANGED <<heap, sessions, closedBy, pc, call, ref, decision, emu, smu>>
      /\ now < MaxTime /\ now' = now + 1
    BY DEF LockTick, Tick, locals
<1>2. UNCHANGED <<HeapBar, ClosedByBar>> /\ Allocated' = Allocated
    BY <1>1 DEF HeapBar, ClosedByBar, Deciding, Allocated
<1>3. Bar!Tick
    BY <1>1, <1>2 DEF Bar!Tick
<1>4. Bar!Next
    BY <1>3 DEF Bar!Next
<1>5. Bar!IInv' /\ Bar!Allocated' = Bar!Allocated
    BY <1>2, <1>4, Bar!NextIInv, NegotiationAssumption, SameNil DEF Full, BarOK, Bar!Allocated
<1>6. Locking'
    <2>1. Control'
        BY <1>1, <1>2 DEF Full, Locking, Control, ControlAt
    <2>2. EngineMutex' /\ SessionMutex'
        BY <1>1 DEF Full, Locking, EngineMutex, EngineWaiting, EngineWriting, EngineReading,
           SessionMutex, SessionWaiting, SessionWriting, SessionReading, InEngine, InSession
    <2>. QED
        BY <2>1, <2>2 DEF Locking
<1>7. DecisionsAreFresh'
    BY <1>1 DEF Full, DecisionsAreFresh
<1>. QED
    BY <1>2, <1>4, <1>5, <1>6, <1>7 DEF Steps, Full, BarOK

LEMMA StutterStep ==
    ASSUME Full, UNCHANGED lockVars
    PROVE  Steps
<1>1. UNCHANGED <<heap, sessions, now, closedBy, pc, call, ref, decision, emu, smu>>
    BY DEF lockVars, vars, locals
<1>2. UNCHANGED <<HeapBar, ClosedByBar>> /\ Allocated' = Allocated
    BY <1>1 DEF HeapBar, ClosedByBar, Deciding, Allocated
<1>3. Bar!IInv' /\ Bar!Allocated' = Bar!Allocated
    BY <1>1, <1>2, HeapBarFrame
<1>4. Locking' /\ DecisionsAreFresh'
    BY <1>1, <1>2 DEF Full, Locking, Control, ControlAt, DecisionsAreFresh,
       EngineMutex, EngineWaiting, EngineWriting, EngineReading,
       SessionMutex, SessionWaiting, SessionWriting, SessionReading, InEngine, InSession
<1>. QED
    BY <1>1, <1>2, <1>3, <1>4 DEF Steps, Full, BarOK, Bar!vars

LEMMA EveryStep ==
    ASSUME Full, [LockNext]_lockVars
    PROVE  Steps
<1>1. ASSUME NEW p \in Procs,
             \/ Begin(p) \/ BeginIsExpired(p) \/ EngineLock(p) \/ SessionLock(p) \/ EngineEnter(p)
             \/ CreateNone(p) \/ Lookup(p) \/ SessionEnter(p) \/ CheckRefused(p)
             \/ SessionUnlock(p) \/ EngineUnlock(p)
      PROVE  Steps
    <2>1. Locking' /\ Alone(p)
        BY <1>1, BeginLocking, EngineLockLocking, SessionLockLocking, EngineEnterLocking,
           LookupLocking, SessionEnterLocking, CheckRefusedLocking, SessionUnlockLocking,
           EngineUnlockLocking DEF Full
    <2>2. pc[p] # "commit" /\ pc'[p] # "commit" /\ UNCHANGED <<vars, decision>>
        BY <1>1 DEF Begin, BeginIsExpired, EngineLock, SessionLock, EngineEnter, CreateNone, Lookup,
           SessionEnter, CheckRefused, SessionUnlock, EngineUnlock, Return, Goto, Locked,
           Full, Locking, Control
    <2>. QED
        BY <2>1, <2>2, QuietStep
<1>2. ASSUME NEW p \in Procs, Create(p) \/ CheckExpired(p) \/ CheckPassed(p) \/ Commit(p)
      PROVE  Steps
    BY <1>2, CreateStep, CheckExpiredStep, CheckPassedStep, CommitStep
<1>. QED
    BY <1>1, <1>2, TickStep, StutterStep DEF LockNext, TakeLock, Run

-----------------------------------------------------------------------------
LEMMA InitFull == LockInit => Full /\ Bar!Init
<1> SUFFICES ASSUME LockInit PROVE Full /\ Bar!Init
    OBVIOUS
<1>1. \A r \in Refs : Deciding(r) = {}
    BY DEF LockInit, Deciding
<1>2. HeapBar = heap /\ ClosedByBar = closedBy
    BY <1>1 DEF HeapBar, ClosedByBar, LockInit, Init
<1>3. Bar!Init
    BY <1>2 DEF LockInit, Init, Bar!Init
<1>4. Bar!IInv /\ Bar!Allocated = Allocated
    BY <1>2, <1>3, Bar!InitIInv, NegotiationAssumption, SameNil DEF Bar!Allocated, Allocated
<1>5. Control
    BY DEF LockInit, Init, Control, ControlAt, EngineLabels, SessionLabels
<1>6. EngineMutex
    <2>1. EngineWaiting = {} /\ EngineWriting = {} /\ EngineReading = {}
        BY DEF LockInit, EngineWaiting, EngineWriting, EngineReading, InEngine
    <2>. QED
        BY <2>1, UnlockedHolds DEF EngineMutex, LockInit
<1>7. SessionMutex
    <2>1. ASSUME NEW r \in Refs
          PROVE  SessionWaiting(r) = {} /\ SessionWriting(r) = {} /\ SessionReading(r) = {}
        BY DEF LockInit, SessionWaiting, SessionWriting, SessionReading, InSession
    <2>. QED
        BY <2>1, UnlockedHolds DEF SessionMutex, LockInit
<1>. QED
    BY <1>3, <1>4, <1>5, <1>6, <1>7 DEF Full, BarOK, Locking, DecisionsAreFresh, LockInit

\* Every step keeps the locks in order and is one of the engine without locks.
THEOREM LocksInvariant == LockSpec => []Full
<1>1. Full /\ [LockNext]_lockVars => Full'
    BY EveryStep DEF Steps
<1>. QED
    BY <1>1, InitFull, PTL DEF LockSpec

\* Two goroutines are never inside together, but to read.
THEOREM ExclusionCorrect == LockSpec => []NoIntruders
<1>1. Full => NoIntruders
    BY Exclusion DEF Full
<1>. QED
    BY <1>1, LocksInvariant, PTL

\* There is no deadlock: among any goroutines there is one that waits for none of
\* the others, and nobody waits for a goroutine that has returned.
THEOREM NoDeadlock == LockSpec => []NoCircularWait
<1>1. Full => NoCircularWait
    BY WaitingIsRight DEF Full
<1>. QED
    BY <1>1, LocksInvariant, PTL

\* A decision is what the session, as it now is, calls for.
THEOREM FreshCorrect == LockSpec => []DecisionsAreFresh
<1>1. Full => DecisionsAreFresh
    BY DEF Full
<1>. QED
    BY <1>1, LocksInvariant, PTL

-----------------------------------------------------------------------------
(* The refinement: Bar and Atomic are two instances of the same actions. *)

LEMMA SameCalls ==
    ASSUME NEW r, NEW offer, NEW party, NEW kp, NEW kc
    PROVE  /\ Bar!Expire(r) => Atomic!Expire(r)
           /\ Bar!SubmitOffer(r, offer) => Atomic!SubmitOffer(r, offer)
           /\ Bar!AcceptOffer(r, party) => Atomic!AcceptOffer(r, party)
           /\ Bar!DeclineOffer(r, party) => Atomic!DeclineOffer(r, party)
           /\ Bar!SignBindingOnAccept(r, kp, kc) => Atomic!SignBindingOnAccept(r, kp, kc)
<1>1. ASSUME NEW s
      PROVE  /\ Bar!checkExpired(s) <=> Atomic!checkExpired(s)
             /\ Bar!OfferTarget(s) = Atomic!OfferTarget(s)
             /\ Bar!MayOffer(s, offer.from) <=> Atomic!MayOffer(s, offer.from)
             /\ Bar!MayAccept(s, party) <=> Atomic!MayAccept(s, party)
             /\ Bar!MayDecline(s, party) <=> Atomic!MayDecline(s, party)
    BY DEF Bar!checkExpired, Atomic!checkExpired, Bar!IsExpired, Atomic!IsExpired,
       Bar!TerminalStates, Atomic!TerminalStates, Bar!OfferTarget, Atomic!OfferTarget,
       Bar!MayOffer, Atomic!MayOffer, Bar!MayAccept, Atomic!MayAccept,
       Bar!MayDecline, Atomic!MayDecline
<1>2. ASSUME NEW from, NEW to
      PROVE  Bar!checkTransition(from, to) <=> Atomic!checkTransition(from, to)
    BY DEF Bar!checkTransition, Atomic!checkTransition, Bar!validTransitions,
       Atomic!validTransitions, Bar!SessionState, Atomic!SessionState
<1>3. ASSUME NEW s
      PROVE  /\ Bar!Expired(s) = Atomic!Expired(s) /\ Bar!Declined(s) = Atomic!Declined(s)
             /\ Bar!Offered(s, offer) = Atomic!Offered(s, offer)
             /\ Bar!Signed(s, kp, kc) = Atomic!Signed(s, kp, kc)
    BY <1>1 DEF Bar!Expired, Atomic!Expired, Bar!Declined, Atomic!Declined, Bar!Offered,
       Atomic!Offered, Bar!Signed, Atomic!Signed, Bar!SignedWith, Atomic!SignedWith
<1>4. ASSUME NEW s
      PROVE  Bar!Accepted(s) = Atomic!Accepted(s)
    <2>1. Bar!NewBinding(s) = Atomic!NewBinding(s)
        BY DEF Bar!NewBinding, Atomic!NewBinding, Bar!AgreedOn, Atomic!AgreedOn, Bar!Last,
           Atomic!Last, Bar!StandingOffer, Atomic!StandingOffer, Bar!ParsedTerms, Atomic!ParsedTerms
    <2>. QED
        BY <2>1 DEF Bar!Accepted, Atomic!Accepted
<1>5. Bar!Expire(r) => Atomic!Expire(r)
    BY <1>1, <1>3 DEF Bar!Expire, Atomic!Expire
<1>6. Bar!SubmitOffer(r, offer) => Atomic!SubmitOffer(r, offer)
    BY <1>1, <1>2, <1>3 DEF Bar!SubmitOffer, Atomic!SubmitOffer
<1>7. Bar!AcceptOffer(r, party) => Atomic!AcceptOffer(r, party)
    BY <1>1, <1>2, <1>4 DEF Bar!AcceptOffer, Atomic!AcceptOffer
<1>8. Bar!DeclineOffer(r, party) => Atomic!DeclineOffer(r, party)
    BY <1>1, <1>2, <1>3 DEF Bar!DeclineOffer, Atomic!DeclineOffer
<1>9. Bar!SignBindingOnAccept(r, kp, kc) => Atomic!SignBindingOnAccept(r, kp, kc)
    BY <1>3 DEF Bar!SignBindingOnAccept, Atomic!SignBindingOnAccept
<1>. QED
    BY <1>5, <1>6, <1>7, <1>8, <1>9

LEMMA SameNext == Bar!Next => Atomic!Next
<1> SUFFICES ASSUME Bar!Next PROVE Atomic!Next
    OBVIOUS
<1>1. ASSUME NEW r \in Refs, NEW pair \in Pairings, NEW action \in Actions, NEW ttl \in TTLs,
             NEW later \in now .. MaxTime, Bar!NewSession(r, pair, action, ttl, later)
      PROVE  Atomic!Next
    <2>1. Atomic!NewSession(r, pair, action, ttl, later)
        BY <1>1 DEF Bar!NewSession, Atomic!NewSession, Bar!SessionID, Atomic!SessionID
    <2>. QED
        BY <2>1 DEF Atomic!Next
<1>2. ASSUME NEW id \in DOMAIN sessions, Bar!Call(id)
      PROVE  Atomic!Next
    <2>1. Bar!Offer = Atomic!Offer
        BY DEF Bar!Offer, Atomic!Offer
    <2>2. Atomic!Call(id)
        BY <1>2, <2>1, SameCalls DEF Bar!Call, Atomic!Call
    <2>. QED
        BY <2>2 DEF Atomic!Next
<1>3. ASSUME NEW r \in Bar!Allocated, NEW kp \in Keys \cup {NoKey}, NEW kc \in Keys \cup {NoKey},
             Bar!SignBindingOnAccept(r, kp, kc)
      PROVE  Atomic!Next
    BY <1>3, SameCalls DEF Bar!Allocated, Atomic!Allocated, Atomic!Next
<1>4. ASSUME Bar!Tick PROVE Atomic!Next
    BY <1>4 DEF Bar!Tick, Atomic!Tick, Atomic!Next
<1>. QED
    BY <1>1, <1>2, <1>3, <1>4 DEF Bar!Next

\* With its locks the engine implements the engine whose calls are atomic.
THEOREM LocksRefinement == LockSpec => ImplementsNegotiation
<1>1. LockInit => Atomic!Init
    BY InitFull DEF Bar!Init, Atomic!Init
<1>2. Full /\ [LockNext]_lockVars => [Atomic!Next]_Atomic!vars
    BY EveryStep, SameNext DEF Steps, Bar!vars, Atomic!vars
<1>. QED
    BY <1>1, <1>2, LocksInvariant, PTL DEF LockSpec, ImplementsNegotiation, Atomic!Spec

LEMMA AsIfAtomic == LockSpec => Bar!Spec
<1>1. LockInit => Bar!Init
    BY InitFull
<1>2. Full /\ [LockNext]_lockVars => [Bar!Next]_Bar!vars
    BY EveryStep DEF Steps
<1>. QED
    BY <1>1, <1>2, LocksInvariant, PTL DEF LockSpec, Bar!Spec

-----------------------------------------------------------------------------
(* The sessions as they are written: what any goroutine may read under a     *)
(* lock, while others have decided and not yet written.                      *)

LEMMA NoDecisionBar ==
    /\ \A r \in Refs : Deciding(r) = {} => HeapBar[r] = heap[r] /\ ClosedByBar[r] = closedBy[r]
    /\ \A r \in Refs :
           Deciding(r)' = {} => HeapBar'[r] = heap'[r] /\ ClosedByBar'[r] = closedBy'[r]
BY DEF HeapBar, ClosedByBar

LEMMA WhoWrites ==
    ASSUME [LockNext]_lockVars
    PROVE  \/ UNCHANGED <<heap, closedBy>>
           \/ \E p \in Procs : Create(p) \/ CheckExpired(p) \/ Commit(p)
BY DEF LockNext, Run, Begin, BeginIsExpired, TakeLock, EngineLock, SessionLock, EngineEnter,
   CreateNone, Lookup, SessionEnter, CheckRefused, CheckPassed, SessionUnlock, EngineUnlock,
   LockTick, Tick, lockVars, vars

\* A session that a step writes is one that nobody is about to write any more.
LEMMA WrittenLast ==
    ASSUME Full, [LockNext]_lockVars, NEW r \in Refs
    PROVE  \/ heap'[r] = heap[r] /\ closedBy'[r] = closedBy[r]
           \/ heap'[r] = HeapBar'[r] /\ closedBy'[r] = ClosedByBar'[r]
<1>1. ASSUME NEW p \in Procs, Create(p), heap'[r] # heap[r]
      PROVE  Deciding(r)' = {}
    <2>1. Alone(p) /\ pc'[p] = "unlockEngine" /\ heap[r] = Free
        BY <1>1 DEF Create, NewSession, Goto, Alone, Full, Locking, Control
    <2>. QED
        BY <2>1 DEF Deciding, Alone, Full, Locking, Control, ControlAt, Allocated, SessionLabels
<1>2. ASSUME NEW p \in Procs, CheckExpired(p), heap'[r] # heap[r]
      PROVE  Deciding(r)' = {}
    <2>1. /\ Alone(p) /\ pc'[p] = "unlockSession" /\ pc[p] = "check" /\ ref' = ref /\ r = ref[p]
          /\ call[p].op \in WriteLocks.session
        BY <1>2 DEF CheckExpired, Goto, Alone, Nested, WriteLocks, Full, Locking, Control
    <2>2. Deciding(r) = {}
        BY <2>1, NobodyDecides DEF Full
    <2>. QED
        BY <2>1, <2>2 DEF Deciding, Alone
<1>3. ASSUME NEW p \in Procs, Commit(p), r = ref[p]
      PROVE  Deciding(r)' = {}
    <2>1. Alone(p) /\ pc'[p] = "unlockSession" /\ pc[p] = "commit" /\ ref' = ref
        BY <1>3 DEF Commit, Goto, Alone, Full, Locking, Control
    <2>2. Deciding(r) = {p}
        BY <1>3, <2>1, DecidingAlone DEF Full
    <2>. QED
        BY <2>1, <2>2 DEF Deciding, Alone
<1>4. ASSUME NEW p \in Procs, Commit(p), r # ref[p]
      PROVE  heap'[r] = heap[r] /\ closedBy'[r] = closedBy[r]
    BY <1>4 DEF Commit, Full, Locking, Control
<1>5. ASSUME NEW p \in Procs, Create(p) \/ CheckExpired(p)
      PROVE  closedBy'[r] = closedBy[r]
    BY <1>5 DEF Create, NewSession, CheckExpired
<1>6. ASSUME NEW p \in Procs, Create(p) \/ CheckExpired(p) \/ Commit(p)
      PROVE  (heap'[r] = heap[r] /\ closedBy'[r] = closedBy[r]) \/ Deciding(r)' = {}
    BY <1>1, <1>2, <1>3, <1>4, <1>5, <1>6
<1>. QED
    BY <1>6, WhoWrites, NoDecisionBar

BilateralAt(s, closer) ==
    s.state = "accepted" /\ s.provider # s.consumer /\ Len(s.offers) <= 2
        => closer # s.offers[Len(s.offers)].from

WrittenAt(s, closer) ==
    s \in Session /\ FollowsTurns(s) /\ BindsLastOffer(s) /\ BilateralAt(s, closer)

Written == \A r \in Allocated : WrittenAt(heap[r], closedBy[r])

Decided ==
    /\ Bar!BindingIsTheLastOffer /\ Bar!ShortNegotiationsAreBilateral /\ Bar!SessionsReachable

LEMMA DecidedIsWell ==
    Full /\ Decided => \A r \in Bar!Allocated : WrittenAt(HeapBar[r], ClosedByBar[r])
<1> SUFFICES ASSUME Full, Decided, NEW r \in Bar!Allocated
             PROVE  WrittenAt(HeapBar[r], ClosedByBar[r])
    OBVIOUS
<1>. DEFINE s == HeapBar[r]
<1>1. s \in Session
    BY SameTypes DEF Full, BarOK, Bar!IInv, Bar!TypeOK, Bar!Allocated
<1>2. FollowsTurns(s)
    BY DEF Full, BarOK, Bar!IInv, Bar!OffersFollowTurns, Bar!FollowsTurns, FollowsTurns
<1>3. BindsLastOffer(s)
    BY DEF Decided, Bar!BindingIsTheLastOffer, Bar!BindsLastOffer, BindsLastOffer
<1>4. BilateralAt(s, ClosedByBar[r])
    BY DEF Decided, Bar!ShortNegotiationsAreBilateral, BilateralAt
<1>. QED
    BY <1>1, <1>2, <1>3, <1>4 DEF WrittenAt

LEMMA NextDecidedIsWell ==
    Full' /\ Decided' => \A r \in Bar!Allocated' : WrittenAt(HeapBar'[r], ClosedByBar'[r])
<1>1. (Full /\ Decided => \A r \in Bar!Allocated : WrittenAt(HeapBar[r], ClosedByBar[r]))'
    BY DecidedIsWell, PTL
<1>. QED
    BY <1>1 DEF WrittenAt, FollowsTurns, BindsLastOffer, BilateralAt

LEMMA WrittenStep ==
    ASSUME Full, Written, Full', Decided', [LockNext]_lockVars
    PROVE  Written'
<1>1. ASSUME NEW r \in Allocated' PROVE WrittenAt(heap'[r], closedBy'[r])
    <2>1. r \in Refs /\ heap'[r] # Free
        BY <1>1 DEF Allocated
    <2>2. CASE heap'[r] = heap[r] /\ closedBy'[r] = closedBy[r]
        BY <2>1, <2>2 DEF Written, Allocated
    <2>3. CASE heap'[r] = HeapBar'[r] /\ closedBy'[r] = ClosedByBar'[r]
        BY <2>1, <2>3, NextDecidedIsWell DEF Bar!Allocated
    <2>. QED
        BY <2>1, <2>2, <2>3, WrittenLast
<1>. QED
    BY <1>1 DEF Written, WrittenAt, FollowsTurns, BindsLastOffer, BilateralAt

LEMMA DecidedCorrect == LockSpec => []Decided
<1>1. Bar!Spec => []Bar!BindingIsTheLastOffer
    BY Bar!BindingCorrect, NegotiationAssumption, SameNil
<1>2. Bar!Spec => []Bar!ShortNegotiationsAreBilateral
    BY Bar!BilateralCorrect, NegotiationAssumption, SameNil
<1>3. Bar!Spec => []Bar!SessionsReachable
    BY Bar!ReachableCorrect, NegotiationAssumption, SameNil
<1>4. Bar!BindingIsTheLastOffer /\ Bar!ShortNegotiationsAreBilateral /\ Bar!SessionsReachable
          => Decided
    BY DEF Decided
<1>. QED
    BY <1>1, <1>2, <1>3, <1>4, AsIfAtomic, PTL

LEMMA WrittenCorrect == LockSpec => []Written
<1>1. LockInit => Written
    BY DEF LockInit, Init, Written, Allocated
<1>2. Full /\ Written /\ Full' /\ Decided' /\ [LockNext]_lockVars => Written'
    BY WrittenStep
<1>. QED
    BY <1>1, <1>2, LocksInvariant, DecidedCorrect, PTL DEF LockSpec

\* Goroutines, whatever they interleave, leave every session with the offers its
\* state and its turns allow (SubmitOffer, under both locks).
THEOREM LocksTurns == LockSpec => []OffersFollowTurns
<1>1. Written => OffersFollowTurns
    BY DEF Written, WrittenAt, OffersFollowTurns
<1>. QED
    BY <1>1, WrittenCorrect, PTL

\* A binding that any goroutine finds in a session is the one of its last offer:
\* no offer comes in between AcceptOffer's look at the list and its write.
THEOREM LocksBinding == LockSpec => []BindingIsTheLastOffer
<1>1. Written => BindingIsTheLastOffer
    BY DEF Written, WrittenAt, BindingIsTheLastOffer
<1>. QED
    BY <1>1, WrittenCorrect, PTL

\* Nobody accepts an offer of his own among the first two by calling at the same
\* time as the other party.
THEOREM LocksBilateral == LockSpec => []ShortNegotiationsAreBilateral
<1>1. Written => ShortNegotiationsAreBilateral
    BY DEF Written, WrittenAt, BilateralAt, ShortNegotiationsAreBilateral
<1>. QED
    BY <1>1, WrittenCorrect, PTL

AlikeInMap(s, t) ==
    s.id = t.id /\ s.openedAt = t.openedAt /\ s.provider = t.provider /\ s.consumer = t.consumer

\* What a call decides of a session has the session's identity.
LEMMA SameSession ==
    ASSUME Full, Written, NEW r \in Allocated
    PROVE  r \in Refs /\ AlikeInMap(HeapBar[r], heap[r])
<1>1. r \in Refs /\ heap[r] \in Session
    BY DEF Allocated, Written, WrittenAt
<1>2. CASE Deciding(r) = {}
    BY <1>1, <1>2, NoDecisionBar DEF AlikeInMap
<1>3. ASSUME NEW p \in Deciding(r)
      PROVE  AlikeInMap(HeapBar[r], heap[r])
    <2>1. p \in Procs /\ pc[p] = "commit" /\ ref[p] = r
        BY DEF Deciding
    <2>2. HeapBar[r] = Outcome(call[p], heap[r]) /\ Permits(call[p], heap[r])
        BY <1>1, <2>1, BarsAt DEF Full, HeapBarAt, DecisionsAreFresh
    <2>. QED
        BY <1>1, <2>2
        DEF Permits, Outcome, Offered, Accepted, Declined, Signed, Session, AlikeInMap
<1>. QED
    BY <1>1, <1>2, <1>3

\* Whatever goroutines do at once to the map and the sessions, a session's ID
\* leads to it, or to one opened at the same reading of the clock for parties
\* whose names join alike.
THEOREM LocksReachable == LockSpec => []SessionsReachable
<1>1. ASSUME Full, Written, Decided PROVE SessionsReachable
    <2>1. /\ Bar!Allocated = Allocated
          /\ \A id \in DOMAIN sessions : sessions[id] \in Allocated
        BY <1>1 DEF Full, BarOK, Bar!IInv, Bar!TypeOK
    <2>2. \A r \in Allocated : AlikeInMap(HeapBar[r], heap[r])
        BY <1>1, SameSession
    <2>3. Bar!SessionsReachable
        BY <1>1 DEF Decided
    <2>4. SUFFICES ASSUME NEW r \in Allocated
                   PROVE  /\ heap[r].id \in DOMAIN sessions
                          /\ LET found == heap[sessions[heap[r].id]] IN
                             /\ found.openedAt = heap[r].openedAt
                             /\ Joined[<<found.provider, found.consumer>>]
                                    = Joined[<<heap[r].provider, heap[r].consumer>>]
        BY DEF SessionsReachable
    <2>. DEFINE q == sessions[HeapBar[r].id]
    <2>5. /\ HeapBar[r].id \in DOMAIN sessions
          /\ HeapBar[q].openedAt = HeapBar[r].openedAt
          /\ Joined[<<HeapBar[q].provider, HeapBar[q].consumer>>]
                 = Joined[<<HeapBar[r].provider, HeapBar[r].consumer>>]
        BY <2>1, <2>3 DEF Bar!SessionsReachable
    <2>6. q \in Allocated /\ q = sessions[heap[r].id] /\ heap[r].id \in DOMAIN sessions
        BY <2>1, <2>2, <2>5 DEF AlikeInMap
    <2>. HIDE DEF q
    <2>7. AlikeInMap(HeapBar[r], heap[r]) /\ AlikeInMap(HeapBar[q], heap[q])
        BY <2>2, <2>6
    <2>8. /\ heap[q].openedAt = heap[r].openedAt
          /\ <<heap[q].provider, heap[q].consumer>> = <<HeapBar[q].provider, HeapBar[q].consumer>>
          /\ <<heap[r].provider, heap[r].consumer>> = <<HeapBar[r].provider, HeapBar[r].consumer>>
        BY <2>5, <2>7 DEF AlikeInMap
    <2>. QED
        BY <2>5, <2>6, <2>8
<1>2. Full /\ Written /\ Decided => SessionsReachable
    BY <1>1
<1>. QED
    BY <1>2, LocksInvariant, WrittenCorrect, DecidedCorrect, PTL

\* A call that looked at a session before another one closed it does not change
\* it afterwards: only the signatures of a binding come late.
THEOREM LocksClosed == LockSpec => ClosedIsFinal
<1>. DEFINE Final(r) == heap[r].state \in TerminalStates =>
        /\ heap'[r] = [heap[r] EXCEPT !.binding = heap'[r].binding]
        /\ heap[r].binding = NoBinding => heap'[r].binding = NoBinding
        /\ heap[r].binding # NoBinding =>
               heap'[r].binding.agreed = heap[r].binding.agreed
        /\ closedBy'[r] = closedBy[r]
<1>1. ASSUME Full, Written, [LockNext]_lockVars, NEW r \in Allocated, heap[r].state \in TerminalStates
      PROVE  Final(r)
    <2>1. r \in Refs /\ heap[r] \in Session /\ heap[r] # Free
        BY <1>1 DEF Allocated, Written, WrittenAt
    <2>2. CASE heap'[r] = heap[r] /\ closedBy'[r] = closedBy[r]
        BY <2>1, <2>2 DEF Session
    <2>3. ASSUME NEW p \in Procs, Create(p)
          PROVE  heap'[r] = heap[r] /\ closedBy'[r] = closedBy[r]
        BY <1>1, <2>1, <2>3 DEF Create, NewSession, Full, Locking, Control
    <2>4. ASSUME NEW p \in Procs, CheckExpired(p)
          PROVE  heap'[r] = heap[r] /\ closedBy'[r] = closedBy[r]
        BY <1>1, <2>1, <2>4 DEF CheckExpired, checkExpired, Full, Locking, Control
    <2>5. ASSUME NEW p \in Procs, Commit(p), ref[p] # r
          PROVE  heap'[r] = heap[r] /\ closedBy'[r] = closedBy[r]
        BY <1>1, <2>1, <2>5 DEF Commit, Full, Locking, Control
    <2>6. ASSUME NEW p \in Procs, Commit(p), ref[p] = r
          PROVE  Final(r)
        <3>1. /\ heap'[r] = Outcome(call[p], heap[r]) /\ Permits(call[p], heap[r])
              /\ closedBy'[r] = Closer(call[p], closedBy[r])
            BY <1>1, <2>1, <2>6 DEF Commit, Full, Locking, Control, DecisionsAreFresh
        <3>2. call[p].op = "SignBindingOnAccept" /\ heap[r].binding # NoBinding
            BY <1>1, <3>1 DEF Permits, MayOffer, MayAccept, MayDecline, TerminalStates
        <3>3. heap'[r] = Signed(heap[r], call[p].kp, call[p].kc) /\ closedBy'[r] = closedBy[r]
            BY <3>1, <3>2 DEF Outcome, Closer
        <3>. QED
            BY <2>1, <3>2, <3>3 DEF Signed, Session, Binding
    <2>7. \/ UNCHANGED <<heap, closedBy>>
          \/ \E p \in Procs : Create(p) \/ CheckExpired(p) \/ Commit(p)
        BY <1>1, WhoWrites
    <2>. QED
        BY <2>2, <2>3, <2>4, <2>5, <2>6, <2>7
<1>2. Full /\ Written /\ [LockNext]_lockVars => [\A r \in Allocated : Final(r)]_vars
    BY <1>1
<1>. QED
    BY <1>2, LocksInvariant, WrittenCorrect, PTL DEF LockSpec, ClosedIsFinal

-----------------------------------------------------------------------------
(* The written sessions implement Agreement, as the decided ones do.         *)

Functions ==
    heap \in [Refs -> Session \cup {Free}] /\ closedBy \in [Refs -> Agents \cup {NoOne}]

LEMMA FunctionsStep ==
    ASSUME Functions, Written', Full, Full', [LockNext]_lockVars
    PROVE  Functions'
<1>1. \A r \in Refs : heap'[r] \in Session \cup {Free}
    BY DEF Written, WrittenAt, Allocated
<1>2. \A r \in Refs : closedBy'[r] \in Agents \cup {NoOne}
    <2>1. \A r \in Refs : ClosedByBar'[r] \in Agents \cup {NoOne}
        BY DEF Full, BarOK, Bar!IInv, Bar!TypeOK
    <2>. QED
        BY <2>1, WrittenLast DEF Functions
<1>3. /\ heap' = heap \/ \E r, s : heap' = [heap EXCEPT ![r] = s]
      /\ closedBy' = closedBy \/ \E r, c : closedBy' = [closedBy EXCEPT ![r] = c]
    <2>1. ASSUME NEW p \in Procs, Create(p) \/ CheckExpired(p)
          PROVE  (\E r, s : heap' = [heap EXCEPT ![r] = s]) /\ closedBy' = closedBy
        BY <2>1 DEF Create, NewSession, CheckExpired
    <2>2. ASSUME NEW p \in Procs, Commit(p)
          PROVE  /\ \E r, s : heap' = [heap EXCEPT ![r] = s]
                 /\ \E r, c : closedBy' = [closedBy EXCEPT ![r] = c]
        BY <2>2 DEF Commit
    <2>3. \/ UNCHANGED <<heap, closedBy>>
          \/ \E p \in Procs : Create(p) \/ CheckExpired(p) \/ Commit(p)
        BY WhoWrites
    <2>. QED
        BY <2>1, <2>2, <2>3
<1>. QED
    BY <1>1, <1>2, <1>3 DEF Functions

LEMMA WrittenTypes == Full /\ Written /\ Functions => TypeOK
<1> SUFFICES ASSUME Full, Written, Functions PROVE TypeOK
    OBVIOUS
<1>1. Bar!Allocated = Allocated /\ DOMAIN sessions \subseteq IDs /\ now \in Nat
    BY SameTypes DEF Full, BarOK, Bar!IInv, Bar!TypeOK
<1>2. ASSUME NEW id \in DOMAIN sessions
      PROVE  sessions[id] \in Allocated /\ heap[sessions[id]].id = id
    BY <1>1, SameSession DEF Full, BarOK, Bar!IInv, Bar!TypeOK, AlikeInMap
<1>. QED
    BY <1>1, <1>2 DEF TypeOK, Functions

LEMMA FunctionsCorrect == LockSpec => []Functions
<1>1. LockInit => Functions
    BY DEF LockInit, Init, Functions
<1>2. Functions /\ Written' /\ Full /\ Full' /\ [LockNext]_lockVars => Functions'
    BY FunctionsStep
<1>. QED
    BY <1>1, <1>2, LocksInvariant, WrittenCorrect, PTL DEF LockSpec

\* What goroutines write are sessions, and what their calls return is found in the
\* map, at every step of every handler.
THEOREM LocksTypes == LockSpec => []TypeOK
BY WrittenTypes, LocksInvariant, WrittenCorrect, FunctionsCorrect, PTL

\* A decision that is written, however late, moves the conversation.
LEMMA CommitMoves ==
    ASSUME Full, Decided, Written, Functions, NEW p \in Procs, Commit(p)
    PROVE  \/ \E d \in Agreed : Promise!Propose(ref[p], d)
           \/ Promise!Agree(ref[p])
           \/ Promise!Abandon(ref[p])
           \/ UNCHANGED <<StatusBar, ProposalBar, DealBar>>
<1>. DEFINE r == ref[p]
            c == call[p]
            h == heap[r]
            s == heap'[r]
<1>1. r \in Allocated /\ r \in Refs /\ r \in Bar!Allocated /\ CallOK(c) /\ pc[p] = "commit"
    BY DEF Commit, Full, BarOK, Locking, Control, ControlAt, SessionLabels, Allocated
<1>2. /\ s = decision[p] /\ \A q \in Refs \ {r} : heap'[q] = heap[q]
    BY <1>1 DEF Commit, Functions
<1>3. h \in Session /\ FollowsTurns(h)
    BY <1>1 DEF Written, WrittenAt
<1>4. s \in Session
    <2>1. WrittenAt(HeapBar[r], ClosedByBar[r])
        BY <1>1, DecidedIsWell
    <2>2. HeapBar[r] = decision[p]
        BY <1>1, BarsAt DEF Full, HeapBarAt
    <2>. QED
        BY <1>2, <2>1, <2>2 DEF WrittenAt
<1>5. s = Outcome(c, h) /\ Permits(c, h)
    BY <1>1, <1>2 DEF Full, DecisionsAreFresh
<1>6. h.offers \in Seq(Offer) /\ Len(h.offers) \in Nat
    BY <1>3 DEF Session
<1>7. CASE c.op = "SubmitOffer"
    <2>1. s = Offered(h, c.offer) /\ c.offer \in Offer /\ MayOffer(h, c.offer.from)
        BY <1>1, <1>5, <1>7 DEF Outcome, Permits, CallOK
    <2>2. SameIdentity(h, s) /\ s.binding = h.binding /\ s.state = OfferTarget(h)
          /\ s.offers = Append(h.offers, c.offer)
        BY <1>3, <2>1 DEF Offered, Session, SameIdentity
    <2>3. Moves(h, s)
        BY <2>1, <2>2 DEF Moves, MayOffer, OfferTarget, TerminalStates
    <2>. QED
        BY <1>1, <1>2, <1>3, <1>4, <2>2, <2>3, SessionStep
<1>8. CASE c.op = "AcceptOffer"
    <2>1. s = Accepted(h) /\ h.state \in {"offered", "countered"}
        BY <1>5, <1>8 DEF Outcome, Permits, MayAccept
    <2>2. SameIdentity(h, s) /\ s.state = "accepted" /\ s.offers = h.offers
          /\ s.binding = NewBinding(h)
        BY <1>3, <2>1 DEF Accepted, Session, SameIdentity
    <2>3. Len(h.offers) >= 1
        <3>1. CASE h.state = "offered"
            <4>1. Len(h.offers) = 1
                BY <1>3, <3>1 DEF FollowsTurns
            <4>. QED
                BY <4>1
        <3>2. CASE h.state = "countered"
            <4>1. Len(h.offers) >= 2
                BY <1>3, <3>2 DEF FollowsTurns
            <4>. QED
                BY <1>6, <4>1
        <3>. QED
            BY <2>1, <3>1, <3>2
    <2>4. Moves(h, s)
        BY <2>1, <2>2, <2>3 DEF Moves, TerminalStates
    <2>. QED
        BY <1>1, <1>2, <1>3, <1>4, <2>2, <2>4, SessionStep
<1>9. CASE c.op = "DeclineOffer"
    <2>1. s = Declined(h) /\ h.state \notin TerminalStates
        BY <1>5, <1>9 DEF Outcome, Permits, MayDecline, TerminalStates
    <2>2. SameIdentity(h, s) /\ s.state = "declined" /\ s.offers = h.offers
          /\ s.binding = h.binding
        BY <1>3, <2>1 DEF Declined, Session, SameIdentity
    <2>3. Moves(h, s)
        BY <2>1, <2>2 DEF Moves
    <2>. QED
        BY <1>1, <1>2, <1>3, <1>4, <2>2, <2>3, SessionStep
<1>10. CASE c.op = "SignBindingOnAccept"
    <2>1. s = Signed(h, c.kp, c.kc) /\ h.binding # NoBinding
        BY <1>5, <1>10 DEF Outcome, Permits
    <2>2. SameIdentity(h, s) /\ s.state = h.state /\ s.offers = h.offers
        BY <1>3, <2>1 DEF Signed, Session, SameIdentity
    <2>3. s.binding \in Binding /\ s.binding.agreed = h.binding.agreed
        <3>. DEFINE b == [h.binding EXCEPT
                             !.providerSig = SignedWith(c.kp, h.binding.providerSig),
                             !.consumerSig = SignedWith(c.kc, h.binding.consumerSig)]
        <3>1. h.binding \in Binding
            BY <1>3, <2>1 DEF Session
        <3>2. c.kp \in Keys \cup {NoKey} /\ c.kc \in Keys \cup {NoKey}
            BY <1>1, <1>10 DEF CallOK
        <3>3. b \in Binding /\ b.agreed = h.binding.agreed
            BY <3>1, <3>2 DEF Binding, SignedWith
        <3>4. s = [h EXCEPT !.binding = b]
            BY <2>1 DEF Signed
        <3>. HIDE DEF b
        <3>. QED
            BY <1>3, <3>3, <3>4 DEF Session
    <2>4. Moves(h, s)
        BY <2>1, <2>2, <2>3 DEF Moves, Signs
    <2>. QED
        BY <1>1, <1>2, <1>3, <1>4, <2>2, <2>4, SessionStep
<1>. QED
    BY <1>5, <1>7, <1>8, <1>9, <1>10 DEF Permits

LEMMA ExpiryMoves ==
    ASSUME Full, Written, Functions, NEW p \in Procs, CheckExpired(p)
    PROVE  \/ \E d \in Agreed : Promise!Propose(ref[p], d)
           \/ Promise!Agree(ref[p])
           \/ Promise!Abandon(ref[p])
           \/ UNCHANGED <<StatusBar, ProposalBar, DealBar>>
<1>. DEFINE r == ref[p]
            h == heap[r]
            s == heap'[r]
<1>1. r \in Allocated /\ r \in Refs
    BY DEF CheckExpired, Full, Locking, Control, ControlAt, SessionLabels, Allocated
<1>2. h \in Session
    BY <1>1 DEF Written, WrittenAt
<1>3. s = Expired(h) /\ h.state \notin TerminalStates /\ \A q \in Refs \ {r} : heap'[q] = heap[q]
    BY <1>1 DEF CheckExpired, checkExpired, Functions
<1>4. s \in Session /\ SameIdentity(h, s) /\ Moves(h, s)
    BY <1>2, <1>3 DEF Expired, Session, SessionState, SameIdentity, Moves
<1>. QED
    BY <1>1, <1>2, <1>3, <1>4, SessionStep

LEMMA AgreementStep ==
    ASSUME Full, Decided, Written, Functions, [LockNext]_lockVars
    PROVE  [Promise!Next]_Promise!vars
<1>1. ASSUME NEW p \in Procs, Create(p) PROVE Promise!Next
    <2>1. TypeOK /\ OffersFollowTurns
        BY WrittenTypes DEF Written, WrittenAt, OffersFollowTurns
    <2>2. PICK r \in Refs, later \in now .. MaxTime :
              NewSession(r, call[p].pair, call[p].action, call[p].ttl, later)
        BY <1>1 DEF Create
    <2>3. call[p].pair \in Pairings /\ call[p].action \in Actions /\ call[p].ttl \in TTLs
        BY <1>1 DEF Create, Full, Locking, Control, ControlAt, CallOK
    <2>4. Promise!Open(r)
        BY <2>1, <2>2, <2>3, OpenStep DEF IInv
    <2>. QED
        BY <2>4 DEF Promise!Next
<1>2. ASSUME NEW p \in Procs, CheckExpired(p) \/ Commit(p)
      PROVE  [Promise!Next]_Promise!vars
    <2>1. ref[p] \in Refs
        BY <1>2 DEF CheckExpired, Commit, Full, Locking, Control, ControlAt, SessionLabels, Allocated
    <2>. QED
        BY <1>2, <2>1, ExpiryMoves, CommitMoves DEF Promise!Next, Promise!vars
<1>3. ASSUME UNCHANGED <<heap, closedBy>> PROVE UNCHANGED Promise!vars
    BY <1>3 DEF Promise!vars, StatusBar, ProposalBar, DealBar
<1>. QED
    BY <1>1, <1>2, <1>3, WhoWrites

\* Whatever goroutines interleave, each session they write is a conversation with
\* one proposal on the table at a time, which ends once, on that proposal or on
\* none (SubmitOffer, AcceptOffer, DeclineOffer and checkExpired, lock by lock).
THEOREM LocksAgreement == LockSpec => ImplementsAgreement
<1>1. LockInit => Promise!Init
    BY DEF LockInit, Init, Promise!Init, StatusBar, ProposalBar, DealBar
<1>2. Full /\ Decided /\ Written /\ Functions /\ [LockNext]_lockVars
          => [Promise!Next]_Promise!vars
    BY AgreementStep
<1>. QED
    BY <1>1, <1>2, LocksInvariant, DecidedCorrect, WrittenCorrect, FunctionsCorrect, PTL
    DEF LockSpec, ImplementsAgreement, Promise!Spec
=============================================================================
