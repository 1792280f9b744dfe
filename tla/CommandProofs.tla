--------------------------- MODULE CommandProofs ---------------------------
(***************************************************************************)
(* Proofs about the commands of aip and the tools that run them, for any   *)
(* number of processes and tool calls, any contracts and any instants.     *)
(*                                                                         *)
(* A tool does nothing a user could not do in a shell, and kills only what *)
(* a user could interrupt: what is proved of the commands is proved once,  *)
(* for both.                                                               *)
(***************************************************************************)
EXTENDS McpServer, ExecutionProofs

-----------------------------------------------------------------------------
(* The commands, whoever gives them *)

CommandNext ==
    \/ Environment
    \/ \E p \in Calls : Proceed(p) \/ Shell(p) \/ Interrupt(p)

LEMMA ToolsRunCommands ==
    ASSUME NEW p \in Calls, CallTool(p)
    PROVE  Shell(p) \/ UNCHANGED commandVars
<1>1. ASSUME NEW written, RejectArguments(p, written)
      PROVE  UNCHANGED commandVars
    BY <1>1 DEF RejectArguments
<1>2. ASSUME NEW req \in Request, NEW input \in BOOLEAN, NEW url \in BOOLEAN,
             tool_execute(p, req, input, url)
      PROVE  Complain(p) \/ Execute(p, "execute", req, FALSE)
    BY <1>2 DEF tool_execute
<1>3. ASSUME NEW r \in ReceiptFiles, NEW key \in KnownKeys, tool_verify(p, r, key)
      PROVE  VerifyReceipt(p, r, key)
    BY <1>3 DEF tool_verify, keyArgument
<1>. QED
    BY <1>1, <1>2, <1>3 DEF CallTool, Shell, tool_keygen, tool_negotiate, tool_accept,
       tool_decline, tool_sign_contract, tool_settle, tool_demo

LEMMA CommandSteps == [Next]_vars => [CommandNext]_commandVars
<1> SUFFICES ASSUME Next PROVE [CommandNext]_commandVars
    BY DEF vars
<1>1. ASSUME NEW p \in Calls, ToolReturns(p) PROVE UNCHANGED commandVars
    BY <1>1 DEF ToolReturns
<1>2. ASSUME NEW p \in Calls, ToolTimeout(p) PROVE Interrupt(p)
    BY <1>2 DEF ToolTimeout, Interrupt
<1>3. CASE Outside
    BY <1>3 DEF Outside, CommandNext
<1>. QED
    BY <1>1, <1>2, <1>3, ToolsRunCommands DEF Next, CommandNext

\* The server that a model's client calls behaves, on the processes, the calls and
\* WitnessOS, as a user of cmd/aip at a shell who starts and interrupts commands.
THEOREM ToolsAreCommands == Spec => CommandLineInit /\ [][CommandNext]_commandVars
BY CommandSteps, PTL DEF Spec, Init

-----------------------------------------------------------------------------
(* The inductive invariant *)

Attested(p) == call[p].stage = "returned" /\ call[p].result # NoResult

ProcessAt(p) ==
    /\ CallAt(p)
    /\ proc[p].stage = "pushing" => Attested(p)

\* What a process has printed.
DocumentAt(p) == Out(p) # NoDoc =>
    /\ Out(p).kind = "execution" => Attested(p) /\ Out(p) = Output(p)
    /\ Out(p).kind = "keypair" => Out(p).key = GenerateKeyPair(p)

\* A receipt that is on its way is the one its sender made of the result it has,
\* and prints if nobody kills it.
MessageFrom(p, message) ==
    /\ Attested(p)
    /\ message = [by |-> p, receipt |-> ReceiptOf(p)]
    /\ proc[p].stage \in {"pushing", "killed", "exited"}
    /\ Out(p) # NoDoc => Out(p) = Output(p)

Messages == witnessed \subseteq sent /\ \A message \in sent : \E p \in Calls : MessageFrom(p, message)

Processes ==
    /\ DOMAIN proc = Calls /\ DOMAIN call = Calls /\ now \in Time
    /\ \A p \in Calls : ProcessAt(p) /\ DocumentAt(p)

CInv == Processes /\ Messages

-----------------------------------------------------------------------------
(* Receipts *)

LEMMA ReceiptFields ==
    ASSUME NEW p \in Calls
    PROVE  /\ ReceiptOf(p).contract = DemoContract(call[p].start)
           /\ ReceiptOf(p).signature =
                  [key |-> GenerateKeyPair(p), over |-> serializeForSigning(Unsigned(p))]
           /\ serializeForSigning(ReceiptOf(p)) = serializeForSigning(Unsigned(p))
<1>1. PICK id, action, hash :
          Unsigned(p) = [id |-> id, contract |-> DemoContract(call[p].start), action |-> action,
                         inputHash |-> hash, outputHash |-> hash, signature |-> NoSignature]
    BY DEF Unsigned, NewReceipt
<1>2. ReceiptOf(p) = [Unsigned(p) EXCEPT !.signature =
          [key |-> GenerateKeyPair(p), over |-> serializeForSigning(Unsigned(p))]]
    BY DEF ReceiptOf, Signed
<1>3. /\ ReceiptOf(p).contract = DemoContract(call[p].start)
      /\ ReceiptOf(p).signature =
             [key |-> GenerateKeyPair(p), over |-> serializeForSigning(Unsigned(p))]
    BY <1>1, <1>2
<1>4. [ReceiptOf(p) EXCEPT !.signature = NoSignature] = [Unsigned(p) EXCEPT !.signature = NoSignature]
    BY <1>1, <1>2
<1>. QED
    BY <1>3, <1>4 DEF serializeForSigning

\* A receipt that has just been signed verifies.
LEMMA SignedVerifies ==
    ASSUME NEW p \in Calls
    PROVE  Verify(ReceiptOf(p), GenerateKeyPair(p))
BY ReceiptFields DEF Verify

LEMMA WitnessIsRight == CInv => WitnessHoldsWhatWasPrinted
<1> SUFFICES ASSUME CInv, NEW message \in witnessed
             PROVE  /\ Verify(message.receipt, GenerateKeyPair(message.by))
                    /\ Out(message.by) # NoDoc => message.receipt = Out(message.by).receipt
    BY DEF WitnessHoldsWhatWasPrinted
<1>1. PICK p \in Calls : MessageFrom(p, message)
    BY DEF CInv, Messages
<1>2. message.by = p /\ message.receipt = ReceiptOf(p)
    BY <1>1 DEF MessageFrom
<1>3. Output(p).receipt = ReceiptOf(p)
    BY DEF Output
<1>. QED
    BY <1>1, <1>2, <1>3, SignedVerifies DEF MessageFrom

-----------------------------------------------------------------------------
(* The commands preserve the invariant *)

\* A process that does not move has and says what it had and said.
LEMMA Unmoved ==
    ASSUME NEW q \in Calls, proc'[q] = proc[q], call'[q] = call[q], ProcessAt(q), DocumentAt(q)
    PROVE  /\ ProcessAt(q)' /\ DocumentAt(q)'
           /\ \A message : MessageFrom(q, message) => MessageFrom(q, message)'
<1>1. Out(q)' = Out(q) /\ Attested(q)' = Attested(q)
    BY DEF Out, Attested
<1>2. ReceiptOf(q)' = ReceiptOf(q) /\ Output(q)' = Output(q)
    BY DEF Output, ReceiptOf, Unsigned, NewReceipt, Signed, serializeForSigning
<1>3. ProcessAt(q)'
    BY <1>1 DEF ProcessAt, CallAt
<1>4. DocumentAt(q)'
    BY <1>1, <1>2 DEF DocumentAt
<1>5. ASSUME NEW message, MessageFrom(q, message) PROVE MessageFrom(q, message)'
    BY <1>1, <1>2, <1>5 DEF MessageFrom
<1>. QED
    BY <1>3, <1>4, <1>5

\* One process moves, and may have sent something.
LEMMA OneMoves ==
    ASSUME CInv, NEW p \in Calls, DOMAIN proc' = Calls, DOMAIN call' = Calls, now' = now,
           \A q \in Calls \ {p} : proc'[q] = proc[q] /\ call'[q] = call[q],
           ProcessAt(p)', DocumentAt(p)', witnessed' = witnessed, sent \subseteq sent',
           \A message \in sent : MessageFrom(p, message) => MessageFrom(p, message)',
           \A message \in sent' \ sent : MessageFrom(p, message)'
    PROVE  CInv'
<1>1. ASSUME NEW q \in Calls \ {p}
      PROVE  /\ ProcessAt(q)' /\ DocumentAt(q)'
             /\ \A message : MessageFrom(q, message) => MessageFrom(q, message)'
    BY <1>1, Unmoved DEF CInv, Processes
<1>2. Processes'
    BY <1>1 DEF CInv, Processes
<1>3. ASSUME NEW message \in sent'
      PROVE  \E q \in Calls : MessageFrom(q, message)'
    BY <1>1, <1>3 DEF CInv, Messages
<1>. QED
    BY <1>2, <1>3 DEF CInv, Messages

LEMMA CommandStep ==
    ASSUME CInv, NEW p \in Calls, NEW status, NEW doc, New(p), Atomically(p, status, doc),
           doc # NoDoc => /\ doc.kind # "execution"
                          /\ doc.kind = "keypair" => doc.key = GenerateKeyPair(p)
    PROVE  CInv'
<1>1. /\ call' = call /\ now' = now /\ sent' = sent /\ witnessed' = witnessed
      /\ proc' = [proc EXCEPT ![p] = Exited(status, doc)]
    BY DEF Atomically, Became, executionVars, pushVars
<1>2. Out(p)' = doc /\ proc'[p].stage = "exited"
    BY <1>1 DEF Out, Exited, CInv, Processes
<1>3. ProcessAt(p)'
    BY <1>1, <1>2 DEF CInv, Processes, ProcessAt, CallAt
<1>4. DocumentAt(p)'
    BY <1>2 DEF DocumentAt
<1>5. \A message : ~MessageFrom(p, message)
    BY DEF New, MessageFrom
<1>. QED
    BY <1>1, <1>3, <1>4, <1>5, OneMoves DEF CInv, Processes

LEMMA ExecuteStep ==
    ASSUME CInv, NEW p \in Calls, NEW command, NEW req, NEW push, New(p),
           Execute(p, command, req, push)
    PROVE  CInv'
<1>1. /\ now' = now /\ sent' = sent /\ witnessed' = witnessed
      /\ proc' = [proc EXCEPT ![p] = [stage |-> "executing", command |-> command, push |-> push]]
    BY DEF Execute, Reject, Invoke, Became, pushVars
<1>2. CallAt(p)' /\ DOMAIN call' = Calls /\ \A q \in Calls \ {p} : call'[q] = call[q]
    <2>1. CASE Reject(p, req)
        <3>1. call[p] = [stage |-> "new", result |-> NoResult]
            BY <2>1 DEF Reject, CInv, Processes, ProcessAt, CallAt
        <3>. QED
            BY <2>1, <3>1 DEF Reject, Returned, CInv, Processes, CallAt
    <2>2. CASE Invoke(p, req)
        BY <2>2 DEF Invoke, CInv, Processes, CallAt
    <2>. QED
        BY <2>1, <2>2 DEF Execute
<1>3. Out(p)' = NoDoc /\ proc'[p].stage = "executing"
    BY <1>1 DEF Out, CInv, Processes
<1>4. ProcessAt(p)' /\ DocumentAt(p)'
    BY <1>2, <1>3 DEF ProcessAt, DocumentAt
<1>5. \A message : ~MessageFrom(p, message)
    BY DEF New, MessageFrom
<1>. QED
    BY <1>1, <1>2, <1>4, <1>5, OneMoves DEF CInv, Processes

LEMMA CallReturnsStep ==
    ASSUME CInv, NEW p \in Calls, CallReturns(p)
    PROVE  CInv'
<1>1. /\ now' = now /\ sent' = sent /\ witnessed' = witnessed /\ proc' = proc
      /\ call[p].stage = "waiting" /\ proc[p].stage = "executing"
    BY DEF CallReturns, Receive, TimeOut, pushVars
<1>2. PICK result : call' = Returned(p, result)
    BY DEF CallReturns, Receive, TimeOut
<1>3. CallAt(p)' /\ DOMAIN call' = Calls /\ \A q \in Calls \ {p} : call'[q] = call[q]
    <2>1. /\ call[p].start \in Time
          /\ call[p] = [stage |-> "waiting", action |-> call[p].action,
                        start |-> call[p].start, result |-> call[p].result]
        BY <1>1 DEF CInv, Processes, ProcessAt, CallAt
    <2>2. /\ DOMAIN call' = Calls /\ \A q \in Calls \ {p} : call'[q] = call[q]
          /\ call'[p] = [stage |-> "returned", action |-> call[p].action,
                         start |-> call[p].start, result |-> result]
        BY <1>2, <2>1 DEF Returned, CInv, Processes
    <2>. QED
        BY <2>1, <2>2 DEF CallAt
<1>4. Out(p)' = NoDoc /\ proc'[p].stage = "executing"
    BY <1>1 DEF Out
<1>5. ProcessAt(p)' /\ DocumentAt(p)'
    BY <1>3, <1>4 DEF ProcessAt, DocumentAt
<1>6. \A message : ~MessageFrom(p, message)
    BY <1>1 DEF MessageFrom
<1>. QED
    BY <1>1, <1>3, <1>5, <1>6, OneMoves DEF CInv, Processes

\* What a process does with its call done, or when it is killed: it keeps the
\* call, and what it prints, if anything, is its output.
LEMMA Concluding ==
    ASSUME CInv, NEW p \in Calls, NEW state, Became(p, state), Running(p),
           call' = call, now' = now, witnessed' = witnessed, sent \subseteq sent',
           state.stage \in {"pushing", "killed", "exited"},
           state.stage = "pushing" => Attested(p),
           state.stage = "exited" /\ state.out # NoDoc => Attested(p) /\ state.out = Output(p),
           \A message \in sent' \ sent :
               message = [by |-> p, receipt |-> ReceiptOf(p)] /\ Attested(p)
    PROVE  CInv'
<1>1. proc'[p] = state /\ DOMAIN proc' = Calls /\ \A q \in Calls \ {p} : proc'[q] = proc[q]
    BY DEF Became, CInv, Processes
<1>2. /\ Attested(p)' = Attested(p) /\ ReceiptOf(p)' = ReceiptOf(p) /\ Output(p)' = Output(p)
      /\ CallAt(p)' = CallAt(p)
    BY DEF Attested, CallAt, Output, ReceiptOf, Unsigned, NewReceipt, Signed, serializeForSigning
<1>3. Out(p)' # NoDoc => Attested(p) /\ Out(p)' = Output(p)
    BY <1>1 DEF Out
<1>4. ProcessAt(p)'
    BY <1>1, <1>2 DEF ProcessAt, CInv, Processes
<1>5. DocumentAt(p)'
    BY <1>2, <1>3 DEF DocumentAt, Output
<1>6. ASSUME NEW message, \/ MessageFrom(p, message)
                          \/ message = [by |-> p, receipt |-> ReceiptOf(p)] /\ Attested(p)
      PROVE  MessageFrom(p, message)'
    BY <1>1, <1>2, <1>3, <1>6 DEF MessageFrom
<1>. QED
    BY <1>1, <1>4, <1>5, <1>6, OneMoves DEF CInv, Processes

LEMMA ConcludeStep ==
    ASSUME CInv, NEW p \in Calls, Conclude(p) \/ ConcludeDemo(p) \/ Pushing(p) \/ Interrupt(p)
    PROVE  CInv'
<1>1. call' = call /\ now' = now /\ witnessed' = witnessed /\ Running(p)
    BY DEF Conclude, ConcludeDemo, Pushing, Interrupt, executionVars, pushVars, Running
<1>2. CASE Conclude(p)
    <2>. DEFINE push == call[p].result # NoResult /\ proc[p].push
    <2>1. call[p].result # NoResult => Attested(p)
        BY <1>2 DEF Conclude, Attested
    <2>2. sent' = IF push THEN sent \cup {[by |-> p, receipt |-> ReceiptOf(p)]} ELSE sent
        BY <1>2 DEF Conclude, Pushed
    <2>3. CASE call[p].result = NoResult
        <3>1. Became(p, Exited(1, NoDoc))
            BY <1>2, <2>3 DEF Conclude
        <3>. QED
            BY <1>1, <2>2, <2>3, <3>1, Concluding DEF Exited
    <2>4. CASE push
        <3>1. Became(p, [stage |-> "pushing"])
            BY <1>2, <2>4 DEF Conclude
        <3>. QED
            BY <1>1, <2>1, <2>2, <2>4, <3>1, Concluding
    <2>5. CASE call[p].result # NoResult /\ ~push
        <3>1. Became(p, Exited(0, Output(p)))
            BY <1>2, <2>5 DEF Conclude
        <3>. QED
            BY <1>1, <2>1, <2>2, <2>5, <3>1, Concluding DEF Exited
    <2>. QED
        BY <2>3, <2>4, <2>5
<1>3. CASE ConcludeDemo(p)
    <2>1. PICK status : Became(p, Exited(status, NoDoc))
        BY <1>3 DEF ConcludeDemo
    <2>2. sent' = sent
        BY <1>3 DEF ConcludeDemo, pushVars
    <2>. QED
        BY <1>1, <2>1, <2>2, Concluding DEF Exited
<1>4. CASE Pushing(p)
    <2>1. Became(p, Exited(0, Output(p))) /\ sent' = sent /\ Attested(p)
        BY <1>4 DEF Pushing, pushVars, CInv, Processes, ProcessAt
    <2>. QED
        BY <1>1, <2>1, Concluding DEF Exited
<1>5. CASE Interrupt(p)
    BY <1>1, <1>5, Concluding DEF Interrupt, Killed, pushVars
<1>. QED
    BY <1>2, <1>3, <1>4, <1>5

LEMMA EnvironmentStep ==
    ASSUME CInv, Environment
    PROVE  CInv'
<1>1. call' = call /\ proc' = proc /\ sent' = sent /\ witnessed' \subseteq sent
    BY DEF Environment, Elapse, Perform, Respond, Refuse, Ingest, pushVars, executionVars,
       CInv, Messages
<1>2. now' \in Time
    <2>1. CASE Elapse
        BY <2>1, ExecutionAssumption DEF Elapse, Time, CInv, Processes
    <2>2. CASE now' = now
        BY <2>2 DEF Time, CInv, Processes
    <2>. QED
        BY <2>1, <2>2 DEF Environment, Perform, Respond, Refuse, Ingest, executionVars
<1>3. ASSUME NEW q \in Calls
      PROVE  /\ ProcessAt(q)' /\ DocumentAt(q)'
             /\ \A message : MessageFrom(q, message) => MessageFrom(q, message)'
    BY <1>1, Unmoved DEF CInv, Processes
<1>. QED
    BY <1>1, <1>2, <1>3 DEF CInv, Processes, Messages

LEMMA ShellStep ==
    ASSUME CInv, NEW p \in Calls, Shell(p)
    PROVE  CInv'
<1>. New(p)
    BY DEF Shell
<1>1. ASSUME Complain(p) \/ ContinueSession(p) PROVE CInv'
    BY <1>1, CommandStep DEF Complain, ContinueSession
<1>2. ASSUME Keygen(p) PROVE CInv'
    <2>. DEFINE doc == [kind |-> "keypair", key |-> GenerateKeyPair(p)]
    <2>1. Atomically(p, 0, doc) /\ doc.kind = "keypair" /\ doc.key = GenerateKeyPair(p)
        BY <1>2 DEF Keygen
    <2>. HIDE DEF doc
    <2>. QED
        BY <2>1, CommandStep
<1>3. ASSUME NEW role, NEW action, OpenSession(p, role, action) PROVE CInv'
    <2>1. PICK doc : Atomically(p, 0, doc) /\ doc.kind = "session"
        BY <1>3 DEF OpenSession
    <2>. QED
        BY <2>1, CommandStep
<1>4. ASSUME NEW r, NEW key, VerifyReceipt(p, r, key) PROVE CInv'
    <2>1. CASE Verifies(r, key)
        <3>1. PICK doc : Atomically(p, 0, doc) /\ doc.kind = "verdict"
            BY <1>4, <2>1 DEF VerifyReceipt
        <3>. QED
            BY <3>1, CommandStep
    <2>2. CASE ~Verifies(r, key)
        BY <1>4, <2>2, CommandStep DEF VerifyReceipt
    <2>. QED
        BY <2>1, <2>2
<1>5. ASSUME NEW contract, NEW key, NEW party, SignContract(p, contract, key, party)
      PROVE  CInv'
    <2>1. PICK doc : Atomically(p, 0, doc) /\ doc.kind = "contract"
        BY <1>5 DEF SignContract
    <2>. QED
        BY <2>1, CommandStep
<1>6. ASSUME NEW contract, SettleContract(p, contract)
      PROVE  CInv'
    <2>1. PICK doc : Atomically(p, 0, doc) /\ doc.kind = "payment"
        BY <1>6 DEF SettleContract
    <2>. QED
        BY <2>1, CommandStep
<1>. QED
    BY <1>1, <1>2, <1>3, <1>4, <1>5, <1>6, ExecuteStep DEF Shell, Demo

LEMMA CInvStep == CInv /\ [CommandNext]_commandVars => CInv'
<1> SUFFICES ASSUME CInv, [CommandNext]_commandVars PROVE CInv'
    OBVIOUS
<1>1. CASE UNCHANGED commandVars
    <2>1. ASSUME NEW q \in Calls
          PROVE  /\ ProcessAt(q)' /\ DocumentAt(q)'
                 /\ \A message : MessageFrom(q, message) => MessageFrom(q, message)'
        BY <1>1, Unmoved DEF CInv, Processes, commandVars
    <2>. QED
        BY <1>1, <2>1 DEF CInv, Processes, Messages, commandVars
<1>2. ASSUME NEW p \in Calls, Proceed(p) PROVE CInv'
    BY <1>2, CallReturnsStep, ConcludeStep DEF Proceed
<1>. QED
    BY <1>1, <1>2, EnvironmentStep, ShellStep, ConcludeStep DEF CommandNext

LEMMA InitCInv == Init => CInv
<1> SUFFICES ASSUME Init PROVE CInv
    OBVIOUS
<1>1. ASSUME NEW p \in Calls PROVE ProcessAt(p) /\ DocumentAt(p)
    BY DEF Init, CommandLineInit, ExecutionInit, NotStarted, ProcessAt, CallAt, DocumentAt, Out
<1>2. 0 \in Time
    BY ExecutionAssumption DEF Time
<1>. QED
    BY <1>1, <1>2 DEF Init, CommandLineInit, ExecutionInit, CInv, Processes, Messages

\* What processes have printed and pushed is what their calls returned and their
\* files said, in every state of cmd/aip and of the server that runs it.
THEOREM CommandInvariant == Spec => []CInv
BY InitCInv, CInvStep, CommandSteps, PTL DEF Spec

\* WitnessOS holds the receipt that its sender prints, signed by it, whoever is
\* interrupted and whoever pushes at the same time (aip execute --witnessos).
THEOREM WitnessCorrect == Spec => []WitnessHoldsWhatWasPrinted
BY CommandInvariant, WitnessIsRight, PTL

-----------------------------------------------------------------------------
(* The tools *)

LEMMA CommandsMoveOne ==
    ASSUME NEW p \in Calls, Shell(p) \/ Interrupt(p) \/ Proceed(p)
    PROVE  proc' = proc \/ \E state : Became(p, state)
<1>1. ASSUME NEW status, NEW doc, Atomically(p, status, doc)
      PROVE  \E state : Became(p, state)
    BY <1>1 DEF Atomically
<1>2. ASSUME NEW command, NEW req, NEW push, Execute(p, command, req, push)
      PROVE  \E state : Became(p, state)
    BY <1>2 DEF Execute
<1>3. ASSUME NEW r, NEW key, VerifyReceipt(p, r, key)
      PROVE  \E state : Became(p, state)
    BY <1>1, <1>3 DEF VerifyReceipt
<1>4. ASSUME Shell(p) PROVE \E state : Became(p, state)
    BY <1>1, <1>2, <1>3, <1>4 DEF Shell, Complain, Keygen, OpenSession, ContinueSession,
       SignContract, SettleContract, Demo
<1>5. ASSUME Conclude(p) PROVE \E state : Became(p, state)
    BY <1>5 DEF Conclude
<1>6. ASSUME ConcludeDemo(p) \/ Pushing(p) \/ Interrupt(p)
      PROVE  \E state : Became(p, state)
    BY <1>6 DEF ConcludeDemo, Pushing, Interrupt
<1>. QED
    BY <1>4, <1>5, <1>6 DEF Proceed, CallReturns

\* A process that has exited, or that a rejected tool call never started, stays so.
LEMMA ProcessesStay ==
    ASSUME CInv, [Next]_vars, NEW q \in Calls
    PROVE  /\ proc[q].stage = "exited" => proc'[q] = proc[q]
           /\ New(q) /\ tool[q] # NoCall => proc'[q] = proc[q]
<1>1. ASSUME NEW p \in Calls, NEW state, Became(p, state), p # q
      PROVE  proc'[q] = proc[q]
    BY <1>1 DEF Became, CInv, Processes
<1>2. ASSUME NEW p \in Calls, Shell(p)
      PROVE  New(p)
    BY <1>2 DEF Shell
<1>3. ASSUME NEW p \in Calls, Interrupt(p)
      PROVE  Running(p)
    BY <1>3 DEF Interrupt
<1>4. ASSUME NEW p \in Calls, Proceed(p)
      PROVE  Running(p)
    BY <1>4 DEF Proceed, CallReturns, Conclude, ConcludeDemo, Pushing, Running
<1>5. CASE UNCHANGED commandVars
    BY <1>5 DEF commandVars
<1>6. CASE Outside
    <2>1. CASE Environment
        BY <2>1 DEF Environment, Ingest, pushVars
    <2>2. ASSUME NEW p \in Calls, Proceed(p) \/ (tool[p] = NoCall /\ (Shell(p) \/ Interrupt(p)))
          PROVE  /\ proc[q].stage = "exited" => proc'[q] = proc[q]
                 /\ New(q) /\ tool[q] # NoCall => proc'[q] = proc[q]
        BY <1>1, <1>2, <1>3, <1>4, <2>2, CommandsMoveOne DEF New, Running
    <2>. QED
        BY <1>6, <2>1, <2>2 DEF Outside
<1>7. ASSUME NEW p \in Calls, CallTool(p)
      PROVE  /\ proc[q].stage = "exited" => proc'[q] = proc[q]
             /\ New(q) /\ tool[q] # NoCall => proc'[q] = proc[q]
    <2>1. tool[p] = NoCall /\ New(p)
        BY <1>7 DEF CallTool
    <2>2. proc' = proc \/ \E state : Became(p, state)
        BY <1>7, ToolsRunCommands, CommandsMoveOne DEF commandVars
    <2>. QED
        BY <1>1, <2>1, <2>2 DEF New
<1>8. ASSUME NEW p \in Calls, ToolReturns(p)
      PROVE  proc' = proc
    BY <1>8 DEF ToolReturns, commandVars
<1>9. ASSUME NEW p \in Calls, ToolTimeout(p)
      PROVE  Running(p) /\ Became(p, Killed)
    BY <1>9 DEF ToolTimeout
<1>. QED
    BY <1>1, <1>5, <1>6, <1>7, <1>8, <1>9 DEF Next, vars, commandVars, New, Running

LEMMA IssuedStays ==
    ASSUME CInv, [Next]_vars
    PROVE  Issued \subseteq Issued'
<1>1. ASSUME NEW p \in Calls, Out(p) # NoDoc
      PROVE  Out(p)' = Out(p)
    BY <1>1, ProcessesStay DEF Out
<1>2. Printed("execution") \subseteq Printed("execution")'
    BY <1>1 DEF Printed
<1>3. OperatorReceipt' = OperatorReceipt
    BY DEF OperatorReceipt, Signed, serializeForSigning, Hash
<1>. QED
    BY <1>2, <1>3 DEF Issued

\* Every receipt that was issued was signed as a whole, for a contract that no
\* edited receipt names.
LEMMA IssuedIsSigned ==
    ASSUME CInv, NEW r \in Issued
    PROVE  /\ DOMAIN r = {"id", "contract", "action", "inputHash", "outputHash", "signature"}
           /\ r.signature.over.contract # <<"edited">>
<1>1. CASE r = OperatorReceipt
    BY <1>1 DEF OperatorReceipt, Signed, serializeForSigning
<1>2. ASSUME NEW p \in Calls, r = ReceiptOf(p)
      PROVE  /\ DOMAIN r = {"id", "contract", "action", "inputHash", "outputHash", "signature"}
             /\ r.signature.over.contract # <<"edited">>
    <2>1. PICK id, action, hash :
              Unsigned(p) = [id |-> id, contract |-> DemoContract(call[p].start),
                             action |-> action, inputHash |-> hash, outputHash |-> hash,
                             signature |-> NoSignature]
        BY DEF Unsigned, NewReceipt
    <2>2. DOMAIN r = DOMAIN Unsigned(p)
        BY <1>2 DEF ReceiptOf, Signed
    <2>3. r.signature.over.contract = DemoContract(call[p].start)
        <3>1. r.signature = [key |-> GenerateKeyPair(p), over |-> serializeForSigning(Unsigned(p))]
            BY <1>2, ReceiptFields
        <3>2. r.signature.over = serializeForSigning(Unsigned(p))
            BY <3>1
        <3>. QED
            BY <2>1, <3>2 DEF serializeForSigning
    <2>4. DemoContract(call[p].start) # <<"edited">>
        BY DEF DemoContract
    <2>. QED
        BY <2>1, <2>2, <2>3, <2>4
<1>3. ASSUME NEW p \in Calls, Out(p) # NoDoc, Out(p).kind = "execution", r = Out(p).receipt
      PROVE  r = ReceiptOf(p)
    BY <1>3 DEF CInv, Processes, DocumentAt, Output
<1>. QED
    BY <1>1, <1>2, <1>3 DEF Issued, Printed

-----------------------------------------------------------------------------
(* The commands implement Outcomes *)

\* What the calls and the provider do, with the receipts as they are.
LEMMA CourseStep ==
    ASSUME Course, EvidenceBar' = EvidenceBar
    PROVE  [Promise!Next]_Promise!vars
<1>1. CASE UNCHANGED <<StandingBar, performed>>
    BY <1>1 DEF Promise!vars
<1>2. ASSUME NEW p \in Calls, NEW from, NEW to, Shift(p, from, to)
      PROVE  Promise!Moves(p, from, to)
    BY <1>2 DEF Shift, StandingBar, Promise!Moves
<1>3. ASSUME NEW p \in Calls, Standing(p) \in {"asked", "failed"}, p \notin performed,
             performed' = performed \cup {p}, StandingBar' = StandingBar
      PROVE  Promise!TakeEffect(p)
    BY <1>3 DEF StandingBar, Promise!TakeEffect
<1>. QED
    BY <1>1, <1>2, <1>3 DEF Course, Promise!Next, Promise!Refuse, Promise!Ask, Promise!Succeed,
       Promise!Fail

\* All a process lets out is its one receipt.
OwnReceiptOnly ==
    \A p \in Calls :
        /\ LetOut(p) \subseteq {ReceiptOf(p)}
        /\ proc[p].stage \in {"new", "executing"} => LetOut(p) = {}
        /\ LetOut(p) # {} => Attested(p)

LEMMA LetOutOnce == CInv => OwnReceiptOnly
<1> SUFFICES ASSUME CInv, NEW p \in Calls
             PROVE  /\ LetOut(p) \subseteq {ReceiptOf(p)}
                    /\ proc[p].stage \in {"new", "executing"} => LetOut(p) = {}
                    /\ LetOut(p) # {} => Attested(p)
    BY DEF OwnReceiptOnly
<1>1. ASSUME NEW message \in sent, message.by = p
      PROVE  /\ message.receipt = ReceiptOf(p) /\ Attested(p)
             /\ proc[p].stage \in {"pushing", "killed", "exited"}
    <2>1. PICK q \in Calls : MessageFrom(q, message)
        BY DEF CInv, Messages
    <2>. QED
        BY <1>1, <2>1 DEF MessageFrom
<1>2. ASSUME Out(p) # NoDoc, Out(p).kind = "execution"
      PROVE  Out(p).receipt = ReceiptOf(p) /\ Attested(p) /\ proc[p].stage = "exited"
    <2>1. Out(p) = Output(p) /\ Attested(p)
        BY <1>2 DEF CInv, Processes, DocumentAt
    <2>2. Output(p).receipt = ReceiptOf(p)
        BY DEF Output
    <2>. QED
        BY <1>2, <2>1, <2>2 DEF Out
<1>. QED
    BY <1>1, <1>2 DEF LetOut

LEMMA NextLetOutOnce == CInv' => OwnReceiptOnly'
    BY LetOutOnce, PTL

\* What is attested changes only with what has been let out.
LEMMA EvidenceStays ==
    ASSUME \A p \in Calls : LetOut(p)' = LetOut(p)
    PROVE  EvidenceBar' = EvidenceBar
<1>. DEFINE Says(out) == IF out = {} THEN "none"
                         ELSE Saying((CHOOSE r \in out : TRUE).outputHash, Hash(Empty))
<1>1. /\ EvidenceBar = [q \in Calls |-> Says(LetOut(q))]
      /\ EvidenceBar' = [q \in Calls |-> Says(LetOut(q)')]
    BY Zenon DEF EvidenceBar
<1>. HIDE DEF Says
<1>. QED
    BY <1>1

\* Letting its receipt out, when it has let out none, a process attests its call.
LEMMA LettingOut ==
    ASSUME CInv, Exchanges, UNCHANGED executionVars, NEW p \in Calls, Attested(p),
           LetOut(p) = {}, LetOut(p)' = {ReceiptOf(p)},
           \A q \in Calls \ {p} : LetOut(q)' = LetOut(q)
    PROVE  Promise!Attest(p)
<1>1. ReceiptOf(p).outputHash = Hash(call[p].result.output)
    <2>1. PICK id, contract, action, hash :
              /\ Unsigned(p) = [id |-> id, contract |-> contract, action |-> action,
                                inputHash |-> hash, outputHash |-> hash, signature |-> NoSignature]
              /\ hash = Hash(call[p].result.output)
        BY DEF Unsigned, NewReceipt
    <2>. QED
        BY <2>1 DEF ReceiptOf, Signed
<1>2. Standing(p) = IF call[p].result.success THEN "done" ELSE "failed"
    BY DEF Attested, Exchanges, ExchangeAt, Standing
<1>3. call[p].result.success <=> call[p].result.output # Empty
    BY DEF Attested, Exchanges, ExchangeAt
<1>4. Hash(call[p].result.output) = Hash(Empty) <=> call[p].result.output = Empty
    BY DEF Hash
<1>5. Saying(ReceiptOf(p).outputHash, Hash(Empty))
          = IF Standing(p) = "done" THEN "success" ELSE "failure"
    BY <1>1, <1>2, <1>3, <1>4 DEF Saying
<1>6. EvidenceBar[p] = "none"
    BY DEF EvidenceBar
<1>7. EvidenceBar' = [EvidenceBar EXCEPT ![p] = Saying(ReceiptOf(p).outputHash, Hash(Empty))]
    <2>. DEFINE Says(out) == IF out = {} THEN "none"
                             ELSE Saying((CHOOSE r \in out : TRUE).outputHash, Hash(Empty))
    <2>1. EvidenceBar = [q \in Calls |-> Says(LetOut(q))] /\ EvidenceBar' = [q \in Calls |-> Says(LetOut(q)')]
        BY Zenon DEF EvidenceBar
    <2>2. Says(LetOut(p)') = Saying(ReceiptOf(p).outputHash, Hash(Empty))
        BY Zenon
    <2>. HIDE DEF Says
    <2>. QED
        BY <2>1, <2>2
<1>8. StandingBar' = StandingBar /\ performed' = performed
    BY DEF executionVars, StandingBar, Standing
<1>. QED
    BY <1>2, <1>5, <1>6, <1>7, <1>8 DEF Promise!Attest, StandingBar

\* A process that moves, and pushes or prints if it does, takes nothing back and
\* lets out nothing in another's name.
LEMMA OneLetsOut ==
    ASSUME NEW p \in Calls, \A q \in Calls \ {p} : proc'[q] = proc[q],
           sent \subseteq sent', \A message \in sent' \ sent : message.by = p,
           Out(p) \in {NoDoc, Out(p)'}
    PROVE  LetOut(p) \subseteq LetOut(p)' /\ \A q \in Calls \ {p} : LetOut(q)' = LetOut(q)
<1>1. ASSUME NEW q \in Calls \ {p} PROVE LetOut(q)' = LetOut(q)
    <2>1. Out(q)' = Out(q)
        BY DEF Out
    <2>2. {m \in sent' : m.by = q} = {m \in sent : m.by = q}
        OBVIOUS
    <2>. QED
        BY <2>1, <2>2 DEF LetOut
<1>. QED
    BY <1>1 DEF LetOut

\* A step of a process that leaves its call alone.
LEMMA ProcessOutcome ==
    ASSUME CInv, CInv', Exchanges, UNCHANGED executionVars, NEW p \in Calls,
           \A q \in Calls \ {p} : proc'[q] = proc[q],
           sent \subseteq sent', \A message \in sent' \ sent : message.by = p,
           Out(p) \in {NoDoc, Out(p)'}
    PROVE  Exchanges' /\ [Promise!Next]_Promise!vars
<1>1. Exchanges' /\ Course
    BY ExecutionCourse DEF executionVars
<1>2. LetOut(p) \subseteq LetOut(p)' /\ \A q \in Calls \ {p} : LetOut(q)' = LetOut(q)
    BY OneLetsOut
<1>3. /\ LetOut(p)' \subseteq {ReceiptOf(p)'}
      /\ LetOut(p)' # {} => Attested(p)'
    BY NextLetOutOnce DEF OwnReceiptOnly
<1>4. ReceiptOf(p)' = ReceiptOf(p) /\ Attested(p)' = Attested(p)
    BY DEF executionVars, ReceiptOf, Unsigned, NewReceipt, Signed, serializeForSigning, Attested
<1>5. CASE LetOut(p)' = LetOut(p)
    <2>1. EvidenceBar' = EvidenceBar
        BY <1>2, <1>5, EvidenceStays
    <2>. QED
        BY <1>1, <2>1, CourseStep
<1>6. CASE LetOut(p)' # LetOut(p)
    <2>1. LetOut(p)' \subseteq {ReceiptOf(p)}
        BY <1>3, <1>4, Zenon
    <2>2. LetOut(p) = {} /\ LetOut(p)' = {ReceiptOf(p)}
        BY <1>2, <1>6, <2>1
    <2>3. Attested(p)
        <3>1. LetOut(p)' # {}
            BY <2>2
        <3>. QED
            BY <1>3, <1>4, <3>1, Zenon
    <2>. QED
        BY <1>1, <1>2, <2>2, <2>3, LettingOut DEF Promise!Next
<1>. QED
    BY <1>5, <1>6

\* A step of a call, the provider or the clock, with no receipt let out.
LEMMA ExecutionOutcome ==
    ASSUME Exchanges, ExecutionNext, \A p \in Calls : LetOut(p)' = LetOut(p)
    PROVE  Exchanges' /\ [Promise!Next]_Promise!vars
<1>1. EvidenceBar' = EvidenceBar
    BY EvidenceStays
<1>. QED
    BY <1>1, ExecutionCourse, CourseStep

LEMMA ExecuteOutcome ==
    ASSUME CInv, CInv', Exchanges, NEW p \in Calls, NEW command, NEW req \in Request, NEW push,
           New(p), Execute(p, command, req, push)
    PROVE  Exchanges' /\ [Promise!Next]_Promise!vars
<1>1. /\ proc' = [proc EXCEPT ![p] = [stage |-> "executing", command |-> command, push |-> push]]
      /\ sent' = sent
    BY DEF Execute, Became, pushVars
<1>2. proc'[p].stage = "executing" /\ \A q \in Calls \ {p} : proc'[q] = proc[q]
    BY <1>1 DEF CInv, Processes
<1>3. LetOut(p) = {} /\ LetOut(p)' = {}
    BY <1>2, LetOutOnce, NextLetOutOnce DEF New, OwnReceiptOnly
<1>4. \A q \in Calls \ {p} : LetOut(q)' = LetOut(q)
    BY <1>1, <1>2, OneLetsOut DEF New, Out
<1>5. ExecutionNext
    BY DEF Execute, ExecutionNext
<1>. QED
    BY <1>3, <1>4, <1>5, ExecutionOutcome

LEMMA OutcomesStep ==
    ASSUME CInv, Exchanges, [CommandNext]_commandVars
    PROVE  Exchanges' /\ [Promise!Next]_Promise!vars
<1>1. CInv'
    BY CInvStep
<1>2. ASSUME UNCHANGED <<proc, sent>> PROVE \A p \in Calls : LetOut(p)' = LetOut(p)
    BY <1>2 DEF LetOut, Out
<1>3. CASE UNCHANGED <<executionVars, proc, sent>>
    <2>1. Exchanges' /\ Course
        BY <1>3, ExecutionCourse DEF executionVars
    <2>2. EvidenceBar' = EvidenceBar
        BY <1>2, <1>3, EvidenceStays
    <2>. QED
        BY <2>1, <2>2, CourseStep
<1>4. CASE Environment
    BY <1>2, <1>3, <1>4, ExecutionOutcome DEF Environment, ExecutionNext, Ingest, pushVars
<1>5. ASSUME NEW p \in Calls, New(p), NEW status, NEW doc, Atomically(p, status, doc)
      PROVE  Exchanges' /\ [Promise!Next]_Promise!vars
    <2>1. \A q \in Calls \ {p} : proc'[q] = proc[q]
        BY <1>5 DEF Atomically, Became, CInv, Processes
    <2>. QED
        BY <1>1, <1>5, <2>1, ProcessOutcome DEF Atomically, New, Out, pushVars
<1>6. ASSUME NEW p \in Calls, Shell(p)
      PROVE  Exchanges' /\ [Promise!Next]_Promise!vars
    BY <1>1, <1>5, <1>6, ExecuteOutcome DEF Shell, Complain, Keygen, OpenSession, ContinueSession,
       SignContract, SettleContract, VerifyReceipt, Demo
<1>7. ASSUME NEW p \in Calls, CallReturns(p)
      PROVE  Exchanges' /\ [Promise!Next]_Promise!vars
    BY <1>2, <1>7, ExecutionOutcome DEF CallReturns, ExecutionNext, pushVars
<1>8. ASSUME NEW p \in Calls, Conclude(p) \/ ConcludeDemo(p) \/ Pushing(p) \/ Interrupt(p)
      PROVE  Exchanges' /\ [Promise!Next]_Promise!vars
    <2>1. PICK state : Became(p, state)
        BY <1>8 DEF Conclude, ConcludeDemo, Pushing, Interrupt
    <2>2. \A q \in Calls \ {p} : proc'[q] = proc[q]
        BY <2>1 DEF Became, CInv, Processes
    <2>3. UNCHANGED executionVars /\ Out(p) = NoDoc
        BY <1>8 DEF Conclude, ConcludeDemo, Pushing, Interrupt, Running, Out
    <2>4. sent \subseteq sent' /\ \A message \in sent' \ sent : message.by = p
        BY <1>8 DEF Conclude, ConcludeDemo, Pushing, Interrupt, pushVars
    <2>. QED
        BY <1>1, <2>2, <2>3, <2>4, ProcessOutcome
<1>. QED
    BY <1>3, <1>4, <1>6, <1>7, <1>8 DEF CommandNext, Proceed, commandVars, executionVars

LEMMA InitOutcomes == Init => Exchanges /\ Promise!Init
<1> SUFFICES ASSUME Init PROVE Exchanges /\ Promise!Init
    OBVIOUS
<1>1. Exchanges
    BY InitExchanges DEF Init, CommandLineInit
<1>2. StandingBar = [p \in Calls |-> "new"] /\ performed = {}
    BY DEF Init, CommandLineInit, ExecutionInit, StandingBar, Standing
<1>3. \A p \in Calls : LetOut(p) = {}
    BY DEF Init, CommandLineInit, NotStarted, LetOut, Out
<1>. QED
    BY <1>1, <1>2, <1>3 DEF EvidenceBar, Promise!Init

\* The commands, and the tools that run them, implement Outcomes: what is left of
\* a process that was killed, timed out or pushed its receipt contradicts nothing
\* that was let out before.
THEOREM CommandRefinement == Spec => ImplementsOutcomes
<1>1. Init => CInv /\ Exchanges
    BY InitCInv, InitOutcomes
<1>2. (CInv /\ Exchanges) /\ [Next]_vars => (CInv /\ Exchanges)'
    BY CInvStep, CommandSteps, OutcomesStep
<1>3. (CInv /\ Exchanges) /\ [Next]_vars => [Promise!Next]_Promise!vars
    BY CommandSteps, OutcomesStep
<1>4. Init => Promise!Init
    BY InitOutcomes
<1>. QED
    BY <1>1, <1>2, <1>3, <1>4, PTL DEF Spec, ImplementsOutcomes, Promise!Spec

-----------------------------------------------------------------------------
(* The second inductive invariant: tool calls and their files *)

Valid(p) ==
    /\ tool[p].arguments.receipt \in Issued
    /\ tool[p].arguments.receipt.signature.key = tool[p].arguments.key

\* What the processes of two tools have printed at once.
Ran(p) ==
    /\ tool[p].name = "verify" =>
           proc[p].stage = "exited" /\ (proc[p].status = 0 => Valid(p))
    /\ tool[p].name = "keygen" =>
           proc[p].stage = "exited" /\ proc[p].out.kind = "keypair"

ToolAt(p) ==
    \/ tool[p] = NoCall
    \/ /\ tool[p].stage \in {"running", "returned"}
       /\ tool[p] = [stage |-> tool[p].stage, name |-> tool[p].name,
                     arguments |-> tool[p].arguments]
       /\ Ran(p)

FileAt(f) ==
    /\ f[1] \in Calls
    /\ \/ tool[f[1]].stage = "running"
       \/ tool[f[1]].stage = "returned" /\ New(f[1]) /\ f[2] = "schema"

ToolInv ==
    /\ DOMAIN tool = Calls
    /\ \A p \in Calls : ToolAt(p)
    /\ \A f \in files : FileAt(f)

LEMMA FilesGo == ToolInv => FilesAreRemoved
<1> SUFFICES ASSUME ToolInv, NEW f \in files, tool[f[1]].stage # "running"
             PROVE  ReturnedWith(f[1], "error") /\ New(f[1]) /\ f[2] = "schema"
    BY DEF FilesAreRemoved
<1>1. f[1] \in Calls /\ tool[f[1]].stage = "returned" /\ New(f[1]) /\ f[2] = "schema"
    BY DEF ToolInv, FileAt
<1>2. ToolResult(f[1]) = Error
    BY <1>1 DEF ToolResult, New
<1>. QED
    BY <1>1, <1>2 DEF ReturnedWith, Error

LEMMA VerdictsAreRight == ToolInv => ToolVerifiesForReal
<1> SUFFICES ASSUME ToolInv, NEW p \in Calls, ReturnedWith(p, "verdict"), ToolResult(p).valid
             PROVE  Valid(p)
    BY DEF ToolVerifiesForReal, Valid
<1>1. tool[p].stage = "returned" /\ ToolResult(p).kind = "verdict"
    BY DEF ReturnedWith
<1>2. proc[p].stage = "exited"
    BY <1>1 DEF ToolResult, Error
<1>3. Ran(p)
    BY <1>1 DEF ToolInv, ToolAt, NoCall
<1>4. tool[p].name = "verify"
    <2>1. CASE tool[p].name = "keygen"
        BY <1>1, <1>2, <1>3, <2>1 DEF ToolResult, Ran, Out, Error
    <2>2. CASE tool[p].name \notin {"verify", "keygen"}
        BY <1>1, <1>2, <2>2 DEF ToolResult, Error
    <2>. QED
        BY <2>1, <2>2
<1>5. proc[p].status = 0
    BY <1>2, <1>4 DEF ToolResult
<1>. QED
    BY <1>3, <1>4, <1>5 DEF Ran

\* A tool call that does not move keeps what it had.
LEMMA ToolUnmoved ==
    ASSUME CInv, ToolInv, [Next]_vars, NEW q \in Calls, tool'[q] = tool[q]
    PROVE  ToolAt(q)'
<1>1. Valid(q) => Valid(q)'
    BY IssuedStays DEF Valid
<1>2. proc[q].stage = "exited" => proc'[q] = proc[q]
    BY ProcessesStay
<1>. QED
    BY <1>1, <1>2 DEF ToolInv, ToolAt, Ran

LEMMA FileUnmoved ==
    ASSUME CInv, ToolInv, [Next]_vars, NEW f \in files, tool'[f[1]] = tool[f[1]]
    PROVE  FileAt(f)'
<1>1. f[1] \in Calls /\ FileAt(f)
    BY DEF ToolInv, FileAt
<1>2. tool[f[1]].stage = "returned" => tool[f[1]] # NoCall
    BY DEF NoCall
<1>3. New(f[1]) /\ tool[f[1]] # NoCall => New(f[1])'
    BY <1>1, ProcessesStay DEF New
<1>. QED
    BY <1>1, <1>2, <1>3 DEF FileAt

LEMMA ReturnStep ==
    ASSUME CInv, ToolInv, Next, NEW p \in Calls, ToolReturns(p) \/ ToolTimeout(p)
    PROVE  ToolInv'
<1>1. /\ tool[p].stage = "running" /\ tool' = [tool EXCEPT ![p].stage = "returned"]
      /\ files' = files \ {f \in files : f[1] = p}
    BY DEF ToolReturns, ToolTimeout, HandedBack, unlink
<1>2. tool[p] = [stage |-> "running", name |-> tool[p].name, arguments |-> tool[p].arguments]
      /\ Ran(p)
    BY <1>1 DEF ToolInv, ToolAt, NoCall
<1>3. /\ DOMAIN tool' = Calls /\ \A q \in Calls \ {p} : tool'[q] = tool[q]
      /\ tool'[p] = [stage |-> "returned", name |-> tool[p].name, arguments |-> tool[p].arguments]
    BY <1>1, <1>2 DEF ToolInv
<1>4. Valid(p) => Valid(p)'
    BY <1>3, IssuedStays DEF Valid
<1>5. proc[p].stage = "exited" => proc'[p] = proc[p]
    BY ProcessesStay
<1>6. ToolAt(p)'
    BY <1>2, <1>3, <1>4, <1>5 DEF ToolAt, Ran
<1>7. ASSUME NEW q \in Calls PROVE ToolAt(q)'
    BY <1>3, <1>6, ToolUnmoved
<1>8. ASSUME NEW f \in files' PROVE FileAt(f)'
    <2>1. f \in files /\ f[1] # p /\ f[1] \in Calls
        BY <1>1 DEF ToolInv, FileAt
    <2>. QED
        BY <1>3, <2>1, FileUnmoved
<1>. QED
    BY <1>3, <1>7, <1>8 DEF ToolInv

LEMMA StartStep ==
    ASSUME CInv, ToolInv, Next, NEW p \in Calls, NEW stage \in {"running", "returned"},
           NEW name, NEW arguments, NEW written,
           tool[p] = NoCall, files' = files \cup ({p} \X written),
           tool' = [tool EXCEPT ![p] = [stage |-> stage, name |-> name, arguments |-> arguments]],
           name \in {"verify", "keygen"} => Ran(p)',
           stage = "returned" => New(p)' /\ written \subseteq {"schema"}
    PROVE  ToolInv'
<1>1. /\ DOMAIN tool' = Calls /\ \A q \in Calls \ {p} : tool'[q] = tool[q]
      /\ tool'[p] = [stage |-> stage, name |-> name, arguments |-> arguments]
    BY DEF ToolInv
<1>2. ToolAt(p)'
    BY <1>1 DEF ToolAt, Ran
<1>3. ASSUME NEW q \in Calls PROVE ToolAt(q)'
    BY <1>1, <1>2, ToolUnmoved
<1>4. ASSUME NEW f \in files' PROVE FileAt(f)'
    <2>1. CASE f \in files
        <3>1. f[1] \in Calls /\ f[1] # p
            BY <2>1 DEF ToolInv, FileAt, NoCall
        <3>. QED
            BY <1>1, <2>1, <3>1, FileUnmoved
    <2>2. CASE f \in {p} \X written
        <3>1. f[1] = p /\ f[2] \in written
            BY <2>2
        <3>. QED
            BY <1>1, <3>1 DEF FileAt
    <2>. QED
        BY <2>1, <2>2
<1>. QED
    BY <1>1, <1>3, <1>4 DEF ToolInv

\* aip_verify: what passes was issued as it stands and signed with the key.
LEMMA VerifyStep ==
    ASSUME CInv, ToolInv, Next, NEW p \in Calls, NEW r \in ReceiptFiles, NEW key \in KnownKeys,
           tool[p] = NoCall, tool_verify(p, r, key)
    PROVE  ToolInv'
<1>1. /\ VerifyReceipt(p, r, key)
      /\ files' = files \cup ({p} \X {"receipt"})
      /\ tool' = [tool EXCEPT ![p] = [stage |-> "running", name |-> "verify",
                                      arguments |-> [receipt |-> r, key |-> key]]]
    BY DEF tool_verify, keyArgument, Tool
<1>2. key # NoKey
    <2>1. KnownKeys \subseteq {Operator} \cup {<<"keyOf", q>> : q \in Calls}
        BY DEF KnownKeys, Printed, CInv, Processes, DocumentAt, GenerateKeyPair
    <2>. QED
        BY <2>1, CommandLineAssumption
<1>3. proc'[p].stage = "exited" /\ (proc'[p].status = 0 => Verify(r, key))
    <2>1. CASE Verifies(r, key)
        BY <1>1, <1>2, <2>1 DEF VerifyReceipt, Verifies, Atomically, Became, Exited, CInv, Processes
    <2>2. CASE ~Verifies(r, key)
        BY <1>1, <2>2 DEF VerifyReceipt, Atomically, Became, Exited, CInv, Processes
    <2>. QED
        BY <2>1, <2>2
<1>4. Verify(r, key) => r \in Issued /\ r.signature.key = key
    <2>1. ASSUME NEW i \in Issued, r = [i EXCEPT !.contract = <<"edited">>]
          PROVE  ~Verify(r, key)
        <3>1. r.signature = i.signature /\ r.contract = <<"edited">> /\ DOMAIN r = DOMAIN i
            BY <2>1, IssuedIsSigned
        <3>2. serializeForSigning(r).contract = <<"edited">>
            BY <3>1, IssuedIsSigned DEF serializeForSigning
        <3>. QED
            BY <3>1, <3>2, IssuedIsSigned DEF Verify
    <2>2. Verify(r, key) => r.signature.key = key
        BY DEF Verify
    <2>. QED
        BY <2>1, <2>2 DEF ReceiptFiles
<1>5. tool'[p].arguments = [receipt |-> r, key |-> key]
    BY <1>1 DEF ToolInv
<1>6. Verify(r, key) => Valid(p)'
    BY <1>4, <1>5, IssuedStays DEF Valid
<1>7. tool'[p].name = "verify"
    BY <1>1 DEF ToolInv
<1>8. Ran(p)'
    BY <1>3, <1>6, <1>7 DEF Ran
<1>. QED
    BY <1>1, <1>8, StartStep

LEMMA ToolStep == CInv /\ ToolInv /\ [Next]_vars => ToolInv'
<1> SUFFICES ASSUME CInv, ToolInv, [Next]_vars PROVE ToolInv'
    OBVIOUS
<1>1. CASE tool' = tool /\ files' = files
    <2>1. ASSUME NEW q \in Calls PROVE ToolAt(q)'
        BY <1>1, ToolUnmoved
    <2>2. ASSUME NEW f \in files PROVE FileAt(f)'
        BY <1>1, FileUnmoved
    <2>. QED
        BY <1>1, <2>1, <2>2 DEF ToolInv
<1>2. CASE Outside \/ UNCHANGED vars
    BY <1>1, <1>2 DEF Outside, vars
<1>3. ASSUME Next, NEW p \in Calls, CallTool(p)
      PROVE  ToolInv'
    <2>. tool[p] = NoCall /\ New(p)
        BY <1>3 DEF CallTool
    <2>1. ASSUME NEW name, NEW arguments, NEW needs, Tool(p, name, arguments, needs),
                 name \notin {"verify", "keygen"}
          PROVE  ToolInv'
        BY <1>3, <2>1, StartStep DEF Tool
    <2>2. ASSUME NEW written \in {{}, {"schema"}}, RejectArguments(p, written)
          PROVE  ToolInv'
        <3>1. New(p)'
            BY <2>2 DEF RejectArguments, commandVars, New
        <3>2. /\ files' = files \cup ({p} \X written) /\ written \subseteq {"schema"}
              /\ tool' = [tool EXCEPT ![p] = [stage |-> "returned", name |-> "rejected",
                                              arguments |-> NoArguments]]
            BY <2>2 DEF RejectArguments
        <3>3. "rejected" \notin {"verify", "keygen"}
            OBVIOUS
        <3>4. "returned" \in {"running", "returned"}
            OBVIOUS
        <3>. QED
            BY <1>3, <3>1, <3>2, <3>3, <3>4, StartStep
    <2>3. ASSUME NEW r \in ReceiptFiles, NEW key \in KnownKeys, tool_verify(p, r, key)
          PROVE  ToolInv'
        BY <1>3, <2>3, VerifyStep
    <2>4. ASSUME NEW req, NEW input, NEW url, tool_execute(p, req, input, url)
          PROVE  ToolInv'
        BY <2>1, <2>4 DEF tool_execute
    <2>5. ASSUME tool_keygen(p)
          PROVE  ToolInv'
        <3>1. Tool(p, "keygen", NoArguments, {})
            BY <2>5 DEF tool_keygen
        <3>2. proc'[p].stage = "exited" /\ proc'[p].out.kind = "keypair"
            BY <2>5 DEF tool_keygen, Keygen, Atomically, Became, Exited, CInv, Processes
        <3>3. tool'[p].name = "keygen"
            BY <3>1 DEF Tool, ToolInv
        <3>4. Ran(p)'
            BY <3>2, <3>3 DEF Ran
        <3>. QED
            BY <1>3, <3>1, <3>4, StartStep DEF Tool
    <2>. QED
        BY <1>3, <2>1, <2>2, <2>3, <2>4, <2>5 DEF CallTool, tool_negotiate, tool_accept,
           tool_decline, tool_sign_contract, tool_settle, tool_demo
<1>. QED
    BY <1>2, <1>3, ReturnStep DEF Next

LEMMA InitTools == Init => ToolInv
BY DEF Init, ToolInv, ToolAt

\* Tool calls, their verdicts and their temporary files are as aip_mcp_server.py
\* leaves them, in every state.
THEOREM ToolInvariant == Spec => []ToolInv
<1>1. Init => CInv /\ ToolInv
    BY InitCInv, InitTools
<1>2. (CInv /\ ToolInv) /\ [Next]_vars => (CInv /\ ToolInv)'
    BY CInvStep, CommandSteps, ToolStep
<1>. QED
    BY <1>1, <1>2, PTL DEF Spec

\* The files a tool wrote are gone when it returns, whatever became of aip, but
\* for the schema of an aip_execute whose input does not parse.
THEOREM FilesCorrect == Spec => []FilesAreRemoved
BY ToolInvariant, FilesGo, PTL

\* What aip_verify calls valid was issued, has not been edited, and was signed
\* with the key the caller gave.
THEOREM VerdictsCorrect == Spec => []ToolVerifiesForReal
BY ToolInvariant, VerdictsAreRight, PTL

-----------------------------------------------------------------------------
(* The third inductive invariant: contracts and their signatures *)

\* A contract has no signature but such as its keys were used for, if perhaps on
\* another one.
Genuine(c) ==
    /\ DOMAIN c = DOMAIN BlankBinding /\ DOMAIN c.signatures = Parties
    /\ \A party \in Parties : c.signatures[party] # NoSignature =>
           \E b \in SignedBy(c.signatures[party].by) :
               c.signatures[party].over = CanonicalBytes(b)

PaysFor(receipt, c) ==
    /\ receipt.contract = c.id
    /\ receipt.from = c.consumer /\ receipt.to = c.provider
    /\ receipt.amount = Price(c)

ContractAt(p) == Out(p) # NoDoc =>
    /\ Out(p).kind \in {"contract", "payment"} => Genuine(Out(p).contract)
    /\ Out(p).kind = "payment" => PaysFor(Out(p).receipt, Out(p).contract)

ContractInv == \A p \in Calls : ContractAt(p)

\* Contracts with the same canonical form have the same terms.
LEMMA SameBytesSameTerms ==
    ASSUME NEW b, NEW c, DOMAIN b = DOMAIN BlankBinding, DOMAIN c = DOMAIN BlankBinding,
           CanonicalBytes(b) = CanonicalBytes(c)
    PROVE  /\ b.id = c.id /\ b.provider = c.provider /\ b.consumer = c.consumer
           /\ b.price = c.price
<1>1. ASSUME NEW d, DOMAIN d = DOMAIN BlankBinding
      PROVE  /\ CanonicalBytes(d).id = d.id /\ CanonicalBytes(d).provider = d.provider
             /\ CanonicalBytes(d).consumer = d.consumer /\ CanonicalBytes(d).price = d.price
    BY <1>1 DEF CanonicalBytes, BlankBinding
<1>. QED
    BY <1>1

LEMMA SignedByIsContract ==
    ASSUME ContractInv, NEW key, NEW b \in SignedBy(key)
    PROVE  DOMAIN b = DOMAIN BlankBinding
<1>1. CASE b \in UserContracts
    BY <1>1, CommandLineAssumption
<1>2. ASSUME NEW doc \in Printed("contract"), b = doc.contract
      PROVE  DOMAIN b = DOMAIN BlankBinding
    <2>1. PICK p \in Calls : Out(p) = doc /\ doc # NoDoc /\ doc.kind = "contract"
        BY DEF Printed
    <2>. QED
        BY <1>2, <2>1 DEF ContractInv, ContractAt, Genuine
<1>. QED
    BY <1>1, <1>2 DEF SignedBy

LEMMA PaymentsAreSigned == ContractInv => SettlesWhatWasSigned
<1> SUFFICES ASSUME ContractInv, NEW p \in Calls, Out(p) # NoDoc, Out(p).kind = "payment",
                    NEW party \in Parties, Out(p).contract.signatures[party] # NoSignature,
                    VerifyBindingSignature(Out(p).contract.signatures[party].by,
                                           Out(p).contract, party)
             PROVE  \E c \in SignedBy(Out(p).contract.signatures[party].by) :
                        /\ Out(p).receipt.contract = c.id
                        /\ Out(p).receipt.from = c.consumer /\ Out(p).receipt.to = c.provider
                        /\ Out(p).receipt.amount.amount =
                               IF c.price = NoPrice THEN 100 ELSE c.price.amount
    BY DEF SettlesWhatWasSigned, Printed
<1>. DEFINE file == Out(p).contract
            signature == file.signatures[party]
<1>1. Genuine(file) /\ PaysFor(Out(p).receipt, file)
    BY DEF ContractInv, ContractAt
<1>2. PICK b \in SignedBy(signature.by) : signature.over = CanonicalBytes(b)
    BY <1>1 DEF Genuine
<1>3. signature.over = CanonicalBytes(file)
    BY DEF VerifyBindingSignature, BindingSignature
<1>4. DOMAIN b = DOMAIN BlankBinding /\ DOMAIN file = DOMAIN BlankBinding
    BY <1>1, <1>2, SignedByIsContract DEF Genuine
<1>5. b.id = file.id /\ b.provider = file.provider /\ b.consumer = file.consumer
      /\ b.price = file.price
    <2>1. CanonicalBytes(b) = CanonicalBytes(file)
        BY Zenon, <1>2, <1>3
    <2>. HIDE DEF file
    <2>. QED
        BY Zenon, <1>4, <2>1, SameBytesSameTerms
<1>6. Price(file).amount = IF b.price = NoPrice THEN 100 ELSE b.price.amount
    BY <1>5 DEF Price, AUD
<1>. QED
    BY <1>1, <1>2, <1>5, <1>6 DEF PaysFor

\* No edit and no copy makes a signature that the holder of the key did not.
LEMMA FilesAreGenuine == ContractInv => \A contract \in BindingFiles : Genuine(contract)
<1> SUFFICES ASSUME ContractInv PROVE \A contract \in BindingFiles : Genuine(contract)
    OBVIOUS
<1>1. ASSUME NEW c, DOMAIN c = DOMAIN BlankBinding, c.signatures = NoSignatures
      PROVE  Genuine(c)
    BY <1>1 DEF Genuine, NoSignatures
<1>2. Genuine(BlankBinding)
    BY <1>1 DEF BlankBinding
<1>3. ASSUME NEW c \in UserContracts PROVE Genuine(c)
    <2>1. DOMAIN c = DOMAIN BlankBinding /\ DOMAIN c.signatures = Parties
        BY CommandLineAssumption
    <2>2. ASSUME NEW party \in Parties, c.signatures[party] # NoSignature
          PROVE  /\ c \in SignedBy(c.signatures[party].by)
                 /\ c.signatures[party].over = CanonicalBytes(c)
        <3>1. VerifyBindingSignature(c.signatures[party].by, c, party)
            BY <2>2, CommandLineAssumption
        <3>2. c.signatures[party].over = CanonicalBytes(c)
            BY <3>1 DEF VerifyBindingSignature, BindingSignature
        <3>. QED
            BY <3>1, <3>2 DEF SignedBy
    <2>. QED
        BY <2>1, <2>2 DEF Genuine
<1>4. ASSUME NEW doc \in Printed("contract") PROVE Genuine(doc.contract)
    BY DEF Printed, ContractInv, ContractAt
<1>5. ASSUME NEW receipt PROVE Genuine(AsBinding(receipt))
    <2>1. DOMAIN AsBinding(receipt) = DOMAIN BlankBinding
          /\ AsBinding(receipt).signatures = NoSignatures
        BY DEF AsBinding, BlankBinding
    <2>. QED
        BY <1>1, <2>1
<1>6. \A c \in Contracts : Genuine(c)
    BY <1>2, <1>3, <1>4, <1>5 DEF Contracts
<1>7. ASSUME NEW c \in Contracts, NEW d \in Contracts, NEW field \in DOMAIN BlankBinding
      PROVE  Genuine([c EXCEPT ![field] = d[field]])
    <2>. DEFINE edited == [c EXCEPT ![field] = d[field]]
    <2>1. Genuine(c) /\ Genuine(d)
        BY <1>6
    <2>2. DOMAIN edited = DOMAIN BlankBinding
        BY <2>1 DEF Genuine
    <2>3. edited.signatures = c.signatures \/ edited.signatures = d.signatures
        BY <2>1 DEF Genuine, BlankBinding
    <2>. HIDE DEF edited
    <2>4. CASE edited.signatures = c.signatures
        BY <2>1, <2>2, <2>4 DEF Genuine
    <2>5. CASE edited.signatures = d.signatures
        BY <2>1, <2>2, <2>5 DEF Genuine
    <2>. QED
        BY <2>3, <2>4, <2>5 DEF edited
<1>. QED
    BY <1>7 DEF BindingFiles

\* What was signed stays signed.
LEMMA GenuineStays ==
    ASSUME CInv, [Next]_vars, NEW c, Genuine(c)
    PROVE  Genuine(c)'
<1>1. ASSUME NEW p \in Calls, Out(p) # NoDoc
      PROVE  Out(p)' = Out(p)
    BY <1>1, ProcessesStay DEF Out
<1>2. Printed("contract") \subseteq Printed("contract")'
    BY <1>1 DEF Printed
<1>3. ASSUME NEW key PROVE SignedBy(key) \subseteq SignedBy(key)'
    BY <1>2 DEF SignedBy, VerifyBindingSignature, BindingSignature, CanonicalBytes
<1>. QED
    BY <1>3 DEF Genuine, CanonicalBytes, BlankBinding

LEMMA SignedIsGenuine ==
    ASSUME CInv, ContractInv, [Next]_vars, NEW p \in Calls, NEW contract \in BindingFiles,
           NEW key, NEW party \in Parties, SignContract(p, contract, key, party)
    PROVE  ContractAt(p)'
<1>. DEFINE signed == [contract EXCEPT !.signatures[party] = BindingSignature(key, contract)]
            doc == [kind |-> "contract", key |-> key, contract |-> signed]
<1>1. Genuine(contract) /\ Genuine(contract)'
    BY FilesAreGenuine, GenuineStays
<1>2. DOMAIN contract = DOMAIN BlankBinding /\ DOMAIN contract.signatures = Parties
    BY <1>1 DEF Genuine
<1>3. /\ DOMAIN signed = DOMAIN BlankBinding
      /\ signed.signatures = [contract.signatures EXCEPT ![party] = BindingSignature(key, contract)]
    BY <1>2 DEF BlankBinding
<1>4. CanonicalBytes(signed) = CanonicalBytes(contract)
    BY <1>2 DEF CanonicalBytes, BlankBinding
<1>5. Out(p)' = doc
    BY DEF SignContract, Atomically, Became, Exited, Out, CInv, Processes
<1>6. doc.kind = "contract" /\ doc.key = key /\ doc.contract = signed
    OBVIOUS
<1>. HIDE DEF signed, doc
<1>7. CASE doc = NoDoc
    BY <1>5, <1>7 DEF ContractAt
<1>8. CASE doc # NoDoc
    <2>1. signed \in SignedBy(key)'
        BY <1>5, <1>6, <1>8 DEF SignedBy, Printed
    <2>2. BindingSignature(key, contract).by = key
          /\ BindingSignature(key, contract).over = CanonicalBytes(signed)
        BY <1>4 DEF BindingSignature
    <2>3. ASSUME NEW other \in Parties, signed.signatures[other] # NoSignature
          PROVE  (\E b \in SignedBy(signed.signatures[other].by) :
                      signed.signatures[other].over = CanonicalBytes(b))'
        <3>1. CASE other = party
            <4>1. signed.signatures[other] = BindingSignature(key, contract)
                BY <1>2, <1>3, <3>1
            <4>. QED
                BY <2>1, <2>2, <4>1
        <3>2. CASE other # party
            <4>1. signed.signatures[other] = contract.signatures[other]
                BY <1>2, <1>3, <3>2
            <4>. QED
                BY <1>1, <2>3, <4>1 DEF Genuine
        <3>. QED
            BY <3>1, <3>2
    <2>4. DOMAIN signed.signatures = Parties
        BY <1>2, <1>3
    <2>5. Genuine(signed)'
        BY <1>3, <2>3, <2>4 DEF Genuine
    <2>. QED
        BY <1>5, <1>6, <2>5 DEF ContractAt
<1>. QED
    BY <1>7, <1>8

LEMMA PaymentIsGenuine ==
    ASSUME CInv, ContractInv, [Next]_vars, NEW p \in Calls, NEW contract \in BindingFiles,
           SettleContract(p, contract)
    PROVE  ContractAt(p)'
<1>. DEFINE txn == Ledger!NewTransaction(contract.provider, contract.consumer, contract.id,
                                         Price(contract), now)
            receipt == Ledger!ReceiptFor(txn, now)
            doc == [kind |-> "payment", contract |-> contract, receipt |-> receipt]
<1>1. Genuine(contract)'
    BY FilesAreGenuine, GenuineStays
<1>2. PaysFor(receipt, contract)
    BY DEF PaysFor, Ledger!NewTransaction, Ledger!ReceiptFor
<1>3. Out(p)' = doc
    BY DEF SettleContract, Atomically, Became, Exited, Out, CInv, Processes
<1>. HIDE DEF receipt
<1>4. doc.kind = "payment" /\ doc.contract = contract /\ doc.receipt = receipt
    OBVIOUS
<1>. HIDE DEF doc
<1>. QED
    BY <1>1, <1>2, <1>3, <1>4 DEF ContractAt, PaysFor

\* A step of a process that is no signing and no payment prints neither.
LEMMA OtherDocuments ==
    ASSUME CInv, NEW p \in Calls, Shell(p) \/ Interrupt(p) \/ Proceed(p)
    PROVE  \/ Out(p)' = NoDoc
           \/ Out(p)' = Out(p)
           \/ Out(p)'.kind \notin {"contract", "payment"}
           \/ \E contract \in BindingFiles, key \in KnownKeys, party \in Parties :
                  SignContract(p, contract, key, party)
           \/ \E contract \in BindingFiles : SettleContract(p, contract)
<1>1. ASSUME NEW state, Became(p, state)
      PROVE  Out(p)' = IF state.stage = "exited" THEN state.out ELSE NoDoc
    BY <1>1 DEF Became, Out, CInv, Processes
<1>2. ASSUME NEW status, NEW doc, Atomically(p, status, doc)
      PROVE  Out(p)' = doc
    BY <1>1, <1>2 DEF Atomically, Exited
<1>3. ASSUME NEW command, NEW req, NEW push, Execute(p, command, req, push)
      PROVE  Out(p)' = NoDoc
    BY <1>1, <1>3 DEF Execute
<1>4. ASSUME NEW r, NEW key, VerifyReceipt(p, r, key)
      PROVE  Out(p)' = NoDoc \/ Out(p)'.kind \notin {"contract", "payment"}
    BY <1>2, <1>4 DEF VerifyReceipt
<1>5. ASSUME NEW role, NEW action, OpenSession(p, role, action)
      PROVE  Out(p)'.kind \notin {"contract", "payment"}
    BY <1>2, <1>5 DEF OpenSession
<1>6. ASSUME Keygen(p)
      PROVE  Out(p)'.kind \notin {"contract", "payment"}
    BY <1>2, <1>6 DEF Keygen
<1>7. ASSUME Complain(p) \/ ContinueSession(p) PROVE Out(p)' = NoDoc
    BY <1>2, <1>7 DEF Complain, ContinueSession
<1>8. ASSUME Proceed(p) \/ Interrupt(p)
      PROVE  \/ Out(p)' = NoDoc \/ Out(p)' = Out(p)
             \/ Out(p)'.kind \notin {"contract", "payment"}
    <2>1. CASE CallReturns(p)
        BY <2>1 DEF CallReturns, Out
    <2>2. CASE Conclude(p)
        BY <1>1, <2>2 DEF Conclude, Exited, Output
    <2>3. CASE ConcludeDemo(p)
        BY <1>1, <2>3 DEF ConcludeDemo, Exited
    <2>4. CASE Pushing(p)
        BY <1>1, <2>4 DEF Pushing, Exited, Output
    <2>5. CASE Interrupt(p)
        BY <1>1, <2>5 DEF Interrupt, Killed
    <2>. QED
        BY <1>8, <2>1, <2>2, <2>3, <2>4, <2>5 DEF Proceed
<1>. QED
    BY <1>3, <1>4, <1>5, <1>6, <1>7, <1>8 DEF Shell, Demo

LEMMA ContractStep == CInv /\ ContractInv /\ [Next]_vars => ContractInv'
<1> SUFFICES ASSUME CInv, ContractInv, [Next]_vars, NEW q \in Calls PROVE ContractAt(q)'
    BY DEF ContractInv
<1>1. CASE Out(q)' = Out(q)
    <2>1. ContractAt(q)
        BY DEF ContractInv
    <2>2. Out(q) # NoDoc /\ Out(q).kind \in {"contract", "payment"} => Genuine(Out(q).contract)'
        BY <1>1, <2>1, GenuineStays DEF ContractAt
    <2>. QED
        BY <1>1, <2>1, <2>2 DEF ContractAt, PaysFor, Price, AUD
<1>2. CASE Out(q)' = NoDoc \/ Out(q)'.kind \notin {"contract", "payment"}
    BY <1>2 DEF ContractAt
<1>3. ASSUME NEW p \in Calls, Shell(p) \/ Interrupt(p) \/ Proceed(p)
      PROVE  ContractAt(q)'
    <2>1. CASE p = q
        BY <1>1, <1>2, <1>3, <2>1, OtherDocuments, SignedIsGenuine, PaymentIsGenuine
    <2>2. CASE p # q
        <3>1. proc' = proc \/ \E state : Became(p, state)
            BY <1>3, CommandsMoveOne
        <3>2. Out(q)' = Out(q)
            BY <2>2, <3>1 DEF Became, Out, CInv, Processes
        <3>. QED
            BY <1>1, <3>2
    <2>. QED
        BY <2>1, <2>2
<1>4. CASE proc' = proc
    BY <1>1, <1>4 DEF Out
<1>5. CASE Environment \/ UNCHANGED commandVars
    BY <1>4, <1>5 DEF Environment, Ingest, pushVars, commandVars
<1>. QED
    BY <1>3, <1>5, CommandSteps DEF CommandNext

\* If a contract that is paid for has a signature that verifies, the holder of
\* the key has signed to just that payment, whoever edited, copied and signed
\* contracts before (aip sign-contract, aip settle).
THEOREM SettlesCorrect == Spec => []SettlesWhatWasSigned
<1>1. Init => CInv /\ ContractInv
    BY InitCInv DEF Init, CommandLineInit, NotStarted, ContractInv, ContractAt, Out
<1>2. (CInv /\ ContractInv) /\ [Next]_vars => (CInv /\ ContractInv)'
    BY CInvStep, CommandSteps, ContractStep
<1>. QED
    BY <1>1, <1>2, PaymentsAreSigned, PTL DEF Spec
=============================================================================
