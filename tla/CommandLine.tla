---------------------------- MODULE CommandLine ----------------------------
(***************************************************************************)
(* cmd/aip: the commands of aip, one process each.  Processes run at the   *)
(* same time and share nothing but the documents they print, which users   *)
(* keep in files, edit and hand to the next process.  A process may be     *)
(* killed while it waits.  Calls is the set of processes: each makes at    *)
(* most one call of Execute, with an engine of its own.                    *)
(*                                                                         *)
(* A definition D_Bug is a plausible mistake in D.                         *)
(***************************************************************************)
EXTENDS Execution, Receipts

CONSTANTS
    UserContracts,   \* contracts the users have made by other means
    Operator,        \* a key pair made with the library, outside of aip
    NoPrice,         \* the nil Pricing of a contract
    NoKey,           \* no public key on the command line
    NoDoc            \* nothing was printed that another command could read

VARIABLES
    proc,            \* what has become of each process
    sent,            \* the receipts pushed to WitnessOS, with their senders
    witnessed        \* those of them it has ingested

commandVars == <<now, call, wire, performed, proc, sent, witnessed>>

pushVars == <<sent, witnessed>>

executionVars == <<now, call, wire, performed>>

\* A ledger lives as long as its process, which records one transaction.
Ledger == INSTANCE Settlement WITH transactions <- <<>>, settlements <- <<>>

Parties == {"provider", "consumer"}

AUD(amount) == [amount |-> amount, currency |-> "AUD"]

NoSignatures == [party \in Parties |-> NoSignature]

\* What json.Unmarshal leaves of a Binding none of whose fields are in the file.
\* The nonce stands for the fields nothing here looks into.
BlankBinding == [id |-> <<>>, provider |-> "", consumer |-> "", price |-> NoPrice,
                 sla |-> "none", nonce |-> "", signatures |-> NoSignatures]

CanonicalBytes_WithoutPricing(c) == [c EXCEPT !.price = NoPrice, !.signatures = NoSignatures]

\* What is signed and verified is the contract without its signatures.
CanonicalBytes(c) == [c EXCEPT !.signatures = NoSignatures]

BindingSignature(key, c) == [by |-> key, over |-> CanonicalBytes(c)]

VerifyBindingSignature(key, c, party) == c.signatures[party] = BindingSignature(key, c)

\* The signatures on the users' contracts were made of them as they stand, and
\* NoKey is no key.  Nothing else is assumed: two contracts may have one ID.
ASSUME CommandLineAssumption ==
    /\ \A c \in UserContracts :
           /\ DOMAIN c = DOMAIN BlankBinding /\ DOMAIN c.signatures = Parties
           /\ c.price = NoPrice \/ c.price \in [amount : Nat, currency : STRING]
           /\ c.sla \in {"none", "limits", "rate limit"}
           /\ \A party \in Parties : \/ c.signatures[party] = NoSignature
                                    \/ VerifyBindingSignature(c.signatures[party].by, c, party)
    /\ NoKey \notin {Operator} \cup {<<"keyOf", p>> : p \in Calls}

-----------------------------------------------------------------------------
(* Processes and what they print *)

NotStarted == [stage |-> "new"]

Killed == [stage |-> "killed"]

Exited(status, doc) == [stage |-> "exited", status |-> status, out |-> doc]

Became(p, state) == proc' = [proc EXCEPT ![p] = state]

New(p) == proc[p].stage = "new"

Running(p) == proc[p].stage \in {"executing", "pushing"}

Out(p) == IF proc[p].stage = "exited" THEN proc[p].out ELSE NoDoc

Printed(kind) == {Out(p) : p \in {q \in Calls : Out(q) # NoDoc /\ Out(q).kind = kind}}

\* The key pair a process generates.
GenerateKeyPair(p) == <<"keyOf", p>>

\* The keys somebody holds: the operator's, and those keygen has printed.
KnownKeys == {Operator} \cup {doc.key : doc \in Printed("keypair")}

\* The contract a receipt names if it was made in the process started at t.
DemoContract(t) == <<"demo_ct", t>>

\* A receipt of the operator's own, made with the library and kept in a file.
OperatorReceipt ==
    Signed([id |-> <<"op">>, contract |-> <<"op">>, action |-> CHOOSE a \in Actions : TRUE,
            inputHash |-> Hash(Empty), outputHash |-> Hash(Empty),
            signature |-> NoSignature], Operator)

Issued == {OperatorReceipt} \cup {doc.receipt : doc \in Printed("execution")}

\* Files that hold a receipt as it was issued, or edited since.
ReceiptFiles == Issued \cup {[r EXCEPT !.contract = <<"edited">>] : r \in Issued}

\* A receipt read as a Binding has the contract's ID and parties, but no price.
AsBinding(r) == [BlankBinding EXCEPT !.id = r.contract, !.provider = "provider_agent",
                                     !.consumer = "consumer_agent"]

Contracts == {BlankBinding} \cup UserContracts
             \cup {doc.contract : doc \in Printed("contract")}
             \cup {AsBinding(r) : r \in Issued}

\* Files a Binding is read from, any JSON object: a contract as it was made or
\* printed, or edited since, a field of it replaced by that of another.
BindingFiles == {[c EXCEPT ![field] = d[field]] :
                     c, d \in Contracts, field \in DOMAIN BlankBinding}

\* What the holder of a key has signed, with aip or by other means.
SignedBy(key) ==
    {doc.contract : doc \in {d \in Printed("contract") : d.key = key}}
    \cup {c \in UserContracts : \E party \in Parties : VerifyBindingSignature(key, c, party)}

-----------------------------------------------------------------------------
(* Commands that do all they do at once *)

Atomically(p, status, doc) ==
    /\ Became(p, Exited(status, doc))
    /\ UNCHANGED <<executionVars, pushVars>>

\* Bad usage, a file that is missing or does not parse, a malformed key.
Complain(p) == Atomically(p, 1, NoDoc)

Keygen(p) == Atomically(p, 0, [kind |-> "keypair", key |-> GenerateKeyPair(p)])

\* Without --session: an engine, a session and, for a consumer, its first offer.
\* All that is left of them is the printed line.
OpenSession(p, role, action) ==
    Atomically(p, 0, [kind |-> "session", id |-> now, action |-> action,
                      state |-> IF role = "consumer" THEN "offered" ELSE "initiated"])

\* With --session, and whatever is asked of it: the engine is a new one and
\* knows no session.
ContinueSession(p) == Atomically(p, 1, NoDoc)

\* The contract is printed with the signature; the key is for the record.
SignContract(p, contract, key, party) ==
    Atomically(p, 0, [kind |-> "contract", key |-> key, contract |->
                          [contract EXCEPT !.signatures[party] = BindingSignature(key, contract)]])

\* The amount is the contract's, or 100 if it has none; the currency is not.
Price(contract) == IF contract.price = NoPrice THEN AUD(100) ELSE AUD(contract.price.amount)

\* Nothing asks who signed, or for a receipt of the execution.  The payment
\* receipt is printed; the contract is for the record.
SettleContract(p, contract) ==
    LET txn == Ledger!NewTransaction(contract.provider, contract.consumer, contract.id,
                                     Price(contract), now)
    IN  Atomically(p, 0, [kind |-> "payment", contract |-> contract,
                          receipt |-> Ledger!ReceiptFor(txn, now)])

\* With no key, a receipt that is signed passes unread.
Verifies(r, key) == IF key = NoKey THEN r.signature # NoSignature ELSE Verify(r, key)

VerifyReceipt(p, r, key) ==
    IF Verifies(r, key)
    THEN Atomically(p, 0, [kind |-> "verdict", receipt |-> r])
    ELSE Atomically(p, 1, NoDoc)

-----------------------------------------------------------------------------
(* execute, and the part of demo that waits *)

\* The schema and the input are read and Execute is called, or refuses.
Execute(p, command, req, push) ==
    /\ Reject(p, req) \/ Invoke(p, req)
    /\ Became(p, [stage |-> "executing", command |-> command, push |-> push])
    /\ UNCHANGED pushVars

CallReturns(p) ==
    /\ proc[p].stage = "executing"
    /\ Receive(p) \/ TimeOut(p)
    /\ UNCHANGED <<proc, pushVars>>

Unsigned(p) == NewReceipt(call[p].result, DemoContract(call[p].start))

\* The receipt names a contract of its own making and is signed with a key pair
\* that nobody sees.
ReceiptOf(p) == Signed(Unsigned(p), GenerateKeyPair(p))

Pushed_BeforeItIsSigned(p) == Unsigned(p)

\* What is sent to WitnessOS.
Pushed(p) == ReceiptOf(p)

Output(p) == [kind |-> "execution", result |-> call[p].result, receipt |-> ReceiptOf(p)]

\* Execute has returned: an error ends the process, a result is attested, and
\* printed or pushed first.
Conclude(p) ==
    /\ proc[p].stage = "executing" /\ proc[p].command = "execute"
    /\ call[p].stage = "returned"
    /\ LET push == call[p].result # NoResult /\ proc[p].push IN
       /\ Became(p, CASE call[p].result = NoResult -> Exited(1, NoDoc)
                      [] push -> [stage |-> "pushing"]
                      [] OTHER -> Exited(0, Output(p)))
       /\ sent' = IF push THEN sent \cup {[by |-> p, receipt |-> Pushed(p)]} ELSE sent
    /\ UNCHANGED <<executionVars, witnessed>>

\* The demo goes on to print a story; without a result it panics.
ConcludeDemo(p) ==
    /\ proc[p].stage = "executing" /\ proc[p].command = "demo"
    /\ call[p].stage = "returned"
    /\ Became(p, Exited(IF call[p].result = NoResult THEN 2 ELSE 0, NoDoc))
    /\ UNCHANGED <<executionVars, pushVars>>

\* The push was answered, or failed, and the output is printed.  The client has
\* no timeout: nothing says that this happens.
Pushing(p) ==
    /\ proc[p].stage = "pushing"
    /\ Became(p, Exited(0, Output(p)))
    /\ UNCHANGED <<executionVars, pushVars>>

\* WitnessOS (external) ingests a receipt that is on its way, perhaps when its
\* sender has gone.
Ingest ==
    /\ \E message \in sent \ witnessed : witnessed' = witnessed \cup {message}
    /\ UNCHANGED <<executionVars, proc, sent>>

\* A user interrupts a process that waits.
Interrupt(p) ==
    /\ Running(p)
    /\ Became(p, Killed)
    /\ UNCHANGED <<executionVars, pushVars>>

-----------------------------------------------------------------------------
CommandLineInit ==
    /\ ExecutionInit
    /\ proc = [p \in Calls |-> NotStarted]
    /\ sent = {} /\ witnessed = {}

\* The clock, the provider and WitnessOS, which do not know about processes.
Environment ==
    \/ /\ \/ Elapse
          \/ \E p \in Calls :
              \/ Perform(p)
              \/ \E answer \in Answer : Respond(p, answer) \/ Refuse(p, answer)
       /\ UNCHANGED <<proc, pushVars>>
    \/ Ingest

\* A process that runs goes on.
Proceed(p) == CallReturns(p) \/ Conclude(p) \/ ConcludeDemo(p) \/ Pushing(p)

\* The demo's request is a fixed one.
Demo(p) == \E req \in Request : Accepts(req) /\ Execute(p, "demo", req, FALSE)

\* A command given in a shell starts a process.
Shell(p) ==
    /\ New(p)
    /\ \/ Complain(p)
       \/ Keygen(p)
       \/ \E role \in Parties, action \in Actions : OpenSession(p, role, action)
       \/ ContinueSession(p)
       \/ \E contract \in BindingFiles, key \in KnownKeys, party \in Parties :
              SignContract(p, contract, key, party)
       \/ \E contract \in BindingFiles : SettleContract(p, contract)
       \/ \E r \in ReceiptFiles, key \in KnownKeys \cup {NoKey} : VerifyReceipt(p, r, key)
       \/ \E req \in Request, push \in BOOLEAN : Execute(p, "execute", req, push)
       \/ Demo(p)

-----------------------------------------------------------------------------
(* Properties *)

\* WitnessOS holds the receipt its sender goes on to print, signed by it and
\* about its own call, whatever became of the sender and whoever else pushed.
WitnessHoldsWhatWasPrinted == \A message \in witnessed :
    /\ Verify(message.receipt, GenerateKeyPair(message.by))
    /\ Out(message.by) # NoDoc => message.receipt = Out(message.by).receipt

\* If the contract a payment was made for carries a signature that verifies, the
\* holder of that key has signed to be paid, or to pay, what was paid: whatever
\* was edited, copied from one contract to another or signed again on the way.
\* aip settle itself does not look at signatures.  Nor does it look at the currency,
\* which is left out here: a price of 7 USD is paid with 7 AUD.
SettlesWhatWasSigned == \A doc \in Printed("payment"), party \in Parties :
    LET signature == doc.contract.signatures[party] IN
    signature # NoSignature /\ VerifyBindingSignature(signature.by, doc.contract, party) =>
        \E c \in SignedBy(signature.by) :
            /\ doc.receipt.contract = c.id
            /\ doc.receipt.from = c.consumer /\ doc.receipt.to = c.provider
            /\ doc.receipt.amount.amount = IF c.price = NoPrice THEN 100 ELSE c.price.amount

\* The receipts a process has let out: to WitnessOS, and to its user.
LetOut(p) ==
    {message.receipt : message \in {m \in sent : m.by = p}}
    \cup {doc.receipt : doc \in {d \in {Out(p)} : d # NoDoc /\ d.kind = "execution"}}

EvidenceBar == [p \in Calls |->
    IF LetOut(p) = {} THEN "none"
    ELSE Saying((CHOOSE r \in LetOut(p) : TRUE).outputHash, Hash(Empty))]

\* The commands implement the promise of Outcomes, killed and witnessed as their
\* processes may be: a process that is gone may have had its effect, but what it
\* let out of it stays true.
Promise == INSTANCE Outcomes
    WITH standing <- StandingBar, effects <- performed, evidence <- EvidenceBar

ImplementsOutcomes == Promise!Spec

-----------------------------------------------------------------------------
(* What the repository says and the code does not do. *)

\* README.md: "Every execution produces a verifiable receipt."  There should be
\* a key that somebody knows under which a printed receipt verifies.
ReceiptsAreVerifiable == \A doc \in Printed("execution") :
    \E key \in KnownKeys : Verify(doc.receipt, key)
=============================================================================
