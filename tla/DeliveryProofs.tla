-------------------------- MODULE DeliveryProofs --------------------------
(***************************************************************************)
(* Proofs about the execution of actions and the evidence of it, for any   *)
(* number of overlapping calls and every choice of the other constants.    *)
(*                                                                         *)
(* What a receipt says follows from what the result said, and that from    *)
(* the exchange with the provider: IInv has an invariant for each link.    *)
(***************************************************************************)
EXTENDS Delivery, ExecutionProofs

\* An exchange that has got past the request, and does not end in a refusal, is
\* about an action that was performed.
ExchangesAreHonest == \A c \in Calls :
    \/ wire[c].at = "performed"
    \/ wire[c].at = "answered" /\ wire[c].answer.ok
    => c \in performed

\* A result is about its own call, and the output in it, if any, is the answer's.
ResultsAreAnswers == \A c \in Calls :
    call[c].stage = "returned" /\ call[c].result # NoResult =>
        /\ call[c].result.id = ReceiptID(call[c].action, call[c].start)
        /\ call[c].result.output # Empty =>
              /\ wire[c].at = "answered" /\ wire[c].answer.ok
              /\ call[c].result.output = wire[c].answer.body

\* A receipt is made of the result of its call, and signed as it stands.
ReceiptsAttest == \A c \in Calls : receipt[c] # NoReceipt =>
    /\ call[c].stage = "returned" /\ call[c].result # NoResult
    /\ receipt[c].id = call[c].result.id
    /\ receipt[c].outputHash = Hash(call[c].result.output)
    /\ Verify(receipt[c], receipt[c].signature.key)

\* The store leads from the ID of a receipt to a receipt of that ID.
StoreLeadsHome == \A c \in Calls : receipt[c] # NoReceipt =>
    LET d == store[receipt[c].id] IN
    d \in Calls /\ receipt[d] # NoReceipt /\ receipt[d].id = receipt[c].id

IInv == TypeOK /\ ExchangesAreHonest /\ ResultsAreAnswers /\ ReceiptsAttest /\ StoreLeadsHome

-----------------------------------------------------------------------------
(* Calls and what they return *)

\* A call that waits knows what it asked for and when.
LEMMA WaitingType ==
    ASSUME TypeOK, NEW c \in Calls, call[c].stage = "waiting"
    PROVE  call[c] \in [stage : {"waiting", "returned"}, action : Actions, start : Time,
                        result : Result \cup {NoResult}]
BY DEF TypeOK, CallState

\* The results Execute makes of a call that waits are results.
LEMMA ErrorType ==
    ASSUME TypeOK, NEW c \in Calls, call[c].stage = "waiting"
    PROVE  /\ errorResult(c) \in Result
           /\ errorResult(c).id = ReceiptID(call[c].action, call[c].start)
           /\ errorResult(c).output = Empty
<1>1. call[c].action \in Actions /\ call[c].start \in Time
    BY WaitingType
<1>. QED
    BY <1>1 DEF errorResult, Result, ReceiptID, ReceiptIDs

LEMMA SuccessType ==
    ASSUME TypeOK, NEW c \in Calls, call[c].stage = "waiting", NEW output \in JSON
    PROVE  /\ Success(c, output) \in Result
           /\ Success(c, output).id = ReceiptID(call[c].action, call[c].start)
           /\ Success(c, output).output = output
<1>1. call[c].action \in Actions /\ call[c].start \in Time
    BY WaitingType
<1>. QED
    BY <1>1 DEF Success, Result, ReceiptID, ReceiptIDs

\* Returning with a result ends the call and changes no other.
LEMMA ReturnedFields ==
    ASSUME TypeOK, NEW c \in Calls, call[c].stage = "waiting",
           NEW result \in Result \cup {NoResult}, call' = Returned(c, result)
    PROVE  /\ call' \in [Calls -> CallState]
           /\ call'[c].stage = "returned" /\ call'[c].result = result
           /\ call'[c].action = call[c].action /\ call'[c].start = call[c].start
           /\ \A d \in Calls \ {c} : call'[d] = call[d]
<1>1. call[c] \in [stage : {"waiting", "returned"}, action : Actions, start : Time,
                   result : Result \cup {NoResult}]
    BY WaitingType
<1>2. call' = [call EXCEPT ![c] = [call[c] EXCEPT !.stage = "returned", !.result = result]]
    BY DEF Returned, TypeOK
<1>3. [call[c] EXCEPT !.stage = "returned", !.result = result]
          \in [stage : {"waiting", "returned"}, action : Actions, start : Time,
               result : Result \cup {NoResult}]
    BY <1>1
<1>. QED
    BY <1>1, <1>2, <1>3 DEF TypeOK, CallState

-----------------------------------------------------------------------------
(* Receipts *)

\* A statement that is signed, for the first time or again, is a receipt that
\* verifies under that key and says what it said.
LEMMA SignedType ==
    ASSUME NEW r \in Statement \cup Receipt, NEW key \in Keys
    PROVE  /\ Signed(r, key) \in Receipt
           /\ Signed(r, key).signature.key = key
           /\ Verify(Signed(r, key), key)
           /\ Signed(r, key).id = r.id /\ Signed(r, key).outputHash = r.outputHash
<1>1. serializeForSigning(r) \in Statement
    BY DEF serializeForSigning, Statement, Receipt
<1>2. serializeForSigning(Signed(r, key)) = serializeForSigning(r)
    BY DEF serializeForSigning, Signed, Statement, Receipt
<1>3. Signed(r, key).signature = [key |-> key, over |-> serializeForSigning(r)]
    BY DEF Signed, Statement, Receipt
<1>4. Signed(r, key) \in Receipt
    BY <1>1 DEF Signed, Statement, Receipt
<1>. QED
    BY <1>2, <1>3, <1>4 DEF Signed, Verify, Statement, Receipt

\* What NewReceipt makes of a result can be signed.
LEMMA NewReceiptType ==
    ASSUME NEW result \in Result, NEW contract \in Contracts
    PROVE  /\ NewReceipt(result, contract) \in Statement
           /\ NewReceipt(result, contract).id = result.id
           /\ NewReceipt(result, contract).outputHash = Hash(result.output)
BY DEF NewReceipt, Statement, Result, Hashes

-----------------------------------------------------------------------------
(* The invariant is kept *)

LEMMA InitInvariant == Init => IInv
<1> SUFFICES ASSUME Init PROVE IInv
    OBVIOUS
<1>. USE DEF Init, ExecutionInit, EvidenceInit
<1>1. TypeOK
    BY ExecutionAssumption DEF TypeOK, Time, CallState, Exchange, At
<1>2. ExchangesAreHonest
    BY DEF ExchangesAreHonest, At
<1>. QED
    BY <1>1, <1>2 DEF IInv, ResultsAreAnswers, ReceiptsAttest, StoreLeadsHome

\* A step that leaves the calls, the receipts and the store alone, and no answer
\* undone, only has types and exchanges to look after.
LEMMA ProviderStep ==
    ASSUME IInv, TypeOK', ExchangesAreHonest', UNCHANGED <<call, receipt, store>>,
           \A c \in Calls : wire[c].at = "answered" => wire'[c] = wire[c]
    PROVE  IInv'
BY DEF IInv, ResultsAreAnswers, ReceiptsAttest, StoreLeadsHome, Verify, serializeForSigning,
       ReceiptID

\* A step of a call that has not returned disturbs no receipt.
LEMMA CallStep ==
    ASSUME IInv, TypeOK', ExchangesAreHonest', ResultsAreAnswers',
           UNCHANGED <<receipt, store>>,
           NEW c \in Calls, call[c].stage # "returned",
           \A d \in Calls \ {c} : call'[d] = call[d]
    PROVE  IInv'
<1>1. \A d \in Calls : receipt[d] # NoReceipt => call'[d] = call[d]
    BY DEF IInv, ReceiptsAttest
<1>. QED
    BY <1>1 DEF IInv, ReceiptsAttest, StoreLeadsHome, Verify, serializeForSigning

\* Execute returns: with an error, with nothing, or with the answer it received.
LEMMA ReturnStep ==
    ASSUME IInv, NEW c \in Calls, call[c].stage = "waiting",
           NEW result \in Result \cup {NoResult}, call' = Returned(c, result),
           result # NoResult =>
               /\ result.id = ReceiptID(call[c].action, call[c].start)
               /\ result.output # Empty =>
                     /\ wire[c].at = "answered" /\ wire[c].answer.ok
                     /\ result.output = wire[c].answer.body,
           UNCHANGED <<now, wire, performed, receipt, store>>
    PROVE  IInv'
<1>1. /\ call' \in [Calls -> CallState]
      /\ call'[c].stage = "returned" /\ call'[c].result = result
      /\ call'[c].action = call[c].action /\ call'[c].start = call[c].start
      /\ \A d \in Calls \ {c} : call'[d] = call[d]
    BY ReturnedFields DEF IInv
<1>2. TypeOK'
    BY <1>1 DEF IInv, TypeOK
<1>3. ExchangesAreHonest'
    BY DEF IInv, ExchangesAreHonest
<1>4. ResultsAreAnswers'
    BY <1>1 DEF IInv, ResultsAreAnswers, ReceiptID
<1>. QED
    BY <1>1, <1>2, <1>3, <1>4, CallStep

LEMMA ExecutionStep ==
    ASSUME IInv, ExecutionNext, UNCHANGED <<receipt, store>>
    PROVE  IInv'
<1>1. CASE Elapse
    <2>1. now' \in Time
        BY <1>1, ExecutionAssumption DEF Elapse, Time, IInv, TypeOK
    <2>2. TypeOK' /\ ExchangesAreHonest'
        BY <1>1, <2>1 DEF Elapse, IInv, TypeOK, ExchangesAreHonest
    <2>. QED
        BY <1>1, <2>2, ProviderStep DEF Elapse
<1>2. ASSUME NEW c \in Calls, NEW req \in Request, Reject(c, req)
      PROVE  IInv'
    <2>1. call[c] \in [stage : {"new", "returned"}, result : {NoResult}]
        BY <1>2 DEF Reject, IInv, TypeOK, CallState
    <2>2. /\ call' \in [Calls -> CallState]
          /\ call'[c].stage = "returned" /\ call'[c].result = NoResult
          /\ \A d \in Calls \ {c} : call'[d] = call[d]
        <3>1. call' = [call EXCEPT ![c] =
                          [call[c] EXCEPT !.stage = "returned", !.result = NoResult]]
            BY <1>2 DEF Reject, Returned, IInv, TypeOK
        <3>2. [call[c] EXCEPT !.stage = "returned", !.result = NoResult]
                  \in [stage : {"new", "returned"}, result : {NoResult}]
            BY <2>1
        <3>. QED
            BY <2>1, <3>1, <3>2 DEF IInv, TypeOK, CallState
    <2>3. TypeOK' /\ ExchangesAreHonest' /\ ResultsAreAnswers'
        BY <1>2, <2>2 DEF Reject, IInv, TypeOK, ExchangesAreHonest, ResultsAreAnswers,
                          ReceiptID
    <2>. QED
        BY <1>2, <2>2, <2>3, CallStep DEF Reject, IInv, TypeOK
<1>3. ASSUME NEW c \in Calls, NEW req \in Request, Invoke(c, req)
      PROVE  IInv'
    <2>1. req.action \in Actions
        BY DEF Request
    <2>2. TypeOK'
        BY <1>3, <2>1 DEF Invoke, IInv, TypeOK, CallState, Exchange, At
    <2>3. ExchangesAreHonest' /\ ResultsAreAnswers'
        BY <1>3 DEF Invoke, At, IInv, TypeOK, ExchangesAreHonest, ResultsAreAnswers, ReceiptID
    <2>. QED
        BY <1>3, <2>2, <2>3, CallStep DEF Invoke, IInv, TypeOK
<1>4. ASSUME NEW c \in Calls, Receive(c)
      PROVE  IInv'
    <2>1. wire[c].answer \in Answer
        BY <1>4 DEF Receive, IInv, TypeOK, Exchange
    <2>2. Outcome(c, wire[c].answer) \in Result \cup {NoResult}
        BY <1>4, <2>1, ErrorType, SuccessType DEF Receive, Outcome, Answer, IInv
    <2>3. Outcome(c, wire[c].answer) # NoResult =>
              LET result == Outcome(c, wire[c].answer) IN
              /\ result.id = ReceiptID(call[c].action, call[c].start)
              /\ result.output # Empty =>
                    /\ wire[c].answer.ok
                    /\ result.output = wire[c].answer.body
        BY <1>4, <2>1, ErrorType, SuccessType DEF Receive, Outcome, Answer, IInv
    <2>. QED
        BY <1>4, <2>2, <2>3, ReturnStep DEF Receive
<1>5. ASSUME NEW c \in Calls, TimeOut(c)
      PROVE  IInv'
    BY <1>5, ErrorType, ReturnStep DEF TimeOut, IInv
<1>6. ASSUME NEW c \in Calls, Perform(c)
      PROVE  IInv'
    <2>1. TypeOK' /\ ExchangesAreHonest'
        BY <1>6 DEF Perform, At, IInv, TypeOK, Exchange, ExchangesAreHonest
    <2>2. \A d \in Calls : wire[d].at = "answered" => wire'[d] = wire[d]
        BY <1>6 DEF Perform, IInv, TypeOK
    <2>. QED
        BY <1>6, <2>1, <2>2, ProviderStep DEF Perform
<1>7. ASSUME NEW c \in Calls, NEW answer \in Answer, Respond(c, answer) \/ Refuse(c, answer)
      PROVE  IInv'
    <2>1. TypeOK' /\ ExchangesAreHonest'
        BY <1>7 DEF Respond, Refuse, Answered, IInv, TypeOK, Exchange, ExchangesAreHonest
    <2>2. \A d \in Calls : wire[d].at = "answered" => wire'[d] = wire[d]
        BY <1>7 DEF Respond, Refuse, IInv, TypeOK
    <2>. QED
        BY <1>7, <2>1, <2>2, ProviderStep DEF Respond, Refuse
<1>. QED
    BY <1>1, <1>2, <1>3, <1>4, <1>5, <1>6, <1>7 DEF ExecutionNext

LEMMA AttestStep ==
    ASSUME IInv, NEW c \in Calls, NEW contract \in Contracts, NEW key \in Keys,
           Attest(c, contract, key), UNCHANGED executionVars
    PROVE  IInv'
<1>. DEFINE r == Signed(NewReceipt(call[c].result, contract), key)
<1>1. call[c].result \in Result
    BY DEF Attest, IInv, TypeOK, CallState
<1>2. /\ r \in Receipt /\ r # NoReceipt
      /\ r.id = call[c].result.id /\ r.id \in ReceiptIDs
      /\ r.outputHash = Hash(call[c].result.output)
      /\ Verify(r, r.signature.key)
    <2>1. r \in Receipt /\ r.id = call[c].result.id
        BY <1>1, NewReceiptType, SignedType
    <2>2. r.outputHash = Hash(call[c].result.output) /\ Verify(r, r.signature.key)
        BY <1>1, NewReceiptType, SignedType
    <2>. QED
        BY <1>1, <2>1, <2>2, EvidenceAssumption DEF Result
<1>3. /\ receipt' = [receipt EXCEPT ![c] = r]
      /\ store' = [store EXCEPT ![r.id] = c]
      /\ call[c].stage = "returned" /\ call[c].result # NoResult
    BY DEF Attest
<1>. HIDE DEF r
<1>4. TypeOK'
    BY <1>2, <1>3 DEF IInv, TypeOK, executionVars
<1>5. /\ receipt'[c] = r /\ store'[r.id] = c
      /\ \A d \in Calls \ {c} : receipt'[d] = receipt[d]
      /\ \A id \in ReceiptIDs \ {r.id} : store'[id] = store[id]
    BY <1>2, <1>3 DEF IInv, TypeOK
<1>6. ExchangesAreHonest' /\ ResultsAreAnswers'
    BY DEF IInv, ExchangesAreHonest, ResultsAreAnswers, executionVars, ReceiptID
<1>7. ReceiptsAttest'
    BY <1>2, <1>3, <1>5 DEF IInv, ReceiptsAttest, executionVars, Verify, serializeForSigning
<1>8. StoreLeadsHome'
    <2> SUFFICES ASSUME NEW d \in Calls, receipt'[d] # NoReceipt
                 PROVE  LET e == store'[receipt'[d].id] IN
                        e \in Calls /\ receipt'[e] # NoReceipt /\ receipt'[e].id = receipt'[d].id
        BY DEF StoreLeadsHome
    <2>1. CASE receipt'[d].id = r.id
        BY <1>2, <1>5, <2>1
    <2>2. CASE receipt'[d].id # r.id
        <3>1. d # c /\ receipt'[d] = receipt[d] /\ receipt[d].id \in ReceiptIDs
            BY <1>4, <1>5, <2>2 DEF TypeOK, Receipt
        <3>2. LET e == store[receipt[d].id] IN
              e \in Calls /\ receipt[e] # NoReceipt /\ receipt[e].id = receipt[d].id
            BY <3>1 DEF IInv, StoreLeadsHome
        <3>3. receipt[c] = NoReceipt
            BY DEF Attest
        <3>. QED
            BY <1>5, <2>2, <3>1, <3>2, <3>3
    <2>. QED
        BY <2>1, <2>2
<1>. QED
    BY <1>4, <1>6, <1>7, <1>8 DEF IInv

LEMMA CountersignStep ==
    ASSUME IInv, NEW c \in Calls, NEW key \in Keys,
           Countersign(c, key), UNCHANGED executionVars
    PROVE  IInv'
<1>. DEFINE r == Signed(receipt[c], key)
<1>1. receipt[c] \in Receipt
    BY DEF Countersign, IInv, TypeOK
<1>2. /\ r \in Receipt /\ r # NoReceipt
      /\ r.id = receipt[c].id /\ r.outputHash = receipt[c].outputHash
      /\ Verify(r, r.signature.key)
    BY <1>1, SignedType, EvidenceAssumption
<1>3. receipt' = [receipt EXCEPT ![c] = r] /\ receipt[c] # NoReceipt /\ store' = store
    BY DEF Countersign
<1>. HIDE DEF r
<1>4. TypeOK'
    BY <1>2, <1>3 DEF IInv, TypeOK, executionVars
<1>5. receipt'[c] = r /\ \A d \in Calls \ {c} : receipt'[d] = receipt[d]
    BY <1>3 DEF IInv, TypeOK
<1>6. ExchangesAreHonest' /\ ResultsAreAnswers'
    BY DEF IInv, ExchangesAreHonest, ResultsAreAnswers, executionVars, ReceiptID
<1>7. ReceiptsAttest'
    BY <1>2, <1>3, <1>5 DEF IInv, ReceiptsAttest, executionVars, Verify, serializeForSigning
<1>8. \A d \in Calls : /\ receipt'[d] = NoReceipt <=> receipt[d] = NoReceipt
                       /\ receipt[d] # NoReceipt => receipt'[d].id = receipt[d].id
    BY <1>2, <1>3, <1>5
<1>9. StoreLeadsHome'
    BY <1>3, <1>8 DEF IInv, StoreLeadsHome
<1>. QED
    BY <1>4, <1>6, <1>7, <1>9 DEF IInv

LEMMA NextInvariant == IInv /\ [Next]_deliveryVars => IInv'
<1> SUFFICES ASSUME IInv, [Next]_deliveryVars PROVE IInv'
    OBVIOUS
<1>1. CASE UNCHANGED <<executionVars, evidenceVars>>
    BY <1>1 DEF executionVars, evidenceVars, IInv, TypeOK, ExchangesAreHonest, ResultsAreAnswers,
                ReceiptsAttest, StoreLeadsHome, Verify, serializeForSigning, ReceiptID
<1>2. CASE Executing
    BY <1>2, ExecutionStep DEF Executing, evidenceVars
<1>3. CASE Attesting
    BY <1>3, AttestStep, CountersignStep DEF Attesting
<1>4. CASE \E c \in Calls, amount \in Amounts : Book(c, amount)
    BY <1>1, <1>4 DEF Book
<1>5. CASE \E i \in DOMAIN transactions : Pay(i)
    BY <1>1, <1>5 DEF Pay
<1>6. CASE UNCHANGED deliveryVars
    BY <1>1, <1>6 DEF deliveryVars, executionVars, evidenceVars
<1>. QED
    BY <1>2, <1>3, <1>4, <1>5, <1>6 DEF Next

\* Whatever calls overlap, IInv holds.
THEOREM Invariant == Spec => []IInv
BY InitInvariant, NextInvariant, PTL DEF Spec

-----------------------------------------------------------------------------
(* What follows *)

\* The state of the calls, the exchanges, the receipts and the store is
\* well-formed: in particular an output that is not JSON never gets into a result.
THEOREM TypeCorrect == Spec => []TypeOK
<1>1. IInv => TypeOK
    BY DEF IInv
<1>. QED
    BY <1>1, Invariant, PTL

\* A receipt of an output stands for an action that the provider performed and
\* for the answer it gave to that call.
THEOREM EvidenceCorrect == Spec => []EvidenceOfSuccess
<1>1. IInv => EvidenceOfSuccess
    <2> SUFFICES ASSUME IInv, NEW c \in Calls, receipt[c] # NoReceipt,
                        receipt[c].outputHash # Hash(Empty)
                 PROVE  /\ c \in performed
                        /\ wire[c].at = "answered" /\ wire[c].answer.ok
                        /\ receipt[c].outputHash = Hash(wire[c].answer.body)
        BY DEF EvidenceOfSuccess
    <2>1. /\ call[c].stage = "returned" /\ call[c].result # NoResult
          /\ receipt[c].outputHash = Hash(call[c].result.output)
        BY DEF IInv, ReceiptsAttest
    <2>2. call[c].result.output # Empty
        BY <2>1
    <2>3. /\ wire[c].at = "answered" /\ wire[c].answer.ok
          /\ call[c].result.output = wire[c].answer.body
        BY <2>1, <2>2 DEF IInv, ResultsAreAnswers
    <2>. QED
        BY <2>1, <2>3 DEF IInv, ExchangesAreHonest
<1>. QED
    BY <1>1, Invariant, PTL

\* A receipt verifies under the key it was signed with last, and no other.
THEOREM ReceiptsCorrect == Spec => []ReceiptsVerify
<1>1. IInv => ReceiptsVerify
    BY DEF IInv, ReceiptsAttest, ReceiptsVerify, Verify
<1>. QED
    BY <1>1, Invariant, PTL

\* Whatever receipts are stored and signed again, the ID of a call's result leads
\* to its receipt or to that of a call of the same action and instant.
THEOREM StoreCorrect == Spec => []ReceiptsReachable
<1>1. IInv => ReceiptsReachable
    <2> SUFFICES ASSUME IInv, NEW c \in Calls, receipt[c] # NoReceipt
                 PROVE  LET d == store[call[c].result.id] IN
                        /\ d # NoReceipt /\ Get(call[c].result.id) # NoReceipt
                        /\ call[d].action = call[c].action /\ call[d].start = call[c].start
        BY DEF ReceiptsReachable
    <2>1. receipt[c].id = call[c].result.id
        BY DEF IInv, ReceiptsAttest
    <2>2. PICK d \in Calls : /\ d = store[receipt[c].id] /\ receipt[d] # NoReceipt
                             /\ receipt[d].id = receipt[c].id
        BY DEF IInv, StoreLeadsHome
    <2>3. d # NoReceipt /\ Get(call[c].result.id) # NoReceipt
        BY <2>1, <2>2, EvidenceAssumption DEF Get
    <2>4. \A e \in {c, d} : receipt[e].id = <<call[e].action, call[e].start>>
        BY <2>2 DEF IInv, ReceiptsAttest, ResultsAreAnswers, ReceiptID
    <2>. QED
        BY <2>1, <2>2, <2>3, <2>4
<1>. QED
    BY <1>1, Invariant, PTL

-----------------------------------------------------------------------------
(* Delivery implements Outcomes *)

\* What the calls and the provider do, with the receipts as they are.
LEMMA CourseStep ==
    ASSUME Course, EvidenceBar' = EvidenceBar
    PROVE  [Promise!Next]_Promise!vars
<1>1. CASE UNCHANGED <<StandingBar, performed>>
    BY <1>1 DEF Promise!vars
<1>2. ASSUME NEW c \in Calls, NEW from, NEW to, Shift(c, from, to)
      PROVE  Promise!Moves(c, from, to)
    BY <1>2 DEF Shift, StandingBar, Promise!Moves
<1>3. ASSUME NEW c \in Calls, Standing(c) \in {"asked", "failed"}, c \notin performed,
             performed' = performed \cup {c}, StandingBar' = StandingBar
      PROVE  Promise!TakeEffect(c)
    BY <1>3 DEF StandingBar, Promise!TakeEffect
<1>. QED
    BY <1>1, <1>2, <1>3 DEF Course, Promise!Next, Promise!Refuse, Promise!Ask, Promise!Succeed,
       Promise!Fail

\* A result is attested as what it is.
LEMMA AttestOutcome ==
    ASSUME IInv, Exchanges, NEW c \in Calls, NEW contract \in Contracts, NEW key \in Keys,
           Attest(c, contract, key), UNCHANGED executionVars
    PROVE  Promise!Attest(c)
<1>. DEFINE r == Signed(NewReceipt(call[c].result, contract), key)
<1>1. call[c].result \in Result
    BY DEF Attest, IInv, TypeOK, CallState
<1>2. r \in Receipt /\ r # NoReceipt /\ r.outputHash = Hash(call[c].result.output)
    BY <1>1, NewReceiptType, SignedType, EvidenceAssumption
<1>3. /\ receipt' = [receipt EXCEPT ![c] = r] /\ receipt[c] = NoReceipt
      /\ call[c].stage = "returned" /\ call[c].result # NoResult
    BY DEF Attest
<1>. HIDE DEF r
<1>4. Standing(c) = IF call[c].result.success THEN "done" ELSE "failed"
    BY <1>3 DEF Exchanges, ExchangeAt, Standing
<1>5. call[c].result.success <=> call[c].result.output # Empty
    BY <1>3 DEF Exchanges, ExchangeAt
<1>6. Hash(call[c].result.output) = Hash(Empty) <=> call[c].result.output = Empty
    BY DEF Hash
<1>7. Saying(r.outputHash, Hash(Empty)) = IF Standing(c) = "done" THEN "success" ELSE "failure"
    BY <1>2, <1>4, <1>5, <1>6 DEF Saying
<1>8. EvidenceBar' = [EvidenceBar EXCEPT ![c] = Saying(r.outputHash, Hash(Empty))]
    BY <1>2, <1>3 DEF EvidenceBar, IInv, TypeOK
<1>9. StandingBar' = StandingBar /\ performed' = performed
    BY DEF executionVars, StandingBar, Standing
<1>. QED
    BY <1>3, <1>4, <1>7, <1>8, <1>9 DEF Promise!Attest, StandingBar, EvidenceBar

\* Signing again changes nothing a receipt says.
LEMMA CountersignOutcome ==
    ASSUME IInv, NEW c \in Calls, NEW key \in Keys, Countersign(c, key)
    PROVE  EvidenceBar' = EvidenceBar
<1>. DEFINE r == Signed(receipt[c], key)
<1>1. receipt[c] \in Receipt /\ receipt' = [receipt EXCEPT ![c] = r]
    BY DEF Countersign, IInv, TypeOK
<1>2. r # NoReceipt /\ receipt[c] # NoReceipt /\ r.outputHash = receipt[c].outputHash
    BY <1>1, SignedType, EvidenceAssumption
<1>. HIDE DEF r
<1>. QED
    BY <1>1, <1>2 DEF EvidenceBar, IInv, TypeOK

LEMMA OutcomesStep ==
    ASSUME IInv, Exchanges, [Next]_deliveryVars
    PROVE  Exchanges' /\ [Promise!Next]_Promise!vars
<1>1. ASSUME UNCHANGED receipt PROVE EvidenceBar' = EvidenceBar
    BY <1>1 DEF EvidenceBar
<1>2. ASSUME UNCHANGED executionVars PROVE Exchanges' /\ Course
    BY <1>2, ExecutionCourse DEF executionVars
<1>3. CASE Executing
    BY <1>1, <1>3, ExecutionCourse, CourseStep DEF Executing, evidenceVars
<1>4. CASE UNCHANGED <<executionVars, evidenceVars>>
    BY <1>1, <1>2, <1>4, CourseStep DEF evidenceVars
<1>5. ASSUME NEW c \in Calls, NEW contract \in Contracts, NEW key \in Keys,
             Attest(c, contract, key), UNCHANGED executionVars
      PROVE  Promise!Next
    BY <1>5, AttestOutcome DEF Promise!Next
<1>6. ASSUME NEW c \in Calls, NEW key \in Keys, Countersign(c, key), UNCHANGED executionVars
      PROVE  [Promise!Next]_Promise!vars
    BY <1>2, <1>6, CountersignOutcome, CourseStep
<1>7. CASE Attesting
    BY <1>2, <1>5, <1>6, <1>7 DEF Attesting
<1>8. CASE UNCHANGED deliveryVars
    BY <1>4, <1>8 DEF deliveryVars, executionVars, evidenceVars
<1>. QED
    BY <1>3, <1>4, <1>7, <1>8 DEF Next, Book, Pay

LEMMA InitOutcomes == Init => Promise!Init
BY DEF Init, ExecutionInit, EvidenceInit, Promise!Init, StandingBar, Standing, EvidenceBar

\* Executing, attesting and paying implement Outcomes: every step is a step of the
\* promise or none.
THEOREM DeliveryRefinement == Spec => ImplementsOutcomes
<1>1. Init => IInv /\ Exchanges
    BY InitInvariant, InitExchanges DEF Init
<1>2. (IInv /\ Exchanges) /\ [Next]_deliveryVars => (IInv /\ Exchanges)'
    BY NextInvariant, OutcomesStep
<1>3. (IInv /\ Exchanges) /\ [Next]_deliveryVars => [Promise!Next]_Promise!vars
    BY OutcomesStep
<1>. QED
    BY <1>1, <1>2, <1>3, InitOutcomes, PTL DEF Spec, ImplementsOutcomes, Promise!Spec
=============================================================================
