------------------------------ MODULE Execution ------------------------------
(***************************************************************************)
(* pkg/execution/execute.go: Engine.Execute validates the input, sends the *)
(* request to the provider over HTTP, waits for an answer and validates    *)
(* it.  Several calls of one engine run at once.  The provider is external *)
(* and goes its own way: it may refuse, perform the action and say so or   *)
(* fail to, or answer long after the client has given up.                  *)
(*                                                                         *)
(* A definition D_Bug is a plausible mistake in D.                         *)
(***************************************************************************)
EXTENDS Naturals

CONSTANTS
    Calls,            \* the calls of Execute that are made
    Actions,          \* action IDs
    IdempotentActions,\* the actions whose schema says idempotent
    JSON,             \* texts that parse as JSON
    NotJSON,          \* a text that does not
    Empty,            \* the nil output of a failed call
    NoResult,         \* Execute returned an error and no result
    MaxTime           \* bound on the clock

ASSUME ExecutionAssumption ==
    /\ IdempotentActions \subseteq Actions
    /\ NotJSON \notin JSON /\ Empty \notin JSON
    /\ MaxTime \in Nat

VARIABLES
    now,         \* the clock
    call,        \* what the engine knows of each call
    wire,        \* the exchange with the provider, as far as it has got
    performed    \* history: the calls whose action the provider performed

Time == 0 .. MaxTime

Texts == JSON \cup {NotJSON}

\* "http" stands for https too, "mcp" for whatever else is not implemented.
Protocols == {"http", "mcp"}

Request == [action : Actions, input : Texts, protocol : Protocols]

\* An HTTP answer; ok stands for a status below 400.
Answer == [ok : BOOLEAN, body : Texts]

\* An exchange before it has an answer, and after.
At(stage) == [at |-> stage]

Answered(answer) == [at |-> "answered", answer |-> answer]

ReceiptIDs == Actions \X Time

ReceiptID_NoTime(action, start) == <<action, 0>>

\* A receipt ID is made of the action and the instant the call started.
ReceiptID(action, start) == <<action, start>>

Result == [success : BOOLEAN, action : Actions, output : JSON \cup {Empty},
           retry : BOOLEAN, id : ReceiptIDs]

\* A call that is new or was refused has no start, one that went out has.
CallState ==
    [stage : {"new", "returned"}, result : {NoResult}]
    \cup [stage : {"waiting", "returned"}, action : Actions, start : Time,
          result : Result \cup {NoResult}]

Exchange == [at : {"idle", "request", "performed"}] \cup [at : {"answered"}, answer : Answer]

-----------------------------------------------------------------------------
(* What Execute returns *)

errorResult(c) ==
    [success |-> FALSE, action |-> call[c].action, output |-> Empty, retry |-> TRUE,
     id |-> ReceiptID(call[c].action, call[c].start)]

Success(c, output) ==
    [success |-> TRUE, action |-> call[c].action, output |-> output, retry |-> FALSE,
     id |-> ReceiptID(call[c].action, call[c].start)]

Outcome_Raw(c, answer) ==
    IF answer.ok THEN Success(c, answer.body) ELSE errorResult(c)

Outcome_AnyStatus(c, answer) ==
    IF answer.body \in JSON THEN Success(c, answer.body) ELSE NoResult

\* A status of 400 or more is a failure that has a result, an answer that is
\* not JSON (an empty one, say) is an error that has none.
Outcome(c, answer) ==
    CASE ~answer.ok -> errorResult(c)
      [] answer.ok /\ answer.body \notin JSON -> NoResult
      [] answer.ok /\ answer.body \in JSON -> Success(c, answer.body)

Returned(c, result) == [call EXCEPT ![c].stage = "returned", ![c].result = result]

-----------------------------------------------------------------------------
ExecutionInit ==
    /\ now = 0
    /\ call = [c \in Calls |-> [stage |-> "new", result |-> NoResult]]
    /\ wire = [c \in Calls |-> At("idle")]
    /\ performed = {}

Accepts(req) == req.input \in JSON /\ req.protocol = "http"

\* The input is no JSON, or the transport is not implemented: nothing is sent.
Reject(c, req) ==
    /\ call[c].stage = "new"
    /\ ~Accepts(req)
    /\ call' = Returned(c, NoResult)
    /\ UNCHANGED <<now, wire, performed>>

Invoke(c, req) ==
    /\ call[c].stage = "new"
    /\ Accepts(req)
    /\ call' = [call EXCEPT ![c] =
                   [stage |-> "waiting", action |-> req.action, start |-> now, result |-> NoResult]]
    /\ wire' = [wire EXCEPT ![c] = At("request")]
    /\ UNCHANGED <<now, performed>>

Receive_EvenIfLate(c) ==
    /\ wire[c].at = "answered"
    /\ call' = Returned(c, Outcome(c, wire[c].answer))
    /\ UNCHANGED <<now, wire, performed>>

\* The answer has come before the client gave up.
Receive(c) ==
    /\ call[c].stage = "waiting"
    /\ wire[c].at = "answered"
    /\ call' = Returned(c, Outcome(c, wire[c].answer))
    /\ UNCHANGED <<now, wire, performed>>

TimeOut_WhileConnecting(c) ==
    /\ call[c].stage = "waiting"
    /\ wire[c].at = "request"
    /\ call' = Returned(c, errorResult(c))
    /\ UNCHANGED <<now, wire, performed>>

\* The exchange fails or takes longer than the client's timeout, which spans
\* all of it.  What the provider does with the request is another matter.
TimeOut(c) ==
    /\ call[c].stage = "waiting"
    /\ call' = Returned(c, errorResult(c))
    /\ UNCHANGED <<now, wire, performed>>

-----------------------------------------------------------------------------
(* The provider (external) *)

Perform(c) ==
    /\ wire[c].at = "request"
    /\ wire' = [wire EXCEPT ![c] = At("performed")]
    /\ performed' = performed \cup {c}
    /\ UNCHANGED <<now, call>>

\* Once the action is performed the answer says so, or that something failed.
Respond(c, answer) ==
    /\ wire[c].at = "performed"
    /\ wire' = [wire EXCEPT ![c] = Answered(answer)]
    /\ UNCHANGED <<now, call, performed>>

\* The provider does not perform the action; its answer may well be JSON.
Refuse(c, answer) ==
    /\ wire[c].at = "request"
    /\ ~answer.ok
    /\ wire' = [wire EXCEPT ![c] = Answered(answer)]
    /\ UNCHANGED <<now, call, performed>>

-----------------------------------------------------------------------------
Elapse ==
    /\ now < MaxTime
    /\ now' = now + 1
    /\ UNCHANGED <<call, wire, performed>>

ExecutionNext ==
    \/ Elapse
    \/ \E c \in Calls :
        \/ \E req \in Request : Reject(c, req) \/ Invoke(c, req)
        \/ Receive(c)
        \/ TimeOut(c)
        \/ Perform(c)
        \/ \E answer \in Answer : Respond(c, answer) \/ Refuse(c, answer)

-----------------------------------------------------------------------------
(* How far a call has come, in the words of Outcomes *)

Standing(c) ==
    CASE call[c].stage = "new"      -> "new"
      [] call[c].stage = "waiting"  -> "asked"
      [] call[c].stage = "returned" ->
             IF wire[c].at = "idle" THEN "refused"
             ELSE IF call[c].result # NoResult /\ call[c].result.success THEN "done"
             ELSE "failed"

StandingBar == [c \in Calls |-> Standing(c)]

\* A receipt has the hash of the answer, or that of the nil output.
Saying(outputHash, failure) == IF outputHash = failure THEN "failure" ELSE "success"

=============================================================================
