-------------------------- MODULE ExecutionProofs --------------------------
(***************************************************************************)
(* What calls of Execute keep to, whoever makes them: lemmas for the       *)
(* proofs about receipts and about processes.                              *)
(*                                                                         *)
(* Course is what Outcomes lets a call and its effect do in one step.      *)
(***************************************************************************)
EXTENDS Execution, TLAPS

\* A call that went out has a start.
CallAt(c) ==
    \/ call[c].stage \in {"new", "returned"}
       /\ call[c] = [stage |-> call[c].stage, result |-> NoResult]
    \/ call[c].stage \in {"waiting", "returned"} /\ call[c].start \in Time
       /\ call[c] = [stage |-> call[c].stage, action |-> call[c].action,
                     start |-> call[c].start, result |-> call[c].result]

\* A call and its exchange with the provider: there is none before the call goes
\* out, and what it returns tells a success from a failure.
ExchangeAt(c) ==
    /\ CallAt(c)
    /\ call[c].stage = "new" => wire[c].at = "idle"
    /\ call[c].stage = "waiting" => wire[c].at # "idle"
    /\ wire[c].at \in {"idle", "request"} => c \notin performed
    /\ wire[c].at = "performed" => c \in performed
    /\ wire[c].at = "answered" /\ wire[c].answer.ok => c \in performed
    /\ call[c].result # NoResult =>
           /\ wire[c].at # "idle" /\ call[c].stage = "returned"
           /\ call[c].result.success <=> call[c].result.output # Empty
           /\ call[c].result.success => c \in performed

Exchanges ==
    /\ DOMAIN call = Calls /\ DOMAIN wire = Calls /\ now \in Time
    /\ \A c \in Calls : ExchangeAt(c)

Shift(c, from, to) ==
    /\ Standing(c) = from
    /\ StandingBar' = [StandingBar EXCEPT ![c] = to]
    /\ performed' = performed

Course ==
    \/ UNCHANGED <<StandingBar, performed>>
    \/ \E c \in Calls :
        \/ Shift(c, "new", "refused")
        \/ Shift(c, "new", "asked")
        \/ c \in performed /\ Shift(c, "asked", "done")
        \/ Shift(c, "asked", "failed")
        \/ /\ Standing(c) \in {"asked", "failed"} /\ c \notin performed
           /\ performed' = performed \cup {c} /\ StandingBar' = StandingBar

LEMMA InitExchanges == ExecutionInit => Exchanges
BY ExecutionAssumption DEF ExecutionInit, Exchanges, ExchangeAt, CallAt, At, Time

-----------------------------------------------------------------------------
\* A call that is left alone, and its exchange.
LEMMA ExchangeStays ==
    ASSUME NEW d \in Calls, ExchangeAt(d), call'[d] = call[d], wire'[d] = wire[d],
           d \in performed' <=> d \in performed
    PROVE  ExchangeAt(d)' /\ Standing(d)' = Standing(d)
BY DEF ExchangeAt, CallAt, Standing

\* One call moves.
LEMMA OneExchange ==
    ASSUME Exchanges, NEW c \in Calls, DOMAIN call' = Calls, DOMAIN wire' = Calls, now' = now,
           \A d \in Calls \ {c} : /\ call'[d] = call[d] /\ wire'[d] = wire[d]
                                  /\ d \in performed' <=> d \in performed,
           ExchangeAt(c)'
    PROVE  Exchanges' /\ StandingBar' = [StandingBar EXCEPT ![c] = Standing(c)']
<1>1. \A d \in Calls \ {c} : ExchangeAt(d)' /\ Standing(d)' = Standing(d)
    BY ExchangeStays DEF Exchanges
<1>. QED
    BY <1>1 DEF Exchanges, StandingBar

\* A call that waits returns with a result.
LEMMA ReturnCourse ==
    ASSUME Exchanges, NEW c \in Calls, call[c].stage = "waiting", NEW result,
           call' = Returned(c, result), UNCHANGED <<now, wire, performed>>,
           result # NoResult => (result.success <=> result.output # Empty),
           result # NoResult /\ result.success => c \in performed
    PROVE  Exchanges' /\ Course
<1>1. /\ call[c].start \in Time
      /\ call[c] = [stage |-> "waiting", action |-> call[c].action,
                    start |-> call[c].start, result |-> call[c].result]
    BY DEF Exchanges, ExchangeAt, CallAt
<1>2. /\ DOMAIN call' = Calls /\ \A d \in Calls \ {c} : call'[d] = call[d]
      /\ call'[c] = [stage |-> "returned", action |-> call[c].action,
                     start |-> call[c].start, result |-> result]
    BY <1>1 DEF Returned, Exchanges
<1>3. CallAt(c)'
    BY <1>1, <1>2 DEF CallAt
<1>4. ExchangeAt(c)'
    BY <1>2, <1>3 DEF Exchanges, ExchangeAt
<1>5. Exchanges' /\ StandingBar' = [StandingBar EXCEPT ![c] = Standing(c)']
    BY <1>2, <1>4, OneExchange DEF Exchanges
<1>6. Standing(c) = "asked"
    BY DEF Standing
<1>7. Standing(c)' = IF result # NoResult /\ result.success THEN "done" ELSE "failed"
    BY <1>2 DEF Standing, Exchanges, ExchangeAt
<1>. QED
    BY <1>5, <1>6, <1>7 DEF Course, Shift

LEMMA RejectCourse ==
    ASSUME Exchanges, NEW c \in Calls, NEW req, Reject(c, req)
    PROVE  Exchanges' /\ Course
<1>1. call[c] = [stage |-> "new", result |-> NoResult]
    BY DEF Reject, Exchanges, ExchangeAt, CallAt
<1>2. /\ DOMAIN call' = Calls /\ \A d \in Calls \ {c} : call'[d] = call[d]
      /\ call'[c] = [stage |-> "returned", result |-> NoResult]
    BY <1>1 DEF Reject, Returned, Exchanges
<1>3. wire[c].at = "idle" /\ now' = now /\ wire' = wire /\ performed' = performed
    BY DEF Reject, Exchanges, ExchangeAt
<1>4. CallAt(c)'
    BY <1>2 DEF CallAt
<1>5. ExchangeAt(c)'
    BY <1>2, <1>3, <1>4 DEF Exchanges, ExchangeAt
<1>6. Exchanges' /\ StandingBar' = [StandingBar EXCEPT ![c] = Standing(c)']
    BY <1>2, <1>3, <1>5, OneExchange DEF Exchanges
<1>7. Standing(c) = "new" /\ Standing(c)' = "refused"
    BY <1>1, <1>2, <1>3 DEF Standing
<1>. QED
    BY <1>3, <1>6, <1>7 DEF Course, Shift

LEMMA InvokeCourse ==
    ASSUME Exchanges, NEW c \in Calls, NEW req, Invoke(c, req)
    PROVE  Exchanges' /\ Course
<1>1. /\ DOMAIN call' = Calls /\ \A d \in Calls \ {c} : call'[d] = call[d]
      /\ call'[c] = [stage |-> "waiting", action |-> req.action, start |-> now,
                     result |-> NoResult]
      /\ DOMAIN wire' = Calls /\ \A d \in Calls \ {c} : wire'[d] = wire[d]
      /\ wire'[c] = [at |-> "request"]
    BY DEF Invoke, At, Exchanges
<1>2. call[c].stage = "new" /\ now' = now /\ performed' = performed /\ now \in Time
    BY DEF Invoke, Exchanges
<1>3. c \notin performed
    BY <1>2 DEF Exchanges, ExchangeAt
<1>4. CallAt(c)'
    BY <1>1, <1>2 DEF CallAt
<1>5. ExchangeAt(c)'
    BY <1>1, <1>2, <1>3, <1>4 DEF ExchangeAt
<1>6. Exchanges' /\ StandingBar' = [StandingBar EXCEPT ![c] = Standing(c)']
    BY <1>1, <1>2, <1>5, OneExchange
<1>7. Standing(c) = "new" /\ Standing(c)' = "asked"
    BY <1>1, <1>2 DEF Standing
<1>. QED
    BY <1>2, <1>6, <1>7 DEF Course, Shift

\* What the provider does does not change how far the call has come.
LEMMA ProviderCourse ==
    ASSUME Exchanges, NEW c \in Calls, call' = call, now' = now,
           NEW state, state.at # "idle", wire[c].at # "idle", wire' = [wire EXCEPT ![c] = state],
           performed' \in {performed, performed \cup {c}},
           ExchangeAt(c)'
    PROVE  Exchanges' /\ StandingBar' = StandingBar
<1>1. /\ DOMAIN wire' = Calls /\ \A d \in Calls \ {c} : wire'[d] = wire[d]
      /\ wire'[c] = state
    BY DEF Exchanges
<1>2. Exchanges' /\ StandingBar' = [StandingBar EXCEPT ![c] = Standing(c)']
    BY <1>1, OneExchange DEF Exchanges
<1>3. Standing(c)' = Standing(c)
    BY <1>1 DEF Standing
<1>4. [StandingBar EXCEPT ![c] = Standing(c)] = StandingBar
    BY DEF StandingBar
<1>. QED
    BY <1>2, <1>3, <1>4

LEMMA PerformCourse ==
    ASSUME Exchanges, NEW c \in Calls, Perform(c)
    PROVE  Exchanges' /\ Course
<1>1. /\ wire[c].at = "request" /\ wire' = [wire EXCEPT ![c] = [at |-> "performed"]]
      /\ performed' = performed \cup {c} /\ call' = call /\ now' = now
    BY DEF Perform, At
<1>2. wire'[c] = [at |-> "performed"]
    BY <1>1 DEF Exchanges
<1>3. c \notin performed /\ ExchangeAt(c)
    BY <1>1 DEF Exchanges, ExchangeAt
<1>4. ExchangeAt(c)'
    BY <1>1, <1>2, <1>3 DEF ExchangeAt, CallAt
<1>5. Exchanges' /\ StandingBar' = StandingBar
    BY <1>1, <1>4, ProviderCourse
<1>6. Standing(c) \in {"asked", "failed"}
    <2>1. ~(call[c].result # NoResult /\ call[c].result.success)
        BY <1>3 DEF ExchangeAt
    <2>. QED
        BY <1>1, <1>3, <2>1 DEF Standing, ExchangeAt, CallAt
<1>. QED
    BY <1>1, <1>3, <1>5, <1>6 DEF Course

LEMMA AnswerCourse ==
    ASSUME Exchanges, NEW c \in Calls, NEW answer \in Answer, Respond(c, answer) \/ Refuse(c, answer)
    PROVE  Exchanges' /\ Course
<1>1. /\ wire' = [wire EXCEPT ![c] = Answered(answer)]
      /\ performed' = performed /\ call' = call /\ now' = now
      /\ \/ wire[c].at = "performed"
         \/ wire[c].at = "request" /\ ~answer.ok
    BY DEF Respond, Refuse
<1>2. wire'[c] = [at |-> "answered", answer |-> answer] /\ Answered(answer).at = "answered"
    BY <1>1 DEF Exchanges, Answered
<1>3. ExchangeAt(c)
    BY DEF Exchanges
<1>4. ExchangeAt(c)'
    BY <1>1, <1>2, <1>3 DEF ExchangeAt, CallAt
<1>5. Exchanges' /\ StandingBar' = StandingBar
    BY <1>1, <1>2, <1>4, ProviderCourse
<1>. QED
    BY <1>1, <1>5 DEF Course

LEMMA ReceiveCourse ==
    ASSUME Exchanges, NEW c \in Calls, Receive(c)
    PROVE  Exchanges' /\ Course
<1>. DEFINE result == Outcome(c, wire[c].answer)
<1>1. /\ call[c].stage = "waiting" /\ wire[c].at = "answered"
      /\ call' = Returned(c, result) /\ UNCHANGED <<now, wire, performed>>
    BY DEF Receive
<1>2. wire[c].answer.ok => c \in performed
    BY <1>1 DEF Exchanges, ExchangeAt
<1>3. CASE ~wire[c].answer.ok
    <2>1. result = errorResult(c)
        BY <1>3 DEF Outcome
    <2>. QED
        BY <1>1, <2>1, ReturnCourse DEF errorResult
<1>4. CASE wire[c].answer.ok /\ wire[c].answer.body \notin JSON
    <2>1. result = NoResult
        BY <1>4 DEF Outcome
    <2>. QED
        BY <1>1, <2>1, ReturnCourse
<1>5. CASE wire[c].answer.ok /\ wire[c].answer.body \in JSON
    <2>1. result = Success(c, wire[c].answer.body) /\ wire[c].answer.body # Empty
        BY <1>5, ExecutionAssumption DEF Outcome
    <2>. QED
        BY <1>1, <1>2, <1>5, <2>1, ReturnCourse DEF Success
<1>. QED
    BY <1>3, <1>4, <1>5

LEMMA TimeOutCourse ==
    ASSUME Exchanges, NEW c \in Calls, TimeOut(c)
    PROVE  Exchanges' /\ Course
BY ReturnCourse DEF TimeOut, errorResult

LEMMA ElapseCourse ==
    ASSUME Exchanges, Elapse
    PROVE  Exchanges' /\ Course
<1>1. now' \in Time
    BY ExecutionAssumption DEF Elapse, Time, Exchanges
<1>. QED
    BY <1>1 DEF Elapse, Exchanges, ExchangeAt, CallAt, Course, StandingBar, Standing

-----------------------------------------------------------------------------
\* Whatever a step of Execute, the provider or the clock does, Outcomes allows.
LEMMA ExecutionCourse ==
    ASSUME Exchanges, ExecutionNext \/ UNCHANGED <<now, call, wire, performed>>
    PROVE  Exchanges' /\ Course
<1>1. CASE UNCHANGED <<now, call, wire, performed>>
    BY <1>1 DEF Exchanges, ExchangeAt, CallAt, Course, StandingBar, Standing
<1>. QED
    BY <1>1, RejectCourse, InvokeCourse, ReceiveCourse, TimeOutCourse, PerformCourse,
       AnswerCourse, ElapseCourse DEF ExecutionNext

=============================================================================
