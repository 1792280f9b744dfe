----------------------------- MODULE McpServer -----------------------------
(***************************************************************************)
(* mcp-server/aip_mcp_server.py: one tool per command of aip.  A tool      *)
(* writes its arguments to temporary files, runs aip in a process of its   *)
(* own, waits for it, at most 30 seconds, and returns what _last_json makes *)
(* of its output.  Users may run aip from a shell at the same time.          *)
(*                                                                         *)
(* A definition D_Bug is a plausible mistake in D.                         *)
(***************************************************************************)
EXTENDS CommandLine, JsonText

CONSTANT NoArguments

VARIABLES
    tool,     \* the tool call that started each process, if one did
    files     \* the temporary files that exist: the process they are for, and what

vars == <<commandVars, tool, files>>

NoCall == [stage |-> "none"]

-----------------------------------------------------------------------------
(* What aip prints *)

\* The lines printed ahead of a document.
Heading(doc) == IF doc.kind = "session" THEN <<Plain("Created session")>> ELSE <<>>

PricingText(c) ==
    IF c.price = NoPrice THEN <<Plain("pricing")>>
    ELSE Object(<<Plain("amount")>> \o String(c.price.currency))

SLAText(c) ==
    CASE c.sla = "limits"     -> Object(<<Plain("max_latency_ms")>>)
      [] c.sla = "rate limit" -> Object(<<Plain("max_latency_ms")>> \o Object(<<Plain("requests")>>))
      [] OTHER                -> <<>>

ContractText(c) ==
    <<Plain("contract_id")>> \o String(c.provider) \o String(c.consumer)
    \o PricingText(c) \o SLAText(c) \o String(c.nonce) \o <<Plain("signatures")>>

\* A document as json.MarshalIndent prints it.  Of the result, which the receipt
\* follows, nothing matters to the search.
Body(doc) == Object(
    CASE doc.kind = "session"   -> <<Plain("session_id")>> \o String(doc.action)
      [] doc.kind = "execution" -> Object(<<Plain("result")>>)
                                   \o Object(<<Plain("receipt")>> \o String(doc.receipt.action))
      [] doc.kind = "contract"  -> ContractText(doc.contract)
      [] OTHER                  -> <<Plain("transaction_id")>> \o String(doc.receipt.from)
                                   \o String(doc.receipt.to))

Text(doc) == Heading(doc) \o Body(doc)

-----------------------------------------------------------------------------
(* What a tool returns *)

Error == [kind |-> "error"]

\* The result follows from how aip ended.  Keys are read line by line, a verdict
\* is the exit status, the demo's story is returned as it is; an exception, in
\* the tool or for want of time, is an error.
ToolResult(p) ==
    CASE proc[p].stage # "exited" -> Error
      [] proc[p].stage = "exited" /\ tool[p].name = "verify" ->
             [kind |-> "verdict", valid |-> proc[p].status = 0]
      [] OTHER ->
             CASE proc[p].status # 0 -> Error
               [] proc[p].status = 0 /\ tool[p].name = "keygen" -> Out(p)
               [] proc[p].status = 0 /\ tool[p].name = "demo" -> [kind |-> "story"]
               [] OTHER -> [kind |-> "json", json |-> last_json(Text(Out(p)))]

\* call_tool hands the result to the client.
HandedBack(p) == tool' = [tool EXCEPT ![p].stage = "returned"]

unlink_OnSuccess(p) ==
    IF proc[p].stage = "exited" THEN files \ {f \in files : f[1] = p} ELSE files

\* The finally clause, which an exception passes through as well.
unlink(p) == files \ {f \in files : f[1] = p}

-----------------------------------------------------------------------------
(* Tools *)

Tool(p, name, arguments, needs) ==
    /\ tool' = [tool EXCEPT ![p] = [stage |-> "running", name |-> name, arguments |-> arguments]]
    /\ files' = files \cup ({p} \X needs)

tool_keygen(p) == Keygen(p) /\ Tool(p, "keygen", NoArguments, {})

tool_negotiate(p) ==
    /\ (\E role \in Parties, action \in Actions : OpenSession(p, role, action))
       \/ ContinueSession(p) \/ Complain(p)
    /\ Tool(p, "negotiate", NoArguments, {})

tool_accept(p) == ContinueSession(p) /\ Tool(p, "accept", NoArguments, {})

tool_decline(p) == ContinueSession(p) /\ Tool(p, "decline", NoArguments, {})

\* --witnessos comes after the schema: without an input file aip takes it for
\* one, with an input file it is ignored.  The input is JSON by now.
tool_execute(p, req, input, url) ==
    /\ req.input \in JSON
    /\ IF url /\ ~input THEN Complain(p) ELSE Execute(p, "execute", req, FALSE) \/ Complain(p)
    /\ Tool(p, "execute", NoArguments, IF input THEN {"schema", "input"} ELSE {"schema"})

tool_sign_contract(p) ==
    /\ \/ \E contract \in BindingFiles, key \in KnownKeys, party \in Parties :
              SignContract(p, contract, key, party)
       \/ Complain(p)
    /\ Tool(p, "sign_contract", NoArguments, {"binding"})

tool_settle(p) ==
    /\ (\E contract \in BindingFiles : SettleContract(p, contract)) \/ Complain(p)
    /\ Tool(p, "settle", NoArguments, {"contract"})

keyArgument_Dropped(key) == NoKey

\* The key is required by the tool and handed on.
keyArgument(key) == key

tool_verify(p, r, key) ==
    /\ VerifyReceipt(p, r, keyArgument(key))
    /\ Tool(p, "verify", [receipt |-> r, key |-> key], {"receipt"})

tool_demo(p) == Demo(p) /\ Tool(p, "demo", NoArguments, {})

\* An argument that does not parse: json.loads raises before anything is run.
\* tool_execute has written the schema by the time it parses the input, and the
\* finally clause that would remove it is yet to come.
RejectArguments(p, written) ==
    /\ tool' = [tool EXCEPT ![p] = [stage |-> "returned", name |-> "rejected",
                                    arguments |-> NoArguments]]
    /\ files' = files \cup ({p} \X written)
    /\ UNCHANGED commandVars

\* aip has exited.
ToolReturns(p) ==
    /\ tool[p].stage = "running"
    /\ proc[p].stage = "exited"
    /\ HandedBack(p)
    /\ files' = unlink(p)
    /\ UNCHANGED commandVars

ToolTimeout_OfThePush(p) ==
    /\ tool[p].stage = "running"
    /\ proc[p].stage = "pushing"
    /\ Became(p, Killed)
    /\ HandedBack(p)
    /\ files' = unlink(p)
    /\ UNCHANGED <<executionVars, pushVars>>

\* 30 seconds are over, or somebody killed aip: the tool returns an error.
\* aip's own timeout is as long, so that it may lose the race.
ToolTimeout(p) ==
    /\ tool[p].stage = "running"
    /\ Running(p)
    /\ Became(p, Killed)
    /\ HandedBack(p)
    /\ files' = unlink(p)
    /\ UNCHANGED <<executionVars, pushVars>>

-----------------------------------------------------------------------------
Init == CommandLineInit /\ tool = [p \in Calls |-> NoCall] /\ files = {}

\* No handler yields before it returns: one tool runs at a time.
Idle == \A p \in Calls : tool[p].stage # "running"

CallTool(p) ==
    /\ Idle /\ tool[p] = NoCall /\ New(p)
    /\ \/ tool_keygen(p)
       \/ tool_negotiate(p)
       \/ tool_accept(p)
       \/ tool_decline(p)
       \/ \E req \in Request, input, url \in BOOLEAN : tool_execute(p, req, input, url)
       \/ tool_sign_contract(p)
       \/ tool_settle(p)
       \/ \E r \in ReceiptFiles, key \in KnownKeys : tool_verify(p, r, key)
       \/ tool_demo(p)
       \/ \E written \in {{}, {"schema"}} : RejectArguments(p, written)

\* What happens with no tool's doing.
Outside ==
    /\ \/ Environment
       \/ \E p \in Calls : \/ Proceed(p)
                           \/ tool[p] = NoCall /\ (Shell(p) \/ Interrupt(p))
    /\ UNCHANGED <<tool, files>>

Next ==
    \/ Outside
    \/ \E p \in Calls : CallTool(p) \/ ToolReturns(p) \/ ToolTimeout(p)

Spec == Init /\ [][Next]_vars

FairSpec == Spec /\ \A p \in Calls : WF_vars(ToolReturns(p)) /\ WF_vars(ToolTimeout(p))

-----------------------------------------------------------------------------
(* Properties *)

ReturnedWith(p, kind) == tool[p].stage = "returned" /\ ToolResult(p).kind = kind

\* A receipt that aip_verify calls valid is one that was issued and not edited
\* since, and was signed with the key the caller gave.
ToolVerifiesForReal == \A p \in Calls :
    ReturnedWith(p, "verdict") /\ ToolResult(p).valid =>
        /\ tool[p].arguments.receipt \in Issued
        /\ tool[p].arguments.receipt.signature.key = tool[p].arguments.key

\* Whatever became of aip, the files a tool wrote are gone when it returns; the
\* schema of a call whose input does not parse is the exception.
FilesAreRemoved == \A f \in files :
    \/ tool[f[1]].stage = "running"
    \/ ReturnedWith(f[1], "error") /\ New(f[1]) /\ f[2] = "schema"

\* What a tool returns of a document.  All of the text, as raw output, only if a
\* string in it has a brace.  Otherwise one complete object, the last to be opened
\* and with none inside it, unless a string passes for the object.  And the
\* document as it was printed if it has no brace but its own two.  Of an execution
\* the object is the receipt, where README.md has "result + evidence receipt
\* returned"; of a contract with a price, the price.
ResultsAreWhole == \A p \in Calls : ReturnedWith(p, "json") =>
    LET text == Text(Out(p))
        body == Body(Out(p))
        result == ToolResult(p).json
    IN  /\ result.raw => result.text = text /\ BracesInStrings(text) # {}
        /\ ~result.raw =>
               \/ result.text = NoMembers /\ BracesInStrings(text) # {}
               \/ \E o, c \in DOMAIN text :
                     /\ text[o] = Open /\ text[c] = Close
                     /\ result.text = SubSeq(text, o, c)
                     /\ \A i \in BracesIn(text) : i > o => i >= c /\ text[i] \in Closing
        /\ BracesIn(body) = {1, Len(body)} => ~result.raw /\ result.text = body

\* A tool call returns, whatever the provider and aip do, and so does not keep
\* the server from the next call.
EveryToolCallReturns == \A p \in Calls :
    tool[p].stage = "running" ~> tool[p].stage = "returned"
=============================================================================
