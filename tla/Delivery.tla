------------------------------ MODULE Delivery ------------------------------
(***************************************************************************)
(* What follows a contract: the calls under it, the receipts that attest   *)
(* them and the transactions that pay for them, as the demo of cmd/aip     *)
(* orders them.  Calls of Execute overlap; the receipts and the ledger are *)
(* kept by one caller, a step at a time.                                   *)
(***************************************************************************)
EXTENDS Evidence, Settlement

CONSTANTS
    Provider, Consumer,   \* the parties
    Amounts,              \* what a call may cost
    MaxSettlements        \* bound on the calls of Settle

VARIABLE booked           \* the calls a transaction was recorded for

deliveryVars == <<now, call, wire, performed, receipt, store, transactions, settlements, booked>>

executionVars == <<now, call, wire, performed>>

Init == ExecutionInit /\ EvidenceInit /\ SettlementInit /\ booked = {}

Executing == ExecutionNext /\ UNCHANGED <<evidenceVars, ledgerVars, booked>>

Attesting ==
    /\ \E c \in Calls, key \in Keys :
        \/ \E contract \in Contracts : Attest(c, contract, key)
        \/ Countersign(c, key)
    /\ UNCHANGED <<executionVars, ledgerVars, booked>>

\* A call is paid for once it has a receipt, whatever that receipt says.
Book(c, amount) ==
    /\ receipt[c] # NoReceipt
    /\ c \notin booked
    /\ booked' = booked \cup {c}
    /\ RecordTransaction(Provider, Consumer, receipt[c].contract, amount, now)
    /\ UNCHANGED <<executionVars, evidenceVars>>

\* Settle may be called again for a transaction that is settled.
Pay(i) ==
    /\ Len(settlements) < MaxSettlements
    /\ Settle(transactions[i].id, now)
    /\ UNCHANGED <<executionVars, evidenceVars, booked>>

Next ==
    \/ Executing
    \/ Attesting
    \/ \E c \in Calls, amount \in Amounts : Book(c, amount)
    \/ \E i \in DOMAIN transactions : Pay(i)

Spec == Init /\ [][Next]_deliveryVars

FairSpec == Spec /\ \A c \in Calls :
    WF_deliveryVars(TimeOut(c) /\ UNCHANGED <<evidenceVars, ledgerVars, booked>>)

-----------------------------------------------------------------------------
(* Properties *)

\* Execute returns to its caller, even if the provider never answers.
EveryExecuteReturns == \A c \in Calls :
    call[c].stage = "waiting" ~> call[c].stage = "returned"

\* Executing, attesting and paying implement the promise of Outcomes: what a call
\* returned, what the provider did and what its receipt says keep in step, and
\* none of it is ever taken back.
Promise == INSTANCE Outcomes
    WITH standing <- StandingBar, effects <- performed, evidence <- EvidenceBar

ImplementsOutcomes == Promise!Spec

-----------------------------------------------------------------------------
(* What the repository says and the code does not do. *)

\* DESIGN.md: "Every executed action produces an Ed25519-signed evidence
\* receipt".  Once Execute has returned, there must be a result to make it of.
EveryExecutionHasAReceipt == \A c \in Calls :
    c \in performed /\ call[c].stage = "returned" => call[c].result # NoResult

\* schema.go: Idempotent "indicates this action can be safely retried".  A result
\* that tells its caller to retry must not do so once the provider has performed
\* an action without that mark.
RetryIsSafe == \A c \in Calls :
    (/\ call[c].stage = "returned" /\ call[c].result # NoResult
     /\ call[c].result.retry /\ c \in performed)
        => call[c].action \in IdempotentActions
=============================================================================
