----------------------------- MODULE Settlement -----------------------------
(***************************************************************************)
(* pkg/settlement/settle.go: a ledger of transactions and of the receipts  *)
(* for the settled ones.  A transaction's ID is made of its contract and   *)
(* the instant it was recorded.                                            *)
(*                                                                         *)
(* A definition D_Bug is a plausible mistake in D.                         *)
(***************************************************************************)
EXTENDS Naturals, Sequences

VARIABLES
    transactions,  \* Ledger.transactions
    settlements    \* Ledger.receipts

ledgerVars == <<transactions, settlements>>

TransactionID(contract, t) == <<contract, t>>

NewTransaction(provider, consumer, contract, amount, t) ==
    [id |-> TransactionID(contract, t), contract |-> contract, provider |-> provider,
     consumer |-> consumer, amount |-> amount, status |-> "pending", created |-> t]

\* The receipt for a transaction: the consumer pays the provider.
ReceiptFor(txn, t) ==
    [id |-> txn.id, contract |-> txn.contract, amount |-> txn.amount,
     from |-> txn.consumer, to |-> txn.provider, at |-> t]

SettlementInit == transactions = <<>> /\ settlements = <<>>

\* RecordTransaction: the ledger keeps a copy of what it hands back.
RecordTransaction(provider, consumer, contract, amount, t) ==
    /\ transactions' =
           Append(transactions, NewTransaction(provider, consumer, contract, amount, t))
    /\ UNCHANGED settlements

\* The i-th transaction is the first of its ID.
IsFirst(i) == \A k \in DOMAIN transactions : transactions[k].id = transactions[i].id => i <= k

MarkSettled_OnTheCopy(i) == transactions

\* The loop's txn is a copy: the status goes to the ledger's own element.
MarkSettled(i) == [transactions EXCEPT ![i].status = "settled"]

\* The first transaction of that ID, whatever its status.
Settle(id, t) == \E i \in DOMAIN transactions :
    /\ transactions[i].id = id /\ IsFirst(i)
    /\ transactions' = MarkSettled(i)
    /\ settlements' = Append(settlements, ReceiptFor(transactions[i], t))

-----------------------------------------------------------------------------
(* Properties *)

\* Transactions and receipts tell the same story.  A transaction is settled just
\* when it is the first of its ID and there is a receipt for that ID: another one
\* of the same contract and instant stays pending.  Every receipt is for such a
\* first transaction, its amount paid by its consumer to its provider.
LedgerAgrees ==
    /\ \A i \in DOMAIN transactions :
          transactions[i].status = "settled" <=>
              /\ IsFirst(i)
              /\ \E j \in DOMAIN settlements : settlements[j].id = transactions[i].id
    /\ \A j \in DOMAIN settlements : \E i \in DOMAIN transactions :
          /\ transactions[i].id = settlements[j].id /\ IsFirst(i)
          /\ settlements[j].amount = transactions[i].amount
          /\ settlements[j].from = transactions[i].consumer
          /\ settlements[j].to = transactions[i].provider
=============================================================================
