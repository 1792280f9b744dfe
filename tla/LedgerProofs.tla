--------------------------- MODULE LedgerProofs ---------------------------
(***************************************************************************)
(* Proofs about the ledger as Delivery uses it, for any number of calls,   *)
(* amounts and settlements.                                                *)
(*                                                                         *)
(* LedgerAgrees is inductive over well-formed lists: a transaction that   *)
(* is recorded is never the first of an ID a receipt has, because every    *)
(* receipt has the ID of an earlier one.                                   *)
(***************************************************************************)
EXTENDS DeliveryProofs, SequenceTheorems

Transaction == [id : Contracts \X Time, contract : Contracts, provider : {Provider},
                consumer : {Consumer}, amount : Amounts, status : {"pending", "settled"},
                created : Time]

Payment == [id : Contracts \X Time, contract : Contracts, amount : Amounts,
            from : {Consumer}, to : {Provider}, at : Time]

LedgerInvariant ==
    transactions \in Seq(Transaction) /\ settlements \in Seq(Payment) /\ LedgerAgrees

-----------------------------------------------------------------------------
\* MarkSettled gives one transaction another status, if it is there at all.
LEMMA Marked ==
    ASSUME transactions \in Seq(Transaction), NEW i
    PROVE  /\ MarkSettled(i) \in Seq(Transaction)
           /\ Len(MarkSettled(i)) = Len(transactions)
           /\ \A j \in 1 .. Len(transactions) :
                 MarkSettled(i)[j] = IF j = i THEN [transactions[j] EXCEPT !.status = "settled"]
                                     ELSE transactions[j]
<1>1. MarkSettled(i) = [transactions EXCEPT ![i] = [transactions[i] EXCEPT !.status = "settled"]]
    BY DEF MarkSettled
<1>2. CASE i \in 1 .. Len(transactions)
    <2>1. transactions[i] \in Transaction
        BY <1>2
    <2>2. [transactions[i] EXCEPT !.status = "settled"] \in Transaction
        BY <2>1 DEF Transaction
    <2>. QED
        BY <1>1, <1>2, <2>2, ExceptSeq
<1>3. CASE i \notin 1 .. Len(transactions)
    <2>1. transactions \in [1 .. Len(transactions) -> Transaction]
        OBVIOUS
    <2>2. MarkSettled(i) = transactions
        BY <1>1, <1>3, <2>1
    <2>. QED
        BY <1>3, <2>2
<1>. QED
    BY <1>2, <1>3

\* A transaction is recorded: the ledger has one more, pending.
LEMMA RecordStep ==
    ASSUME LedgerInvariant, NEW contract \in Contracts, NEW amount \in Amounts, NEW t \in Time,
           RecordTransaction(Provider, Consumer, contract, amount, t)
    PROVE  LedgerInvariant'
<1>. DEFINE txn == NewTransaction(Provider, Consumer, contract, amount, t)
            n == Len(transactions)
<1>1. txn \in Transaction /\ txn.status = "pending"
    BY DEF NewTransaction, TransactionID, Transaction
<1>2. transactions' = Append(transactions, txn) /\ settlements' = settlements
    BY DEF RecordTransaction
<1>. HIDE DEF txn
<1>3. /\ transactions' \in Seq(Transaction) /\ n \in Nat
      /\ DOMAIN transactions = 1 .. n /\ DOMAIN transactions' = 1 .. (n + 1)
      /\ \A i \in 1 .. n : transactions'[i] = transactions[i]
      /\ transactions'[n + 1] = txn
    BY <1>1, <1>2, AppendProperties DEF LedgerInvariant
<1>. HIDE DEF n
<1>4. ASSUME NEW i \in 1 .. n PROVE IsFirst(i)' <=> IsFirst(i)
    <2>1. i <= n + 1
        BY <1>3
    <2>. QED
        BY <1>3, <2>1 DEF IsFirst
<1>5. ASSUME NEW j \in DOMAIN settlements
      PROVE  \E i \in 1 .. n : /\ transactions[i].id = settlements[j].id /\ IsFirst(i)
                               /\ settlements[j].amount = transactions[i].amount
                               /\ settlements[j].from = transactions[i].consumer
                               /\ settlements[j].to = transactions[i].provider
    BY <1>3 DEF LedgerInvariant, LedgerAgrees
<1>6. ASSUME NEW i \in 1 .. (n + 1)
      PROVE  transactions'[i].status = "settled" <=>
                 /\ IsFirst(i)'
                 /\ \E j \in DOMAIN settlements : settlements[j].id = transactions'[i].id
    <2>1. CASE i \in 1 .. n
        BY <1>3, <1>4, <2>1 DEF LedgerInvariant, LedgerAgrees
    <2>2. CASE i = n + 1
        <3>1. transactions'[i].status # "settled"
            BY <1>1, <1>3, <2>2
        <3>2. ASSUME NEW j \in DOMAIN settlements, settlements[j].id = transactions'[i].id
              PROVE  ~IsFirst(i)'
            <4>1. PICK k \in 1 .. n : transactions[k].id = settlements[j].id
                BY <1>5
            <4>2. transactions'[k].id = transactions'[i].id /\ k \in 1 .. (n + 1) /\ ~(i <= k)
                BY <1>3, <2>2, <3>2, <4>1
            <4>. QED
                BY <1>3, <4>2 DEF IsFirst
        <3>. QED
            BY <3>1, <3>2
    <2>. QED
        BY <1>3, <2>1, <2>2
<1>7. ASSUME NEW j \in DOMAIN settlements
      PROVE  \E i \in 1 .. (n + 1) : /\ transactions'[i].id = settlements[j].id /\ IsFirst(i)'
                                     /\ settlements[j].amount = transactions'[i].amount
                                     /\ settlements[j].from = transactions'[i].consumer
                                     /\ settlements[j].to = transactions'[i].provider
    <2>1. PICK i \in 1 .. n : /\ transactions[i].id = settlements[j].id /\ IsFirst(i)
                              /\ settlements[j].amount = transactions[i].amount
                              /\ settlements[j].from = transactions[i].consumer
                              /\ settlements[j].to = transactions[i].provider
        BY <1>5
    <2>2. i \in 1 .. (n + 1) /\ transactions'[i] = transactions[i] /\ IsFirst(i)'
        BY <1>3, <1>4, <2>1
    <2>. QED
        BY <2>1, <2>2
<1>8. LedgerAgrees'
    BY <1>2, <1>3, <1>6, <1>7 DEF LedgerAgrees
<1>. QED
    BY <1>2, <1>3, <1>8 DEF LedgerInvariant

\* A transaction is settled: its status and the list of receipts change together.
LEMMA SettleStep ==
    ASSUME LedgerInvariant, NEW id, NEW t \in Time, Settle(id, t)
    PROVE  LedgerInvariant'
<1>1. PICK i \in DOMAIN transactions :
          /\ transactions[i].id = id /\ IsFirst(i)
          /\ transactions' = MarkSettled(i)
          /\ settlements' = Append(settlements, ReceiptFor(transactions[i], t))
    BY DEF Settle
<1>. DEFINE n == Len(transactions)
            m == Len(settlements)
            paid == ReceiptFor(transactions[i], t)
<1>2. /\ transactions' \in Seq(Transaction) /\ n \in Nat /\ i \in 1 .. n
      /\ DOMAIN transactions = 1 .. n /\ DOMAIN transactions' = 1 .. n
      /\ \A k \in 1 .. n : /\ transactions[k] \in Transaction
                           /\ transactions'[k] =
                                 IF k = i THEN [transactions[k] EXCEPT !.status = "settled"]
                                 ELSE transactions[k]
    <2>1. transactions \in Seq(Transaction)
        BY DEF LedgerInvariant
    <2>2. n \in Nat /\ DOMAIN transactions = 1 .. n /\ \A k \in 1 .. n : transactions[k] \in Transaction
        BY <2>1, LenProperties, ElementOfSeq
    <2>3. /\ MarkSettled(i) \in Seq(Transaction) /\ Len(MarkSettled(i)) = n
          /\ \A k \in 1 .. n :
                MarkSettled(i)[k] = IF k = i THEN [transactions[k] EXCEPT !.status = "settled"]
                                    ELSE transactions[k]
        BY <2>1, Marked
    <2>4. transactions' = MarkSettled(i) /\ i \in DOMAIN transactions
        BY <1>1
    <2>. HIDE DEF n
    <2>5. DOMAIN MarkSettled(i) = 1 .. n
        BY <2>3, LenProperties
    <2>. QED
        BY <2>2, <2>3, <2>4, <2>5
<1>. HIDE DEF n
<1>3. \A k \in 1 .. n : /\ transactions'[k].id = transactions[k].id
                        /\ transactions'[k].amount = transactions[k].amount
                        /\ transactions'[k].provider = transactions[k].provider
                        /\ transactions'[k].consumer = transactions[k].consumer
                        /\ k # i => transactions'[k].status = transactions[k].status
                        /\ k = i => transactions'[k].status = "settled"
    BY <1>2 DEF Transaction
<1>4. \A k \in 1 .. n : IsFirst(k)' <=> IsFirst(k)
    BY <1>2, <1>3 DEF IsFirst
<1>5. /\ paid \in Payment
      /\ paid.id = transactions[i].id /\ paid.amount = transactions[i].amount
      /\ paid.from = transactions[i].consumer /\ paid.to = transactions[i].provider
    BY <1>2 DEF ReceiptFor, Transaction, Payment
<1>6. settlements' = Append(settlements, paid)
    BY <1>1
<1>. HIDE DEF paid
<1>7. /\ settlements' \in Seq(Payment) /\ m \in Nat
      /\ DOMAIN settlements = 1 .. m /\ DOMAIN settlements' = 1 .. (m + 1)
      /\ \A j \in 1 .. m : settlements'[j] = settlements[j]
      /\ settlements'[m + 1] = paid
    BY <1>5, <1>6, AppendProperties DEF LedgerInvariant
<1>. HIDE DEF m
<1>8. ASSUME NEW k \in 1 .. n
      PROVE  transactions'[k].status = "settled" <=>
                 /\ IsFirst(k)'
                 /\ \E j \in 1 .. (m + 1) : settlements'[j].id = transactions'[k].id
    <2>1. transactions[k].status = "settled" <=>
              IsFirst(k) /\ \E j \in 1 .. m : settlements[j].id = transactions[k].id
        BY <1>2, <1>7 DEF LedgerInvariant, LedgerAgrees
    <2>2. (\E j \in 1 .. (m + 1) : settlements'[j].id = transactions'[k].id)
              <=> \/ \E j \in 1 .. m : settlements[j].id = transactions[k].id
                  \/ paid.id = transactions[k].id
        <3>1. m + 1 \in 1 .. (m + 1) /\ \A j \in 1 .. (m + 1) : j \in 1 .. m \/ j = m + 1
            BY <1>7
        <3>2. \A j \in 1 .. m : j \in 1 .. (m + 1)
            BY <1>7
        <3>. QED
            BY <1>3, <1>7, <3>1, <3>2
    <2>3. CASE k = i
        BY <1>1, <1>3, <1>4, <1>5, <2>2, <2>3
    <2>4. CASE k # i
        <3>1. paid.id = transactions[k].id => ~IsFirst(k)
            <4>1. ASSUME transactions[i].id = transactions[k].id, IsFirst(k) PROVE FALSE
                <5>1. i <= k /\ k <= i
                    BY <1>1, <1>2, <4>1 DEF IsFirst
                <5>. QED
                    BY <1>2, <2>4, <5>1
            <4>. QED
                BY <1>5, <4>1
        <3>. QED
            BY <1>3, <1>4, <2>1, <2>2, <2>4, <3>1
    <2>. QED
        BY <2>3, <2>4
<1>9. ASSUME NEW j \in 1 .. (m + 1)
      PROVE  \E k \in 1 .. n : /\ transactions'[k].id = settlements'[j].id /\ IsFirst(k)'
                               /\ settlements'[j].amount = transactions'[k].amount
                               /\ settlements'[j].from = transactions'[k].consumer
                               /\ settlements'[j].to = transactions'[k].provider
    <2>1. CASE j = m + 1
        BY <1>1, <1>2, <1>3, <1>4, <1>5, <1>7, <2>1
    <2>2. CASE j \in 1 .. m
        <3>1. PICK k \in 1 .. n : /\ transactions[k].id = settlements[j].id /\ IsFirst(k)
                                  /\ settlements[j].amount = transactions[k].amount
                                  /\ settlements[j].from = transactions[k].consumer
                                  /\ settlements[j].to = transactions[k].provider
            BY <1>2, <1>7, <2>2 DEF LedgerInvariant, LedgerAgrees
        <3>. QED
            BY <1>3, <1>4, <1>7, <2>2, <3>1
    <2>. QED
        BY <1>7, <2>1, <2>2
<1>10. LedgerAgrees'
    BY <1>2, <1>7, <1>8, <1>9 DEF LedgerAgrees
<1>. QED
    BY <1>2, <1>7, <1>10 DEF LedgerInvariant

-----------------------------------------------------------------------------
LEMMA LedgerNext ==
    ASSUME IInv, LedgerInvariant, [Next]_deliveryVars
    PROVE  LedgerInvariant'
<1>1. CASE UNCHANGED ledgerVars
    BY <1>1 DEF ledgerVars, LedgerInvariant, LedgerAgrees, IsFirst
<1>2. ASSUME NEW c \in Calls, NEW amount \in Amounts, Book(c, amount)
      PROVE  LedgerInvariant'
    <2>1. receipt[c].contract \in Contracts /\ now \in Time
        BY <1>2 DEF Book, IInv, TypeOK, Receipt
    <2>. QED
        BY <1>2, <2>1, RecordStep DEF Book
<1>3. ASSUME NEW i \in DOMAIN transactions, Pay(i)
      PROVE  LedgerInvariant'
    BY <1>3, SettleStep DEF Pay, IInv, TypeOK
<1>4. CASE Executing \/ Attesting \/ UNCHANGED deliveryVars
    BY <1>1, <1>4 DEF Executing, Attesting, deliveryVars, ledgerVars
<1>. QED
    BY <1>2, <1>3, <1>4 DEF Next

\* The transactions and the receipts of the ledger agree, however often and in
\* whatever order transactions are recorded and settled, two of one contract and
\* instant included.
THEOREM LedgerCorrect == Spec => []LedgerAgrees
<1>1. Init => LedgerInvariant
    BY DEF Init, SettlementInit, LedgerInvariant, LedgerAgrees
<1>2. LedgerInvariant => LedgerAgrees
    BY DEF LedgerInvariant
<1>. QED
    BY <1>1, <1>2, LedgerNext, Invariant, PTL DEF Spec
=============================================================================
