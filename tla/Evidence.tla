------------------------------ MODULE Evidence ------------------------------
(***************************************************************************)
(* pkg/evidence/receipt.go: the receipts made of the results of Execute    *)
(* and the store they are kept in, by ID.                                  *)
(***************************************************************************)
EXTENDS Execution, Receipts

CONSTANTS
    Contracts,      \* contract IDs
    Keys,           \* key pairs
    NoReceipt       \* no receipt was made of a call, or none is stored

VARIABLES
    receipt,        \* the receipt made of each call
    store           \* Store.receipts: the call whose receipt an ID leads to

evidenceVars == <<receipt, store>>

Hashes == {Hash(text) : text \in JSON \cup {Empty}}

\* A receipt before it is signed, and after.
Statement == [id : ReceiptIDs, contract : Contracts, action : Actions,
              inputHash : Hashes, outputHash : Hashes, signature : {NoSignature}]

Receipt == [id : ReceiptIDs, contract : Contracts, action : Actions,
            inputHash : Hashes, outputHash : Hashes,
            signature : [key : Keys, over : Statement]]

-----------------------------------------------------------------------------
\* NoReceipt is no value of its types, as nil is none in the code.
ASSUME EvidenceAssumption == NoReceipt \notin Calls \cup Receipt

EvidenceInit ==
    /\ receipt = [c \in Calls |-> NoReceipt]
    /\ store = [id \in ReceiptIDs |-> NoReceipt]

\* A result becomes a receipt, whether the call succeeded or not; the receipt is
\* signed and stored.
Attest(c, contract, key) ==
    /\ call[c].stage = "returned"
    /\ call[c].result # NoResult
    /\ receipt[c] = NoReceipt
    /\ LET r == Signed(NewReceipt(call[c].result, contract), key) IN
       /\ receipt' = [receipt EXCEPT ![c] = r]
       /\ store' = [store EXCEPT ![r.id] = c]

\* Sign again, with any key.  The store holds the receipt itself, not a copy.
Countersign(c, key) ==
    /\ receipt[c] # NoReceipt
    /\ receipt' = [receipt EXCEPT ![c] = Signed(@, key)]
    /\ UNCHANGED store

\* Get: the receipt an ID leads to.
Get(id) == IF store[id] = NoReceipt THEN NoReceipt ELSE receipt[store[id]]

EvidenceBar == [c \in Calls |->
    IF receipt[c] = NoReceipt THEN "none" ELSE Saying(receipt[c].outputHash, Hash(Empty))]

-----------------------------------------------------------------------------
(* Properties *)

\* Types: what Execute returns is a well-formed result whose output parses, or
\* nothing at all, and every receipt is one that was signed.
TypeOK ==
    /\ now \in Time
    /\ call \in [Calls -> CallState]
    /\ wire \in [Calls -> Exchange]
    /\ performed \subseteq Calls
    /\ receipt \in [Calls -> Receipt \cup {NoReceipt}]
    /\ store \in [ReceiptIDs -> Calls \cup {NoReceipt}]

\* A receipt whose output hash is that of an answer stands for an action the
\* provider performed, and the hash is that of the answer it gave to this very
\* call, whatever other calls were under way, timed out or were refused.
EvidenceOfSuccess == \A c \in Calls :
    receipt[c] # NoReceipt /\ receipt[c].outputHash # Hash(Empty) =>
        /\ c \in performed
        /\ wire[c].at = "answered" /\ wire[c].answer.ok
        /\ receipt[c].outputHash = Hash(wire[c].answer.body)

\* A receipt verifies under the key it was signed with last, and no other.
ReceiptsVerify == \A c \in Calls : receipt[c] # NoReceipt =>
    \A key \in Keys : Verify(receipt[c], key) <=> key = receipt[c].signature.key

\* The ID that the result of a call carries leads, once a receipt was made of it,
\* to that receipt, or to that of another call of the same action that started at
\* the same instant and shares the ID: never to nothing, or to a stranger's.
ReceiptsReachable == \A c \in Calls : receipt[c] # NoReceipt =>
    LET d == store[call[c].result.id] IN
    /\ d # NoReceipt /\ Get(call[c].result.id) # NoReceipt
    /\ call[d].action = call[c].action /\ call[d].start = call[c].start
=============================================================================
