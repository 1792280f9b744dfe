------------------------------ MODULE Receipts ------------------------------
(***************************************************************************)
(* pkg/evidence/receipt.go: what a receipt says, and its signature.        *)
(*                                                                         *)
(* A definition D_Bug is a plausible mistake in D.                         *)
(***************************************************************************)
CONSTANT NoSignature    \* the empty signature

\* SHA-256 of a text, and of nothing for the nil output.
Hash(text) == <<"sha256", text>>

\* NewReceipt: both hashes are taken of the output.
NewReceipt(result, contract) ==
    [id |-> result.id, contract |-> contract, action |-> result.action,
     inputHash |-> Hash(result.output), outputHash |-> Hash(result.output),
     signature |-> NoSignature]

serializeForSigning_AsItStands(r) == r

\* What is signed and verified is the receipt without its signature.
serializeForSigning(r) == [r EXCEPT !.signature = NoSignature]

Signed(r, key) == [r EXCEPT !.signature = [key |-> key, over |-> serializeForSigning(r)]]

Verify(r, key) == r.signature = [key |-> key, over |-> serializeForSigning(r)]
=============================================================================
