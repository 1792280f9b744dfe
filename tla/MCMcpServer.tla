---------------------------- MODULE MCMcpServer ----------------------------
(* Small instances of McpServer and CommandLine for TLC. *)
EXTENDS McpServer

MCTerms == [BlankBinding EXCEPT !.id = <<"ct">>, !.provider = "}x", !.consumer = "c",
                                  !.price = [amount |-> 7, currency |-> "x{"],
                                  !.sla = "limits", !.nonce = "{}"]

\* A contract that is signed, and that its users edit, sign again and pay.  It
\* has braces in strings and objects in objects, of which an edit takes one away.
MCContracts == {[MCTerms EXCEPT !.signatures["provider"] =
                                      BindingSignature(Operator, MCTerms)]}

\* The words that have a brace.
MCSpelling == [word \in {"}x", "x{", "{}"} |->
    CASE word = "}x" -> <<"}", "x">>
      [] word = "x{" -> <<"x", "{">>
      [] word = "{}" -> <<"{", "}">>]
=============================================================================
