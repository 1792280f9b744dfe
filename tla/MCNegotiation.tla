--------------------------- MODULE MCNegotiation ---------------------------
(* Small instances of Negotiation. *)
EXTENDS Negotiation

\* Two names such that either order of the two joins to the same text.
MCAgents   == {"a", "a_a"}
MCPairings == {<<"a", "a_a">>, <<"a_a", "a">>}
MCJoined   == [pair \in MCPairings |-> "a_a_a"]

RefSymmetry == Permutations(Refs)
=============================================================================
