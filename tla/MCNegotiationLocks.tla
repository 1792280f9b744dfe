------------------------- MODULE MCNegotiationLocks -------------------------
(* Small instances of NegotiationLocks. *)
EXTENDS NegotiationLocks

MCAgents   == {"a", "b"}
MCPairings == {<<"a", "b">>}
MCJoined   == [pair \in MCPairings |-> "a_b"]
=============================================================================
