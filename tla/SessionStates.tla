--------------------------- MODULE SessionStates ---------------------------
(***************************************************************************)
(* The states of a negotiation session and the table of the transitions    *)
(* the engine declares legal (pkg/negotiation/negotiation.go).             *)
(***************************************************************************)

SessionState ==
    {"initiated", "offered", "countered", "accepted", "declined", "expired"}

\* The states whose row of the table is empty.
TerminalStates == {"accepted", "declined", "expired"}

\* validTransitions[s] is the set of states the table lists for s.
validTransitions == [s \in SessionState |->
    CASE s = "initiated" -> {"offered", "expired", "declined"}
      [] s = "offered"   -> {"accepted", "countered", "declined", "expired"}
      [] s = "countered" -> {"accepted", "countered", "declined", "expired"}
      [] OTHER           -> {}]

\* checkTransition returns no error.
checkTransition(from, to) == to \in validTransitions[from]
=============================================================================
