------------------------------ MODULE Outcomes ------------------------------
(***************************************************************************)
(* What the execution of actions promises, whatever transport, processes   *)
(* and receipts are behind it.  A call is refused before it has any        *)
(* effect, or asked for.  What is asked for has its effect at most once,   *)
(* at any time, and is settled once and for good: as done, which it only   *)
(* is when the effect has taken place, or as failed, which says nothing    *)
(* about that.  Evidence is made of what is settled, says what it was      *)
(* settled as, and does not change.                                        *)
(***************************************************************************)
CONSTANT Calls

VARIABLES
    standing,    \* how far each call has come
    effects,     \* the calls whose action was performed
    evidence     \* what the receipt of each call says, if there is one

vars == <<standing, effects, evidence>>

Init ==
    /\ standing = [c \in Calls |-> "new"]
    /\ effects  = {}
    /\ evidence = [c \in Calls |-> "none"]

Moves(c, from, to) ==
    /\ standing[c] = from
    /\ standing' = [standing EXCEPT ![c] = to]
    /\ UNCHANGED <<effects, evidence>>

Refuse(c) == Moves(c, "new", "refused")

Ask(c) == Moves(c, "new", "asked")

Succeed(c) == c \in effects /\ Moves(c, "asked", "done")

Fail(c) == Moves(c, "asked", "failed")

\* Nobody can take back what was asked for: the effect may follow the failure.
TakeEffect(c) ==
    /\ standing[c] \in {"asked", "failed"}
    /\ c \notin effects
    /\ effects' = effects \cup {c}
    /\ UNCHANGED <<standing, evidence>>

Attest(c) ==
    /\ standing[c] \in {"done", "failed"}
    /\ evidence[c] = "none"
    /\ evidence' = [evidence EXCEPT ![c] = IF standing[c] = "done" THEN "success" ELSE "failure"]
    /\ UNCHANGED <<standing, effects>>

Next == \E c \in Calls :
    Refuse(c) \/ Ask(c) \/ Succeed(c) \/ Fail(c) \/ TakeEffect(c) \/ Attest(c)

Spec == Init /\ [][Next]_vars
=============================================================================
