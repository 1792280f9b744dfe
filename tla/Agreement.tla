----------------------------- MODULE Agreement -----------------------------
(***************************************************************************)
(* What a negotiation promises, whatever the protocol that leads there:    *)
(* each conversation has at most one proposal on the table, ends at most   *)
(* once, and ends either with no deal or with exactly the proposal that    *)
(* was on the table at that moment.  Ended conversations never reopen.     *)
(***************************************************************************)
CONSTANTS
    Talks,       \* the conversations that may be held
    Deals,       \* what can be proposed and agreed
    NoDeal       \* no proposal made, no deal reached; not one of Deals

VARIABLES
    status,      \* where each conversation stands
    proposal,    \* the proposal on the table
    deal         \* what was agreed

vars == <<status, proposal, deal>>

Init ==
    /\ status   = [t \in Talks |-> "none"]
    /\ proposal = [t \in Talks |-> NoDeal]
    /\ deal     = [t \in Talks |-> NoDeal]

Open(t) ==
    /\ status[t] = "none"
    /\ status' = [status EXCEPT ![t] = "open"]
    /\ UNCHANGED <<proposal, deal>>

Propose(t, d) ==
    /\ status[t] = "open"
    /\ proposal' = [proposal EXCEPT ![t] = d]
    /\ UNCHANGED <<status, deal>>

Agree(t) ==
    /\ status[t] = "open"
    /\ proposal[t] # NoDeal
    /\ status' = [status EXCEPT ![t] = "agreed"]
    /\ deal'   = [deal EXCEPT ![t] = proposal[t]]
    /\ UNCHANGED proposal

Abandon(t) ==
    /\ status[t] = "open"
    /\ status' = [status EXCEPT ![t] = "failed"]
    /\ UNCHANGED <<proposal, deal>>

Next == \E t \in Talks :
    \/ Open(t)
    \/ \E d \in Deals : Propose(t, d)
    \/ Agree(t)
    \/ Abandon(t)

Spec == Init /\ [][Next]_vars
=============================================================================
