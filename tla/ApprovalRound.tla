--------------------------- MODULE ApprovalRound ---------------------------
(***************************************************************************)
(* What an approval chain promises for one round of one task: its steps    *)
(* are decided in order, each once, each by the approver the chain names,  *)
(* until the last one approves or any of them rejects.  BudgetTask is      *)
(* shown to implement this for a task under review.                        *)
(***************************************************************************)
EXTENDS Naturals, Sequences

CONSTANTS
    Chain,    \* the approvers, in order
    None      \* nobody

VARIABLES
    pos,      \* the step whose approver is awaited
    outcome,  \* the round's verdict
    by        \* who decided each step

vars == <<pos, outcome, by>>

Init ==
    /\ pos = 1
    /\ outcome = "PENDING"
    /\ by = [k \in DOMAIN Chain |-> None]

(* The awaited approver decides the awaited step.                          *)
Decide == outcome = "PENDING" /\ by' = [by EXCEPT ![pos] = Chain[pos]]

Advance ==
    /\ Decide
    /\ pos < Len(Chain)
    /\ pos' = pos + 1
    /\ UNCHANGED outcome

Complete ==
    /\ Decide
    /\ pos = Len(Chain)
    /\ outcome' = "APPROVED"
    /\ UNCHANGED pos

Refuse ==
    /\ Decide
    /\ outcome' = "REJECTED"
    /\ UNCHANGED pos

Next == Advance \/ Complete \/ Refuse

Spec == Init /\ [][Next]_vars
=============================================================================
