----------------------------- MODULE RequestFSM -----------------------------
(***************************************************************************)
(* What a budget request promises: its status only ever moves along the    *)
(* django-fsm transitions BudgetRequest declares, plus the LOCKED ->       *)
(* APPROVED reset the task's unlock endpoint makes with a plain UPDATE, the*)
(* INSERT of a draft and the DELETE of a row.                              *)
(***************************************************************************)
CONSTANT Requests
VARIABLE status
vars == <<status>>

Statuses == {"DRAFT", "SUBMITTED", "UNDER_REVIEW", "APPROVED", "REJECTED",
             "LOCKED", "CANCELLED"}
Absent == {"NEW", "DELETED"}

Move(r, source, target) ==
    /\ status[r] \in source
    /\ status' = [status EXCEPT ![r] = target]

Create(r) == Move(r, {"NEW"}, "DRAFT")
Submit(r) == Move(r, {"DRAFT"}, "SUBMITTED")
SendForReview(r) == Move(r, {"SUBMITTED"}, "UNDER_REVIEW")
Approve(r) == Move(r, {"UNDER_REVIEW"}, "APPROVED")
Reject(r) == Move(r, {"UNDER_REVIEW"}, "REJECTED")
ForwardToNext(r) == Move(r, {"APPROVED"}, "UNDER_REVIEW")
Lock(r) == Move(r, {"APPROVED"}, "LOCKED")
Unlock(r) == Move(r, {"LOCKED"}, "APPROVED")
Revise(r) == Move(r, {"REJECTED", "CANCELLED"}, "DRAFT")
Cancel(r) == Move(r, Statuses \ {"CANCELLED"}, "CANCELLED")
Delete(r) == Move(r, Statuses, "DELETED")

Init == status = [r \in Requests |-> "NEW"]

Next == \E r \in Requests :
    \/ Create(r) \/ Submit(r) \/ SendForReview(r) \/ Approve(r) \/ Reject(r)
    \/ ForwardToNext(r) \/ Lock(r) \/ Unlock(r) \/ Revise(r) \/ Cancel(r)
    \/ Delete(r)

Spec == Init /\ [][Next]_vars
=============================================================================
