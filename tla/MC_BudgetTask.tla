----------------------------- MODULE MC_BudgetTask -----------------------------
(* Small instances of BudgetTask: chains of two or three approvers, at most   *)
(* one admin, operations grouped by what a run asks.                          *)
EXTENDS BudgetTask, TLC
CONSTANTS a, b, c, admin

ThreeSteps == <<a, b, c>>
AgainLater == <<a, b, a>>
TwoSteps == <<a, b>>
AdminLast == <<a, admin>>

Deciding == {"make_approval", "crash"}
ApprovalsOnly == {"make_approval"}
=============================================================================
