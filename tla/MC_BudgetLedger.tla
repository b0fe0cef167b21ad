--------------------------- MODULE MC_BudgetLedger ---------------------------
(* Small instances of BudgetLedger: one pool, operations grouped by what a  *)
(* run asks.                                                                *)
EXTENDS BudgetLedger, FiniteSetsExt, TLC
CONSTANTS s1, s2, s3, r1, r2, r3, pool

OnePool == [r \in Requests |-> pool]
TotalTwo == [p \in Pools |-> 2]
TotalThree == [p \in Pools |-> 3]
OneAmount == {1}
TwoAmounts == {1, 2}

Everything == AllOps
Locking == {"decide", "lock", "cancel"}
==============================================================================
