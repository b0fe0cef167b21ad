------------------------------- MODULE MC_Usage -------------------------------
(* A run explores three settings at once; mode says which and never changes. *)
(*   any     one month, an organisation that moves between a plan that       *)
(*           blocks and metered ones, settlements at any time                *)
(*   free    only plans that block, every cost row written, no settlement    *)
(*   monthly one metered plan, settled by the monthly batch alone            *)
EXTENDS OverageSettlement, TLC
CONSTANTS c1, c2, w1, w2
VARIABLE mode

Small == [quota |-> 1, metered |-> TRUE, cap |-> 0]
Team == [quota |-> 2, metered |-> TRUE, cap |-> 0]
Basic == [quota |-> 2, metered |-> FALSE, cap |-> 1]
Solo == [quota |-> 2, metered |-> FALSE, cap |-> 0]

AllPlans == {Small, Team, Basic, Solo}
SmallOnly == {Small}

(* Bounds of the settings any and monthly.                                   *)
SmallCalls == \A c \in Calls : call[c].est <= 1
NoOvershoot == \A c \in Calls : call[c].actual <= call[c].est
AtMost(n) == \A m \in Months : usage[m].used + usage[m].reserved <= n

LogWritten == \A c \in Calls : ~(At(c, "logging") /\ At(c, "releasing")')

(* What the batch settles is the month before, once it is closed.            *)
ByBatch == \A s \in Settlers :
    settler[s].pc = "idle" /\ settler'[s].pc = "sending" =>
        LET m == settler'[s].month IN Closed(m) /\ m = now - 1

ModeInit ==
    /\ Init
    /\ \/ mode = "any" /\ plan # Solo
       \/ mode = "free" /\ Blocks(plan)
       \/ mode = "monthly" /\ plan = Small

AnyNext == Next /\ now' = now /\ plan' # Solo /\ SmallCalls'
FreeNext == Next /\ Blocks(plan') /\ LogWritten /\ UNCHANGED settleVars
MonthlyNext ==
    Next /\ plan' = plan /\ LogWritten /\ ByBatch /\ SmallCalls' /\ NoOvershoot' /\ AtMost(3)'

ModeNext ==
    /\ UNCHANGED mode
    /\ \/ mode = "any" /\ AnyNext
       \/ mode = "free" /\ FreeNext
       \/ mode = "monthly" /\ MonthlyNext

ModeSpec == ModeInit /\ [][ModeNext]_<<mode, vars>>

(* ReservedCoversCalls of UsageQuota, where every cost row can be written.  *)
FreeReservedCovers == mode = "free" => ReservedCoversCalls

(* OverrunBounded of UsageQuota, on plans that block.                       *)
FreeOverrunBounded == mode = "free" => OverrunBounded

(* CreditIsCharged of OverageSettlement, for closed months.                 *)
MonthlyCreditIsCharged == mode = "monthly" => CreditIsCharged

Symmetry == Permutations(Calls)
=============================================================================
