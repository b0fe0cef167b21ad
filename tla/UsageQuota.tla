------------------------------ MODULE UsageQuota ------------------------------
(***************************************************************************)
(* The LLM calls of one organisation and its monthly usage rows.  A call   *)
(* is checked against the plan, reserves its estimate, asks the provider   *)
(* and commits what was used, or releases the reservation when anything    *)
(* raises.  Check, reserve, commit, log and release are statements and     *)
(* transactions of their own, between which other calls, the turn of the   *)
(* month, a change of plan and crashes come.                               *)
(***************************************************************************)
EXTENDS Integers, FiniteSets, Functions, FiniteSetsExt

CONSTANTS
    Calls,     \* calls of call_llm that may be in progress at once
    LastMonth, \* bound on the months that pass
    Plans,     \* plans the organisation may be on
    Estimates, \* what a call may be estimated at
    Overshoot, \* how far the provider's count may exceed the estimate
    MaxUsed,   \* bound on the tokens a month has used and reserved when a call starts
    Ops,       \* the faults and events exercised by a run
    None       \* no limit, no call

Months == 1..LastMonth

(* quota None is an unlimited plan or no subscription, cap 0 no per-call   *)
(* limit; a metered plan pays for its overage instead of being blocked.    *)
PlanType == [quota : Nat \cup {None}, metered : BOOLEAN, cap : Nat]
CallEvents == {"switch", "midnight", "log_failure", "crash"}

ASSUME UsageConstants ==
    /\ None \notin Calls \cup Nat
    /\ LastMonth \in Nat \ {0} /\ Overshoot \in Nat /\ MaxUsed \in Nat
    /\ Plans \subseteq PlanType /\ Estimates \subseteq Nat
    /\ IsFiniteSet(Calls) /\ IsFiniteSet(Plans) /\ IsFiniteSet(Estimates)
    /\ Calls # {} /\ Estimates # {}

VARIABLES
    now,    \* the current month
    plan,   \* plan of the active subscription
    usage,  \* the UsageMonthly row of each month
    holder, \* the call whose transaction has locked that row
    call    \* where each call is and what it has in hand

callVars == <<now, plan, usage, holder, call>>

Steps == {"idle", "checked", "calling", "answered", "committing", "logging",
          "releasing"}
Usage == [used : Nat, reserved : Int, overage : Nat]
Call == [pc : Steps, month : Months, est : Nat, actual : Nat,
         quota : Nat \cup {None}, before : Nat]
NoCall == [pc |-> "idle", month |-> 1, est |-> 0, actual |-> 0, quota |-> None,
           before |-> 0]

CallTypeOK ==
    /\ now \in Months
    /\ plan \in PlanType
    /\ usage \in [Months -> Usage]
    /\ holder \in [Months -> Calls \cup {None}]
    /\ call \in [Calls -> Call]

CallInit ==
    /\ now = 1
    /\ plan \in Plans
    /\ usage = [m \in Months |-> [used |-> 0, reserved |-> 0, overage |-> 0]]
    /\ holder = [m \in Months |-> None]
    /\ call = [c \in Calls |-> NoCall]
-----------------------------------------------------------------------------
At(c, step) == call[c].pc = step
Blocks(p) == p.quota # None /\ ~p.metered
Free(m) == holder[m] = None
Over(n, limit) == IF n > limit THEN n - limit ELSE 0
Larger(x, y) == IF x > y THEN x ELSE y

(* The transaction of c, if it has one, ends and gives its row back.       *)
Unlocked(c) == [m \in Months |-> IF holder[m] = c THEN None ELSE holder[m]]

Goto(c, step) == call' = [call EXCEPT ![c].pc = step]

(* Mutant: room is left, whatever the call may need.                       *)
Admits_AnyRoom(p, row, est) == Blocks(p) => row.used + row.reserved < p.quota

(* What the row shows to a check, reservations of running calls included.  *)
Admits(p, row, est) == Blocks(p) => row.used + row.reserved + est <= p.quota

(* The bound of a run: a month this full, or whose reservations log        *)
(* failures made negative, takes no new call.                              *)
InBound(row) == row.reserved >= 0 /\ row.used + row.reserved < MaxUsed

(* check_quota_or_402: refused calls raise and leave nothing behind.       *)
Check(c, est) ==
    /\ At(c, "idle")
    /\ InBound(usage[now])
    /\ plan.cap # 0 => est <= plan.cap
    /\ Admits(plan, usage[now], est)
    /\ call' = [call EXCEPT ![c] = [NoCall EXCEPT !.pc = "checked", !.est = est]]
    /\ UNCHANGED <<now, plan, usage, holder>>

(* reserve_quota: one UPDATE, in the month that is current by then.        *)
Reserve(c) ==
    /\ At(c, "checked") /\ Free(now)
    /\ usage' = [usage EXCEPT ![now].reserved = @ + call[c].est]
    /\ call' = [call EXCEPT ![c].pc = "calling", ![c].month = now]
    /\ UNCHANGED <<now, plan, holder>>

(* The provider's count arrives and commit_quota reads the plan's quota.   *)
Answer(c, actual) ==
    /\ At(c, "calling")
    /\ call' = [call EXCEPT ![c].pc = "answered", ![c].actual = actual,
                            ![c].quota = plan.quota]
    /\ UNCHANGED <<now, plan, usage, holder>>

(* Mutant: a plain read instead of select_for_update.                      *)
CommitLock_NoLock(c) ==
    /\ At(c, "answered")
    /\ call' = [call EXCEPT ![c].pc = "committing",
                            ![c].before = usage[call[c].month].used]
    /\ UNCHANGED <<now, plan, usage, holder>>

CommitLock(c) ==
    LET m == call[c].month IN
    /\ At(c, "answered") /\ Free(m)
    /\ holder' = [holder EXCEPT ![m] = c]
    /\ call' = [call EXCEPT ![c].pc = "committing", ![c].before = usage[m].used]
    /\ UNCHANGED <<now, plan, usage>>

(* Mutant: the max(0, ...) is left out.                                    *)
OverageDelta_NoFloor(before, actual, quota) ==
    IF quota = None THEN 0 ELSE before + actual - Larger(before, quota)

(* The part of this commit that lies beyond the quota.                     *)
OverageDelta(before, actual, quota) ==
    IF quota = None THEN 0 ELSE Over(before + actual, Larger(before, quota))

CommitSave(c) ==
    LET me == call[c] m == call[c].month IN
    /\ At(c, "committing")
    /\ usage' = [usage EXCEPT ![m] =
           [used |-> @.used + me.actual,
            reserved |-> @.reserved - me.est,
            overage |-> @.overage + OverageDelta(me.before, me.actual, me.quota)]]
    /\ holder' = Unlocked(c)
    /\ Goto(c, "logging")
    /\ UNCHANGED <<now, plan>>

(* The cost row is written; the call returns its text.                     *)
Log(c) ==
    /\ At(c, "logging")
    /\ call' = [call EXCEPT ![c] = NoCall]
    /\ UNCHANGED <<now, plan, usage, holder>>

(* The provider raises, or a statement of commit_quota does.               *)
Fail(c) ==
    /\ call[c].pc \in {"calling", "answered", "committing"}
    /\ holder' = Unlocked(c)
    /\ Goto(c, "releasing")
    /\ UNCHANGED <<now, plan, usage>>

(* The cost row is inserted in the same try: its failure also releases.    *)
LogFails(c) ==
    /\ "log_failure" \in Ops /\ At(c, "logging")
    /\ Goto(c, "releasing")
    /\ UNCHANGED <<now, plan, usage, holder>>

(* Mutant: the reservation is given back to the month that is current now. *)
Release_ThisMonth(c) ==
    /\ At(c, "releasing") /\ Free(now)
    /\ usage' = [usage EXCEPT ![now].reserved = @ - call[c].est]
    /\ call' = [call EXCEPT ![c] = NoCall]
    /\ UNCHANGED <<now, plan, holder>>

Release(c) ==
    /\ At(c, "releasing") /\ Free(call[c].month)
    /\ usage' = [usage EXCEPT ![call[c].month].reserved = @ - call[c].est]
    /\ call' = [call EXCEPT ![c] = NoCall]
    /\ UNCHANGED <<now, plan, holder>>

(* The worker dies: its transaction is rolled back, its reservation stays. *)
CrashCall(c) ==
    /\ "crash" \in Ops /\ ~At(c, "idle")
    /\ holder' = Unlocked(c)
    /\ call' = [call EXCEPT ![c] = NoCall]
    /\ UNCHANGED <<now, plan, usage>>

(* The subscription webhook stores another plan.                           *)
Switch(p) ==
    /\ "switch" \in Ops /\ p # plan
    /\ plan' = p
    /\ UNCHANGED <<now, usage, holder, call>>

NextMonth ==
    /\ "midnight" \in Ops /\ now < LastMonth
    /\ now' = now + 1
    /\ UNCHANGED <<plan, usage, holder, call>>

CallNext ==
    \/ \E c \in Calls :
         \/ \E est \in Estimates : Check(c, est)
         \/ \E actual \in 0..call[c].est + Overshoot : Answer(c, actual)
         \/ Reserve(c) \/ CommitLock(c) \/ CommitSave(c) \/ Log(c) \/ LogFails(c)
         \/ Fail(c) \/ Release(c) \/ CrashCall(c)
    \/ \E p \in Plans : Switch(p)
    \/ NextMonth

CallSpec == CallInit /\ [][CallNext]_callVars
-----------------------------------------------------------------------------
Limits == {p.quota : p \in Plans} \ {None}

(* However calls interleave, commit_quota has charged as overage each      *)
(* token beyond the quota exactly once ("select_for_update to prevent      *)
(* lost-update races"): with one plan overage is used minus quota, with a  *)
(* plan changed in mid-month it lies between what the smallest and what    *)
(* the largest of the limits would make of the tokens used.                *)
OverageWithin ==
    \A m \in Months, limit \in Limits :
        /\ (\A q \in Limits : limit <= q)
               => usage[m].overage <= Over(usage[m].used, limit)
        /\ (\A p \in Plans : p.quota # None /\ p.quota <= limit)
               => usage[m].overage >= Over(usage[m].used, limit)

Holding(m) ==
    {c \in Calls : /\ call[c].pc \in {"calling", "answered", "committing", "releasing"}
                   /\ call[c].month = m}

(* No call in flight is missing from the reservations of the month it was  *)
(* reserved in, whether or not midnight passed since (reserve_quota and    *)
(* its callers): a release or commit never takes another call's share.     *)
ReservedCoversCalls ==
    \A m \in Months :
        usage[m].reserved >= SumFunctionOnSet([c \in Calls |-> call[c].est], Holding(m))

(* On plans that block, check-then-reserve lets calls slip past each other *)
(* (call_llm), but by no more than one call per concurrent caller: no      *)
(* sequence of calls, months, failures and crashes uses more than the      *)
(* largest quota and what they may have slipped in.                        *)
BlockingQuotas == {p.quota : p \in {x \in Plans : Blocks(x)}}
OverrunBounded ==
    \A m \in Months :
        usage[m].used <= Max(BlockingQuotas) + (Cardinality(Calls) - 1) * Max(Estimates)
                         + Cardinality(Calls) * Overshoot
=============================================================================
