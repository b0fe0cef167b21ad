------------------------ MODULE OverageSettlement_proofs ------------------------
(***************************************************************************)
(* Proofs about the usage rows and their settlement, for any number of     *)
(* calls, months and plans.                                                *)
(***************************************************************************)
EXTENDS OverageSettlement, TLAPS

-----------------------------------------------------------------------------
(* The arithmetic of the quota and of the meter's units.                   *)

LEMMA RoundedUp ==
    ASSUME NEW d \in Nat
    PROVE  /\ WholeUnits(d) \in Nat
           /\ d <= WholeUnits(d)
           /\ WholeUnits(d) < d + Unit
<1>1. Unit \in Nat \ {0}
  BY SettlementConstants
<1>2. PICK q \in Nat : q = (d + Unit - 1) \div Unit
  BY <1>1, SMT
<1>3. /\ Unit * q <= d + Unit - 1
      /\ d + Unit - 1 < Unit * q + Unit
  BY <1>1, <1>2, SMT
<1> QED
  BY <1>1, <1>2, <1>3 DEF WholeUnits

(* One commit adds to the overage what lies beyond its quota.              *)
LEMMA DeltaBounds ==
    ASSUME NEW before \in Nat, NEW actual \in Nat, NEW quota \in Nat \cup {None},
           NEW overage \in Nat, NEW limit \in Nat
    PROVE  /\ OverageDelta(before, actual, quota) \in Nat
           /\ /\ overage <= Over(before, limit)
              /\ quota = None \/ limit <= quota
              => overage + OverageDelta(before, actual, quota) <= Over(before + actual, limit)
           /\ /\ overage >= Over(before, limit)
              /\ quota # None /\ quota <= limit
              => overage + OverageDelta(before, actual, quota) >= Over(before + actual, limit)
<1>1. None \notin Nat
  BY UsageConstants
<1>2. CASE quota = None
  BY <1>1, <1>2 DEF OverageDelta, Over
<1>3. CASE quota \in Nat
  BY <1>1, <1>3 DEF OverageDelta, Over, Larger
<1> QED
  BY <1>2, <1>3
-----------------------------------------------------------------------------
(* Types.                                                                  *)

(* Besides the types: the plan and every quota in hand are of Plans, and a *)
(* transaction between its read and its update holds the row it read.      *)
Committing(c) ==
    At(c, "committing") => /\ holder[call[c].month] = c
                           /\ call[c].before = usage[call[c].month].used

QuotaInHand(c) ==
    call[c].pc \in {"answered", "committing"} => call[c].quota \in {p.quota : p \in Plans}

CallInv ==
    /\ CallTypeOK
    /\ plan \in Plans
    /\ \A c \in Calls : Committing(c) /\ QuotaInHand(c)

LEMMA IdleTyped == 1 \in Months /\ NoCall \in Call
  BY UsageConstants DEF Months, NoCall, Call, Steps

LEMMA CallInit_Inv ==
    ASSUME CallInit
    PROVE  CallInv
<1>1. CallTypeOK
  BY UsageConstants, IdleTyped DEF CallInit, CallTypeOK, Usage, PlanType
<1>2. \A c \in Calls : Committing(c) /\ QuotaInHand(c)
  BY DEF CallInit, NoCall, Committing, QuotaInHand, At
<1> QED
  BY <1>1, <1>2 DEF CallInv, CallInit

(* A step of one call that leaves the rows alone.                          *)
LEMMA QuietStep ==
    ASSUME CallInv, NEW c \in Calls, NEW v \in Call,
           call' = [call EXCEPT ![c] = v],
           v.pc # "committing",
           v.pc = "answered" => v.quota \in {p.quota : p \in Plans},
           UNCHANGED <<now, plan, usage>>,
           holder' = holder \/ holder' = Unlocked(c)
    PROVE  CallInv'
<1>1. CallTypeOK'
  BY DEF CallInv, CallTypeOK, Unlocked
<1>2. ASSUME NEW x \in Calls
      PROVE  (Committing(x) /\ QuotaInHand(x))'
  <2>1. CASE x = c
    BY <2>1 DEF CallInv, CallTypeOK, Committing, QuotaInHand, At
  <2>2. CASE x # c
    <3>1. call'[x] = call[x]
      BY <2>2 DEF CallInv, CallTypeOK
    <3>2. holder[call[x].month] = x => holder'[call[x].month] = x
      BY <2>2 DEF CallInv, CallTypeOK, Unlocked, Call
    <3> QED
      BY <3>1, <3>2 DEF CallInv, Committing, QuotaInHand, At
  <2> QED
    BY <2>1, <2>2
<1> QED
  BY <1>1, <1>2 DEF CallInv

(* A step of one call that changes no row's used tokens, outside any       *)
(* transaction of its own.                                                 *)
LEMMA ReservingStep ==
    ASSUME CallInv, NEW c \in Calls, NEW v \in Call, NEW m \in Months, NEW n \in Int,
           call' = [call EXCEPT ![c] = v],
           v.pc # "committing",
           v.pc = "answered" => v.quota \in {p.quota : p \in Plans},
           usage' = [usage EXCEPT ![m].reserved = n],
           UNCHANGED <<now, plan, holder>>
    PROVE  CallInv'
<1>1. CallTypeOK'
  BY DEF CallInv, CallTypeOK, Usage
<1>2. \A k \in Months : usage'[k].used = usage[k].used
  BY DEF CallInv, CallTypeOK, Usage
<1>3. ASSUME NEW x \in Calls
      PROVE  (Committing(x) /\ QuotaInHand(x))'
  <2>1. CASE x = c
    BY <2>1 DEF CallInv, CallTypeOK, Committing, QuotaInHand, At
  <2>2. CASE x # c
    BY <1>2, <2>2 DEF CallInv, CallTypeOK, Committing, QuotaInHand, At, Call
  <2> QED
    BY <2>1, <2>2
<1> QED
  BY <1>1, <1>3 DEF CallInv

LEMMA LockStep ==
    ASSUME CallInv, NEW c \in Calls, CommitLock(c)
    PROVE  CallInv'
<1> DEFINE m == call[c].month
           v == [call[c] EXCEPT !.pc = "committing", !.before = usage[m].used]
<1>1. m \in Months /\ holder[m] = None /\ None \notin Calls
  BY UsageConstants DEF CallInv, CallTypeOK, Call, CommitLock, Free
<1>2. v \in Call /\ call' = [call EXCEPT ![c] = v]
  <2>1. call[c] \in Call /\ usage[m].used \in Nat
    BY <1>1 DEF CallInv, CallTypeOK, Usage
  <2>2. v \in Call
    BY <2>1 DEF Call, Steps
  <2> QED
    BY <2>1, <2>2 DEF CommitLock, Call
<1>3. CallTypeOK'
  BY <1>1, <1>2 DEF CallInv, CallTypeOK, CommitLock
<1>4. ASSUME NEW x \in Calls
      PROVE  (Committing(x) /\ QuotaInHand(x))'
  <2>1. CASE x = c
    BY <1>1, <1>2, <2>1 DEF CallInv, CallTypeOK, CommitLock, Committing, QuotaInHand, At
  <2>2. CASE x # c
    <3>1. call'[x] = call[x] /\ call[x].month \in Months
      BY <1>2, <2>2 DEF CallInv, CallTypeOK, Call
    <3>2. holder[call[x].month] = x => holder'[call[x].month] = x
      BY <1>1, <3>1 DEF CallInv, CallTypeOK, CommitLock
    <3> QED
      BY <3>1, <3>2 DEF CallInv, CommitLock, Committing, QuotaInHand, At
  <2> QED
    BY <2>1, <2>2
<1> QED
  BY <1>3, <1>4 DEF CallInv, CommitLock

(* The transaction's update: the row still holds what was read under the   *)
(* lock, so each bound on the overage moves with the tokens used.          *)
LEMMA SaveStep ==
    ASSUME CallInv, NEW c \in Calls, CommitSave(c)
    PROVE  /\ CallInv'
           /\ \A m \in Months : usage'[m].overage >= usage[m].overage
           /\ OverageWithin => OverageWithin'
<1> DEFINE m == call[c].month
           delta == OverageDelta(usage[m].used, call[c].actual, call[c].quota)
           v == [call[c] EXCEPT !.pc = "logging"]
<1>1. /\ m \in Months /\ usage[m] \in Usage /\ call[c] \in Call
      /\ holder[m] = c /\ call[c].before = usage[m].used
      /\ call[c].quota \in {p.quota : p \in Plans}
      /\ call[c].quota \in Limits \cup {None}
  BY DEF At, CallInv, CallTypeOK, Call, CommitSave, Committing, QuotaInHand, Limits
<1>2. usage[m].used \in Nat /\ usage[m].overage \in Nat /\ call[c].actual \in Nat
      /\ usage[m].reserved \in Int /\ call[c].est \in Nat
  BY <1>1 DEF Usage, Call
<1>3. Limits \subseteq Nat
  BY UsageConstants DEF Limits, PlanType
<1>4. delta \in Nat
  BY <1>1, <1>2, <1>3, DeltaBounds
<1>5. usage' = [usage EXCEPT ![m] = [used |-> usage[m].used + call[c].actual,
                                     reserved |-> usage[m].reserved - call[c].est,
                                     overage |-> usage[m].overage + delta]]
  BY <1>1 DEF CommitSave
<1>6. v \in Call /\ call' = [call EXCEPT ![c] = v]
  BY <1>1 DEF CommitSave, Goto, Call, Steps
<1>7. CallTypeOK'
  <2> HIDE DEF delta, v
  <2> QED
    BY <1>1, <1>2, <1>4, <1>5, <1>6 DEF CallInv, CallTypeOK, Usage, CommitSave, Unlocked
<1>8. ASSUME NEW x \in Calls
      PROVE  (Committing(x) /\ QuotaInHand(x))'
  <2>1. CASE x = c
    BY <1>1, <1>6, <2>1 DEF CallInv, CallTypeOK, Committing, QuotaInHand, At, Limits
  <2>2. CASE x # c
    <3>1. call'[x] = call[x] /\ call[x].month \in Months
      BY <1>6, <2>2 DEF CallInv, CallTypeOK, Call
    <3>2. At(x, "committing") => holder[call[x].month] = x /\ call[x].month # m
      BY <1>1, <2>2 DEF CallInv, Committing
    <3>3. At(x, "committing") => /\ holder'[call[x].month] = x
                                 /\ usage'[call[x].month] = usage[call[x].month]
      BY <1>5, <2>2, <3>1, <3>2 DEF CallInv, CallTypeOK, CommitSave, Unlocked
    <3> QED
      BY <3>1, <3>3 DEF CallInv, Committing, QuotaInHand, At
  <2> QED
    BY <2>1, <2>2
<1>9. \A k \in Months : usage'[k].overage >= usage[k].overage
  BY <1>2, <1>4, <1>5 DEF CallInv, CallTypeOK, Usage
<1>10. ASSUME OverageWithin
       PROVE  OverageWithin'
  <2> SUFFICES ASSUME NEW k \in Months, NEW limit \in Limits
               PROVE  /\ (\A q \in Limits : limit <= q)
                             => usage'[k].overage <= Over(usage'[k].used, limit)
                      /\ (\A p \in Plans : p.quota # None /\ p.quota <= limit)
                             => usage'[k].overage >= Over(usage'[k].used, limit)
    BY DEF OverageWithin
  <2>1. CASE k # m
    BY <1>5, <1>10, <2>1 DEF OverageWithin, CallInv, CallTypeOK
  <2>2. CASE k = m
    <3>1. /\ usage'[k].used = usage[m].used + call[c].actual
          /\ usage'[k].overage = usage[m].overage + delta
      BY <1>1, <1>5, <2>2 DEF CallInv, CallTypeOK
    <3>2. limit \in Nat
      BY <1>3
    <3> HIDE DEF delta
    <3>3. ASSUME \A q \in Limits : limit <= q
          PROVE  usage'[k].overage <= Over(usage'[k].used, limit)
      <4>1. usage[m].overage <= Over(usage[m].used, limit)
        BY <1>1, <1>10, <3>3 DEF OverageWithin
      <4>2. call[c].quota = None \/ limit <= call[c].quota
        BY <1>1, <3>3
      <4>3. usage[m].overage + delta <= Over(usage[m].used + call[c].actual, limit)
        BY <1>1, <1>2, <1>3, <3>2, <4>1, <4>2, DeltaBounds DEF delta
      <4> QED
        BY <3>1, <4>3
    <3>4. ASSUME \A p \in Plans : p.quota # None /\ p.quota <= limit
          PROVE  usage'[k].overage >= Over(usage'[k].used, limit)
      <4>1. usage[m].overage >= Over(usage[m].used, limit)
        BY <1>1, <1>10, <3>4 DEF OverageWithin
      <4>2. call[c].quota # None /\ call[c].quota <= limit
        BY <1>1, <3>4
      <4>3. usage[m].overage + delta >= Over(usage[m].used + call[c].actual, limit)
        BY <1>1, <1>2, <1>3, <3>2, <4>1, <4>2, DeltaBounds DEF delta
      <4> QED
        BY <3>1, <4>3
    <3> QED
      BY <3>3, <3>4
  <2> QED
    BY <2>1, <2>2
<1> QED
  BY <1>7, <1>8, <1>9, <1>10 DEF CallInv, CommitSave

(* What every step of the calls keeps, and what the settlements rely on:   *)
(* the overage of a month never shrinks.                                   *)
OverageGrows == \A m \in Months : usage'[m].overage >= usage[m].overage

(* Steps that write neither the used nor the overage tokens of a row.      *)
LEMMA SameTokens ==
    ASSUME CallInv,
           \A m \in Months : /\ usage'[m].used = usage[m].used
                             /\ usage'[m].overage = usage[m].overage
    PROVE  OverageGrows /\ (OverageWithin => OverageWithin')
  BY DEF CallInv, CallTypeOK, Usage, OverageGrows, OverageWithin

LEMMA CallStep ==
    ASSUME CallInv, CallNext
    PROVE  CallInv' /\ OverageGrows /\ (OverageWithin => OverageWithin')
<1>1. ASSUME NEW c \in Calls, NEW est \in Estimates, Check(c, est)
      PROVE  CallInv' /\ UNCHANGED usage
  <2> DEFINE v == [NoCall EXCEPT !.pc = "checked", !.est = est]
  <2>1. v \in Call /\ v.pc = "checked"
    BY UsageConstants, IdleTyped DEF Call, Steps, NoCall
  <2>2. call' = [call EXCEPT ![c] = v] /\ UNCHANGED <<now, plan, usage, holder>>
    BY <1>1 DEF Check
  <2> HIDE DEF v
  <2> QED
    BY <2>1, <2>2, QuietStep
<1>2. ASSUME NEW c \in Calls, Reserve(c)
      PROVE  CallInv' /\ OverageGrows /\ (OverageWithin => OverageWithin')
  <2> DEFINE v == [call[c] EXCEPT !.pc = "calling", !.month = now]
             n == usage[now].reserved + call[c].est
  <2>0. now \in Months /\ call[c] \in Call /\ usage[now] \in Usage
    BY DEF CallInv, CallTypeOK
  <2>1. v \in Call /\ v.pc = "calling" /\ n \in Int /\ now \in Months
    <3>1. v \in Call
      BY <2>0 DEF Call, Steps
    <3>2. v.pc = "calling"
      BY <2>0 DEF Call
    <3> QED
      BY <2>0, <3>1, <3>2 DEF Call, Usage
  <2>2. /\ call' = [call EXCEPT ![c] = v]
        /\ usage' = [usage EXCEPT ![now].reserved = n]
        /\ UNCHANGED <<now, plan, holder>>
    BY <1>2 DEF Reserve, CallInv, CallTypeOK, Call
  <2> HIDE DEF v, n
  <2>3. CallInv'
    BY <2>1, <2>2, ReservingStep
  <2> QED
    BY <2>1, <2>2, <2>3, SameTokens DEF CallInv, CallTypeOK, Usage
<1>3. ASSUME NEW c \in Calls, NEW actual \in 0..call[c].est + Overshoot, Answer(c, actual)
      PROVE  CallInv' /\ UNCHANGED usage
  <2> DEFINE v == [call[c] EXCEPT !.pc = "answered", !.actual = actual, !.quota = plan.quota]
  <2>0. /\ call[c] \in Call /\ call[c].est + Overshoot \in Nat
        /\ plan.quota \in Nat \cup {None} /\ plan.quota \in {p.quota : p \in Plans}
    BY UsageConstants DEF CallInv, CallTypeOK, Call, PlanType
  <2>a. actual \in Nat
    BY <2>0
  <2>1. v \in Call /\ v.pc = "answered" /\ v.quota \in {p.quota : p \in Plans}
    <3>1. v \in Call
      BY <2>0, <2>a DEF Call, Steps
    <3> QED
      BY <2>0, <3>1 DEF Call
  <2>2. call' = [call EXCEPT ![c] = v] /\ UNCHANGED <<now, plan, usage, holder>>
    BY <1>3 DEF Answer, CallInv, CallTypeOK, Call
  <2> HIDE DEF v
  <2> QED
    BY <2>1, <2>2, QuietStep
<1>4. ASSUME NEW c \in Calls, CommitLock(c)
      PROVE  CallInv' /\ UNCHANGED usage
  BY <1>4, LockStep DEF CommitLock
<1>5. ASSUME NEW c \in Calls, CommitSave(c)
      PROVE  CallInv' /\ OverageGrows /\ (OverageWithin => OverageWithin')
  BY <1>5, SaveStep DEF OverageGrows
<1>6. ASSUME NEW c \in Calls, Log(c) \/ CrashCall(c)
      PROVE  CallInv' /\ UNCHANGED usage
  <2>1. NoCall \in Call /\ NoCall.pc = "idle"
    BY IdleTyped DEF NoCall
  <2> QED
    BY <1>6, <2>1, QuietStep DEF Log, CrashCall
<1>7. ASSUME NEW c \in Calls, Fail(c) \/ LogFails(c)
      PROVE  CallInv' /\ UNCHANGED usage
  <2> DEFINE v == [call[c] EXCEPT !.pc = "releasing"]
  <2>1. v \in Call /\ v.pc = "releasing"
    <3>1. call[c] \in Call
      BY DEF CallInv, CallTypeOK
    <3> QED
      BY <3>1 DEF Call, Steps
  <2>2. call' = [call EXCEPT ![c] = v] /\ UNCHANGED <<now, plan, usage>>
        /\ (holder' = holder \/ holder' = Unlocked(c))
    BY <1>7 DEF Fail, LogFails, Goto
  <2> HIDE DEF v
  <2> QED
    BY <2>1, <2>2, QuietStep
<1>8. ASSUME NEW c \in Calls, Release(c)
      PROVE  CallInv' /\ OverageGrows /\ (OverageWithin => OverageWithin')
  <2> DEFINE m == call[c].month
             n == usage[m].reserved - call[c].est
  <2>1. NoCall \in Call /\ NoCall.pc = "idle"
    BY IdleTyped DEF NoCall
  <2>2. m \in Months /\ n \in Int
    BY DEF CallInv, CallTypeOK, Call, Usage
  <2>3. /\ call' = [call EXCEPT ![c] = NoCall]
        /\ usage' = [usage EXCEPT ![m].reserved = n]
        /\ UNCHANGED <<now, plan, holder>>
    BY <1>8 DEF Release
  <2> HIDE DEF m, n
  <2>4. CallInv'
    BY <2>1, <2>2, <2>3, ReservingStep
  <2> QED
    BY <2>2, <2>3, <2>4, SameTokens DEF CallInv, CallTypeOK, Usage
<1>9. ASSUME NEW p \in Plans, Switch(p)
      PROVE  CallInv' /\ UNCHANGED usage
  BY <1>9, UsageConstants DEF CallInv, CallTypeOK, Switch, Committing, QuotaInHand, At
<1>10. ASSUME NextMonth
       PROVE  CallInv' /\ UNCHANGED usage
  BY <1>10, UsageConstants DEF Months, CallInv, CallTypeOK, NextMonth, Committing, QuotaInHand, At
<1>11. UNCHANGED usage => OverageGrows /\ (OverageWithin => OverageWithin')
  BY SameTokens
<1> QED
  BY <1>1, <1>2, <1>3, <1>4, <1>5, <1>6, <1>7, <1>8, <1>9, <1>10, <1>11 DEF CallNext

(* The Stripe side leaves the rows' token columns alone.                   *)
LEMMA CallsUntouched ==
    ASSUME CallInv, UNCHANGED callVars
    PROVE  CallInv' /\ OverageGrows /\ (OverageWithin => OverageWithin')
<1>1. CallInv'
  BY DEF CallInv, CallTypeOK, Committing, QuotaInHand, At, callVars
<1> QED
  BY <1>1, SameTokens DEF callVars

(* OverageWithin holds in every reachable state: overage is charged once   *)
(* for each token beyond the quota, whatever calls, plan changes, months,  *)
(* failures, crashes and settlements come between.                         *)
THEOREM OverageCounted == Spec => []OverageWithin
<1>1. Init => CallInv /\ OverageWithin
  <2>1. Init => OverageWithin
    BY UsageConstants DEF Init, CallInit, OverageWithin, Limits, Over, PlanType
  <2> QED
    BY <2>1, CallInit_Inv DEF Init
<1>2. CallInv /\ OverageWithin /\ [Next]_vars => (CallInv /\ OverageWithin)'
  BY CallStep, CallsUntouched DEF Next, vars, callVars
<1> QED
  BY <1>1, <1>2, PTL DEF Spec
-----------------------------------------------------------------------------
(* Settlements, one at a time.                                             *)

LEMMA RoundedMonotone ==
    ASSUME NEW d \in Nat, NEW e \in Nat, d <= e
    PROVE  WholeUnits(d) <= WholeUnits(e)
<1>1. Unit \in Nat \ {0}
  BY SettlementConstants
<1>2. PICK q \in Nat, r \in Nat : q = (d + Unit - 1) \div Unit /\ r = (e + Unit - 1) \div Unit
  BY <1>1, SMT
<1>3. Unit * q <= d + Unit - 1 /\ e + Unit - 1 < Unit * r + Unit
  BY <1>1, <1>2, SMT
<1>4. Unit * q < Unit * (r + 1)
  BY <1>1, <1>2, <1>3, SMT
<1>5. q <= r
  BY <1>1, <1>2, <1>4, SMT
<1>6. Unit * q <= Unit * r
  BY <1>1, <1>2, <1>5, SMT
<1> QED
  BY <1>2, <1>6 DEF WholeUnits

(* The tokens from base to upto are whole units, the last of which begins  *)
(* within the overage of the month.                                        *)
Bills(m, base, upto) ==
    \E d \in Nat \ {0} : upto = base + WholeUnits(d) /\ base + d <= usage[m].overage

SettleTypeOK ==
    /\ reported \in [Months -> Nat]
    /\ meter \subseteq Events
    /\ settler \in [Settlers -> Settler]

Busy(s) == settler[s].pc # "idle"

(* What a settlement has in hand still starts from the credit in the row.  *)
Underway(s) ==
    Busy(s) => /\ settler[s].base = reported[settler[s].month]
               /\ Bills(settler[s].month, settler[s].base, settler[s].upto)

(* An event is credited already, or is what the next credit starts with.   *)
Placed(e) ==
    \/ e.upto <= reported[e.month]
    \/ /\ e.base = reported[e.month]
       /\ \A s \in Settlers :
              Busy(s) /\ settler[s].month = e.month => e.upto <= settler[s].upto

SettleInv ==
    /\ SettleTypeOK
    /\ \A s \in Settlers : Underway(s)
    /\ \A e \in meter : Bills(e.month, e.base, e.upto) /\ Placed(e)
    /\ \A e, f \in meter :
           e.month = f.month /\ e # f => e.upto <= f.base \/ f.upto <= e.base

LEMMA BillBounds ==
    ASSUME CallInv, NEW m \in Months, NEW base \in Nat, NEW upto \in Nat,
           Bills(m, base, upto)
    PROVE  base < upto /\ upto < usage[m].overage + Unit
<1>1. PICK d \in Nat \ {0} : upto = base + WholeUnits(d) /\ base + d <= usage[m].overage
  BY DEF Bills
<1>2. usage[m].overage \in Nat /\ Unit \in Nat
  BY SettlementConstants DEF CallInv, CallTypeOK, Usage
<1> QED
  BY <1>1, <1>2, RoundedUp

(* A growing overage keeps every bill.                                     *)
LEMMA BillsKept ==
    ASSUME CallInv, CallInv', OverageGrows, NEW m \in Months, NEW base \in Nat,
           NEW upto \in Nat, Bills(m, base, upto)
    PROVE  \E d \in Nat \ {0} : upto = base + WholeUnits(d) /\ base + d <= usage'[m].overage
<1>1. PICK d \in Nat \ {0} : upto = base + WholeUnits(d) /\ base + d <= usage[m].overage
  BY DEF Bills
<1>2. usage[m].overage \in Nat /\ usage'[m].overage \in Nat
      /\ usage'[m].overage >= usage[m].overage
  BY DEF CallInv, CallTypeOK, Usage, OverageGrows
<1>3. base + d <= usage'[m].overage
  BY <1>1, <1>2
<1> QED
  BY <1>1, <1>3

LEMMA SettleKeptByCalls ==
    ASSUME CallInv, CallInv', OverageGrows, SettleInv, UNCHANGED settleVars
    PROVE  SettleInv'
<1>1. ASSUME NEW s \in Settlers
      PROVE  Underway(s)'
  <2>1. settler[s] \in Settler
    BY DEF SettleInv, SettleTypeOK
  <2> QED
    BY <2>1, BillsKept DEF SettleInv, Underway, Bills, Busy, Settler, settleVars
<1>2. ASSUME NEW e \in meter
      PROVE  Bills(e.month, e.base, e.upto)'
  <2>1. e \in Events
    BY DEF SettleInv, SettleTypeOK
  <2> QED
    BY <2>1, BillsKept DEF SettleInv, Bills, Events
<1> QED
  BY <1>1, <1>2 DEF SettleInv, SettleTypeOK, Placed, Busy, settleVars

Alone == \A s, t \in Settlers : s = t

LEMMA SettleStarts ==
    ASSUME Alone, CallInv, SettleInv, NEW s \in Settlers, NEW m \in Months,
           Settle(s, m), UNCHANGED callVars
    PROVE  SettleInv'
<1> DEFINE d == usage[m].overage - reported[m]
           upto == reported[m] + WholeUnits(d)
           v == [pc |-> "sending", month |-> m, base |-> reported[m], upto |-> upto]
<1>1. usage[m].overage \in Nat /\ reported[m] \in Nat /\ d \in Nat \ {0}
  BY DEF CallInv, CallTypeOK, Usage, SettleInv, SettleTypeOK, Settle
<1>2. WholeUnits(d) \in Nat /\ upto \in Nat
  BY <1>1, RoundedUp
<1>3. settler' = [settler EXCEPT ![s] = v] /\ UNCHANGED <<reported, meter, usage>>
  BY DEF Settle, callVars
<1>4. v \in Settler /\ Settlers = {s}
  BY <1>1, <1>2 DEF Settler, Alone
<1>5. SettleTypeOK'
  BY <1>3, <1>4 DEF SettleInv, SettleTypeOK
<1>6. settler'[s] = v
  BY <1>3 DEF SettleInv, SettleTypeOK
<1>7. Underway(s)'
  <2>1. reported[m] + d <= usage[m].overage
    BY <1>1
  <2>2. upto = reported[m] + WholeUnits(d)
    OBVIOUS
  <2> HIDE DEF d, upto
  <2> QED
    BY <1>1, <1>3, <1>6, <2>1, <2>2 DEF Underway, Bills
<1>8. ASSUME NEW e \in meter
      PROVE  Placed(e)'
  <2>1. e \in Events /\ Bills(e.month, e.base, e.upto) /\ Placed(e)
    BY DEF SettleInv, SettleTypeOK
  <2>2. CASE e.upto <= reported[e.month]
    BY <1>3, <2>2 DEF Placed
  <2>3. CASE e.base = reported[e.month] /\ e.month = m
    <3>1. PICK k \in Nat \ {0} : /\ e.upto = e.base + WholeUnits(k)
                                 /\ e.base + k <= usage[m].overage
      BY <2>1, <2>3 DEF Bills
    <3>2. k \in Nat /\ k <= d
      BY <1>1, <2>3, <3>1
    <3>3. WholeUnits(k) <= WholeUnits(d) /\ WholeUnits(k) \in Nat
      BY <1>1, <3>2, RoundedMonotone, RoundedUp
    <3>4. e.upto <= upto
      BY <1>1, <1>2, <2>3, <3>1, <3>3
    <3> QED
      BY <1>3, <1>4, <1>6, <2>3, <3>4 DEF Placed
  <2>4. CASE e.base = reported[e.month] /\ e.month # m
    BY <1>3, <1>4, <1>6, <2>4 DEF Placed
  <2> QED
    BY <2>1, <2>2, <2>3, <2>4 DEF Placed
<1> QED
  BY <1>3, <1>4, <1>5, <1>7, <1>8 DEF SettleInv, Bills

(* An event of another month or of an earlier credit ends before this one  *)
(* starts; an event with the same identifier keeps this one out.           *)
LEMMA EventAdded ==
    ASSUME Alone, CallInv, SettleInv, NEW s \in Settlers, settler[s].pc = "sending",
           meter' \in {meter, Accepted(s)}, UNCHANGED <<callVars, reported>>,
           NEW pc \in {"idle", "sending", "marking"},
           settler' = IF pc = "idle" THEN [settler EXCEPT ![s] = NoSettler]
                      ELSE [settler EXCEPT ![s].pc = pc]
    PROVE  SettleInv'
<1> DEFINE me == settler[s]
           new == [month |-> me.month, base |-> me.base, upto |-> me.upto]
<1>1. /\ me \in Settler /\ new \in Events /\ Settlers = {s} /\ NoSettler \in Settler
      /\ me.base = reported[me.month] /\ Bills(me.month, me.base, me.upto)
  BY IdleTyped DEF SettleInv, SettleTypeOK, Settler, Events, Underway, Busy, Alone, NoSettler
<1>2. /\ settler' \in [Settlers -> Settler]
      /\ Busy(s)' => /\ settler'[s].month = me.month
                     /\ settler'[s].base = me.base
                     /\ settler'[s].upto = me.upto
  BY <1>1 DEF SettleInv, SettleTypeOK, Settler, NoSettler, Busy
<1>3. /\ meter' \subseteq meter \cup {new}
      /\ new \in meter' \ meter
            => \A e \in meter : ~(e.month = me.month /\ e.base = me.base)
  BY DEF Accepted, SameIdentifier
<1>4. SettleTypeOK'
  BY <1>1, <1>2, <1>3 DEF SettleInv, SettleTypeOK
<1>5. \A t \in Settlers : Underway(t)'
  BY <1>1, <1>2 DEF Underway, Bills, callVars, SettleInv, Busy
<1>6. ASSUME NEW e \in meter'
      PROVE  (Bills(e.month, e.base, e.upto) /\ Placed(e))'
  <2>1. CASE e \in meter
    BY <1>1, <1>2, <2>1 DEF SettleInv, Bills, Placed, callVars, Busy
  <2>2. CASE e = new
    BY <1>1, <1>2, <2>2 DEF Bills, Placed, callVars, Settler
  <2> QED
    BY <1>3, <2>1, <2>2
<1>7. ASSUME NEW e \in meter, new \in meter' \ meter, e.month = new.month
      PROVE  e.upto <= new.base
  BY <1>1, <1>3, <1>7 DEF SettleInv, Placed
<1>8. ASSUME NEW e \in meter', NEW f \in meter', e.month = f.month, e # f
      PROVE  e.upto <= f.base \/ f.upto <= e.base
  <2>1. CASE e \in meter /\ f \in meter
    BY <1>8, <2>1 DEF SettleInv
  <2>2. CASE e = new /\ new \notin meter
    BY <1>3, <1>7, <1>8, <2>2
  <2>3. CASE f = new /\ new \notin meter
    BY <1>3, <1>7, <1>8, <2>3
  <2> QED
    BY <1>3, <2>1, <2>2, <2>3
<1> QED
  BY <1>4, <1>5, <1>6, <1>8 DEF SettleInv

LEMMA CreditMarked ==
    ASSUME Alone, CallInv, SettleInv, NEW s \in Settlers, Mark(s), UNCHANGED callVars
    PROVE  SettleInv'
<1> DEFINE me == settler[s]
<1>1. /\ me \in Settler /\ Settlers = {s} /\ NoSettler \in Settler
      /\ me.month \in Months /\ me.upto \in Nat /\ me.base \in Nat
      /\ me.base = reported[me.month] /\ Bills(me.month, me.base, me.upto)
  BY IdleTyped DEF SettleInv, SettleTypeOK, Settler, Underway, Busy, Alone, Mark, NoSettler
<1>2. /\ reported' = [reported EXCEPT ![me.month] = me.upto]
      /\ settler' = [settler EXCEPT ![s] = NoSettler]
      /\ UNCHANGED <<meter, usage>>
  BY DEF Mark, callVars
<1>3. SettleTypeOK'
  BY <1>1, <1>2 DEF SettleInv, SettleTypeOK
<1>4. ~Busy(s)'
  BY <1>1, <1>2 DEF SettleInv, SettleTypeOK, NoSettler, Busy
<1>5. me.base < me.upto
  BY <1>1, BillBounds
<1>6. ASSUME NEW e \in meter
      PROVE  Placed(e)'
  <2>1. e \in Events /\ Placed(e)
    BY DEF SettleInv, SettleTypeOK
  <2>2. CASE e.month = me.month
    <3>1. reported'[e.month] = me.upto
      BY <1>1, <1>2, <2>2 DEF SettleInv, SettleTypeOK
    <3>2. e.upto <= me.upto
      <4>1. CASE e.upto <= reported[e.month]
        BY <1>1, <1>5, <2>1, <2>2, <4>1 DEF Events
      <4>2. CASE \A t \in Settlers :
                    Busy(t) /\ settler[t].month = e.month => e.upto <= settler[t].upto
        BY <2>2, <4>2 DEF Mark, Busy
      <4> QED
        BY <2>1, <4>1, <4>2 DEF Placed
    <3> QED
      BY <3>1, <3>2 DEF Placed
  <2>3. CASE e.month # me.month
    BY <1>1, <1>2, <1>4, <2>1, <2>3 DEF Placed, SettleInv, SettleTypeOK, Events
  <2> QED
    BY <2>2, <2>3
<1> QED
  BY <1>1, <1>2, <1>3, <1>4, <1>6 DEF SettleInv, Underway, Bills

LEMMA SettlerDropped ==
    ASSUME Alone, CallInv, SettleInv, NEW s \in Settlers, CrashSettler(s), UNCHANGED callVars
    PROVE  SettleInv'
<1>1. Settlers = {s} /\ NoSettler \in Settler
  BY IdleTyped DEF Alone, Settler, NoSettler
<1>2. settler' = [settler EXCEPT ![s] = NoSettler] /\ UNCHANGED <<reported, meter, usage>>
  BY DEF CrashSettler, callVars
<1>3. SettleTypeOK' /\ ~Busy(s)'
  BY <1>1, <1>2 DEF SettleInv, SettleTypeOK, NoSettler, Busy
<1> QED
  BY <1>1, <1>2, <1>3 DEF SettleInv, Underway, Bills, Placed

LEMMA SettleStep ==
    ASSUME Alone, CallInv, SettleInv, SettleNext, UNCHANGED callVars
    PROVE  SettleInv'
<1>1. ASSUME NEW s \in Settlers, Send(s)
      PROVE  SettleInv'
  <2>1. settler[s].pc = "sending" /\ meter' \in {meter, Accepted(s)}
        /\ settler' = [settler EXCEPT ![s].pc = "marking"] /\ UNCHANGED reported
    BY <1>1 DEF Send
  <2> QED
    BY <2>1, EventAdded
<1>2. ASSUME NEW s \in Settlers, SendFails(s)
      PROVE  SettleInv'
  <2>1. settler[s].pc = "sending" /\ meter' \in {meter, Accepted(s)}
        /\ settler' = [settler EXCEPT ![s] = NoSettler] /\ UNCHANGED reported
    BY <1>2 DEF SendFails
  <2> QED
    BY <2>1, EventAdded
<1> QED
  BY <1>1, <1>2, SettleStarts, CreditMarked, SettlerDropped DEF SettleNext

LEMMA SettleUnchanged ==
    ASSUME CallInv, SettleInv, UNCHANGED vars
    PROVE  SettleInv'
<1>1. CallInv' /\ OverageGrows
  BY CallsUntouched DEF vars, callVars
<1> QED
  BY <1>1, SettleKeptByCalls DEF vars, settleVars

LEMMA SettleInit ==
    ASSUME Init
    PROVE  SettleInv
  BY IdleTyped DEF Init, SettleInv, SettleTypeOK, Settler, NoSettler, Underway, Busy

(* The induction itself: calls keep it because they only add overage,      *)
(* settlements because nobody else writes the credit they started from.    *)
THEOREM SettleInvariant ==
    ASSUME Alone
    PROVE  Spec => [](CallInv /\ SettleInv)
<1>1. Init => CallInv /\ SettleInv
  BY CallInit_Inv, SettleInit DEF Init
<1>2. CallInv /\ SettleInv /\ [Next]_vars => (CallInv /\ SettleInv)'
  <2> SUFFICES ASSUME CallInv, SettleInv, [Next]_vars
               PROVE  (CallInv /\ SettleInv)'
    OBVIOUS
  <2>1. CASE CallNext /\ UNCHANGED settleVars
    BY <2>1, CallStep, SettleKeptByCalls
  <2>2. CASE SettleNext /\ UNCHANGED callVars
    BY <2>2, SettleStep, CallsUntouched
  <2>3. CASE UNCHANGED vars
    BY <2>3, SettleUnchanged, CallsUntouched DEF vars, callVars
  <2> QED
    BY <2>1, <2>2, <2>3 DEF Next
<1> QED
  BY <1>1, <1>2, PTL DEF Spec

(* As long as settlements of the organisation run one after another, no    *)
(* token is charged twice and less than a unit is overbilled, for every    *)
(* unit, month and number of calls, across crashes and lost answers.       *)
THEOREM NoDoubleCharge ==
    ASSUME Alone
    PROVE  Spec => []NeverOvercharged
<1>1. CallInv /\ SettleInv => NeverOvercharged
  BY BillBounds DEF NeverOvercharged, SettleInv, SettleTypeOK, Events
<1> QED
  BY <1>1, SettleInvariant, PTL
-----------------------------------------------------------------------------
(* Types, for any number of settlements at once.                           *)

LEMMA SettleTyped ==
    ASSUME CallInv, SettleTypeOK, SettleNext
    PROVE  SettleTypeOK'
<1>1. ASSUME NEW s \in Settlers, NEW m \in Months, Settle(s, m)
      PROVE  SettleTypeOK'
  <2>1. usage[m].overage - reported[m] \in Nat /\ reported[m] \in Nat
    BY <1>1 DEF CallInv, CallTypeOK, Usage, SettleTypeOK, Settle
  <2> DEFINE upto == reported[m] + WholeUnits(usage[m].overage - reported[m])
  <2>2. upto \in Nat
    BY <2>1, RoundedUp
  <2>3. /\ settler' = [settler EXCEPT ![s] = [pc |-> "sending", month |-> m,
                                              base |-> reported[m], upto |-> upto]]
        /\ UNCHANGED <<reported, meter>>
    BY <1>1 DEF Settle
  <2> HIDE DEF upto
  <2> QED
    BY <2>1, <2>2, <2>3 DEF SettleTypeOK, Settler
<1>2. ASSUME NEW s \in Settlers, Send(s) \/ SendFails(s)
      PROVE  SettleTypeOK'
  <2>1. meter' \subseteq Events
    BY <1>2 DEF Send, SendFails, Accepted, SettleTypeOK, Settler, Events
  <2>2. settler \in [Settlers -> Settler] /\ NoSettler \in Settler
    BY IdleTyped DEF SettleTypeOK, Settler, NoSettler
  <2>3. CASE Send(s)
    BY <2>1, <2>2, <2>3 DEF Send, SettleTypeOK, Settler
  <2>4. CASE SendFails(s)
    BY <2>1, <2>2, <2>4 DEF SendFails, SettleTypeOK
  <2> QED
    BY <1>2, <2>3, <2>4
<1>3. ASSUME NEW s \in Settlers, Mark(s) \/ CrashSettler(s)
      PROVE  SettleTypeOK'
  BY <1>3, IdleTyped DEF Mark, CrashSettler, SettleTypeOK, Settler, NoSettler
<1> QED
  BY <1>1, <1>2, <1>3 DEF SettleNext

(* Rows, calls, events and settlements stay well typed: neither overage    *)
(* nor credit ever becomes negative.                                       *)
THEOREM UsageTypeCorrect == Spec => []TypeOK
<1>1. Init => CallInv /\ SettleTypeOK
  BY CallInit_Inv, SettleInit DEF Init, SettleInv
<1>2. CallInv /\ SettleTypeOK /\ [Next]_vars => (CallInv /\ SettleTypeOK)'
  <2> SUFFICES ASSUME CallInv, SettleTypeOK, [Next]_vars
               PROVE  (CallInv /\ SettleTypeOK)'
    OBVIOUS
  <2>1. CASE CallNext /\ UNCHANGED settleVars
    BY <2>1, CallStep DEF SettleTypeOK, settleVars
  <2>2. CASE SettleNext /\ UNCHANGED callVars
    BY <2>2, SettleTyped, CallsUntouched
  <2>3. CASE UNCHANGED vars
    BY <2>3, CallsUntouched DEF vars, callVars, SettleTypeOK
  <2> QED
    BY <2>1, <2>2, <2>3 DEF Next
<1>3. CallInv /\ SettleTypeOK => TypeOK
  BY DEF CallInv, SettleTypeOK, TypeOK
<1> QED
  BY <1>1, <1>2, <1>3, PTL DEF Spec
-----------------------------------------------------------------------------
(* The monthly batch alone: a closed month's overage stands still.         *)

HoldSteps == {"calling", "answered", "committing"}

(* No call can add to the overage of m any more: weaker than Closed, which *)
(* a failing cost row may undo, and kept by every step.                    *)
Still(m) == m < now /\ \A c \in Calls : call[c].month = m => call[c].pc \notin HoldSteps

LEMMA CallMoves ==
    ASSUME CallInv, NEW c \in Calls, NEW v, call' = [call EXCEPT ![c] = v], now' = now,
           v.pc \in HoldSteps =>
               \/ v.month = now
               \/ call[c].pc \in HoldSteps /\ v.month = call[c].month,
           NEW m \in Months, Still(m)
    PROVE  Still(m)'
<1>1. now \in Nat /\ m \in Nat /\ m < now
  BY UsageConstants DEF Still, CallInv, CallTypeOK, Months
<1>2. ASSUME NEW x \in Calls, call'[x].month = m, call'[x].pc \in HoldSteps
      PROVE  FALSE
  <2>1. CASE x = c
    BY <1>1, <1>2, <2>1 DEF Still, CallInv, CallTypeOK
  <2>2. CASE x # c
    BY <1>2, <2>2 DEF Still, CallInv, CallTypeOK
  <2> QED
    BY <2>1, <2>2
<1> QED
  BY <1>1, <1>2 DEF Still

LEMMA StillStep ==
    ASSUME CallInv, CallNext, NEW m \in Months, Still(m)
    PROVE  Still(m)' /\ usage'[m].overage = usage[m].overage
<1>1. ASSUME NEW c \in Calls, NEW est \in Estimates, Check(c, est)
      PROVE  Still(m)' /\ UNCHANGED usage
  BY <1>1, CallMoves DEF Check, NoCall, HoldSteps
<1>2. ASSUME NEW c \in Calls, Reserve(c)
      PROVE  Still(m)' /\ usage'[m].overage = usage[m].overage
  <2> DEFINE v == [call[c] EXCEPT !.pc = "calling", !.month = now]
  <2>1. call' = [call EXCEPT ![c] = v] /\ v.month = now /\ now' = now
    BY <1>2 DEF Reserve, CallInv, CallTypeOK, Call
  <2>2. usage'[m].overage = usage[m].overage
    BY <1>2 DEF Reserve, CallInv, CallTypeOK, Usage
  <2> HIDE DEF v
  <2> QED
    BY <2>1, <2>2, CallMoves
<1>3. ASSUME NEW c \in Calls, NEW actual \in 0..call[c].est + Overshoot, Answer(c, actual)
      PROVE  Still(m)' /\ UNCHANGED usage
  <2> DEFINE v == [call[c] EXCEPT !.pc = "answered", !.actual = actual, !.quota = plan.quota]
  <2>1. /\ call' = [call EXCEPT ![c] = v] /\ now' = now /\ UNCHANGED usage
        /\ v.month = call[c].month /\ call[c].pc \in HoldSteps
    BY <1>3 DEF Answer, At, HoldSteps, CallInv, CallTypeOK, Call
  <2> HIDE DEF v
  <2> QED
    BY <2>1, CallMoves
<1>4. ASSUME NEW c \in Calls, CommitLock(c)
      PROVE  Still(m)' /\ UNCHANGED usage
  <2> DEFINE v == [call[c] EXCEPT !.pc = "committing", !.before = usage[call[c].month].used]
  <2>1. /\ call' = [call EXCEPT ![c] = v] /\ now' = now /\ UNCHANGED usage
        /\ v.month = call[c].month /\ call[c].pc \in HoldSteps
    BY <1>4 DEF CommitLock, At, HoldSteps, CallInv, CallTypeOK, Call
  <2> HIDE DEF v
  <2> QED
    BY <2>1, CallMoves
<1>5. ASSUME NEW c \in Calls, CommitSave(c)
      PROVE  Still(m)' /\ usage'[m].overage = usage[m].overage
  <2> DEFINE v == [call[c] EXCEPT !.pc = "logging"]
  <2>1. call' = [call EXCEPT ![c] = v] /\ v.pc = "logging" /\ now' = now
    BY <1>5 DEF CommitSave, Goto, CallInv, CallTypeOK, Call
  <2>2. call[c].month # m
    BY <1>5 DEF CommitSave, At, Still, HoldSteps
  <2>3. usage'[m] = usage[m]
    BY <1>5, <2>2 DEF CommitSave, CallInv, CallTypeOK
  <2> HIDE DEF v
  <2> QED
    BY <2>1, <2>3, CallMoves DEF HoldSteps
<1>6. ASSUME NEW c \in Calls, Log(c) \/ CrashCall(c)
      PROVE  Still(m)' /\ UNCHANGED usage
  BY <1>6, CallMoves DEF Log, CrashCall, NoCall, HoldSteps
<1>7. ASSUME NEW c \in Calls, Fail(c) \/ LogFails(c)
      PROVE  Still(m)' /\ UNCHANGED usage
  <2> DEFINE v == [call[c] EXCEPT !.pc = "releasing"]
  <2>1. /\ call' = [call EXCEPT ![c] = v] /\ now' = now /\ UNCHANGED usage
        /\ v.pc = "releasing"
    BY <1>7 DEF Fail, LogFails, Goto, CallInv, CallTypeOK, Call
  <2> HIDE DEF v
  <2> QED
    BY <2>1, CallMoves DEF HoldSteps
<1>8. ASSUME NEW c \in Calls, Release(c)
      PROVE  Still(m)' /\ usage'[m].overage = usage[m].overage
  <2>1. usage'[m].overage = usage[m].overage
    BY <1>8 DEF Release, CallInv, CallTypeOK, Usage, Call
  <2> QED
    BY <1>8, <2>1, CallMoves DEF Release, NoCall, HoldSteps
<1>9. ASSUME NEW p \in Plans, Switch(p)
      PROVE  Still(m)' /\ UNCHANGED usage
  BY <1>9 DEF Switch, Still
<1>10. ASSUME NextMonth
       PROVE  Still(m)' /\ UNCHANGED usage
  <2>1. now \in Nat /\ m \in Nat
    BY UsageConstants DEF CallInv, CallTypeOK, Months
  <2> QED
    BY <1>10, <2>1 DEF NextMonth, Still
<1> QED
  BY <1>1, <1>2, <1>3, <1>4, <1>5, <1>6, <1>7, <1>8, <1>9, <1>10 DEF CallNext

(* What a settlement of the batch is about: a month that stands still, up  *)
(* to the end of its overage, from a credit that was charged.              *)
Exact(e) ==
    /\ e.month \in Months
    /\ Still(e.month)
    /\ e.upto = e.base + WholeUnits(usage[e.month].overage - e.base)
    /\ Reached(e.month, e.base)

Sent(me) == \E e \in meter : e.month = me.month /\ e.base = me.base

ExactInv ==
    /\ \A s \in Settlers : \A me : me = settler[s] /\ me.pc # "idle" => Exact(me)
    /\ \A s \in Settlers : \A me : me = settler[s] /\ me.pc = "marking" => Sent(me)
    /\ \A e \in meter : Exact(e)
    /\ \A m \in Months : \A b : b = reported[m] => Reached(m, b)

LEMMA ExactKept ==
    ASSUME CallInv, CallNext, meter \subseteq meter', NEW e, Exact(e)
    PROVE  Exact(e)'
<1>1. Still(e.month)' /\ usage'[e.month].overage = usage[e.month].overage
  BY StillStep DEF Exact
<1> QED
  BY <1>1 DEF Exact, Reached

LEMMA ExactSettles ==
    ASSUME UNCHANGED callVars, meter \subseteq meter', NEW e, Exact(e)
    PROVE  Exact(e)'
BY DEF Exact, Reached, Still, callVars

(* Nothing known of an event or a credit is lost as long as events are     *)
(* only added.                                                             *)
LEMMA MoreSent ==
    ASSUME meter \subseteq meter', NEW e, NEW m, NEW b
    PROVE  (Sent(e) => Sent(e)') /\ (Reached(m, b) => Reached(m, b)')
BY DEF Sent, Reached

LEMMA ExactStart ==
    ASSUME CallInv, SettleTypeOK, ExactInv, UNCHANGED callVars,
           NEW s \in Settlers, NEW m \in Months, Settle(s, m), Closed(m)
    PROVE  ExactInv'
<1> DEFINE me == [pc |-> "sending", month |-> m, base |-> reported[m],
                  upto |-> reported[m] + WholeUnits(usage[m].overage - reported[m])]
<1>1. /\ settler' = [settler EXCEPT ![s] = me]
      /\ UNCHANGED <<reported, meter>> /\ Closed(m)
  BY DEF Settle
<1>2. Still(m)
  BY <1>1 DEF Closed, Still, Holding, HoldSteps
<1>3. Reached(m, reported[m])
  BY DEF ExactInv
<1>4. Exact(me) /\ me.pc = "sending"
  BY <1>2, <1>3 DEF Exact
<1> HIDE DEF me
<1>5. settler'[s] = me /\ \A t \in Settlers \ {s} : settler'[t] = settler[t]
  BY <1>1 DEF SettleTypeOK
<1>6. \A e : Exact(e) => Exact(e)'
  BY <1>1, ExactSettles
<1>7. \A t \in Settlers : \A e : e = settler'[t] /\ e.pc # "idle" => Exact(e)'
  BY <1>4, <1>5, <1>6 DEF ExactInv
<1>8. \A t \in Settlers : \A e : e = settler'[t] /\ e.pc = "marking" => Sent(e)'
  BY <1>1, <1>4, <1>5, MoreSent DEF ExactInv
<1>9. \A n \in Months : \A b : b = reported'[n] => Reached(n, b)'
  BY <1>1, MoreSent DEF ExactInv
<1> QED
  BY <1>1, <1>6, <1>7, <1>8, <1>9 DEF ExactInv

LEMMA ExactSend ==
    ASSUME SettleTypeOK, ExactInv, UNCHANGED callVars,
           NEW s \in Settlers, Send(s) \/ SendFails(s)
    PROVE  ExactInv'
<1> DEFINE ev == [month |-> settler[s].month, base |-> settler[s].base,
                  upto |-> settler[s].upto]
           me == [settler[s] EXCEPT !.pc = "marking"]
<1>1. /\ settler[s].pc = "sending" /\ UNCHANGED reported
      /\ meter' = meter \/ meter' = Accepted(s)
  BY DEF Send, SendFails
<1>2. meter' = meter \/ meter' = meter \cup {ev}
  BY <1>1 DEF Accepted
<1>3. \A e : Exact(e) => Exact(e)'
  BY <1>2, ExactSettles
<1>4. Exact(settler[s])
  BY <1>1 DEF ExactInv
<1>5. Exact(ev)
  BY <1>4 DEF Exact
<1>6. /\ me.month = settler[s].month /\ me.base = settler[s].base
      /\ me.upto = settler[s].upto
  BY DEF SettleTypeOK, Settler
<1>7. Exact(me)
  BY <1>4, <1>6 DEF Exact
<1>8. \A e \in meter' : Exact(e)'
  BY <1>2, <1>3, <1>5 DEF ExactInv
<1>9. \A e : e = me /\ meter' = Accepted(s) => Sent(e)'
  <2> SUFFICES ASSUME NEW e, e = me, meter' = Accepted(s)
               PROVE  \E f \in meter' : f.month = e.month /\ f.base = e.base
    BY DEF Sent
  <2>1. e.month = settler[s].month /\ e.base = settler[s].base
    BY <1>6
  <2>2. CASE \E f \in meter : SameIdentifier(f, s)
    BY <2>1, <2>2 DEF Accepted, SameIdentifier
  <2>3. CASE ~\E f \in meter : SameIdentifier(f, s)
    <3>1. ev \in meter' /\ ev.month = settler[s].month /\ ev.base = settler[s].base
      BY <2>3 DEF Accepted
    <3> HIDE DEF ev
    <3> QED
      BY <2>1, <3>1
  <2> QED
    BY <2>2, <2>3
<1>10. /\ \A t \in Settlers \ {s} : settler'[t] = settler[t]
       /\ (settler'[s].pc = "idle" \/ (settler'[s] = me /\ meter' = Accepted(s)))
  <2>1. CASE Send(s)
    BY <2>1 DEF Send, SettleTypeOK
  <2>2. CASE SendFails(s)
    BY <2>2 DEF SendFails, SettleTypeOK, NoSettler
  <2> QED
    BY <2>1, <2>2
<1>14. \A e : Sent(e) => Sent(e)'
  BY <1>2, MoreSent
<1> HIDE DEF me, ev
<1>11. \A t \in Settlers : \A e : e = settler'[t] /\ e.pc # "idle" => Exact(e)'
  <2> TAKE t \in Settlers
  <2> TAKE e
  <2>1. CASE t = s
    BY <1>3, <1>7, <1>10, <2>1
  <2>2. CASE t # s
    BY <1>3, <1>10, <2>2 DEF ExactInv
  <2> QED
    BY <2>1, <2>2
<1>12. \A t \in Settlers : \A e : e = settler'[t] /\ e.pc = "marking" => Sent(e)'
  <2> TAKE t \in Settlers
  <2> TAKE e
  <2>1. CASE t = s
    BY <1>9, <1>10, <2>1
  <2>2. CASE t # s
    BY <1>14, <1>10, <2>2 DEF ExactInv
  <2> QED
    BY <2>1, <2>2
<1>13. \A n \in Months : \A b : b = reported'[n] => Reached(n, b)'
  BY <1>1, <1>2, MoreSent DEF ExactInv
<1> QED
  BY <1>8, <1>11, <1>12, <1>13 DEF ExactInv

LEMMA ExactEnd ==
    ASSUME SettleTypeOK, ExactInv, UNCHANGED callVars,
           NEW s \in Settlers, Mark(s) \/ CrashSettler(s)
    PROVE  ExactInv'
<1>1. meter' = meter /\ settler'[s].pc = "idle"
  BY DEF Mark, CrashSettler, SettleTypeOK, NoSettler
<1>2. \A e : Exact(e) => Exact(e)'
  BY <1>1, ExactSettles
<1>3. \A t \in Settlers \ {s} : settler'[t] = settler[t]
  BY DEF Mark, CrashSettler, SettleTypeOK
<1>4. \A n \in Months : Reached(n, reported'[n])
  <2>1. CASE Mark(s)
    <3>1. Sent(settler[s]) /\ Exact(settler[s]) /\ settler[s].pc = "marking"
      BY <2>1 DEF Mark, ExactInv
    <3>2. PICK e \in meter : e.month = settler[s].month /\ e.base = settler[s].base
      BY <3>1 DEF Sent
    <3>3. e.upto = settler[s].upto
      BY <3>1, <3>2 DEF Exact, ExactInv
    <3>4. Reached(settler[s].month, settler[s].upto)
      BY <3>2, <3>3 DEF Reached
    <3> QED
      BY <2>1, <3>4 DEF Mark, ExactInv, SettleTypeOK
  <2>2. CASE CrashSettler(s)
    BY <2>2 DEF CrashSettler, ExactInv
  <2> QED
    BY <2>1, <2>2
<1>5. \A t \in Settlers : \A e : e = settler'[t] /\ e.pc # "idle" => Exact(e)'
  BY <1>1, <1>2, <1>3 DEF ExactInv
<1>6. \A t \in Settlers : \A e : e = settler'[t] /\ e.pc = "marking" => Sent(e)'
  BY <1>1, <1>3, MoreSent DEF ExactInv
<1>7. \A n \in Months : \A b : b = reported'[n] => Reached(n, b)'
  BY <1>1, <1>4, MoreSent
<1> QED
  BY <1>1, <1>2, <1>5, <1>6, <1>7 DEF ExactInv

LEMMA ExactStep ==
    ASSUME CallInv, SettleTypeOK, ExactInv, [Next]_vars,
           \A s \in Settlers, m \in Months : Settle(s, m) => Closed(m)
    PROVE  ExactInv'
<1>1. ASSUME UNCHANGED settleVars, CallNext \/ UNCHANGED callVars
      PROVE  ExactInv'
  <2>1. UNCHANGED <<settler, meter, reported>>
    BY <1>1 DEF settleVars
  <2>2. \A e : Exact(e) => Exact(e)'
    BY <1>1, <2>1, ExactKept, ExactSettles
  <2>3. \A t \in Settlers : \A e : e = settler'[t] /\ e.pc = "marking" => Sent(e)'
    BY <2>1, MoreSent DEF ExactInv
  <2>4. \A n \in Months : \A b : b = reported'[n] => Reached(n, b)'
    BY <2>1, MoreSent DEF ExactInv
  <2> QED
    BY <2>1, <2>2, <2>3, <2>4 DEF ExactInv
<1>2. CASE SettleNext /\ UNCHANGED callVars
  BY <1>2, ExactStart, ExactSend, ExactEnd DEF SettleNext
<1>3. CASE UNCHANGED vars
  BY <1>1, <1>3 DEF vars, callVars, settleVars
<1> QED
  BY <1>1, <1>2, <1>3 DEF Next

(* A settlement that only ever sees closed months credits what was sent:   *)
(* whatever crashes, lost answers, retries and settlements side by side.   *)
THEOREM MonthlyCreditsCharged ==
    ASSUME "final" \notin Ops
    PROVE  Spec => []CreditIsCharged
<1>1. Init => CallInv /\ SettleTypeOK /\ ExactInv
  <2> SUFFICES ASSUME Init PROVE CallInv /\ SettleTypeOK /\ ExactInv
    OBVIOUS
  <2>1. CallInv /\ SettleTypeOK
    BY CallInit_Inv, SettleInit DEF Init, SettleInv
  <2>2. ExactInv
    BY DEF Init, ExactInv, NoSettler, Reached
  <2> QED
    BY <2>1, <2>2
<1>2. CallInv /\ SettleTypeOK /\ ExactInv /\ [Next]_vars
        => (CallInv /\ SettleTypeOK /\ ExactInv)'
  <2> SUFFICES ASSUME CallInv, SettleTypeOK, ExactInv, [Next]_vars
               PROVE  (CallInv /\ SettleTypeOK /\ ExactInv)'
    OBVIOUS
  <2>5. \A s \in Settlers, m \in Months : Settle(s, m) => Closed(m)
    BY DEF Settle
  <2>1. ExactInv'
    BY <2>5, ExactStep
  <2>2. CASE CallNext /\ UNCHANGED settleVars
    BY <2>1, <2>2, CallStep DEF SettleTypeOK, settleVars
  <2>3. CASE SettleNext /\ UNCHANGED callVars
    BY <2>1, <2>3, SettleTyped, CallsUntouched
  <2>4. CASE UNCHANGED vars
    BY <2>1, <2>4, CallsUntouched DEF vars, callVars, SettleTypeOK
  <2> QED
    BY <2>2, <2>3, <2>4 DEF Next
<1>3. ExactInv => CreditIsCharged
  BY DEF ExactInv, Exact, CreditIsCharged
<1> QED
  BY <1>1, <1>2, <1>3, PTL DEF Spec
=============================================================================
