--------------------------- MODULE UsageModes_proofs ---------------------------
(***************************************************************************)
(* Theorems about the settings of MC_Usage, for any number of calls,       *)
(* months, estimates and plans: the organisation whose plans all block,    *)
(* and the one whose overage is settled by the monthly batch alone.        *)
(***************************************************************************)
EXTENDS MC_Usage, OverageSettlement_proofs, SetLemmas

ReservingSteps == HoldSteps \cup {"releasing"}

(* What call k still holds of month m's reservations, and the most it may  *)
(* still add to the tokens used in m, month n being the current one.       *)
Share(k, m) == IF k.pc \in ReservingSteps /\ k.month = m THEN k.est ELSE 0
Weight(k, m, n) ==
    IF \/ k.pc = "checked" /\ m = n
       \/ k.pc \in HoldSteps /\ k.month = m
    THEN k.est + Overshoot ELSE 0

Held(m) == SumOf([c \in Calls |-> Share(call[c], m)], Calls)
Pending(m) == SumOf([c \in Calls |-> Weight(call[c], m, now)], Calls)

Quota == Max(BlockingQuotas)
Largest == Max(Estimates)
Overrun == Quota + (Cardinality(Calls) - 1) * Largest + Cardinality(Calls) * Overshoot

(* What a call has in hand, month n being the current one.                 *)
InHand(k, n) ==
    /\ k.pc # "idle" => k.est \in Estimates
    /\ k.pc = "checked" => k.est <= Quota
    /\ k.pc \in {"answered", "committing"} => k.actual <= k.est + Overshoot
    /\ k.pc \in ReservingSteps => k.month <= n

(* Between its check and its commit a call counts as already used up: the  *)
(* overrun is bounded for the tokens used and pending together.            *)
FreeInv ==
    /\ Blocks(plan)
    /\ \A c \in Calls : InHand(call[c], now)
    /\ \A m \in Months : m > now => usage[m].used = 0
    /\ \A m \in Months : Held(m) <= usage[m].reserved
    /\ \A m \in Months : usage[m].used + Pending(m) <= Overrun
-----------------------------------------------------------------------------
(* The constants, and the terms of the two sums.                           *)
LEMMA Limited ==
  ASSUME plan \in Plans, Blocks(plan)
  PROVE  Quota \in Nat /\ \A p \in Plans : Blocks(p) => p.quota \in Nat /\ p.quota <= Quota
<1> DEFINE B == {x \in Plans : Blocks(x)}
<1>1. IsFiniteSet(B) /\ plan \in B
  BY UsageConstants, FS_Subset
<1>2. IsFiniteSet({p.quota : p \in B})
  <2> DEFINE Q == {p.quota : p \in B}
             f == [p \in B |-> p.quota]
  <2>1. f \in Surjection(B, Q)
    BY DEF Surjection
  <2> HIDE DEF B, Q, f
  <2>2. IsFiniteSet(Q)
    BY <1>1, <2>1, FS_Surjection
  <2> QED
    BY <2>2 DEF Q
<1>3. BlockingQuotas = {p.quota : p \in B}
  BY DEF BlockingQuotas
<1>4. BlockingQuotas \in SUBSET Nat
  BY <1>3, UsageConstants DEF PlanType, Blocks
<1>5. BlockingQuotas # {}
  BY <1>1, <1>3
<1>6. Quota \in BlockingQuotas /\ \A q \in BlockingQuotas : q <= Quota
  BY <1>2, <1>3, <1>4, <1>5, Greatest DEF Quota
<1> QED
  BY <1>3, <1>4, <1>6

LEMMA Estimated ==
  /\ Largest \in Nat /\ \A est \in Estimates : est \in Nat /\ est <= Largest
  /\ Cardinality(Calls) \in Nat \ {0} /\ Overshoot \in Nat
<1>1. Estimates \in SUBSET Nat /\ IsFiniteSet(Estimates) /\ Estimates # {}
  BY UsageConstants
<1>2. Largest \in Estimates /\ \A est \in Estimates : est <= Largest
  BY <1>1, Greatest DEF Largest
<1>3. IsFiniteSet(Calls) /\ Calls # {} /\ Overshoot \in Nat
  BY UsageConstants
<1>4. Cardinality(Calls) \in Nat /\ Cardinality(Calls) # 0
  BY <1>3, FS_CardinalityType, FS_EmptySet
<1> QED
  BY <1>1, <1>2, <1>3, <1>4

LEMMA Terms ==
  ASSUME NEW k \in Call, NEW m, NEW n
  PROVE  /\ Share(k, m) \in Nat /\ Weight(k, m, n) \in Nat
         /\ (k.pc # "idle" => k.est \in Estimates)
                => Weight(k, m, n) <= Share(k, m) + (Largest + Overshoot)
         /\ k.pc = "idle" => Share(k, m) = 0 /\ Weight(k, m, n) = 0
<1>1. k.est \in Nat /\ Overshoot \in Nat /\ Largest \in Nat
  BY Estimated DEF Call
<1>2. k.est \in Estimates => k.est <= Largest
  BY Estimated
<1> QED
  BY <1>1, <1>2 DEF Share, Weight, ReservingSteps, HoldSteps

(* A step of one call changes one term of each sum.                        *)
LEMMA OneCall ==
  ASSUME CallInv, NEW c \in Calls, NEW v \in Call, call' = [call EXCEPT ![c] = v], now' = now,
         NEW m \in Months
  PROVE  /\ Held(m) \in Int /\ Held(m)' = Held(m) - Share(call[c], m) + Share(v, m)
         /\ Pending(m) \in Int
         /\ Pending(m)' = Pending(m) - Weight(call[c], m, now) + Weight(v, m, now)
<1>1. /\ \A x \in Calls : call[x] \in Call /\ call'[x] \in Call
      /\ call'[c] = v /\ \A x \in Calls \ {c} : call'[x] = call[x]
  BY DEF CallInv, CallTypeOK
<1>2. IsFiniteSet(Calls) /\ Calls \in SUBSET Calls
  BY UsageConstants
<1>3. Held(m) \in Int /\ Held(m)' = Held(m) - Share(call[c], m) + Share(v, m)
  <2> DEFINE f == [x \in Calls |-> Share(call[x], m)]
             g == [x \in Calls |-> Share(call'[x], m)]
  <2>1. /\ Held(m) = SumOf(f, Calls) /\ Held(m)' = SumOf(g, Calls)
        /\ f[c] = Share(call[c], m) /\ g[c] = Share(v, m)
    BY <1>1 DEF Held
  <2>2. \A y \in Calls : f[y] \in Int /\ g[y] \in Int
    BY <1>1, Terms
  <2>3. \A y \in Calls \ {c} : f[y] = g[y]
    BY <1>1
  <2> HIDE DEF f, g
  <2>4. SumOf(g, Calls) = SumOf(f, Calls) - f[c] + g[c]
    BY <1>2, <2>2, <2>3, SumChange
  <2>5. \A y \in Calls : f[y] \in Int
    BY <2>2
  <2>6. SumOf(f, Calls) \in Int
    BY <1>2, <2>5, SumInt
  <2> QED
    BY <2>1, <2>4, <2>6
<1>4. Pending(m) \in Int /\ Pending(m)' = Pending(m) - Weight(call[c], m, now) + Weight(v, m, now)
  <2> DEFINE f == [x \in Calls |-> Weight(call[x], m, now)]
             g == [x \in Calls |-> Weight(call'[x], m, now)]
  <2>1. /\ Pending(m) = SumOf(f, Calls) /\ Pending(m)' = SumOf(g, Calls)
        /\ f[c] = Weight(call[c], m, now) /\ g[c] = Weight(v, m, now)
    BY <1>1 DEF Pending
  <2>2. \A y \in Calls : f[y] \in Int /\ g[y] \in Int
    BY <1>1, Terms
  <2>3. \A y \in Calls \ {c} : f[y] = g[y]
    BY <1>1
  <2> HIDE DEF f, g
  <2>4. SumOf(g, Calls) = SumOf(f, Calls) - f[c] + g[c]
    BY <1>2, <2>2, <2>3, SumChange
  <2>5. \A y \in Calls : f[y] \in Int
    BY <2>2
  <2>6. SumOf(f, Calls) \in Int
    BY <1>2, <2>5, SumInt
  <2> QED
    BY <2>1, <2>4, <2>6
<1> QED
  BY <1>3, <1>4

LEMMA OverrunIs ==
  ASSUME Quota \in Nat
  PROVE  /\ Overrun = Quota + Overshoot + (Cardinality(Calls) - 1) * (Largest + Overshoot)
         /\ (Cardinality(Calls) - 1) * (Largest + Overshoot) \in Nat
<1>1. ASSUME NEW n \in Nat \ {0}, NEW l \in Nat, NEW o \in Nat
      PROVE  (n - 1) * l + n * o = o + (n - 1) * (l + o) /\ (n - 1) * (l + o) \in Nat
  <2>1. PICK k \in Nat : n = k + 1
    BY n - 1 \in Nat
  <2>2. k * (l + o) = k * l + k * o /\ (k + 1) * o = k * o + o /\ n - 1 = k
    BY <2>1
  <2>3. k * l \in Nat /\ k * o \in Nat
    BY <2>1
  <2> QED
    BY <2>1, <2>2, <2>3
<1> DEFINE N == Cardinality(Calls)
<1>2. (N - 1) * Largest + N * Overshoot = Overshoot + (N - 1) * (Largest + Overshoot)
      /\ (N - 1) * (Largest + Overshoot) \in Nat
  <2>1. N \in Nat \ {0} /\ Largest \in Nat /\ Overshoot \in Nat
    BY Estimated
  <2> HIDE DEF N
  <2> QED
    BY <1>1, <2>1
<1>3. (N - 1) * Largest \in Int /\ N * Overshoot \in Int /\ Overshoot \in Nat
  BY Estimated
<1> QED
  BY <1>2, <1>3 DEF Overrun
-----------------------------------------------------------------------------
(* The invariant is more than the two properties.                          *)
LEMMA PendingNat ==
  ASSUME CallInv, NEW m
  PROVE  Pending(m) \in Nat /\ Held(m) \in Nat
<1> DEFINE f == [x \in Calls |-> Weight(call[x], m, now)]
           g == [x \in Calls |-> Share(call[x], m)]
<1>1. \A x \in Calls : call[x] \in Call
  BY DEF CallInv, CallTypeOK
<1>2. (\A x \in Calls : f[x] \in Nat) /\ (\A x \in Calls : g[x] \in Nat)
  BY <1>1, Terms
<1>3. Pending(m) = SumOf(f, Calls) /\ Held(m) = SumOf(g, Calls)
  BY DEF Pending, Held
<1>4. IsFiniteSet(Calls) /\ Calls \in SUBSET Calls
  BY UsageConstants
<1> HIDE DEF f, g
<1>5. SumOf(f, Calls) \in Nat
  BY <1>2, <1>4, SumMonotone
<1>6. SumOf(g, Calls) \in Nat
  BY <1>2, <1>4, SumMonotone
<1> QED
  BY <1>3, <1>5, <1>6

LEMMA HeldIsReserved ==
  ASSUME CallInv, NEW m \in Months
  PROVE  Held(m) = SumFunctionOnSet([c \in Calls |-> call[c].est], Holding(m))
<1> DEFINE f == [c \in Calls |-> Share(call[c], m)]
           g == [c \in Calls |-> call[c].est]
           H == Holding(m)
<1>1. \A x \in Calls : call[x] \in Call
  BY DEF CallInv, CallTypeOK
<1>2. \A x \in Calls : f[x] \in Int
  BY <1>1, Terms
<1>3. H \in SUBSET Calls /\ IsFiniteSet(Calls) /\ IsFiniteSet(H) /\ H \in SUBSET H
  BY UsageConstants, FS_Subset DEF Holding
<1>4. (\A x \in Calls \ H : f[x] = 0) /\ (\A x \in H : f[x] = g[x])
  BY DEF Holding, Share, ReservingSteps, HoldSteps
<1>5. Held(m) = SumOf(f, Calls)
  BY DEF Held
<1>6. SumOf(g, H) = SumFunctionOnSet([c \in Calls |-> call[c].est], Holding(m))
  BY DEF SumOf
<1> HIDE DEF f, g, H
<1>7. SumOf(f, Calls) = SumOf(f, H)
  BY <1>2, <1>3, <1>4, SumSupport
<1>8. SumOf(f, H) = SumOf(g, H)
  BY <1>3, <1>4, SumSame
<1> QED
  BY <1>5, <1>6, <1>7, <1>8

LEMMA FreeProperties ==
  ASSUME CallInv, FreeInv
  PROVE  ReservedCoversCalls /\ OverrunBounded
<1>1. ReservedCoversCalls
  <2> SUFFICES ASSUME NEW m \in Months
               PROVE  usage[m].reserved >=
                          SumFunctionOnSet([c \in Calls |-> call[c].est], Holding(m))
    BY DEF ReservedCoversCalls
  <2>1. Held(m) <= usage[m].reserved /\ Held(m) \in Nat /\ usage[m].reserved \in Int
    BY PendingNat DEF FreeInv, CallInv, CallTypeOK, Usage
  <2> QED
    BY <2>1, HeldIsReserved
<1>2. OverrunBounded
  <2> SUFFICES ASSUME NEW m \in Months PROVE usage[m].used <= Overrun
    BY DEF OverrunBounded, Overrun, Quota, Largest
  <2>1. usage[m].used + Pending(m) <= Overrun /\ Pending(m) \in Nat /\ usage[m].used \in Nat
    BY PendingNat DEF FreeInv, CallInv, CallTypeOK, Usage
  <2>2. Overrun \in Int
    <3>1. Quota \in Nat
      BY Limited DEF FreeInv, CallInv
    <3> QED
      BY <3>1, OverrunIs, Estimated
  <2> QED
    BY <2>1, <2>2
<1> QED
  BY <1>1, <1>2
-----------------------------------------------------------------------------
(* A step of one call that gives back no more of the reservations than it  *)
(* held, and adds to the tokens used no more than was pending for it, or   *)
(* keeps the bound otherwise.                                              *)
LEMMA FreeMove ==
  ASSUME CallInv, CallInv', FreeInv, NEW c \in Calls, NEW v \in Call,
         call' = [call EXCEPT ![c] = v], now' = now, Blocks(plan'), InHand(v, now),
         \A m \in Months : usage'[m].reserved - Share(v, m)
                               >= usage[m].reserved - Share(call[c], m),
         \A m \in Months :
             \/ usage'[m].used + Weight(v, m, now) <= usage[m].used + Weight(call[c], m, now)
             \/ m = now /\ usage'[m].used + Pending(m)' <= Overrun
  PROVE  FreeInv'
<1>1. call[c] \in Call /\ call'[c] = v /\ \A x \in Calls \ {c} : call'[x] = call[x]
  BY DEF CallInv, CallTypeOK
<1>2. \A x \in Calls : InHand(call'[x], now)
  BY <1>1 DEF FreeInv
<1>3. now \in Nat /\ Months \subseteq Nat
  BY UsageConstants DEF CallInv, CallTypeOK, Months
<1>4. Quota \in Nat /\ Overrun \in Int
  <2>1. Quota \in Nat
    BY Limited DEF FreeInv, CallInv
  <2> QED
    BY <2>1, OverrunIs, Estimated
<1>5. ASSUME NEW m \in Months
      PROVE  /\ m > now => usage'[m].used = 0
             /\ Held(m)' <= usage'[m].reserved
             /\ usage'[m].used + Pending(m)' <= Overrun
  <2>1. /\ usage[m].used \in Nat /\ usage'[m].used \in Nat
        /\ usage[m].reserved \in Int /\ usage'[m].reserved \in Int
    BY DEF CallInv, CallTypeOK, Usage
  <2>2. /\ Share(call[c], m) \in Nat /\ Weight(call[c], m, now) \in Nat
        /\ Share(v, m) \in Nat /\ Weight(v, m, now) \in Nat
    BY <1>1, Terms
  <2>3. /\ Held(m) \in Int /\ Held(m)' = Held(m) - Share(call[c], m) + Share(v, m)
        /\ Pending(m) \in Int
        /\ Pending(m)' = Pending(m) - Weight(call[c], m, now) + Weight(v, m, now)
    BY OneCall
  <2>4. Held(m)' <= usage'[m].reserved
    <3>1. Held(m) <= usage[m].reserved
      BY DEF FreeInv
    <3>2. usage'[m].reserved - Share(v, m) >= usage[m].reserved - Share(call[c], m)
      OBVIOUS
    <3> QED
      BY <2>1, <2>2, <2>3, <3>1, <3>2
  <2>5. \/ usage'[m].used + Weight(v, m, now) <= usage[m].used + Weight(call[c], m, now)
        \/ m = now /\ usage'[m].used + Pending(m)' <= Overrun
    OBVIOUS
  <2>6. usage'[m].used + Pending(m)' <= Overrun
    <3>1. usage[m].used + Pending(m) <= Overrun
      BY DEF FreeInv
    <3> QED
      BY <1>4, <2>1, <2>2, <2>3, <2>5, <3>1
  <2>7. ASSUME m > now
        PROVE  usage'[m].used = 0
    <3>1. usage[m].used = 0 /\ InHand(call[c], now)
      BY <2>7 DEF FreeInv
    <3>2. Weight(call[c], m, now) = 0
      <4>1. call[c].month \in Nat
        BY <1>1, <1>3 DEF Call
      <4> QED
        BY <1>3, <2>7, <3>1, <4>1 DEF Weight, InHand, ReservingSteps, HoldSteps
    <3> QED
      BY <1>3, <2>1, <2>2, <2>5, <2>7, <3>1, <3>2
  <2> QED
    BY <2>4, <2>6, <2>7
<1> QED
  BY <1>2, <1>5 DEF FreeInv

(* A check admits what fits on top of all reservations; the other calls    *)
(* may at most slip an estimate and its overshoot past them.               *)
LEMMA Admitted ==
  ASSUME CallInv, FreeInv, NEW c \in Calls, NEW est \in Estimates, Check(c, est)
  PROVE  /\ est <= Quota
         /\ usage[now].used + Pending(now)' <= Overrun
<1> DEFINE f == [x \in Calls |-> Share(call[x], now)]
           g == [x \in Calls |-> Weight(call'[x], now, now)]
           Rest == Calls \ {c}
           k == Largest + Overshoot
<1>1. /\ now \in Months /\ usage[now].used \in Nat /\ usage[now].reserved \in Nat
      /\ est \in Nat /\ est <= Largest /\ Overshoot \in Nat /\ k \in Nat
  BY Estimated DEF CallInv, CallTypeOK, Usage, Check, InBound
<1>2. usage[now].used + usage[now].reserved + est <= Quota /\ Quota \in Nat
  <2>1. usage[now].used + usage[now].reserved + est <= plan.quota
    BY DEF Check, Admits, FreeInv
  <2>2. plan.quota \in Nat /\ plan.quota <= Quota /\ Quota \in Nat
    BY Limited DEF FreeInv, CallInv
  <2> QED
    BY <1>1, <2>1, <2>2
<1>3. \A x \in Calls : call[x] \in Call /\ InHand(call[x], now)
  BY DEF CallInv, CallTypeOK, FreeInv
<1>4. /\ call[c].pc = "idle" /\ \A x \in Rest : call'[x] = call[x]
      /\ call'[c].pc = "checked" /\ call'[c].est = est /\ now' = now
  <2>1. call' = [call EXCEPT ![c] = [NoCall EXCEPT !.pc = "checked", !.est = est]]
    BY DEF Check
  <2> QED
    BY <2>1 DEF Check, At, CallInv, CallTypeOK, NoCall
<1>5. f[c] = 0 /\ g[c] = est + Overshoot
  BY <1>3, <1>4, Terms DEF Weight
<1>6. \A x \in Rest : f[x] \in Int /\ g[x] \in Int /\ g[x] <= f[x] + k
  BY <1>3, <1>4, Terms DEF InHand
<1>7. \A x \in Calls : f[x] \in Int /\ g[x] \in Int
  <2>1. f[c] \in Int /\ g[c] \in Int
    BY <1>1, <1>5
  <2> QED
    BY <1>6, <2>1
<1>8. /\ IsFiniteSet(Calls) /\ IsFiniteSet(Rest)
      /\ Cardinality(Rest) = Cardinality(Calls) - 1 /\ Rest \in SUBSET Calls
  BY UsageConstants, FS_RemoveElement
<1>9. Held(now) = SumOf(f, Calls) /\ Pending(now)' = SumOf(g, Calls)
  BY <1>4 DEF Held, Pending
<1>10. Held(now) <= usage[now].reserved
  BY <1>1 DEF FreeInv
<1>11. est <= Quota
  BY <1>1, <1>2
<1> HIDE DEF f, g, Rest, k
<1>12. SumOf(g, Rest) <= SumOf(f, Rest) + Cardinality(Rest) * k
  BY <1>1, <1>6, <1>8, SumShift
<1>13. \A x \in Calls : f[x] \in Int
  BY <1>7
<1>14. \A x \in Calls : g[x] \in Int
  BY <1>7
<1>15. SumOf(f, Calls) = f[c] + SumOf(f, Rest) /\ SumOf(f, Rest) \in Int
  BY <1>8, <1>13, SumWith DEF Rest
<1>16. SumOf(g, Calls) = g[c] + SumOf(g, Rest) /\ SumOf(g, Rest) \in Int
  BY <1>8, <1>14, SumWith DEF Rest
<1>17. /\ Overrun = Quota + Overshoot + Cardinality(Rest) * k
       /\ Cardinality(Rest) * k \in Nat
  BY <1>2, <1>8, OverrunIs DEF k
<1>18. usage[now].used + SumOf(g, Calls) <= Overrun
  BY <1>1, <1>2, <1>5, <1>9, <1>10, <1>12, <1>15, <1>16, <1>17
<1> QED
  BY <1>9, <1>11, <1>18

(* Every step of a call but the failure of its cost row.                   *)
LEMMA FreeCallStep ==
  ASSUME CallInv, CallInv', FreeInv, Blocks(plan'), NEW c \in Calls,
         \/ \E est \in Estimates : Check(c, est)
         \/ \E actual \in 0..call[c].est + Overshoot : Answer(c, actual)
         \/ Reserve(c) \/ CommitLock(c) \/ CommitSave(c) \/ Log(c)
         \/ Fail(c) \/ Release(c) \/ CrashCall(c)
  PROVE  FreeInv'
<1>1. /\ call[c] \in Call /\ now \in Months /\ InHand(call[c], now)
      /\ call[c].month \in Months /\ call[c].est \in Nat
      /\ \A m \in Months : usage[m] \in Usage
  BY DEF CallInv, CallTypeOK, FreeInv, Call
<1>2. now \in Nat /\ now <= now /\ Overshoot \in Nat
  BY <1>1, UsageConstants DEF Months
<1>3. \A m \in Months : /\ usage[m].used \in Nat /\ usage[m].reserved \in Int
                        /\ Share(call[c], m) \in Nat /\ Weight(call[c], m, now) \in Nat
  BY <1>1, Terms DEF Usage
(* Steps that leave the rows alone and free what the call may hold.        *)
<1>4. ASSUME NEW v \in Call, call' = [call EXCEPT ![c] = v], UNCHANGED <<now, usage>>,
             InHand(v, now),
             \A m \in Months : /\ Share(v, m) <= Share(call[c], m)
                               /\ Weight(v, m, now) <= Weight(call[c], m, now)
      PROVE  FreeInv'
  <2>1. \A m \in Months : Share(v, m) \in Nat /\ Weight(v, m, now) \in Nat
    BY Terms
  <2>2. \A m \in Months : usage'[m].reserved - Share(v, m)
                              >= usage[m].reserved - Share(call[c], m)
    BY <1>3, <1>4, <2>1
  <2>3. \A m \in Months : usage'[m].used + Weight(v, m, now)
                              <= usage[m].used + Weight(call[c], m, now)
    BY <1>3, <1>4, <2>1
  <2> QED
    BY <1>4, <2>2, <2>3, FreeMove
<1>5. ASSUME NEW est \in Estimates, Check(c, est)
      PROVE  FreeInv'
  <2> DEFINE v == [NoCall EXCEPT !.pc = "checked", !.est = est]
  <2>1. /\ call' = [call EXCEPT ![c] = v] /\ UNCHANGED <<now, usage>>
        /\ call[c].pc = "idle"
    BY <1>5 DEF Check, At
  <2>2. v \in Call /\ v.pc = "checked" /\ v.est = est
    BY UsageConstants, IdleTyped DEF Call, Steps, NoCall
  <2>3. est <= Quota /\ usage[now].used + Pending(now)' <= Overrun
    BY <1>5, Admitted
  <2> HIDE DEF v
  <2>4. InHand(v, now)
    BY <2>2, <2>3 DEF InHand, ReservingSteps, HoldSteps
  <2>5. \A m \in Months : /\ Share(v, m) = 0 /\ Share(call[c], m) = 0
                          /\ Weight(call[c], m, now) = 0
                          /\ m # now => Weight(v, m, now) = 0
    BY <1>1, <2>1, <2>2, Terms DEF Share, Weight, ReservingSteps, HoldSteps
  <2>6. \A m \in Months : usage'[m].reserved - Share(v, m)
                              >= usage[m].reserved - Share(call[c], m)
    BY <1>3, <2>1, <2>5
  <2>7. \A m \in Months :
             \/ usage'[m].used + Weight(v, m, now) <= usage[m].used + Weight(call[c], m, now)
             \/ m = now /\ usage'[m].used + Pending(m)' <= Overrun
    BY <1>3, <2>1, <2>3, <2>5
  <2> QED
    BY <2>1, <2>2, <2>4, <2>6, <2>7, FreeMove
<1>6. ASSUME NEW actual \in 0..call[c].est + Overshoot, Answer(c, actual)
      PROVE  FreeInv'
  <2> DEFINE v == [call[c] EXCEPT !.pc = "answered", !.actual = actual, !.quota = plan.quota]
  <2>0. call[c].est + Overshoot \in Nat /\ plan.quota \in Nat \cup {None}
    BY <1>1, <1>2 DEF CallInv, CallTypeOK, PlanType
  <2>a. actual \in Nat /\ actual <= call[c].est + Overshoot
    BY <2>0
  <2>1. v \in Call
    BY <1>1, <2>0, <2>a DEF Call, Steps
  <2>2. /\ v.pc = "answered" /\ v.actual = actual /\ v.est = call[c].est
        /\ v.month = call[c].month
    BY <1>1 DEF Call
  <2>3. /\ call' = [call EXCEPT ![c] = v] /\ UNCHANGED <<now, usage>>
        /\ call[c].pc = "calling"
    BY <1>6 DEF Answer, At, CallInv, CallTypeOK, Call
  <2> HIDE DEF v
  <2>4. InHand(v, now)
    BY <1>1, <2>a, <2>2, <2>3 DEF InHand, ReservingSteps, HoldSteps
  <2>5. \A m \in Months : /\ Share(v, m) = Share(call[c], m)
                          /\ Weight(v, m, now) = Weight(call[c], m, now)
    BY <2>2, <2>3 DEF Share, Weight, ReservingSteps, HoldSteps
  <2>6. \A m \in Months : /\ Share(v, m) <= Share(call[c], m)
                          /\ Weight(v, m, now) <= Weight(call[c], m, now)
    BY <1>3, <2>5
  <2> QED
    BY <1>4, <2>1, <2>3, <2>4, <2>6
<1>7. CASE Reserve(c)
  <2> DEFINE v == [call[c] EXCEPT !.pc = "calling", !.month = now]
  <2>1. v \in Call
    BY <1>1 DEF Call, Steps
  <2>2. v.pc = "calling" /\ v.est = call[c].est /\ v.month = now
    BY <1>1 DEF Call
  <2>3. /\ call' = [call EXCEPT ![c] = v] /\ now' = now
        /\ call[c].pc = "checked"
        /\ usage' = [usage EXCEPT ![now].reserved = @ + call[c].est]
    BY <1>7 DEF Reserve, At, CallInv, CallTypeOK, Call
  <2> HIDE DEF v
  <2>4. InHand(v, now)
    BY <1>1, <1>2, <2>2, <2>3 DEF InHand, ReservingSteps, HoldSteps
  <2>5. \A m \in Months : /\ Share(call[c], m) = 0
                          /\ Share(v, m) = (IF m = now THEN call[c].est ELSE 0)
                          /\ Weight(v, m, now) = Weight(call[c], m, now)
    BY <2>2, <2>3 DEF Share, Weight, ReservingSteps, HoldSteps
  <2>6. \A m \in Months :
            /\ usage'[m].used = usage[m].used
            /\ usage'[m].reserved = usage[m].reserved + (IF m = now THEN call[c].est ELSE 0)
    BY <1>1, <1>3, <2>3 DEF CallInv, CallTypeOK, Usage
  <2>7. \A m \in Months : usage'[m].reserved - Share(v, m)
                              >= usage[m].reserved - Share(call[c], m)
    BY <1>1, <1>3, <2>5, <2>6
  <2>8. \A m \in Months : usage'[m].used + Weight(v, m, now)
                              <= usage[m].used + Weight(call[c], m, now)
    BY <1>3, <2>5, <2>6
  <2> QED
    BY <2>1, <2>3, <2>4, <2>7, <2>8, FreeMove
<1>8. CASE CommitLock(c)
  <2> DEFINE v == [call[c] EXCEPT !.pc = "committing", !.before = usage[call[c].month].used]
  <2>1. v \in Call
    BY <1>1, <1>3 DEF Call, Steps
  <2>2. /\ v.pc = "committing" /\ v.actual = call[c].actual /\ v.est = call[c].est
        /\ v.month = call[c].month
    BY <1>1 DEF Call
  <2>3. /\ call' = [call EXCEPT ![c] = v] /\ UNCHANGED <<now, usage>>
        /\ call[c].pc = "answered"
    BY <1>8 DEF CommitLock, At, CallInv, CallTypeOK, Call
  <2> HIDE DEF v
  <2>4. InHand(v, now)
    BY <1>1, <2>2, <2>3 DEF InHand, ReservingSteps, HoldSteps
  <2>5. \A m \in Months : /\ Share(v, m) = Share(call[c], m)
                          /\ Weight(v, m, now) = Weight(call[c], m, now)
    BY <2>2, <2>3 DEF Share, Weight, ReservingSteps, HoldSteps
  <2>6. \A m \in Months : /\ Share(v, m) <= Share(call[c], m)
                          /\ Weight(v, m, now) <= Weight(call[c], m, now)
    BY <1>3, <2>5
  <2> QED
    BY <1>4, <2>1, <2>3, <2>4, <2>6
<1>9. CASE CommitSave(c)
  <2> DEFINE v == [call[c] EXCEPT !.pc = "logging"]
             mc == call[c].month
  <2>1. v \in Call
    BY <1>1 DEF Call, Steps
  <2>2. v.pc = "logging" /\ v.est = call[c].est
    BY <1>1 DEF Call
  <2>3. /\ call' = [call EXCEPT ![c] = v] /\ now' = now
        /\ call[c].pc = "committing"
    BY <1>9 DEF CommitSave, Goto, At
  <2>4. /\ call[c].actual \in Nat /\ call[c].actual <= call[c].est + Overshoot
        /\ mc \in Months
    BY <1>1, <2>3 DEF InHand, Call
  <2>5. \A m \in Months :
            /\ usage'[m].used = usage[m].used + (IF m = mc THEN call[c].actual ELSE 0)
            /\ usage'[m].reserved = usage[m].reserved - (IF m = mc THEN call[c].est ELSE 0)
    BY <1>1, <1>3, <1>9, <2>4 DEF CommitSave, CallInv, CallTypeOK
  <2> HIDE DEF v
  <2>6. InHand(v, now)
    BY <1>1, <2>2, <2>3 DEF InHand, ReservingSteps, HoldSteps
  <2>7. \A m \in Months :
            /\ Share(v, m) = 0 /\ Weight(v, m, now) = 0
            /\ Share(call[c], m) = (IF m = mc THEN call[c].est ELSE 0)
            /\ Weight(call[c], m, now) = (IF m = mc THEN call[c].est + Overshoot ELSE 0)
    BY <2>2, <2>3 DEF Share, Weight, ReservingSteps, HoldSteps
  <2> HIDE DEF mc
  <2>8. \A m \in Months : usage'[m].reserved - Share(v, m)
                              >= usage[m].reserved - Share(call[c], m)
    BY <1>1, <1>3, <2>5, <2>7
  <2>9. \A m \in Months : usage'[m].used + Weight(v, m, now)
                              <= usage[m].used + Weight(call[c], m, now)
    BY <1>1, <1>2, <1>3, <2>4, <2>5, <2>7
  <2> QED
    BY <2>1, <2>3, <2>6, <2>8, <2>9, FreeMove
<1>10. CASE Log(c) \/ CrashCall(c)
  <2>1. NoCall \in Call /\ InHand(NoCall, now)
    BY IdleTyped DEF NoCall, InHand, ReservingSteps, HoldSteps
  <2>2. \A m \in Months : Share(NoCall, m) = 0 /\ Weight(NoCall, m, now) = 0
    BY <2>1, Terms DEF NoCall
  <2>3. \A m \in Months : /\ Share(NoCall, m) <= Share(call[c], m)
                          /\ Weight(NoCall, m, now) <= Weight(call[c], m, now)
    BY <1>3, <2>2
  <2>4. call' = [call EXCEPT ![c] = NoCall] /\ UNCHANGED <<now, usage>>
    BY <1>10 DEF Log, CrashCall
  <2> QED
    BY <1>4, <2>1, <2>3, <2>4
<1>11. CASE Fail(c)
  <2> DEFINE v == [call[c] EXCEPT !.pc = "releasing"]
  <2>1. v \in Call
    BY <1>1 DEF Call, Steps
  <2>2. v.pc = "releasing" /\ v.est = call[c].est /\ v.month = call[c].month
    BY <1>1 DEF Call
  <2>3. /\ call' = [call EXCEPT ![c] = v] /\ UNCHANGED <<now, usage>>
        /\ call[c].pc \in HoldSteps
    BY <1>11 DEF Fail, Goto, HoldSteps
  <2> HIDE DEF v
  <2>4. InHand(v, now)
    BY <1>1, <2>2, <2>3 DEF InHand, ReservingSteps, HoldSteps
  <2>5. \A m \in Months : Share(v, m) = Share(call[c], m) /\ Weight(v, m, now) = 0
    BY <2>2, <2>3 DEF Share, Weight, ReservingSteps, HoldSteps
  <2>6. \A m \in Months : /\ Share(v, m) <= Share(call[c], m)
                          /\ Weight(v, m, now) <= Weight(call[c], m, now)
    BY <1>3, <2>5
  <2> QED
    BY <1>4, <2>1, <2>3, <2>4, <2>6
<1>12. CASE Release(c)
  <2> DEFINE mc == call[c].month
  <2>1. NoCall \in Call /\ InHand(NoCall, now)
    BY IdleTyped DEF NoCall, InHand, ReservingSteps, HoldSteps
  <2>2. \A m \in Months : Share(NoCall, m) = 0 /\ Weight(NoCall, m, now) = 0
    BY <2>1, Terms DEF NoCall
  <2>3. /\ call' = [call EXCEPT ![c] = NoCall] /\ now' = now
        /\ call[c].pc = "releasing"
        /\ usage' = [usage EXCEPT ![mc].reserved = @ - call[c].est]
    BY <1>12 DEF Release, At
  <2>4. \A m \in Months : Share(call[c], m) = (IF m = mc THEN call[c].est ELSE 0)
    BY <2>3 DEF Share, ReservingSteps
  <2>5. \A m \in Months :
            /\ usage'[m].used = usage[m].used
            /\ usage'[m].reserved = usage[m].reserved - (IF m = mc THEN call[c].est ELSE 0)
    BY <1>1, <1>3, <2>3 DEF CallInv, CallTypeOK, Usage
  <2> HIDE DEF mc
  <2>6. \A m \in Months : usage'[m].reserved - Share(NoCall, m)
                              >= usage[m].reserved - Share(call[c], m)
    BY <1>1, <1>3, <2>2, <2>4, <2>5
  <2>7. \A m \in Months : usage'[m].used + Weight(NoCall, m, now)
                              <= usage[m].used + Weight(call[c], m, now)
    BY <1>3, <2>2, <2>5
  <2> QED
    BY <2>1, <2>3, <2>6, <2>7, FreeMove
<1> QED
  BY <1>5, <1>6, <1>7, <1>8, <1>9, <1>10, <1>11, <1>12

(* At midnight nothing is used of the month that begins, and what is only  *)
(* checked is pending there: one call within the quota and one estimate    *)
(* for each of the others.                                                 *)
LEMMA Midnight ==
  ASSUME CallInv, FreeInv, NextMonth
  PROVE  FreeInv'
<1>1. /\ now \in Nat /\ now' = now + 1 /\ now' \in Months /\ Months \subseteq Nat
      /\ UNCHANGED <<plan, usage, holder, call>>
  BY UsageConstants DEF CallInv, CallTypeOK, Months, NextMonth
<1>2. \A x \in Calls : /\ call[x] \in Call /\ InHand(call[x], now)
                       /\ call[x].month \in Nat /\ call[x].est \in Nat
  BY <1>1 DEF CallInv, CallTypeOK, FreeInv, Call
<1>3. \A x \in Calls : InHand(call[x], now + 1)
  <2> TAKE x \in Calls
  <2>1. InHand(call[x], now) /\ call[x].month \in Nat
    BY <1>2
  <2>2. call[x].month <= now => call[x].month <= now + 1
    BY <1>1, <2>1
  <2> QED
    BY <2>1, <2>2 DEF InHand
<1>4. /\ Quota \in Nat /\ Overrun = Quota + Overshoot + (Cardinality(Calls) - 1) * (Largest + Overshoot)
      /\ (Cardinality(Calls) - 1) * (Largest + Overshoot) \in Nat
      /\ Overshoot \in Nat /\ Largest \in Nat
  <2>1. Quota \in Nat
    BY Limited DEF FreeInv, CallInv
  <2> QED
    BY <2>1, OverrunIs, Estimated
<1>5. \A m \in Months : /\ usage[m].used \in Nat /\ Pending(m) \in Nat
                        /\ Held(m)' = Held(m)
  BY <1>1, PendingNat DEF CallInv, CallTypeOK, Usage, Held
<1>6. ASSUME NEW m \in Months, m # now + 1
      PROVE  usage[m].used + Pending(m)' <= Overrun
  <2> DEFINE f == [x \in Calls |-> Weight(call[x], m, now)]
             g == [x \in Calls |-> Weight(call[x], m, now + 1)]
  <2>1. \A x \in Calls : f[x] \in Int /\ g[x] \in Int /\ g[x] <= f[x] + 0
    <3> TAKE x \in Calls
    <3>1. /\ Weight(call[x], m, now) \in Nat /\ Weight(call[x], m, now + 1) \in Nat
      BY <1>2, Terms
    <3>2. Weight(call[x], m, now + 1) <= Weight(call[x], m, now)
      BY <1>2, <1>4, <1>6 DEF Weight, HoldSteps
    <3> QED
      BY <3>1, <3>2
  <2>2. Pending(m) = SumOf(f, Calls) /\ Pending(m)' = SumOf(g, Calls)
    BY <1>1 DEF Pending
  <2>3. IsFiniteSet(Calls) /\ Calls \in SUBSET Calls /\ 0 \in Nat
    BY UsageConstants
  <2> HIDE DEF f, g
  <2>4. SumOf(g, Calls) <= SumOf(f, Calls) + Cardinality(Calls) * 0
    BY <2>1, <2>3, SumShift
  <2>5. \A x \in Calls : g[x] \in Int
    BY <2>1
  <2>6. SumOf(g, Calls) \in Int /\ Cardinality(Calls) * 0 = 0
    BY <2>3, <2>5, SumInt, Estimated
  <2>7. usage[m].used + Pending(m) <= Overrun
    BY DEF FreeInv
  <2>8. Pending(m) \in Nat /\ usage[m].used \in Nat
    BY <1>5
  <2> QED
    BY <1>4, <2>2, <2>4, <2>6, <2>7, <2>8
<1>7. ASSUME NEW m \in Months, m = now + 1
      PROVE  usage[m].used + Pending(m)' <= Overrun
  <2> DEFINE f == [x \in Calls |-> 0]
             g == [x \in Calls |-> Weight(call[x], m, now + 1)]
             k == Largest + Overshoot
  <2>1. \A x \in Calls :
            g[x] = IF call[x].pc = "checked" THEN call[x].est + Overshoot ELSE 0
    <3> TAKE x \in Calls
    <3>1. call[x].pc \in HoldSteps => call[x].month # m
      BY <1>1, <1>2, <1>7 DEF InHand, ReservingSteps
    <3> QED
      BY <1>7, <3>1 DEF Weight
  <2>2. \A x \in Calls : /\ g[x] \in Int /\ f[x] \in Int /\ f[x] = 0
                         /\ g[x] <= f[x] + k /\ g[x] <= Quota + Overshoot
    <3> TAKE x \in Calls
    <3>1. call[x].pc = "checked" => /\ call[x].est \in Nat /\ call[x].est <= Quota
                                    /\ call[x].est <= Largest
      BY <1>2, Estimated DEF InHand
    <3>2. f[x] = 0
      OBVIOUS
    <3>3. g[x] = IF call[x].pc = "checked" THEN call[x].est + Overshoot ELSE 0
      BY <2>1
    <3> QED
      BY <1>4, <3>1, <3>2, <3>3
  <2>3. Pending(m)' = SumOf(g, Calls)
    BY <1>1 DEF Pending
  <2>4. PICK c \in Calls : TRUE
    BY UsageConstants
  <2> DEFINE Rest == Calls \ {c}
  <2>5. /\ IsFiniteSet(Calls) /\ IsFiniteSet(Rest) /\ Rest \in SUBSET Rest /\ k \in Nat
        /\ Cardinality(Rest) = Cardinality(Calls) - 1
    BY <1>4, UsageConstants, FS_RemoveElement
  <2> HIDE DEF f, g, k
  <2>6. \A x \in Rest : f[x] \in Int /\ g[x] \in Int /\ g[x] <= f[x] + k
    BY <2>2
  <2>7. \A x \in Calls : g[x] \in Int
    BY <2>2
  <2>8. \A x \in Rest : f[x] = 0
    BY <2>2
  <2>9. \A x \in Rest : f[x] \in Int
    BY <2>2
  <2>10. SumOf(g, Calls) = g[c] + SumOf(g, Rest) /\ SumOf(g, Rest) \in Int
    BY <2>5, <2>7, SumWith
  <2> HIDE DEF Rest
  <2>11. SumOf(g, Rest) <= SumOf(f, Rest) + Cardinality(Rest) * k
    BY <2>5, <2>6, SumShift
  <2>12. SumOf(f, Rest) = 0
    <3>1. SumOf(f, Rest) = SumOf(f, {})
      BY <2>5, <2>8, <2>9, SumSupport
    <3> QED
      BY <3>1, SumEmpty
  <2>13. g[c] \in Int /\ g[c] <= Quota + Overshoot
    BY <2>2, <2>4
  <2>14. usage[m].used = 0
    BY <1>1, <1>7 DEF FreeInv
  <2>15. Cardinality(Rest) * k \in Nat /\ Overrun = Quota + Overshoot + Cardinality(Rest) * k
    BY <1>4, <2>5 DEF k
  <2> QED
    BY <1>4, <2>3, <2>10, <2>11, <2>12, <2>13, <2>14, <2>15
<1>8. \A m \in Months : Held(m)' <= usage'[m].reserved
  BY <1>1, <1>5 DEF FreeInv
<1>9. \A m \in Months : m > now' => usage'[m].used = 0
  BY <1>1 DEF FreeInv
<1>10. \A x \in Calls : InHand(call'[x], now')
  BY <1>1, <1>3
<1>11. Blocks(plan')
  BY <1>1 DEF FreeInv
<1>12. \A m \in Months : usage'[m].used + Pending(m)' <= Overrun
  BY <1>1, <1>6, <1>7
<1> QED
  BY <1>8, <1>9, <1>10, <1>11, <1>12 DEF FreeInv

LEMMA FreeStarts ==
  ASSUME Init, Blocks(plan)
  PROVE  FreeInv
<1>1. CallInv
  BY CallInit_Inv DEF Init
<1>2. /\ \A c \in Calls : call[c] = NoCall
      /\ \A m \in Months : usage[m].used = 0 /\ usage[m].reserved = 0
  BY DEF Init, CallInit
<1>3. NoCall \in Call /\ NoCall.pc = "idle"
  BY IdleTyped DEF NoCall
<1>4. ASSUME NEW m \in Months
      PROVE  Held(m) = 0 /\ Pending(m) = 0
  <2> DEFINE f == [x \in Calls |-> Share(call[x], m)]
             g == [x \in Calls |-> Weight(call[x], m, now)]
  <2>1. (\A x \in Calls : f[x] = 0) /\ (\A x \in Calls : g[x] = 0)
    BY <1>2, <1>3, Terms
  <2>2. Held(m) = SumOf(f, Calls) /\ Pending(m) = SumOf(g, Calls)
    BY DEF Held, Pending
  <2>3. IsFiniteSet(Calls)
    BY UsageConstants
  <2> HIDE DEF f, g
  <2>4. (\A x \in Calls : f[x] \in Int) /\ (\A x \in Calls : g[x] \in Int)
    BY <2>1
  <2>5. SumOf(f, Calls) = SumOf(f, {})
    BY <2>1, <2>3, <2>4, SumSupport
  <2>6. SumOf(g, Calls) = SumOf(g, {})
    BY <2>1, <2>3, <2>4, SumSupport
  <2> QED
    BY <2>2, <2>5, <2>6, SumEmpty
<1>5. Overrun \in Nat
  <2>1. Quota \in Nat
    BY <1>1, Limited DEF CallInv
  <2> QED
    BY <2>1, OverrunIs, Estimated
<1>6. \A c \in Calls : InHand(call[c], now)
  BY <1>2, <1>3 DEF InHand, ReservingSteps, HoldSteps
<1>7. \A m \in Months : Held(m) <= usage[m].reserved /\ usage[m].used + Pending(m) <= Overrun
  BY <1>2, <1>4, <1>5
<1> QED
  BY <1>2, <1>6, <1>7 DEF FreeInv

LEMMA FreeKept ==
  ASSUME CallInv, FreeInv, FreeNext
  PROVE  FreeInv'
<1>1. Blocks(plan') /\ LogWritten /\ Next
  BY DEF FreeNext
<1>2. CASE CallNext /\ UNCHANGED settleVars
  <2>1. CallInv'
    BY <1>2, CallStep
  <2>2. ASSUME NEW c \in Calls, LogFails(c)
        PROVE  FALSE
    BY <1>1, <2>2 DEF LogFails, Goto, LogWritten, At, CallInv, CallTypeOK, Call, Steps
  <2>3. ASSUME NEW p \in Plans, Switch(p)
        PROVE  FreeInv'
    <3>1. UNCHANGED <<now, usage, call>>
      BY <2>3 DEF Switch
    <3>2. \A m : Held(m)' = Held(m) /\ Pending(m)' = Pending(m)
      BY <3>1 DEF Held, Pending
    <3> QED
      BY <1>1, <3>1, <3>2 DEF FreeInv
  <2> QED
    BY <1>1, <1>2, <2>1, <2>2, <2>3, FreeCallStep, Midnight DEF CallNext
<1>3. CASE UNCHANGED callVars
  <2>1. UNCHANGED <<now, plan, usage, call>>
    BY <1>3 DEF callVars
  <2>2. \A m : Held(m)' = Held(m) /\ Pending(m)' = Pending(m)
    BY <2>1 DEF Held, Pending
  <2> QED
    BY <2>1, <2>2 DEF FreeInv
<1> QED
  BY <1>1, <1>2, <1>3 DEF Next
-----------------------------------------------------------------------------
(* A settlement of the batch only ever sees closed months.                 *)
LEMMA MonthlyKept ==
  ASSUME CallInv, SettleTypeOK, ExactInv, MonthlyNext
  PROVE  ExactInv'
<1>1. ASSUME NEW s \in Settlers, NEW m \in Months, Settle(s, m)
      PROVE  Closed(m)
  <2>1. settler[s].pc = "idle" /\ settler'[s].pc = "sending" /\ settler'[s].month = m
    BY <1>1 DEF Settle, SettleTypeOK
  <2> QED
    BY <2>1 DEF MonthlyNext, ByBatch
<1>2. [Next]_vars
  BY DEF MonthlyNext
<1> QED
  BY <1>1, <1>2, ExactStep

(* All settings at once.                                                   *)
ModeInv ==
    /\ CallInv
    /\ SettleTypeOK
    /\ mode = "free" => FreeInv
    /\ mode = "monthly" => ExactInv

LEMMA ModeStarts == ModeInit => ModeInv
<1> SUFFICES ASSUME ModeInit PROVE ModeInv
  OBVIOUS
<1>1. CallInv /\ SettleTypeOK
  BY CallInit_Inv, SettleInit DEF ModeInit, Init, SettleInv
<1>2. ExactInv
  BY DEF ModeInit, Init, ExactInv, NoSettler, Reached
<1>3. mode = "free" => FreeInv
  BY FreeStarts DEF ModeInit
<1> QED
  BY <1>1, <1>2, <1>3 DEF ModeInv

LEMMA ModeKept == ModeInv /\ [ModeNext]_<<mode, vars>> => ModeInv'
<1> SUFFICES ASSUME ModeInv, [ModeNext]_<<mode, vars>> PROVE ModeInv'
  OBVIOUS
<1>1. [Next]_vars /\ mode' = mode
  BY DEF ModeNext, AnyNext, FreeNext, MonthlyNext
<1>2. CallInv' /\ SettleTypeOK'
  <2>1. CASE CallNext /\ UNCHANGED settleVars
    BY <2>1, CallStep DEF ModeInv, SettleTypeOK, settleVars
  <2>2. CASE SettleNext /\ UNCHANGED callVars
    BY <2>2, SettleTyped, CallsUntouched DEF ModeInv
  <2>3. CASE UNCHANGED vars
    BY <2>3, CallsUntouched DEF ModeInv, vars, callVars, SettleTypeOK
  <2> QED
    BY <1>1, <2>1, <2>2, <2>3 DEF Next
<1>3. CASE ModeNext
  BY <1>1, <1>2, <1>3, FreeKept, MonthlyKept DEF ModeNext, ModeInv
<1>4. CASE UNCHANGED <<mode, vars>>
  <2>1. UNCHANGED <<now, plan, usage, call, settler, meter, reported>>
    BY <1>4 DEF vars
  <2>2. \A m : Held(m)' = Held(m) /\ Pending(m)' = Pending(m)
    BY <2>1 DEF Held, Pending
  <2>3. FreeInv => FreeInv'
    BY <2>1, <2>2 DEF FreeInv
  <2>4. ExactInv => ExactInv'
    <3>1. UNCHANGED vars
      BY <1>4
    <3> QED
      BY <2>1, <3>1 DEF ExactInv, Exact, Still, Reached, Sent
  <2> QED
    BY <1>1, <1>2, <2>3, <2>4 DEF ModeInv
<1> QED
  BY <1>3, <1>4

(* Where plans block and every cost row is written, the reservations of a  *)
(* month cover every call in flight that was reserved in it, through       *)
(* midnights, plan changes, failures of the provider and crashes.          *)
THEOREM FreeReservations == ModeSpec => []FreeReservedCovers
<1>1. ModeInv => FreeReservedCovers
  BY FreeProperties DEF ModeInv, FreeReservedCovers
<1> QED
  BY <1>1, ModeStarts, ModeKept, PTL DEF ModeSpec

(* There, what calls slip past each other between check and reserve never  *)
(* exceeds the largest quota by more than one estimate per further caller  *)
(* and one overshoot per caller, however many run and interleave, over any *)
(* sequence of calls and months.                                           *)
THEOREM FreeOverrun == ModeSpec => []FreeOverrunBounded
<1>1. ModeInv => FreeOverrunBounded
  BY FreeProperties DEF ModeInv, FreeOverrunBounded
<1> QED
  BY <1>1, ModeStarts, ModeKept, PTL DEF ModeSpec

(* Settled by the batch alone, an organisation is credited what was sent   *)
(* to Stripe, without a gap, whatever answers are lost and settlements     *)
(* crash or run side by side.                                              *)
THEOREM MonthlyCredits == ModeSpec => []MonthlyCreditIsCharged
<1>1. ModeInv => MonthlyCreditIsCharged
  BY DEF ModeInv, MonthlyCreditIsCharged, ExactInv, Exact, CreditIsCharged
<1> QED
  BY <1>1, ModeStarts, ModeKept, PTL DEF ModeSpec
===============================================================================
