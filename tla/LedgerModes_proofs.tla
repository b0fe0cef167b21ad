-------------------------- MODULE LedgerModes_proofs --------------------------
(***************************************************************************)
(* Theorems about the settings of MC_LedgerModes, for any sessions,        *)
(* requests, pools, amounts and totals: the handlers that read again under *)
(* the row lock running at once, and all handlers one at a time.           *)
(***************************************************************************)
EXTENDS MC_LedgerModes, BudgetLedger_proofs, SetLemmas

(* The statuses a handler may have loaded at each step; it saves that row, *)
(* or unlocks the request, without a look at the table.                    *)
LoadedAs(step) ==
    CASE step \in {"submit", "submit_save", "task_submit"} -> {"DRAFT"}
      [] step = "start_review" -> {"SUBMITTED"}
      [] step = "revise" -> {"REJECTED", "CANCELLED"}
      [] OTHER -> {"LOCKED"}

SavesLoaded == {"submit", "submit_save", "task_submit", "start_review", "revise",
                "unlock_read", "unlock_pool", "unlock_req"}
AddsToSeen == {"lock_pool", "lock_commit", "cancel_pool", "unlock_pool"}

(* With nobody else at work, what a handler has loaded is what the tables  *)
(* hold.                                                                   *)
Snapshot(s) ==
    /\ sess[s].pc \in SerialSteps
    /\ sess[s].pc \in SavesLoaded =>
           req[sess[s].r] = sess[s].row /\ sess[s].row.status \in LoadedAs(sess[s].pc)
    /\ sess[s].pc \in AddsToSeen => sess[s].seen = used[sess[s].p]

(* What stands deducted for each request, and in each pool the sum of it.  *)
Deducted(r) == IF req[r].status = "LOCKED" /\ ~HalfUnlocked(r) THEN req[r].amount ELSE 0
OfPool(p) == {r \in Requests : PoolOf[r] = p}

Accounts ==
    /\ \A r \in Requests : charged[r] = Deducted(r)
    /\ \A p \in Pools : used[p] = SumOf(charged, OfPool(p))

SerialInv == HeldInv /\ LockedFits /\ Accounts /\ \A s \in Sessions : Snapshot(s)
-----------------------------------------------------------------------------
(* What one handler running alone does to the tables.                      *)
UnlockPending(s) == At(s, "unlock_req")

Nothing(s) ==
    UNCHANGED <<req, used, charged>> /\ ~UnlockPending(s) /\ ~UnlockPending(s)'

(* A row that stands deducted for nothing keeps doing so.                  *)
QuietMove(r) ==
    /\ \/ StatusMove(r, {"DRAFT"}, "SUBMITTED")
       \/ StatusMove(r, {"SUBMITTED"}, "UNDER_REVIEW")
       \/ StatusMove(r, {"REJECTED", "CANCELLED"}, "DRAFT")
       \/ PlainMove(r)
       \/ /\ req[r].status = "NEW"
          /\ \E amount \in Amounts : req' = [req EXCEPT ![r] = [status |-> "DRAFT", amount |-> amount]]
    /\ UNCHANGED <<used, charged>>

Quiet(s) == ~UnlockPending(s) /\ ~UnlockPending(s)' /\ \E r \in Requests : QuietMove(r)

LockMoney(s) ==
    /\ ~UnlockPending(s) /\ ~UnlockPending(s)'
    /\ \E r \in Requests :
        /\ DeductingMove(r)
        /\ used' = [used EXCEPT ![PoolOf[r]] = @ + req[r].amount]

CancelMoney(s) ==
    /\ ~UnlockPending(s) /\ ~UnlockPending(s)'
    /\ \E r \in Requests :
        /\ ReversingMove(r)
        /\ used' = [used EXCEPT ![PoolOf[r]] = Less(@, req[r].amount)]

(* The first statement of unlock, then the second.                         *)
UnlockMoney(s) ==
    /\ ~UnlockPending(s) /\ UnlockPending(s)' /\ sess'[s].r = sess[s].r
    /\ sess[s].r \in Requests /\ req[sess[s].r].status = "LOCKED"
    /\ Reverse(sess[s].r, req[sess[s].r].amount)
    /\ used' = [used EXCEPT ![PoolOf[sess[s].r]] = Less(@, req[sess[s].r].amount)]
    /\ UNCHANGED req

UnlockStatus(s) ==
    /\ UnlockPending(s) /\ ~UnlockPending(s)'
    /\ sess[s].r \in Requests /\ StatusMove(sess[s].r, {"LOCKED"}, "APPROVED")
    /\ UNCHANGED <<used, charged>>

Effect(s) ==
    Nothing(s) \/ Quiet(s) \/ LockMoney(s) \/ CancelMoney(s) \/ UnlockMoney(s) \/ UnlockStatus(s)

(* The handler that runs is the only one that can be half done.            *)
LEMMA OnlyItsHalf ==
  ASSUME NEW s \in Sessions, NEW r
  PROVE  /\ OthersIdle(s) => (HalfUnlocked(r) <=> UnlockPending(s) /\ sess[s].r = r)
         /\ OthersIdle(s)' => (HalfUnlocked(r)' <=> UnlockPending(s)' /\ sess'[s].r = r)
  BY DEF OthersIdle, HalfUnlocked, UnlockPending, At

LEMMA PoolsFinite == \A p \in Pools : OfPool(p) \subseteq Requests /\ IsFiniteSet(OfPool(p))
  BY LedgerConstants, FS_Subset DEF OfPool

(* One request's deduction changes, and with it the sum of its pool.       *)
LEMMA OneChanged ==
  ASSUME NEW f \in [Requests -> Int], NEW r \in Requests, NEW n \in Int, NEW p \in Pools
  PROVE  SumOf([f EXCEPT ![r] = n], OfPool(p)) =
             IF PoolOf[r] = p THEN SumOf(f, OfPool(p)) - f[r] + n ELSE SumOf(f, OfPool(p))
<1> DEFINE g == [f EXCEPT ![r] = n]
           S == OfPool(p)
<1>1. IsFiniteSet(S) /\ S \subseteq Requests /\ (PoolOf[r] = p <=> r \in S)
  BY PoolsFinite DEF OfPool
<1>2. \A x \in S : f[x] \in Int /\ g[x] \in Int
  BY <1>1
<1>3. g[r] = n /\ \A x \in S \ {r} : f[x] = g[x]
  BY <1>1
<1> HIDE DEF g, S
<1>4. CASE r \in S
  <2>1. SumOf(g, S) = SumOf(f, S) - f[r] + g[r]
    BY <1>1, <1>2, <1>3, <1>4, SumChange
  <2> QED
    BY <1>1, <1>3, <1>4, <2>1 DEF g, S
<1>5. CASE r \notin S
  <2>1. \A x \in S : f[x] = g[x]
    BY <1>3, <1>5
  <2>2. S \in SUBSET S
    OBVIOUS
  <2>3. SumOf(f, S) = SumOf(g, S)
    BY <1>1, <2>1, <2>2, SumSame
  <2> QED
    BY <1>1, <1>5, <2>3 DEF g, S
<1> QED
  BY <1>4, <1>5

LEMMA OneDeduction ==
  ASSUME TypeInv, Accounts, NEW r \in Requests, NEW n \in Nat,
         charged' = [charged EXCEPT ![r] = n],
         used' = [used EXCEPT ![PoolOf[r]] = @ - charged[r] + n]
  PROVE  \A p \in Pools : used'[p] = SumOf(charged', OfPool(p))
<1> SUFFICES ASSUME NEW p \in Pools
             PROVE used'[p] = SumOf([charged EXCEPT ![r] = n], OfPool(p))
  OBVIOUS
<1>1. used \in [Pools -> Nat] /\ charged \in [Requests -> Int] /\ PoolOf[r] \in Pools
  BY LedgerConstants DEF TypeInv, TypeOK
<1>2. used[p] = SumOf(charged, OfPool(p))
  BY DEF Accounts
<1>3. SumOf([charged EXCEPT ![r] = n], OfPool(p)) =
          IF PoolOf[r] = p THEN SumOf(charged, OfPool(p)) - charged[r] + n
          ELSE SumOf(charged, OfPool(p))
  <2>1. charged \in [Requests -> Int] /\ n \in Int
    BY <1>1
  <2> QED
    BY <2>1, OneChanged
<1>4. used'[p] = IF PoolOf[r] = p THEN used[p] - charged[r] + n ELSE used[p]
  BY <1>1
<1> QED
  BY <1>2, <1>3, <1>4

(* A pool holds at least what each of its requests stands deducted for, so *)
(* the floor of Less is never reached.                                     *)
LEMMA DeductionCovered ==
  ASSUME TypeInv, Accounts, NEW r \in Requests, \A x \in Requests : charged[x] \in Nat
  PROVE  Less(used[PoolOf[r]], charged[r]) = used[PoolOf[r]] - charged[r]
<1> DEFINE p == PoolOf[r]
<1>1. p \in Pools /\ r \in OfPool(p)
  BY LedgerConstants DEF OfPool
<1>2. IsFiniteSet(OfPool(p)) /\ OfPool(p) \subseteq Requests
  BY <1>1, PoolsFinite
<1>3. \A x \in OfPool(p) : charged[x] \in Nat
  BY <1>2
<1>4. \A x \in OfPool(p) : charged[x] \in Int
  BY <1>3
<1>5. SumOf(charged, OfPool(p)) = charged[r] + SumOf(charged, OfPool(p) \ {r})
  BY <1>1, <1>2, <1>4, SumWith
<1>6. OfPool(p) \ {r} \in SUBSET OfPool(p)
  OBVIOUS
<1>7. SumOf(charged, OfPool(p) \ {r}) \in Nat
  BY <1>2, <1>3, <1>6, SumMonotone
<1>8. used[p] = SumOf(charged, OfPool(p))
  BY <1>1 DEF Accounts
<1> QED
  BY <1>5, <1>7, <1>8 DEF Less

(* What stands deducted is never negative, and nothing where the request is*)
(* not LOCKED.                                                             *)
LEMMA ChargedNat ==
  ASSUME TypeInv, Accounts, NEW r \in Requests
  PROVE  /\ charged[r] \in Nat /\ req[r].amount \in Nat
         /\ req[r].status # "LOCKED" => charged[r] = 0
         /\ req[r].status = "LOCKED" /\ ~HalfUnlocked(r) => charged[r] = req[r].amount
<1>1. req[r].amount \in Nat
  BY AmountsAreNat DEF TypeInv, TypeOK, Rows
<1> QED
  BY <1>1 DEF Accounts, Deducted

(* Each effect keeps the accounts.                                         *)
LEMMA QuietAccounts ==
  ASSUME TypeInv, Accounts, LockedFits, NEW s \in Sessions, OthersIdle(s), OthersIdle(s)',
         Nothing(s) \/ Quiet(s)
  PROVE  LockedFits' /\ Accounts'
<1>1. \A r \in Requests : ~HalfUnlocked(r) /\ ~HalfUnlocked(r)'
  BY OnlyItsHalf DEF Nothing, Quiet
<1>2. req \in [Requests -> Rows]
  BY DEF TypeInv, TypeOK
<1>3. UNCHANGED <<used, charged>>
  BY DEF Nothing, Quiet, QuietMove
<1>4. \A r \in Requests : \/ req'[r] = req[r]
                          \/ req'[r].status # "LOCKED" /\ req[r].status # "LOCKED"
  <2>1. CASE Nothing(s)
    BY <2>1 DEF Nothing
  <2>2. CASE Quiet(s)
    <3>1. PICK r \in Requests : QuietMove(r)
      BY <2>2 DEF Quiet
    <3>2. ASSUME NEW source, NEW target \in {"SUBMITTED", "UNDER_REVIEW", "DRAFT", "APPROVED",
                                             "REJECTED", "CANCELLED"},
                 StatusMove(r, source, target), "LOCKED" \notin source
          PROVE  req'[r].status # "LOCKED" /\ req[r].status # "LOCKED"
      BY <3>2, <1>2 DEF StatusMove
    <3>3. req'[r].status # "LOCKED" /\ req[r].status # "LOCKED"
      BY <3>1, <3>2, <1>2 DEF QuietMove, PlainMove
    <3>4. \A x \in Requests \ {r} : req'[x] = req[x]
      BY <3>1, <1>2 DEF QuietMove, PlainMove, StatusMove
    <3> QED
      BY <3>3, <3>4
  <2> QED
    BY <2>1, <2>2
<1>5. LockedFits'
  BY <1>4 DEF LockedFits
<1>6. \A r \in Requests : charged'[r] = Deducted(r)'
  BY <1>1, <1>3, <1>4 DEF Accounts, Deducted
<1>7. \A p \in Pools : used'[p] = SumOf(charged', OfPool(p))
  BY <1>3 DEF Accounts
<1> QED
  BY <1>5, <1>6, <1>7 DEF Accounts, OfPool

LEMMA LockAccounts ==
  ASSUME TypeInv, Accounts, LockedFits, NEW s \in Sessions, OthersIdle(s), OthersIdle(s)',
         LockMoney(s)
  PROVE  LockedFits' /\ Accounts'
<1>1. \A x \in Requests : ~HalfUnlocked(x) /\ ~HalfUnlocked(x)'
  BY OnlyItsHalf DEF LockMoney
<1>2. PICK r \in Requests : /\ DeductingMove(r)
                             /\ used' = [used EXCEPT ![PoolOf[r]] = @ + req[r].amount]
  BY DEF LockMoney
<1> DEFINE n == req[r].amount
<1>3. n \in Nat /\ charged[r] = 0 /\ n <= Ceiling
  BY <1>2, ChargedNat DEF DeductingMove, StatusMove
<1>4. charged' = [charged EXCEPT ![r] = n]
  <2>1. charged[r] + n = n
    BY <1>3
  <2>2. WithinCeiling(n) = n
    BY <1>3, LedgerConstants DEF WithinCeiling
  <2> QED
    BY <1>2, <2>1, <2>2 DEF DeductingMove, Deduct
<1>5. used' = [used EXCEPT ![PoolOf[r]] = @ - charged[r] + n]
  <2>1. used[PoolOf[r]] \in Nat
    BY LedgerConstants DEF TypeInv, TypeOK
  <2>2. used[PoolOf[r]] + n = used[PoolOf[r]] - charged[r] + n
    BY <2>1, <1>3
  <2> QED
    BY <1>2, <2>2
<1>6. \A p \in Pools : used'[p] = SumOf(charged', OfPool(p))
  BY <1>3, <1>4, <1>5, OneDeduction
<1>7. /\ req'[r].status = "LOCKED" /\ req'[r].amount = n
      /\ \A x \in Requests \ {r} : req'[x] = req[x]
  BY <1>2 DEF DeductingMove, StatusMove, TypeInv, TypeOK
<1>8. charged'[r] = n /\ \A x \in Requests \ {r} : charged'[x] = charged[x]
  BY <1>4 DEF TypeInv, TypeOK
<1>9. LockedFits'
  BY <1>3, <1>7 DEF LockedFits
<1>10. \A x \in Requests : charged'[x] = Deducted(x)'
  BY <1>1, <1>7, <1>8 DEF Accounts, Deducted
<1> QED
  BY <1>6, <1>9, <1>10 DEF Accounts, OfPool

(* Taking a deduction back, by cancel or by the first half of unlock.      *)
LEMMA Reversed ==
  ASSUME TypeInv, Accounts, LockedFits, NEW r \in Requests,
         req[r].status = "LOCKED", ~HalfUnlocked(r), Reverse(r, req[r].amount),
         used' = [used EXCEPT ![PoolOf[r]] = Less(@, req[r].amount)]
  PROVE  /\ charged' = [charged EXCEPT ![r] = 0]
         /\ \A p \in Pools : used'[p] = SumOf(charged', OfPool(p))
<1>1. charged[r] = req[r].amount /\ \A x \in Requests : charged[x] \in Nat
  BY ChargedNat
<1>2. charged' = [charged EXCEPT ![r] = 0]
  <2>1. charged[r] - req[r].amount = 0
    BY <1>1
  <2>2. WithinCeiling(0) = 0
    BY LedgerConstants DEF WithinCeiling
  <2> QED
    BY <2>1, <2>2 DEF Reverse
<1>3. used' = [used EXCEPT ![PoolOf[r]] = @ - charged[r] + 0]
  <2>1. used[PoolOf[r]] \in Nat
    BY LedgerConstants DEF TypeInv, TypeOK
  <2>2. Less(used[PoolOf[r]], req[r].amount) = used[PoolOf[r]] - charged[r] + 0
    BY <1>1, <2>1, DeductionCovered
  <2> QED
    BY <2>2
<1> QED
  BY <1>2, <1>3, OneDeduction

LEMMA ReverseAccounts ==
  ASSUME TypeInv, Accounts, LockedFits, NEW s \in Sessions, OthersIdle(s), OthersIdle(s)',
         CancelMoney(s) \/ UnlockMoney(s)
  PROVE  LockedFits' /\ Accounts'
<1>1. \A x \in Requests : ~HalfUnlocked(x)
  BY OnlyItsHalf DEF CancelMoney, UnlockMoney
<1>a. req \in [Requests -> Rows] /\ charged \in [Requests -> Int]
  BY DEF TypeInv, TypeOK
<1>2. PICK r \in Requests :
          /\ req[r].status = "LOCKED" /\ Reverse(r, req[r].amount)
          /\ used' = [used EXCEPT ![PoolOf[r]] = Less(@, req[r].amount)]
          /\ \/ req'[r].status # "LOCKED"
             \/ UNCHANGED req /\ HalfUnlocked(r)'
          /\ \A x \in Requests \ {r} : req'[x] = req[x] /\ ~HalfUnlocked(x)'
  <2>1. CASE CancelMoney(s)
    <3>1. PICK r \in Requests : ReversingMove(r) /\
                                 used' = [used EXCEPT ![PoolOf[r]] = Less(@, req[r].amount)]
      BY <2>1 DEF CancelMoney
    <3>2. \A x \in Requests : ~HalfUnlocked(x)'
      BY <2>1, OnlyItsHalf DEF CancelMoney
    <3>3. req'[r].status # "LOCKED" /\ \A x \in Requests \ {r} : req'[x] = req[x]
      BY <3>1, <1>a DEF ReversingMove, StatusMove
    <3> QED
      BY <3>1, <3>2, <3>3 DEF ReversingMove, StatusMove
  <2>2. CASE UnlockMoney(s)
    <3>1. \A x \in Requests : HalfUnlocked(x)' <=> x = sess[s].r
      BY <2>2, OnlyItsHalf DEF UnlockMoney
    <3> QED
      BY <2>2, <3>1 DEF UnlockMoney
  <2> QED
    BY <2>1, <2>2
<1>3. /\ charged' = [charged EXCEPT ![r] = 0]
      /\ \A p \in Pools : used'[p] = SumOf(charged', OfPool(p))
  BY <1>1, <1>2, Reversed
<1>4. LockedFits'
  BY <1>2 DEF LockedFits
<1>5. charged'[r] = 0 /\ \A x \in Requests \ {r} : charged'[x] = charged[x]
  BY <1>3, <1>a
<1>6. \A x \in Requests : charged'[x] = Deducted(x)'
  BY <1>1, <1>2, <1>5 DEF Accounts, Deducted
<1> QED
  BY <1>3, <1>4, <1>6 DEF Accounts, OfPool

LEMMA UnlockAccounts ==
  ASSUME TypeInv, Accounts, LockedFits, NEW s \in Sessions, OthersIdle(s), OthersIdle(s)',
         UnlockStatus(s)
  PROVE  LockedFits' /\ Accounts'
<1> DEFINE r == sess[s].r
<1>1. r \in Requests /\ \A x \in Requests : (HalfUnlocked(x) <=> x = r) /\ ~HalfUnlocked(x)'
  BY OnlyItsHalf DEF UnlockStatus
<1>2. req'[r].status = "APPROVED" /\ \A x \in Requests \ {r} : req'[x] = req[x]
  BY <1>1 DEF UnlockStatus, StatusMove, TypeInv, TypeOK
<1>3. UNCHANGED <<used, charged>>
  BY DEF UnlockStatus
<1>4. LockedFits'
  BY <1>2 DEF LockedFits
<1>5. \A x \in Requests : charged'[x] = Deducted(x)'
  BY <1>1, <1>2, <1>3 DEF Accounts, Deducted
<1>6. \A p \in Pools : used'[p] = SumOf(charged', OfPool(p))
  BY <1>3 DEF Accounts
<1> QED
  BY <1>4, <1>5, <1>6 DEF Accounts, OfPool

LEMMA EffectAccounts ==
  ASSUME TypeInv, Accounts, LockedFits, NEW s \in Sessions, OthersIdle(s), OthersIdle(s)',
         Effect(s)
  PROVE  LockedFits' /\ Accounts'
  BY QuietAccounts, LockAccounts, ReverseAccounts, UnlockAccounts DEF Effect
-----------------------------------------------------------------------------
(* Each step of a handler that runs alone has one of the effects, and what *)
(* the handler has loaded stays what the tables hold.                      *)
LEMMA FinishSnapshot ==
  ASSUME TypeInv, NEW s \in Sessions, Finish(s)
  PROVE  Snapshot(s)' /\ ~UnlockPending(s)'
<1>1. sess'[s] = Idle
  BY DEF Finish, TypeInv, TypeOK
<1> QED
  BY <1>1 DEF Idle, Snapshot, SerialSteps, Steps, SavesLoaded, AddsToSeen, UnlockPending, At

LEMMA FailEffect ==
  ASSUME TypeInv, NEW s \in Sessions, ~UnlockPending(s), Fail(s)
  PROVE  Effect(s) /\ Snapshot(s)'
  BY FinishSnapshot DEF Fail, Effect, Nothing

(* Another step of the same handler, nothing written yet.                  *)
LEMMA OnwardEffect ==
  ASSUME SerialInv, NEW s \in Sessions, NEW step \in SerialSteps \ {"unlock_req"},
         NEW row, NEW seen, ~UnlockPending(s), UNCHANGED <<req, used, charged>>,
         sess' = [sess EXCEPT ![s].pc = step, ![s].row = row, ![s].seen = seen],
         step \in SavesLoaded => req[sess[s].r] = row /\ row.status \in LoadedAs(step),
         step \in AddsToSeen => seen = used[sess[s].p]
  PROVE  Effect(s) /\ Snapshot(s)'
<1>1. sess[s] \in Session /\ sess \in [Sessions -> Session]
  BY DEF SerialInv, HeldInv, TypeInv, TypeOK, Session
<1>2. /\ sess'[s].pc = step /\ sess'[s].row = row /\ sess'[s].seen = seen
      /\ sess'[s].r = sess[s].r /\ sess'[s].p = sess[s].p
  BY <1>1 DEF Session
<1>3. Snapshot(s)'
  BY <1>2 DEF Snapshot
<1>4. ~UnlockPending(s)'
  BY <1>2 DEF UnlockPending, At
<1> QED
  BY <1>3, <1>4 DEF Effect, Nothing

LEMMA StartEffect ==
  ASSUME SerialInv, NEW s \in Sessions, Start(s), sess'[s].pc \in SerialSteps
  PROVE  Effect(s) /\ Snapshot(s)'
<1> USE DEF At
<1>a. sess \in [Sessions -> Session] /\ req \in [Requests -> Rows]
  BY DEF SerialInv, HeldInv, TypeInv, TypeOK, Session
<1>b. ~UnlockPending(s)
  BY DEF Start, Load, Create, PoolLoad, UnlockPending
<1>1. CASE Load(s)
  <2>1. PICK op \in Ops \ {"create", "pool_patch", "crash"}, r \in Requests :
            /\ req[r].status \in Admits(FirstStep(op))
            /\ sess' = [sess EXCEPT ![s] = [pc |-> FirstStep(op), r |-> r, row |-> req[r],
                                            p |-> PoolOf[r], seen |-> 0]]
    BY <1>1 DEF Load
  <2>2. sess'[s] = [pc |-> FirstStep(op), r |-> r, row |-> req[r], p |-> PoolOf[r], seen |-> 0]
    BY <2>1, <1>a
  <2>3. op \in {"task_submit", "start_review", "decide", "lock", "cancel", "unlock", "revise",
                "patch", "delete"}
    BY LedgerConstants DEF AllOps
  <2>4. FirstStep(op) \in {"task_submit", "start_review", "decide", "lock", "cancel",
                           "unlock_read", "revise"}
    BY <2>2, <2>3 DEF FirstStep, SerialSteps
  <2>5. FirstStep(op) \in SavesLoaded => req[r].status \in LoadedAs(FirstStep(op))
    BY <2>1, <2>4 DEF Admits, LoadedAs, SavesLoaded
  <2>6. FirstStep(op) \notin AddsToSeen /\ FirstStep(op) # "unlock_req"
    BY <2>4 DEF AddsToSeen
  <2>7. UNCHANGED <<req, used, charged>>
    BY <1>1 DEF Load
  <2>8. Snapshot(s)'
    BY <2>2, <2>5, <2>6, <2>7 DEF Snapshot
  <2>9. ~UnlockPending(s)'
    BY <2>2, <2>6 DEF UnlockPending
  <2> QED
    BY <1>b, <2>7, <2>8, <2>9 DEF Effect, Nothing
<1>2. CASE Create(s)
  <2>1. PICK r \in Requests, amount \in Amounts, step \in {"idle", "submit"} :
            LET row == [status |-> "DRAFT", amount |-> amount] IN
            /\ req[r].status = "NEW"
            /\ req' = [req EXCEPT ![r] = row]
            /\ sess' = IF step = "idle" THEN sess
                       ELSE [sess EXCEPT ![s] = [pc |-> "submit", r |-> r, row |-> row,
                                                 p |-> PoolOf[r], seen |-> 0]]
    BY <1>2 DEF Create
  <2> DEFINE row == [status |-> "DRAFT", amount |-> amount]
  <2>2. QuietMove(r)
    BY <1>2, <2>1 DEF Create, QuietMove
  <2>3. CASE step = "idle"
    <3>1. sess'[s].pc = "idle"
      BY <1>2, <2>1, <2>3 DEF Create
    <3> QED
      BY <1>b, <2>2, <3>1 DEF Effect, Quiet, UnlockPending, Snapshot, SavesLoaded, AddsToSeen
  <2>4. CASE step = "submit"
    <3>1. sess'[s] = [pc |-> "submit", r |-> r, row |-> row, p |-> PoolOf[r], seen |-> 0]
      BY <2>1, <2>4, <1>a
    <3>2. req'[r] = row
      BY <2>1, <1>a
    <3>3. Snapshot(s)'
      BY <3>1, <3>2 DEF Snapshot, SavesLoaded, AddsToSeen, LoadedAs
    <3> QED
      BY <1>b, <2>2, <3>1, <3>3 DEF Effect, Quiet, UnlockPending
  <2> QED
    BY <2>3, <2>4
<1>3. CASE PoolLoad(s)
  <2>1. sess'[s].pc = "pool_patch"
    BY <1>3, <1>a DEF PoolLoad, Idle
  <2> QED
    BY <2>1 DEF SerialSteps
<1> QED
  BY <1>1, <1>2, <1>3 DEF Start

(* A save of the loaded row, which is the row in the table.                *)
LEMMA SaveEffect ==
  ASSUME SerialInv, NEW s \in Sessions, NEW target \in Statuses, ~UnlockPending(s),
         sess[s].pc \in SavesLoaded, SaveSnapshot(s, target),
         \A r \in Requests : StatusMove(r, LoadedAs(sess[s].pc), target)
                                 /\ UNCHANGED <<used, charged>> => QuietMove(r)
  PROVE  Effect(s) /\ Snapshot(s)'
<1> DEFINE r == sess[s].r
<1>1. r \in Requests /\ req[r] \in Rows
  BY InHandPool DEF SavesLoaded, SerialInv, HeldInv, TypeInv, TypeOK
<1>2. req[r] = sess[s].row /\ req[r].status \in LoadedAs(sess[s].pc)
  BY DEF SerialInv, Snapshot
<1>3. StatusMove(r, LoadedAs(sess[s].pc), target) /\ UNCHANGED <<used, charged>>
  BY <1>1, <1>2, RowWithStatus DEF SaveSnapshot, WriteRequest, StatusMove
<1>4. Snapshot(s)' /\ ~UnlockPending(s)'
  BY FinishSnapshot DEF SaveSnapshot, WriteRequest, SerialInv, HeldInv
<1> QED
  BY <1>1, <1>3, <1>4 DEF Effect, Quiet

LEMMA StepEffect ==
  ASSUME SerialInv, NEW s \in Sessions, OthersIdle(s), Step(s)
  PROVE  Effect(s) /\ Snapshot(s)'
<1> USE DEF At
<1>a. TypeInv /\ Held(s) /\ Snapshot(s)
  BY DEF SerialInv, HeldInv
<1>b. sess[s].pc \in Steps \ {"idle"} => sess[s].r \in Requests /\ sess[s].p = PoolOf[sess[s].r]
  BY <1>a DEF Snapshot, SerialSteps, TypeInv, InHand
<1>c. /\ sess[s] \in Session /\ sess \in [Sessions -> Session] /\ sess[s].row \in Rows
      /\ req \in [Requests -> Rows] /\ sess[s].seen \in Nat /\ sess[s].row.amount \in Nat
  BY <1>a, AmountsAreNat DEF TypeInv, TypeOK, Session, Rows
<1>d. \A step : sess[s].pc = step => (UnlockPending(s) <=> step = "unlock_req")
  BY DEF UnlockPending
<1>1. CASE SubmitLockPool(s)
  <2>1. CASE Fail(s)
    BY <1>1, <1>a, <1>d, <2>1, FailEffect DEF SubmitLockPool
  <2>2. CASE Goto(s, "submit_save") /\ UNCHANGED <<req, used, charged>>
    <3>1. sess' = [sess EXCEPT ![s].pc = "submit_save", ![s].row = sess[s].row, ![s].seen = sess[s].seen]
      BY <2>2, <1>c DEF Goto, Session
    <3>2. req[sess[s].r] = sess[s].row /\ sess[s].row.status \in LoadedAs("submit_save")
      BY <1>1, <1>a DEF SubmitLockPool, Snapshot, SavesLoaded, LoadedAs
    <3> QED
      BY <1>1, <1>d, <2>2, <3>1, <3>2, OnwardEffect DEF SubmitLockPool, SerialSteps, Steps, AddsToSeen
  <2> QED
    BY <1>1, <2>1, <2>2 DEF SubmitLockPool
<1>2. CASE SubmitSave(s) \/ TaskSubmit(s)
  <2>1. \A r \in Requests : StatusMove(r, LoadedAs(sess[s].pc), "SUBMITTED")
                               /\ UNCHANGED <<used, charged>> => QuietMove(r)
    BY <1>2 DEF SubmitSave, TaskSubmit, LoadedAs, QuietMove
  <2> QED
    BY <1>2, <1>d, <2>1, SaveEffect DEF SubmitSave, TaskSubmit, SavesLoaded, Statuses
<1>3. CASE StartReview(s)
  <2>1. \A r \in Requests : StatusMove(r, LoadedAs(sess[s].pc), "UNDER_REVIEW")
                               /\ UNCHANGED <<used, charged>> => QuietMove(r)
    BY <1>3 DEF StartReview, LoadedAs, QuietMove
  <2> QED
    BY <1>3, <1>d, <2>1, SaveEffect DEF StartReview, SavesLoaded, Statuses
<1>4. CASE Revise(s)
  <2>1. \A r \in Requests : StatusMove(r, LoadedAs(sess[s].pc), "DRAFT")
                               /\ UNCHANGED <<used, charged>> => QuietMove(r)
    BY <1>4 DEF Revise, LoadedAs, QuietMove
  <2> QED
    BY <1>4, <1>d, <2>1, SaveEffect DEF Revise, SavesLoaded, Statuses
<1>5. CASE Decide(s)
  <2>1. CASE Fail(s)
    BY <1>5, <1>a, <1>d, <2>1, FailEffect DEF Decide
  <2>2. CASE req[sess[s].r].status = "UNDER_REVIEW" /\
             \E outcome \in {"APPROVED", "REJECTED", "UNDER_REVIEW"} :
                WriteRequest(s, [req[sess[s].r] EXCEPT !.status = outcome])
    <3> DEFINE r == sess[s].r
    <3>1. PICK outcome \in {"APPROVED", "REJECTED", "UNDER_REVIEW"} :
              WriteRequest(s, [req[sess[s].r] EXCEPT !.status = outcome])
      BY <2>2
    <3>2. r \in Requests
      BY <1>5, <1>b DEF Decide, Steps
    <3>3. StatusMove(r, {"UNDER_REVIEW"}, outcome) /\ UNCHANGED <<used, charged>>
      BY <1>c, <2>2, <3>1, <3>2, RowWithStatus DEF WriteRequest, StatusMove
    <3>4. QuietMove(r)
      BY <3>3 DEF QuietMove, PlainMove
    <3>5. Snapshot(s)' /\ ~UnlockPending(s)'
      BY <1>a, <3>1, FinishSnapshot DEF WriteRequest
    <3>6. ~UnlockPending(s)
      BY <1>5, <1>d DEF Decide
    <3> QED
      BY <3>2, <3>4, <3>5, <3>6 DEF Effect, Quiet
  <2> QED
    BY <1>5, <2>1, <2>2 DEF Decide
<1>6. CASE LockRequest(s)
  <2>1. CASE Fail(s)
    BY <1>6, <1>a, <1>d, <2>1, FailEffect DEF LockRequest
  <2>2. CASE /\ sess' = [sess EXCEPT ![s].pc = "lock_read", ![s].row = req[sess[s].r]]
             /\ UNCHANGED <<req, used, charged>>
    <3>1. sess' = [sess EXCEPT ![s].pc = "lock_read", ![s].row = req[sess[s].r],
                               ![s].seen = sess[s].seen]
      BY <2>2, <1>c DEF Session
    <3>2. "lock_read" \in SerialSteps \ {"unlock_req"} /\ "lock_read" \notin SavesLoaded \cup AddsToSeen
      BY DEF SerialSteps, Steps, AddsToSeen, SavesLoaded
    <3>3. ~UnlockPending(s)
      BY <1>6, <1>d DEF LockRequest
    <3> QED
      BY <2>2, <3>1, <3>2, <3>3, OnwardEffect
  <2> QED
    BY <1>6, <2>1, <2>2 DEF LockRequest
<1>7. CASE ReadPool(s)
  <2> DEFINE step == AfterRead(sess[s].pc)
  <2>1. sess' = [sess EXCEPT ![s].pc = step, ![s].row = sess[s].row, ![s].seen = used[sess[s].p]]
    BY <1>7, <1>c DEF ReadPool, Session
  <2>2. step \in SerialSteps \ {"unlock_req"}
    BY <1>7 DEF ReadPool, AfterRead, SerialSteps, Steps
  <2>3. step \in SavesLoaded => req[sess[s].r] = sess[s].row /\ sess[s].row.status \in LoadedAs(step)
    BY <1>7, <1>a DEF ReadPool, AfterRead, SavesLoaded, LoadedAs, Snapshot
  <2>4. ~UnlockPending(s) /\ UNCHANGED <<req, used, charged>>
    BY <1>7, <1>d DEF ReadPool
  <2> HIDE DEF step
  <2> QED
    BY <2>1, <2>2, <2>3, <2>4, OnwardEffect
<1>8. CASE LockPool(s)
  <2>1. CASE Fail(s)
    BY <1>8, <1>a, <1>d, <2>1, FailEffect DEF LockPool
  <2>2. CASE Goto(s, "lock_commit") /\ UNCHANGED <<req, used, charged>>
    <3>1. sess' = [sess EXCEPT ![s].pc = "lock_commit", ![s].row = sess[s].row, ![s].seen = sess[s].seen]
      BY <2>2, <1>c DEF Goto, Session
    <3>2. sess[s].seen = used[sess[s].p]
      BY <1>8, <1>a DEF LockPool, Snapshot, AddsToSeen
    <3>3. "lock_commit" \in SerialSteps \ {"unlock_req"} /\ "lock_commit" \notin SavesLoaded
      BY DEF SerialSteps, Steps, SavesLoaded
    <3>4. ~UnlockPending(s)
      BY <1>8, <1>d DEF LockPool
    <3> QED
      BY <2>2, <3>1, <3>2, <3>3, <3>4, OnwardEffect
  <2> QED
    BY <1>8, <2>1, <2>2 DEF LockPool
<1>9. CASE LockCommit(s)
  <2>1. CASE Fail(s)
    BY <1>9, <1>a, <1>d, <2>1, FailEffect DEF LockCommit
  <2>2. CASE /\ ~(sess[s].seen + sess[s].row.amount > Ceiling)
             /\ used' = [used EXCEPT ![sess[s].p] = sess[s].seen + sess[s].row.amount]
             /\ req' = [req EXCEPT ![sess[s].r] = [sess[s].row EXCEPT !.status = "LOCKED"]]
             /\ Deduct(sess[s].r, sess[s].row.amount)
             /\ Finish(s)
    <3> DEFINE r == sess[s].r
    <3>1. r \in Requests /\ sess[s].p = PoolOf[r]
      BY <1>9, <1>b DEF LockCommit, Steps
    <3>2. req[r] = sess[s].row /\ sess[s].row.status = "APPROVED"
      BY <1>9, <1>a DEF LockCommit, Held, OwnsRequest
    <3>3. sess[s].seen = used[PoolOf[r]]
      BY <1>9, <1>a, <3>1 DEF LockCommit, Snapshot, AddsToSeen
    <3>4. sess[s].row.amount <= Ceiling
      BY <1>c, <2>2, LedgerConstants
    <3>5. DeductingMove(r)
      <4>1. [sess[s].row EXCEPT !.status = "LOCKED"] = [status |-> "LOCKED", amount |-> req[r].amount]
        BY <1>c, <3>2, RowWithStatus
      <4>2. StatusMove(r, {"APPROVED"}, "LOCKED")
        BY <2>2, <3>2, <4>1 DEF StatusMove
      <4> QED
        BY <2>2, <3>2, <3>4, <4>2 DEF DeductingMove
    <3>6. used' = [used EXCEPT ![PoolOf[r]] = @ + req[r].amount]
      BY <2>2, <3>1, <3>2, <3>3
    <3>7. Snapshot(s)' /\ ~UnlockPending(s)'
      BY <1>a, <2>2, FinishSnapshot
    <3>8. ~UnlockPending(s)
      BY <1>9, <1>d DEF LockCommit
    <3> QED
      BY <3>1, <3>5, <3>6, <3>7, <3>8 DEF Effect, LockMoney
  <2> QED
    BY <1>9, <2>1, <2>2 DEF LockCommit
<1>10. CASE CancelRequest(s)
  <2>a. ~UnlockPending(s)
    BY <1>10, <1>d DEF CancelRequest
  <2>1. CASE Fail(s)
    BY <1>a, <2>a, <2>1, FailEffect
  <2>2. CASE /\ sess' = [sess EXCEPT ![s].pc = "cancel_read", ![s].row = req[sess[s].r]]
             /\ UNCHANGED <<req, used, charged>>
    <3>1. sess' = [sess EXCEPT ![s].pc = "cancel_read", ![s].row = req[sess[s].r],
                               ![s].seen = sess[s].seen]
      BY <2>2, <1>c DEF Session
    <3>2. "cancel_read" \in SerialSteps \ {"unlock_req"} /\ "cancel_read" \notin SavesLoaded \cup AddsToSeen
      BY DEF SerialSteps, Steps, AddsToSeen, SavesLoaded
    <3> QED
      BY <2>a, <2>2, <3>1, <3>2, OnwardEffect
  <2>3. CASE /\ req[sess[s].r].status \notin Absent \cup {"CANCELLED", "LOCKED"}
             /\ WriteRequest(s, [req[sess[s].r] EXCEPT !.status = "CANCELLED"])
    <3> DEFINE r == sess[s].r
    <3>1. r \in Requests
      BY <1>10, <1>b DEF CancelRequest, Steps
    <3>2. req[r].status \in Statuses \ {"CANCELLED", "LOCKED"}
      BY <1>c, <2>3, <3>1 DEF Rows
    <3>3. StatusMove(r, Statuses \ {"CANCELLED", "LOCKED"}, "CANCELLED") /\ UNCHANGED <<used, charged>>
      BY <1>c, <2>3, <3>1, <3>2, RowWithStatus DEF WriteRequest, StatusMove
    <3>4. QuietMove(r)
      BY <3>3 DEF QuietMove, PlainMove
    <3>5. Snapshot(s)' /\ ~UnlockPending(s)'
      BY <1>a, <2>3, FinishSnapshot DEF WriteRequest
    <3> QED
      BY <2>a, <3>1, <3>4, <3>5 DEF Effect, Quiet
  <2> QED
    BY <1>10, <2>1, <2>2, <2>3 DEF CancelRequest
<1>11. CASE CancelCommit(s)
  <2> DEFINE r == sess[s].r
  <2>1. r \in Requests /\ sess[s].p = PoolOf[r]
    BY <1>11, <1>b DEF CancelCommit, Steps
  <2>2. req[r] = sess[s].row /\ sess[s].row.status = "LOCKED"
    BY <1>11, <1>a DEF CancelCommit, Held, OwnsRequest
  <2>3. sess[s].seen = used[PoolOf[r]]
    BY <1>11, <1>a, <2>1 DEF CancelCommit, Snapshot, AddsToSeen
  <2>4. ReversingMove(r)
    BY <1>11, <1>c, <2>2, RowWithStatus DEF CancelCommit, ReversingMove, StatusMove
  <2>5. used' = [used EXCEPT ![PoolOf[r]] = Less(@, req[r].amount)]
    BY <1>11, <2>1, <2>2, <2>3 DEF CancelCommit
  <2>6. Snapshot(s)' /\ ~UnlockPending(s)'
    BY <1>11, <1>a, FinishSnapshot DEF CancelCommit
  <2>7. ~UnlockPending(s)
    BY <1>11, <1>d DEF CancelCommit
  <2> QED
    BY <2>1, <2>4, <2>5, <2>6, <2>7 DEF Effect, CancelMoney
<1>12. CASE UnlockPool(s)
  <2> DEFINE r == sess[s].r
  <2>1. r \in Requests /\ sess[s].p = PoolOf[r]
    BY <1>12, <1>b DEF UnlockPool, Steps
  <2>2. req[r] = sess[s].row /\ sess[s].row.status = "LOCKED"
    BY <1>12, <1>a DEF UnlockPool, Snapshot, SavesLoaded, LoadedAs
  <2>3. sess[s].seen = used[PoolOf[r]]
    BY <1>12, <1>a, <2>1 DEF UnlockPool, Snapshot, AddsToSeen
  <2>4. used' = [used EXCEPT ![PoolOf[r]] = Less(@, req[r].amount)]
    BY <1>12, <2>1, <2>2, <2>3 DEF UnlockPool
  <2>5. /\ sess'[s].pc = "unlock_req" /\ sess'[s].r = r /\ sess'[s].row = sess[s].row
    BY <1>12, <1>c DEF UnlockPool, Goto, Session
  <2>6. Snapshot(s)'
    BY <1>12, <2>2, <2>5 DEF UnlockPool, Snapshot, SerialSteps, Steps, SavesLoaded, AddsToSeen, LoadedAs
  <2>7. ~UnlockPending(s) /\ UnlockPending(s)'
    BY <1>12, <2>5, <1>d DEF UnlockPool, UnlockPending
  <2> QED
    BY <1>12, <2>1, <2>2, <2>4, <2>5, <2>6, <2>7 DEF UnlockPool, Effect, UnlockMoney
<1>13. CASE UnlockRequest(s)
  <2> DEFINE r == sess[s].r
  <2>1. r \in Requests
    BY <1>13, <1>b DEF UnlockRequest, Steps
  <2>2. req[r].status = "LOCKED"
    BY <1>13, <1>a DEF UnlockRequest, Snapshot, SavesLoaded, LoadedAs
  <2>3. WriteRequest(s, [req[r] EXCEPT !.status = "APPROVED"])
    BY <1>13, <2>2 DEF UnlockRequest, Absent
  <2>4. StatusMove(r, {"LOCKED"}, "APPROVED") /\ UNCHANGED <<used, charged>>
    BY <1>c, <2>1, <2>2, <2>3, RowWithStatus DEF WriteRequest, StatusMove
  <2>5. Snapshot(s)' /\ ~UnlockPending(s)'
    BY <1>a, <2>3, FinishSnapshot DEF WriteRequest
  <2>6. UnlockPending(s)
    BY <1>13 DEF UnlockRequest, UnlockPending
  <2> QED
    BY <2>1, <2>4, <2>5, <2>6 DEF Effect, UnlockStatus
<1>14. CASE Patch(s) \/ Delete(s) \/ PoolPatch(s)
  BY <1>14, <1>a DEF Patch, Delete, PoolPatch, Snapshot, SerialSteps
<1>15. CASE DeadlockAbort(s)
  <2>1. PICK t \in Sessions : Deadlocked(s, t) \/ Deadlocked(t, s)
    BY <1>15 DEF DeadlockAbort
  <2>2. sess[t].pc \in {"submit_save", "cancel_pool"} /\ sess[s].pc # sess[t].pc
    BY <2>1 DEF Deadlocked
  <2> QED
    BY <2>2 DEF OthersIdle
<1> QED
  BY <1>1, <1>2, <1>3, <1>4, <1>5, <1>6, <1>7, <1>8, <1>9, <1>10, <1>11, <1>12, <1>13,
     <1>14, <1>15 DEF Step

LEMMA SerialOwn ==
  ASSUME SerialInv, NEW s \in Sessions, OthersIdle(s), Start(s) \/ Step(s),
         sess'[s].pc \in SerialSteps
  PROVE  Effect(s) /\ Snapshot(s)'
  BY StartEffect, StepEffect

LEMMA OthersStayIdle ==
  ASSUME SerialInv, NEW s \in Sessions, OthersIdle(s), Start(s) \/ Step(s)
  PROVE  OthersIdle(s)' /\ \A t \in Sessions \ {s} : Snapshot(t)'
<1> SUFFICES ASSUME NEW t \in Sessions \ {s} PROVE At(t, "idle")' /\ Snapshot(t)'
  BY DEF OthersIdle
<1>1. sess'[t] = sess[t]
  BY StartUndisturbed, StepUndisturbed DEF SerialInv, Undisturbed
<1>2. sess'[t].pc = "idle"
  BY <1>1 DEF OthersIdle, At
<1> QED
  BY <1>2 DEF At, Snapshot, SerialSteps, Steps, SavesLoaded, AddsToSeen

LEMMA SerialKept == SerialInv /\ (SerialNext \/ UNCHANGED vars) => SerialInv'
<1> SUFFICES ASSUME SerialInv, SerialNext \/ UNCHANGED vars PROVE SerialInv'
  OBVIOUS
<1>1. CASE SerialNext
  <2>1. PICK s \in Sessions :
            OthersIdle(s) /\ (Start(s) \/ Step(s)) /\ sess'[s].pc \in SerialSteps
    BY <1>1 DEF SerialNext
  <2>2. HeldInv'
    BY <2>1, NextHeld DEF Next, SerialInv
  <2>3. OthersIdle(s)' /\ \A t \in Sessions \ {s} : Snapshot(t)'
    BY <2>1, OthersStayIdle
  <2>4. Effect(s) /\ Snapshot(s)'
    BY <2>1, SerialOwn
  <2>5. LockedFits' /\ Accounts'
    BY <2>1, <2>3, <2>4, EffectAccounts DEF SerialInv, HeldInv
  <2> QED
    BY <2>2, <2>3, <2>4, <2>5 DEF SerialInv
<1>2. CASE UNCHANGED vars
  <2>1. HeldInv'
    BY <1>2, NextHeld DEF SerialInv
  <2>2. LockedFits' /\ \A s \in Sessions : Snapshot(s)'
    BY <1>2 DEF vars, SerialInv, LockedFits, Snapshot
  <2>3. \A r \in Requests : charged'[r] = Deducted(r)'
    BY <1>2 DEF vars, SerialInv, Accounts, Deducted, HalfUnlocked, At
  <2>4. \A p \in Pools : used'[p] = SumOf(charged', OfPool(p))
    BY <1>2 DEF vars, SerialInv, Accounts
  <2> QED
    BY <2>1, <2>2, <2>3, <2>4 DEF SerialInv, Accounts, OfPool
<1> QED
  BY <1>1, <1>2

LEMMA SerialStarts == Init => SerialInv
<1> SUFFICES ASSUME Init PROVE SerialInv
  OBVIOUS
<1>1. HeldInv
  BY InitHeld
<1>2. LockedFits
  BY DEF Init, NoRow, LockedFits
<1>3. \A r \in Requests : charged[r] = 0 /\ Deducted(r) = 0
  BY DEF Init, NoRow, Deducted
<1>4. ASSUME NEW p \in Pools PROVE used[p] = SumOf(charged, OfPool(p))
  <2>1. \A r \in OfPool(p) : charged[r] \in Int
    BY <1>3 DEF OfPool
  <2>2. {} \in SUBSET OfPool(p) /\ \A r \in OfPool(p) \ {} : charged[r] = 0
    BY <1>3 DEF OfPool
  <2>3. SumOf(charged, OfPool(p)) = SumOf(charged, {})
    BY <2>1, <2>2, PoolsFinite, SumSupport
  <2> QED
    BY <2>3, SumEmpty DEF Init
<1>5. ASSUME NEW s \in Sessions PROVE Snapshot(s)
  BY DEF Init, Idle, Snapshot, SerialSteps, Steps, SavesLoaded, AddsToSeen
<1> QED
  BY <1>1, <1>2, <1>3, <1>4, <1>5 DEF SerialInv, Accounts

(* The sum over a pool's requests is the sum over its LOCKED ones.         *)
LEMMA SerialBalance == SerialInv => LedgerBalanced
<1> SUFFICES ASSUME SerialInv, \A s \in Sessions : ~At(s, "unlock_req"), NEW p \in Pools
             PROVE  used[p] = LockedAmount(p)
  BY DEF LedgerBalanced
<1> DEFINE amounts == [r \in Requests |-> req[r].amount]
           S == OfPool(p)
           U == LockedIn(p)
<1>1. \A r \in Requests : charged[r] = IF req[r].status = "LOCKED" THEN req[r].amount ELSE 0
  BY DEF SerialInv, Accounts, Deducted, HalfUnlocked
<1>2. \A r \in Requests : charged[r] \in Int
  BY DEF SerialInv, HeldInv, TypeInv, TypeOK
<1>3. S \subseteq Requests /\ IsFiniteSet(S) /\ U \in SUBSET S /\ IsFiniteSet(U)
  BY PoolsFinite, FS_Subset DEF LockedIn, OfPool
<1>4. used[p] = SumOf(charged, S)
  BY DEF SerialInv, Accounts
<1>5. /\ \A r \in S : charged[r] \in Int
      /\ \A r \in S \ U : charged[r] = 0
      /\ \A r \in U : charged[r] = amounts[r]
  BY <1>1, <1>2, <1>3 DEF LockedIn, OfPool
<1> HIDE DEF amounts, S, U
<1>6. SumOf(charged, S) = SumOf(charged, U)
  BY <1>3, <1>5, SumSupport
<1>7. U \in SUBSET U
  OBVIOUS
<1>8. SumOf(charged, U) = SumOf(amounts, U)
  BY <1>3, <1>5, <1>7, SumSame
<1> QED
  BY <1>4, <1>6, <1>8 DEF LockedAmount, SumOf, amounts, U

LEMMA SerialDeductions == SerialInv => DeductedIffLocked
  BY DEF SerialInv, Accounts, Deducted, DeductedIffLocked

LEMMA QuietIsFSMStep ==
  ASSUME TypeInv, NEW r \in Requests, QuietMove(r)
  PROVE  [FSM!Next]_(FSM!vars)
<1> DEFINE st == [x \in Requests |-> req[x].status]
<1>a. req \in [Requests -> Rows]
  BY DEF TypeInv, TypeOK
<1>1. ASSUME NEW source, NEW target, StatusMove(r, source, target)
      PROVE  st[r] \in source /\ st' = [st EXCEPT ![r] = target]
  BY <1>1, <1>a DEF StatusMove
<1>2. CASE PlainMove(r)
  BY <1>2, MoveIsFSMStep
<1>3. CASE StatusMove(r, {"DRAFT"}, "SUBMITTED")
  BY <1>1, <1>3 DEF FSM!Next, FSM!Submit, FSM!Move
<1>4. CASE StatusMove(r, {"SUBMITTED"}, "UNDER_REVIEW")
  BY <1>1, <1>4 DEF FSM!Next, FSM!SendForReview, FSM!Move
<1>5. CASE StatusMove(r, {"REJECTED", "CANCELLED"}, "DRAFT")
  BY <1>1, <1>5 DEF FSM!Next, FSM!Revise, FSM!Move
<1>6. CASE req[r].status = "NEW" /\
           \E amount \in Amounts : req' = [req EXCEPT ![r] = [status |-> "DRAFT", amount |-> amount]]
  <2>1. PICK amount \in Amounts :
            req' = [req EXCEPT ![r] = [status |-> "DRAFT", amount |-> amount]]
    BY <1>6
  <2>2. req'[r].status = "DRAFT" /\ \A x \in Requests \ {r} : req'[x] = req[x]
    BY <2>1, <1>a
  <2>3. st[r] \in {"NEW"} /\ st' = [st EXCEPT ![r] = "DRAFT"]
    BY <1>6, <2>2
  <2> QED
    BY <2>3 DEF FSM!Next, FSM!Create, FSM!Move
<1> QED
  BY <1>2, <1>3, <1>4, <1>5, <1>6 DEF QuietMove

LEMMA EffectIsFSMStep ==
  ASSUME TypeInv, NEW s \in Sessions, Effect(s)
  PROVE  [FSM!Next]_(FSM!vars)
<1> DEFINE st == [x \in Requests |-> req[x].status]
<1>1. CASE Nothing(s) \/ UnlockMoney(s)
  BY <1>1 DEF Nothing, UnlockMoney, FSM!vars
<1>2. CASE Quiet(s)
  BY <1>2, QuietIsFSMStep DEF Quiet
<1>3. CASE LockMoney(s) \/ CancelMoney(s)
  BY <1>3, MoveIsFSMStep DEF LockMoney, CancelMoney
<1>4. CASE UnlockStatus(s)
  <2>1. PICK r \in Requests : StatusMove(r, {"LOCKED"}, "APPROVED")
    BY <1>4 DEF UnlockStatus
  <2>2. st[r] \in {"LOCKED"} /\ st' = [st EXCEPT ![r] = "APPROVED"]
    BY <2>1 DEF StatusMove, TypeInv, TypeOK
  <2> QED
    BY <2>2 DEF FSM!Next, FSM!Unlock, FSM!Move
<1> QED
  BY <1>1, <1>2, <1>3, <1>4 DEF Effect
-----------------------------------------------------------------------------
(* The handlers that read again under the row lock, at once.  No request is*)
(* created any more, so every step is one of RowLockedMoves or none.       *)
NoneNew == \A r \in Requests : req[r].status # "NEW"
RacesInv == LedgerInv /\ NoneNew

LEMMA RacesMoves ==
  ASSUME RacesInv, RacesNext
  PROVE  \/ UNCHANGED <<req, charged>>
         \/ \E r \in Requests : PlainMove(r) \/ DeductingMove(r) \/ ReversingMove(r)
<1>1. PICK s \in Sessions : Start(s) \/ Step(s) \/ Crash(s)
  BY DEF RacesNext, Next
<1>2. CASE Start(s)
  BY <1>2 DEF Start, Load, Create, PoolLoad, RacesInv, NoneNew
<1>3. CASE Step(s)
  BY <1>3, RowLockedMoves DEF RacesInv
<1>4. CASE Crash(s)
  BY <1>4 DEF Crash, Fail
<1> QED
  BY <1>1, <1>2, <1>3, <1>4

LEMMA RacesKept == RacesInv /\ (RacesNext \/ UNCHANGED vars) => RacesInv'
<1> SUFFICES ASSUME RacesInv, RacesNext \/ UNCHANGED vars PROVE RacesInv'
  OBVIOUS
<1>a. req \in [Requests -> Rows]
  BY DEF RacesInv, LedgerInv, HeldInv, TypeInv, TypeOK
<1>1. HeldInv'
  BY NextHeld DEF RacesNext, RacesInv, LedgerInv
<1>2. OnlyRowLocked'
  BY DEF RacesNext, vars, RacesInv, LedgerInv, OnlyRowLocked
<1>3. LockedFits' /\ DeductedExactly' /\ NoneNew'
  <2>1. CASE UNCHANGED <<req, charged>>
    BY <2>1 DEF RacesInv, LedgerInv, LockedFits, DeductedExactly, NoneNew
  <2>2. ASSUME NEW r \in Requests, PlainMove(r) \/ DeductingMove(r) \/ ReversingMove(r)
        PROVE  LockedFits' /\ DeductedExactly' /\ NoneNew'
    <3>1. LockedFits' /\ DeductedExactly'
      BY <2>2, MoveKeepsLedger DEF RacesInv
    <3>2. ASSUME NEW source, NEW target, StatusMove(r, source, target), target # "NEW"
          PROVE  NoneNew'
      BY <3>2, <1>a DEF StatusMove, RacesInv, NoneNew
    <3>3. NoneNew'
      BY <2>2, <3>2 DEF PlainMove, DeductingMove, ReversingMove
    <3> QED
      BY <3>1, <3>3
  <2>3. CASE RacesNext
    BY <2>1, <2>2, <2>3, RacesMoves
  <2> QED
    BY <2>1, <2>3 DEF vars
<1> QED
  BY <1>1, <1>2, <1>3 DEF RacesInv, LedgerInv

(* Both settings at once.                                                  *)
ModeInv ==
    /\ mode \in {"races", "serial"}
    /\ mode = "races" => RacesInv
    /\ mode = "serial" => SerialInv

LEMMA ModeStarts == ModeInit => ModeInv
<1>1. ReviewedInit => NoneNew
  BY DEF ReviewedInit, NoneNew
<1> QED
  BY <1>1, ReviewedLedger, SerialStarts DEF ModeInit, ModeInv, RacesInv

LEMMA ModeKept == ModeInv /\ [ModeNext]_<<mode, vars>> => ModeInv'
  BY RacesKept, SerialKept DEF ModeInv, ModeNext

(* With one handler at a time, from the creation of the requests through   *)
(* every order of submissions, decisions, locks, cancellations, unlocks and*)
(* revisions, a pool's used_amount is the sum of the amounts of its LOCKED *)
(* requests whenever no unlock is half done: the floor of the reversal and *)
(* the ceiling of the column never cut a sum short.                        *)
THEOREM SerialLedgerBalanced == ModeSpec => []SerialBalanced
<1>1. ModeInv => SerialBalanced
  BY SerialBalance DEF ModeInv, SerialBalanced
<1> QED
  BY <1>1, ModeStarts, ModeKept, PTL DEF ModeSpec

(* In both settings a request stands deducted for exactly its amount while *)
(* it is LOCKED, and for nothing otherwise.                                *)
THEOREM ModesKeepDeductions == ModeSpec => []DeductedIffLocked
<1>1. LedgerInv => DeductedIffLocked
  BY DEF LedgerInv, DeductedExactly, DeductedIffLocked
<1>2. ModeInv => DeductedIffLocked
  BY <1>1, SerialDeductions DEF ModeInv, RacesInv
<1> QED
  BY <1>2, ModeStarts, ModeKept, PTL DEF ModeSpec

(* In both settings every change of a status is an edge of the request's   *)
(* FSM: alone, the handlers that save the row as they loaded it keep to it *)
(* as well.                                                                *)
THEOREM ModesKeepLifecycle == ModeSpec => LifecycleSteps
<1>1. ModeInv /\ [ModeNext]_<<mode, vars>> => [FSM!Next]_(FSM!vars)
  <2> SUFFICES ASSUME ModeInv, [ModeNext]_<<mode, vars>> PROVE [FSM!Next]_(FSM!vars)
    OBVIOUS
  <2>1. CASE UNCHANGED req
    BY <2>1 DEF FSM!vars
  <2>2. CASE mode = "races" /\ RacesNext
    BY <2>1, <2>2, RacesMoves, MoveIsFSMStep DEF ModeInv, RacesInv, LedgerInv, HeldInv
  <2>3. CASE mode = "serial" /\ SerialNext
    BY <2>3, SerialOwn, EffectIsFSMStep DEF SerialNext, ModeInv, SerialInv, HeldInv
  <2> QED
    BY <2>1, <2>2, <2>3 DEF ModeNext, vars
<1> QED
  BY <1>1, ModeStarts, ModeKept, PTL DEF ModeSpec, LifecycleSteps
===============================================================================
