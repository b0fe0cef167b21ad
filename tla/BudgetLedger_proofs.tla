------------------------- MODULE BudgetLedger_proofs -------------------------
(***************************************************************************)
(* Theorems about BudgetLedger, for any sessions, requests, pools, amounts *)
(* and totals.                                                             *)
(***************************************************************************)
EXTENDS BudgetLedger, TLAPS

(* Each session's record is of the type the handlers rely on.              *)
Session == [pc : Steps, r : Requests \cup {None}, row : Rows,
            p : Pools \cup {None}, seen : Nat]

(* A session with a request in hand knows which; one with a pool knows it. *)
InHand == \A s \in Sessions :
    /\ sess[s].pc \notin {"idle", "pool_patch"} =>
           sess[s].r \in Requests /\ sess[s].p = PoolOf[sess[s].r]
    /\ sess[s].pc = "pool_patch" => sess[s].p \in Pools

TypeInv == TypeOK /\ InHand

LEMMA AmountsAreNat == Amounts \cup {0} \subseteq Nat
  BY LedgerConstants

LEMMA IdleType == Idle \in Session
  BY DEF Idle, NoRow, Session, Rows, Absent, Steps

(* Ending a handler gives well-typed sessions and locks.                   *)
LEMMA FinishType ==
  ASSUME TypeInv, NEW s \in Sessions, Finish(s)
  PROVE  /\ sess' \in [Sessions -> Session]
         /\ reqLock' \in [Requests -> Sessions \cup {None}]
         /\ poolLock' \in [Pools -> Sessions \cup {None}]
         /\ InHand'
<1>1. sess' \in [Sessions -> Session]
  BY IdleType DEF TypeInv, TypeOK, Finish, Session
<1>2. reqLock' \in [Requests -> Sessions \cup {None}]
  BY DEF TypeInv, TypeOK, Finish, Released
<1>3. poolLock' \in [Pools -> Sessions \cup {None}]
  BY DEF TypeInv, TypeOK, Finish, Released
<1>4. InHand'
  BY DEF TypeInv, TypeOK, InHand, Finish, Idle
<1> QED
  BY <1>1, <1>2, <1>3, <1>4

LEMMA FailType ==
  ASSUME TypeInv, NEW s \in Sessions, Fail(s)
  PROVE  TypeInv'
  BY FinishType DEF Fail, TypeInv, TypeOK, Session

LEMMA WriteRequestType ==
  ASSUME TypeInv, NEW s \in Sessions, NEW row \in Rows,
         sess[s].r \in Requests, WriteRequest(s, row)
  PROVE  TypeInv'
<1>1. Finish(s) /\ UNCHANGED <<used, charged>>
  BY DEF WriteRequest
<1>2. req' \in [Requests -> Rows]
  BY DEF WriteRequest, TypeInv, TypeOK
<1> QED
  BY <1>1, <1>2, FinishType DEF TypeInv, TypeOK, Session

LEMMA SaveSnapshotType ==
  ASSUME TypeInv, NEW s \in Sessions, NEW target \in Statuses,
         sess[s].r \in Requests, SaveSnapshot(s, target)
  PROVE  TypeInv'
<1>1. [sess[s].row EXCEPT !.status = target] \in Rows
  BY DEF TypeInv, TypeOK, Session, Rows
<1> QED
  BY <1>1, WriteRequestType DEF SaveSnapshot

LEMMA CeilingType == \A n \in Int : WithinCeiling(n) \in Int
  BY LedgerConstants DEF WithinCeiling

LEMMA ChargedType ==
  ASSUME TypeInv, NEW r \in Requests, NEW amount \in Nat,
         Deduct(r, amount) \/ Reverse(r, amount)
  PROVE  charged' \in [Requests -> Int]
<1>1. charged[r] \in Int
  BY DEF TypeInv, TypeOK
<1>2. charged[r] + amount \in Int /\ charged[r] - amount \in Int
  BY <1>1
<1>3. WithinCeiling(charged[r] + amount) \in Int /\ WithinCeiling(charged[r] - amount) \in Int
  BY <1>2, CeilingType
<1> QED
  BY <1>3 DEF Deduct, Reverse, TypeInv, TypeOK

LEMMA LessType == \A n, m \in Nat : Less(n, m) \in Nat
  BY DEF Less

LEMMA InitType == Init => TypeInv
<1> SUFFICES ASSUME Init PROVE TypeInv
  OBVIOUS
<1>1. NoRow \in Rows
  BY DEF NoRow, Rows, Absent
<1>2. sess \in [Sessions -> Session]
  BY IdleType DEF Init
<1>3. InHand
  BY DEF Init, InHand, Idle
<1> QED
  BY <1>1, <1>2, <1>3 DEF Init, TypeInv, TypeOK, Session

LEMMA ReviewedInitType == ReviewedInit => TypeInv
<1> SUFFICES ASSUME ReviewedInit PROVE TypeInv
  OBVIOUS
<1>1. req \in [Requests -> Rows]
  BY DEF ReviewedInit, Rows, Statuses
<1>2. sess \in [Sessions -> Session]
  BY IdleType DEF ReviewedInit
<1>3. InHand
  BY DEF ReviewedInit, InHand, Idle
<1> QED
  BY <1>1, <1>2, <1>3 DEF ReviewedInit, TypeInv, TypeOK, Session

(* Each step that starts a handler keeps the types.                        *)
LEMMA StartType ==
  ASSUME TypeInv, NEW s \in Sessions, Start(s)
  PROVE  TypeInv'
<1>1. CASE Load(s)
  <2>1. PICK op \in Ops \ {"create", "pool_patch", "crash"}, r \in Requests :
            sess' = [sess EXCEPT ![s] = [pc |-> FirstStep(op), r |-> r, row |-> req[r],
                                         p |-> PoolOf[r], seen |-> 0]]
    BY <1>1 DEF Load
  <2>2. FirstStep(op) \in Steps \ {"idle", "pool_patch"}
    BY LedgerConstants DEF FirstStep, AllOps, Steps
  <2>3. req[r] \in Rows /\ PoolOf[r] \in Pools
    BY LedgerConstants DEF TypeInv, TypeOK
  <2>4. sess' \in [Sessions -> Session]
    BY <2>1, <2>2, <2>3 DEF TypeInv, TypeOK, Session
  <2>5. InHand'
    BY <2>1, <2>2 DEF TypeInv, TypeOK, InHand, Session
  <2> QED
    BY <1>1, <2>4, <2>5 DEF Load, TypeInv, TypeOK, Session
<1>2. CASE Create(s)
  <2>1. PICK r \in Requests, amount \in Amounts, step \in {"idle", "submit"} :
            LET row == [status |-> "DRAFT", amount |-> amount] IN
            /\ req' = [req EXCEPT ![r] = row]
            /\ sess' = IF step = "idle" THEN sess
                       ELSE [sess EXCEPT ![s] = [pc |-> "submit", r |-> r, row |-> row,
                                                 p |-> PoolOf[r], seen |-> 0]]
    BY <1>2 DEF Create
  <2> DEFINE row == [status |-> "DRAFT", amount |-> amount]
  <2>2. row \in Rows
    BY DEF Rows, Statuses
  <2>3. PoolOf[r] \in Pools
    BY LedgerConstants
  <2>4. req' \in [Requests -> Rows]
    BY <2>1, <2>2 DEF TypeInv, TypeOK
  <2>5. sess' \in [Sessions -> Session]
    BY <2>1, <2>2, <2>3 DEF TypeInv, TypeOK, Session, Steps
  <2>6. InHand'
    BY <2>1 DEF TypeInv, TypeOK, InHand
  <2> QED
    BY <1>2, <2>4, <2>5, <2>6 DEF Create, TypeInv, TypeOK, Session
<1>3. CASE PoolLoad(s)
  <2>1. PICK p \in Pools : sess' = [sess EXCEPT ![s] =
            [Idle EXCEPT !.pc = "pool_patch", !.p = p, !.seen = used[p]]]
    BY <1>3 DEF PoolLoad
  <2>2. [Idle EXCEPT !.pc = "pool_patch", !.p = p, !.seen = used[p]] \in Session
    BY IdleType DEF TypeInv, TypeOK, Session, Steps
  <2>3. sess' \in [Sessions -> Session]
    BY <2>1, <2>2 DEF TypeInv, TypeOK, Session
  <2>4. InHand'
    BY <2>1 DEF TypeInv, TypeOK, InHand, Idle
  <2> QED
    BY <1>3, <2>3, <2>4 DEF PoolLoad, TypeInv, TypeOK, Session
<1> QED
  BY <1>1, <1>2, <1>3 DEF Start

(* A session that keeps its request and pool and moves on to another step. *)
LEMMA MoveType ==
  ASSUME TypeInv, NEW s \in Sessions,
         NEW step \in Steps \ {"idle", "pool_patch"}, NEW row \in Rows, NEW seen \in Nat,
         sess[s].pc \notin {"idle", "pool_patch"},
         sess' = [sess EXCEPT ![s].pc = step, ![s].row = row, ![s].seen = seen]
  PROVE  sess' \in [Sessions -> Session] /\ InHand'
<1> DEFINE x == [sess[s] EXCEPT !.pc = step, !.row = row, !.seen = seen]
<1>a. sess \in [Sessions -> Session]
  BY DEF TypeInv, TypeOK, Session
<1>b. x \in Session
  BY <1>a DEF Session
<1>c. sess' = [sess EXCEPT ![s] = x]
  BY <1>a
<1>1. sess' \in [Sessions -> Session]
  <2> HIDE DEF x
  <2> QED
    BY <1>a, <1>b, <1>c
<1>2. InHand'
  BY DEF TypeInv, TypeOK, InHand, Session
<1> QED
  BY <1>1, <1>2

LEMMA GotoType ==
  ASSUME TypeInv, NEW s \in Sessions,
         NEW step \in Steps \ {"idle", "pool_patch"},
         sess[s].pc \notin {"idle", "pool_patch"}, Goto(s, step)
  PROVE  sess' \in [Sessions -> Session] /\ InHand'
<1>1. sess' \in [Sessions -> Session]
  BY DEF Goto, TypeInv, TypeOK, Session
<1>2. InHand'
  BY DEF Goto, TypeInv, TypeOK, InHand, Session
<1> QED
  BY <1>1, <1>2

(* Each later step keeps the types.                                        *)
LEMMA StepType ==
  ASSUME TypeInv, NEW s \in Sessions, Step(s)
  PROVE  TypeInv'
<1> USE DEF At
<1>a. sess[s] \in Session /\ sess[s].row \in Rows /\ sess[s].seen \in Nat
  BY DEF TypeInv, TypeOK, Session
<1>b. sess[s].pc \notin {"idle", "pool_patch"} =>
          sess[s].r \in Requests /\ sess[s].p \in Pools /\ req[sess[s].r] \in Rows
  BY LedgerConstants DEF TypeInv, TypeOK, InHand
<1>c. sess[s].row.amount \in Nat
  BY <1>a, AmountsAreNat DEF Rows
<1>d. \A target \in Statuses \cup {"DELETED"}, row \in Rows : [row EXCEPT !.status = target] \in Rows
  BY DEF Rows, Absent
<1>1. CASE SubmitLockPool(s)
  <2>1. CASE Fail(s)
    BY <2>1, FailType
  <2>2. CASE /\ poolLock' = [poolLock EXCEPT ![sess[s].p] = s]
             /\ Goto(s, "submit_save")
             /\ UNCHANGED <<req, used, reqLock, charged>>
    BY <1>1, <1>b, <2>2, GotoType DEF SubmitLockPool, TypeInv, TypeOK, Session, Steps
  <2> QED
    BY <1>1, <2>1, <2>2 DEF SubmitLockPool
<1>2. CASE SubmitSave(s)
  BY <1>2, <1>b, SaveSnapshotType DEF SubmitSave, Statuses
<1>3. CASE TaskSubmit(s)
  BY <1>3, <1>b, SaveSnapshotType DEF TaskSubmit, Statuses
<1>4. CASE StartReview(s)
  BY <1>4, <1>b, SaveSnapshotType DEF StartReview, Statuses
<1>5. CASE Decide(s)
  <2>1. CASE Fail(s)
    BY <2>1, FailType
  <2>2. CASE \E outcome \in {"APPROVED", "REJECTED", "UNDER_REVIEW"} :
                WriteRequest(s, [req[sess[s].r] EXCEPT !.status = outcome])
    BY <1>5, <1>b, <1>d, <2>2, WriteRequestType DEF Decide, Statuses
  <2> QED
    BY <1>5, <2>1, <2>2 DEF Decide
<1>6. CASE LockRequest(s)
  <2>1. CASE Fail(s)
    BY <2>1, FailType
  <2>2. CASE /\ reqLock' = [reqLock EXCEPT ![sess[s].r] = s]
             /\ sess' = [sess EXCEPT ![s].pc = "lock_read", ![s].row = req[sess[s].r]]
             /\ UNCHANGED <<req, used, poolLock, charged>>
    <3>1. sess' = [sess EXCEPT ![s].pc = "lock_read", ![s].row = req[sess[s].r],
                               ![s].seen = sess[s].seen]
      BY <2>2, <1>a DEF TypeInv, TypeOK, Session
    <3>2. sess' \in [Sessions -> Session] /\ InHand'
      BY <1>6, <1>a, <1>b, <3>1, MoveType DEF LockRequest, Steps
    <3> QED
      BY <1>6, <1>b, <2>2, <3>2 DEF LockRequest, TypeInv, TypeOK, Session
  <2> QED
    BY <1>6, <2>1, <2>2 DEF LockRequest
<1>7. CASE ReadPool(s)
  <2>1. AfterRead(sess[s].pc) \in Steps \ {"idle", "pool_patch"}
    BY <1>7 DEF ReadPool, AfterRead, Steps
  <2>2. used[sess[s].p] \in Nat
    BY <1>7, <1>b DEF ReadPool, TypeInv, TypeOK
  <2>3. sess' = [sess EXCEPT ![s].pc = AfterRead(sess[s].pc), ![s].row = sess[s].row,
                             ![s].seen = used[sess[s].p]]
    BY <1>7, <1>a DEF ReadPool, TypeInv, TypeOK
  <2>4. sess[s].row \in Rows /\ sess[s].pc \notin {"idle", "pool_patch"}
    BY <1>7 DEF ReadPool, TypeInv, TypeOK
  <2>5. sess' \in [Sessions -> Session] /\ InHand'
    BY <2>1, <2>2, <2>3, <2>4, MoveType
  <2> QED
    BY <1>7, <2>5 DEF ReadPool, TypeInv, TypeOK, Session
<1>8. CASE LockPool(s)
  <2>1. CASE Fail(s)
    BY <2>1, FailType
  <2>2. CASE /\ poolLock' = [poolLock EXCEPT ![sess[s].p] = s]
             /\ Goto(s, "lock_commit")
             /\ UNCHANGED <<req, used, reqLock, charged>>
    BY <1>8, <1>b, <2>2, GotoType DEF LockPool, TypeInv, TypeOK, Session, Steps
  <2> QED
    BY <1>8, <2>1, <2>2 DEF LockPool
<1>9. CASE LockCommit(s)
  <2>1. CASE Fail(s)
    BY <2>1, FailType
  <2>2. CASE /\ used' = [used EXCEPT ![sess[s].p] = sess[s].seen + sess[s].row.amount]
             /\ req' = [req EXCEPT ![sess[s].r] = [sess[s].row EXCEPT !.status = "LOCKED"]]
             /\ Deduct(sess[s].r, sess[s].row.amount)
             /\ Finish(s)
    <3>1. used' \in [Pools -> Nat]
      BY <1>9, <1>a, <1>b, <1>c, <2>2 DEF LockCommit, TypeInv, TypeOK
    <3>2. req' \in [Requests -> Rows]
      BY <1>9, <1>a, <1>b, <1>d, <2>2 DEF LockCommit, TypeInv, TypeOK, Statuses
    <3>3. charged' \in [Requests -> Int]
      BY <1>9, <1>b, <1>c, <2>2, ChargedType DEF LockCommit
    <3> QED
      BY <2>2, <3>1, <3>2, <3>3, FinishType DEF TypeInv, TypeOK, Session
  <2> QED
    BY <1>9, <2>1, <2>2 DEF LockCommit
<1>10. CASE CancelRequest(s)
  <2>1. CASE Fail(s)
    BY <2>1, FailType
  <2>2. CASE /\ reqLock' = [reqLock EXCEPT ![sess[s].r] = s]
             /\ sess' = [sess EXCEPT ![s].pc = "cancel_read", ![s].row = req[sess[s].r]]
             /\ UNCHANGED <<req, used, poolLock, charged>>
    <3>1. sess' = [sess EXCEPT ![s].pc = "cancel_read", ![s].row = req[sess[s].r],
                               ![s].seen = sess[s].seen]
      BY <2>2, <1>a DEF TypeInv, TypeOK, Session
    <3>2. sess' \in [Sessions -> Session] /\ InHand'
      BY <1>10, <1>a, <1>b, <3>1, MoveType DEF CancelRequest, Steps
    <3> QED
      BY <1>10, <1>b, <2>2, <3>2 DEF CancelRequest, TypeInv, TypeOK, Session
  <2>3. CASE WriteRequest(s, [req[sess[s].r] EXCEPT !.status = "CANCELLED"])
    BY <1>10, <1>b, <1>d, <2>3, WriteRequestType DEF CancelRequest, Statuses
  <2> QED
    BY <1>10, <2>1, <2>2, <2>3 DEF CancelRequest
<1>11. CASE CancelCommit(s)
  <2>1. used' \in [Pools -> Nat]
    BY <1>11, <1>a, <1>b, <1>c, LessType DEF CancelCommit, TypeInv, TypeOK
  <2>2. req' \in [Requests -> Rows]
    BY <1>11, <1>a, <1>b, <1>d DEF CancelCommit, TypeInv, TypeOK, Statuses
  <2>3. charged' \in [Requests -> Int]
    BY <1>11, <1>b, <1>c, ChargedType DEF CancelCommit
  <2> QED
    BY <1>11, <2>1, <2>2, <2>3, FinishType DEF CancelCommit, TypeInv, TypeOK, Session
<1>12. CASE UnlockPool(s)
  <2>1. used' \in [Pools -> Nat]
    BY <1>12, <1>a, <1>b, <1>c, LessType DEF UnlockPool, TypeInv, TypeOK
  <2>2. charged' \in [Requests -> Int]
    BY <1>12, <1>b, <1>c, ChargedType DEF UnlockPool
  <2>3. sess' \in [Sessions -> Session] /\ InHand'
    BY <1>12, GotoType DEF UnlockPool, Steps
  <2> QED
    BY <1>12, <2>1, <2>2, <2>3 DEF UnlockPool, TypeInv, TypeOK, Session
<1>13. CASE UnlockRequest(s)
  <2> DEFINE row == req[sess[s].r]
             new == IF row.status \in Absent THEN row ELSE [row EXCEPT !.status = "APPROVED"]
  <2>1. sess[s].r \in Requests /\ WriteRequest(s, new)
    BY <1>13, <1>b DEF UnlockRequest
  <2>2. new \in Rows
    BY <1>13, <1>b, <1>d DEF UnlockRequest, Statuses
  <2> QED
    BY <2>1, <2>2, WriteRequestType
<1>14. CASE Revise(s)
  BY <1>14, <1>b, SaveSnapshotType DEF Revise, Statuses
<1>15. CASE Patch(s)
  <2>1. \A amount \in Amounts : [sess[s].row EXCEPT !.amount = amount] \in Rows
    BY <1>a DEF Rows
  <2> QED
    BY <1>15, <1>b, <2>1, WriteRequestType DEF Patch
<1>16. CASE Delete(s)
  <2> DEFINE row == req[sess[s].r]
             new == IF row.status \in Absent THEN row ELSE [row EXCEPT !.status = "DELETED"]
  <2>1. sess[s].r \in Requests /\ WriteRequest(s, new)
    BY <1>16, <1>b DEF Delete
  <2>2. new \in Rows
    BY <1>16, <1>b, <1>d DEF Delete
  <2> QED
    BY <2>1, <2>2, WriteRequestType
<1>17. CASE PoolPatch(s)
  <2>1. used' \in [Pools -> Nat]
    BY <1>17, <1>a DEF PoolPatch, TypeInv, TypeOK, InHand
  <2> QED
    BY <1>17, <2>1, FinishType DEF PoolPatch, TypeInv, TypeOK, Session
<1>18. CASE DeadlockAbort(s)
  BY <1>18, FailType DEF DeadlockAbort
<1> QED
  BY <1>1, <1>2, <1>3, <1>4, <1>5, <1>6, <1>7, <1>8, <1>9, <1>10, <1>11, <1>12,
     <1>13, <1>14, <1>15, <1>16, <1>17, <1>18 DEF Step

LEMMA NextType == TypeInv /\ [Next]_vars => TypeInv'
<1> SUFFICES ASSUME TypeInv, [Next]_vars PROVE TypeInv'
  OBVIOUS
<1>1. CASE Next
  <2>1. PICK s \in Sessions : Start(s) \/ Step(s) \/ Crash(s)
    BY <1>1 DEF Next
  <2>2. CASE Crash(s)
    BY <2>2, FailType DEF Crash
  <2> QED
    BY <2>1, <2>2, StartType, StepType
<1>2. CASE UNCHANGED vars
  BY <1>2 DEF vars, TypeInv, TypeOK, InHand
<1> QED
  BY <1>1, <1>2

(* Whatever the sessions do, every table row, lock and session record is   *)
(* well typed; in particular no interleaving of deductions and reversals   *)
(* makes a pool's used_amount negative.                                    *)
THEOREM TypeCorrect == Spec => []TypeOK
<1>1. TypeInv => TypeOK
  BY DEF TypeInv
<1> QED
  BY <1>1, InitType, NextType, PTL DEF Spec
-----------------------------------------------------------------------------
(* What a session knows while it holds row locks.  It is the strengthening *)
(* that makes CheckedBalanceHolds inductive: the row in hand is the row in *)
(* the table from the moment its lock is taken, and the room found in the  *)
(* pool stays there while the pool's lock is held.                         *)
OwnsRequest == {"lock_read", "lock_pool", "lock_commit", "cancel_read", "cancel_pool"}
OwnsPool == {"submit_save", "lock_commit"}

Held(s) ==
    /\ sess[s].pc \in OwnsRequest =>
           /\ reqLock[sess[s].r] = s
           /\ req[sess[s].r] = sess[s].row
           /\ sess[s].row.status =
                  IF sess[s].pc \in {"cancel_read", "cancel_pool"} THEN "LOCKED" ELSE "APPROVED"
    /\ sess[s].pc \in OwnsPool => poolLock[sess[s].p] = s
    /\ sess[s].pc = "lock_commit" =>
           used[sess[s].p] + sess[s].row.amount <= Total[sess[s].p]

HeldInv == TypeInv /\ \A s \in Sessions : Held(s)

(* A step of another session leaves alone t's record and the rows t has    *)
(* locked.                                                                 *)
Undisturbed(t) ==
    /\ sess'[t] = sess[t]
    /\ sess[t].pc \in OwnsRequest =>
           /\ reqLock'[sess[t].r] = reqLock[sess[t].r]
           /\ req'[sess[t].r] = req[sess[t].r]
    /\ sess[t].pc \in OwnsPool =>
           /\ poolLock'[sess[t].p] = poolLock[sess[t].p]
           /\ used'[sess[t].p] = used[sess[t].p]

LEMMA UndisturbedHeld ==
  ASSUME NEW t \in Sessions, Held(t), Undisturbed(t)
  PROVE  Held(t)'
  BY DEF Held, Undisturbed, OwnsRequest, OwnsPool

LEMMA FinishHeld ==
  ASSUME TypeInv, NEW s \in Sessions, Finish(s)
  PROVE  Held(s)'
  BY DEF TypeInv, TypeOK, Finish, Held, Idle, OwnsRequest, OwnsPool

LEMMA InHandPool == TypeInv => \A s \in Sessions :
    sess[s].pc \notin {"idle", "pool_patch"} => sess[s].r \in Requests /\ sess[s].p \in Pools
  BY LedgerConstants DEF TypeInv, TypeOK, InHand

LEMMA FinishUndisturbed ==
  ASSUME HeldInv, NEW s \in Sessions, NEW t \in Sessions \ {s}, Finish(s),
         sess[t].pc \in OwnsRequest => req'[sess[t].r] = req[sess[t].r],
         sess[t].pc \in OwnsPool => used'[sess[t].p] = used[sess[t].p]
  PROVE  Undisturbed(t)
<1>1. /\ sess[t].pc \in OwnsRequest => reqLock[sess[t].r] = t /\ sess[t].r \in Requests
      /\ sess[t].pc \in OwnsPool => poolLock[sess[t].p] = t /\ sess[t].p \in Pools
  BY InHandPool DEF HeldInv, Held, OwnsRequest, OwnsPool
<1>2. sess'[t] = sess[t]
  BY DEF Finish, HeldInv, TypeInv, TypeOK
<1>3. /\ sess[t].pc \in OwnsRequest => reqLock'[sess[t].r] = reqLock[sess[t].r]
      /\ sess[t].pc \in OwnsPool => poolLock'[sess[t].p] = poolLock[sess[t].p]
  BY <1>1 DEF Finish, Released, HeldInv, TypeInv, TypeOK
<1> QED
  BY <1>2, <1>3 DEF Undisturbed

LEMMA FailUndisturbed ==
  ASSUME HeldInv, NEW s \in Sessions, NEW t \in Sessions \ {s}, Fail(s)
  PROVE  Undisturbed(t)
  BY FinishUndisturbed DEF Fail

LEMMA WriteRequestUndisturbed ==
  ASSUME HeldInv, NEW s \in Sessions, NEW t \in Sessions \ {s}, NEW row,
         WriteRequest(s, row)
  PROVE  Undisturbed(t)
<1>1. sess[t].pc \in OwnsRequest => reqLock[sess[t].r] = t
  BY DEF HeldInv, Held
<1>2. sess[t].pc \in OwnsRequest => sess[t].r # sess[s].r
  BY <1>1, LedgerConstants DEF WriteRequest
<1>3. sess[t].pc \in OwnsRequest => req'[sess[t].r] = req[sess[t].r]
  BY <1>2 DEF WriteRequest, HeldInv, TypeInv, TypeOK
<1> QED
  BY <1>3, FinishUndisturbed DEF WriteRequest

(* Every step of a session leaves the others undisturbed.                  *)
LEMMA StartUndisturbed ==
  ASSUME HeldInv, NEW s \in Sessions, NEW t \in Sessions \ {s}, Start(s)
  PROVE  Undisturbed(t)
<1> USE DEF At
<1>1. CASE Load(s)
  BY <1>1 DEF Load, HeldInv, TypeInv, TypeOK, Undisturbed
<1>2. CASE Create(s)
  <2>1. PICK r \in Requests, row \in Rows :
            req[r].status = "NEW" /\ req' = [req EXCEPT ![r] = row]
    BY <1>2 DEF Create, Rows, Statuses
  <2>2. sess'[t] = sess[t]
    BY <1>2 DEF Create, HeldInv, TypeInv, TypeOK
  <2>3. sess[t].pc \in OwnsRequest => sess[t].r # r
    BY <2>1 DEF HeldInv, Held
  <2>4. sess[t].pc \in OwnsRequest => req'[sess[t].r] = req[sess[t].r]
    BY <2>1, <2>3 DEF HeldInv, TypeInv, TypeOK
  <2> QED
    BY <1>2, <2>2, <2>4 DEF Create, Undisturbed
<1>3. CASE PoolLoad(s)
  BY <1>3 DEF PoolLoad, HeldInv, TypeInv, TypeOK, Undisturbed
<1> QED
  BY <1>1, <1>2, <1>3 DEF Start

LEMMA StepUndisturbed ==
  ASSUME HeldInv, NEW s \in Sessions, NEW t \in Sessions \ {s}, Step(s)
  PROVE  Undisturbed(t)
<1> USE DEF At
<1>a. /\ sess[t].pc \in OwnsRequest => reqLock[sess[t].r] = t /\ sess[t].r \in Requests
      /\ sess[t].pc \in OwnsPool => poolLock[sess[t].p] = t /\ sess[t].p \in Pools
  BY InHandPool DEF HeldInv, Held, OwnsRequest, OwnsPool
<1>b. /\ sess[s].pc \in OwnsRequest => reqLock[sess[s].r] = s
      /\ sess[s].pc \in OwnsPool => poolLock[sess[s].p] = s
  BY DEF HeldInv, Held
<1>c. t # None /\ t # s
  BY LedgerConstants
<1>0. CASE Fail(s)
  BY <1>0, FailUndisturbed
<1>1. CASE \E row : WriteRequest(s, row)
  BY <1>1, WriteRequestUndisturbed
<1>2. CASE /\ sess[s].pc \in {"submit", "lock_pool"} /\ poolLock[sess[s].p] = None
           /\ poolLock' = [poolLock EXCEPT ![sess[s].p] = s]
           /\ \E step \in Steps : Goto(s, step)
           /\ UNCHANGED <<req, used, reqLock>>
  <2>1. sess[t].pc \in OwnsPool => sess[t].p # sess[s].p
    BY <1>2, <1>a, <1>c
  <2> QED
    BY <1>2, <1>a, <2>1 DEF Goto, HeldInv, TypeInv, TypeOK, Undisturbed
<1>3. CASE /\ reqLock[sess[s].r] = None
           /\ reqLock' = [reqLock EXCEPT ![sess[s].r] = s]
           /\ \E step \in Steps : sess' = [sess EXCEPT ![s].pc = step, ![s].row = req[sess[s].r]]
           /\ UNCHANGED <<req, used, poolLock>>
  <2>1. sess[t].pc \in OwnsRequest => sess[t].r # sess[s].r
    BY <1>3, <1>a, <1>c
  <2> QED
    BY <1>3, <1>a, <2>1 DEF HeldInv, TypeInv, TypeOK, Undisturbed
<1>4. CASE ReadPool(s)
  BY <1>4 DEF ReadPool, HeldInv, TypeInv, TypeOK, Undisturbed
<1>5. ASSUME NEW row, NEW n,
             req' = [req EXCEPT ![sess[s].r] = row], used' = [used EXCEPT ![sess[s].p] = n],
             reqLock[sess[s].r] = s, poolLock[sess[s].p] \in {None, s}, Finish(s)
      PROVE  Undisturbed(t)
  <2>1. /\ sess[t].pc \in OwnsRequest => sess[t].r # sess[s].r
        /\ sess[t].pc \in OwnsPool => sess[t].p # sess[s].p
    BY <1>5, <1>a, <1>c
  <2>2. /\ sess[t].pc \in OwnsRequest => req'[sess[t].r] = req[sess[t].r]
        /\ sess[t].pc \in OwnsPool => used'[sess[t].p] = used[sess[t].p]
    BY <1>5, <2>1, <1>a DEF HeldInv, TypeInv, TypeOK
  <2> QED
    BY <1>5, <2>2, FinishUndisturbed
<1>6. CASE LockCommit(s)
  <2>1. reqLock[sess[s].r] = s /\ poolLock[sess[s].p] = s
    BY <1>6, <1>b DEF LockCommit, OwnsRequest, OwnsPool
  <2> QED
    BY <1>0, <1>5, <1>6, <2>1 DEF LockCommit
<1>7. CASE CancelCommit(s)
  <2>1. reqLock[sess[s].r] = s
    BY <1>7, <1>b DEF CancelCommit, OwnsRequest
  <2> QED
    BY <1>5, <1>7, <2>1 DEF CancelCommit
<1>8. CASE UnlockPool(s)
  <2>1. sess[t].pc \in OwnsPool => sess[t].p # sess[s].p
    BY <1>8, <1>a, <1>c DEF UnlockPool
  <2> QED
    BY <1>8, <1>a, <2>1 DEF UnlockPool, Goto, HeldInv, TypeInv, TypeOK, Undisturbed
<1>9. CASE PoolPatch(s)
  <2>1. sess[t].pc \in OwnsPool => sess[t].p # sess[s].p
    BY <1>9, <1>a, <1>c DEF PoolPatch
  <2>2. sess[t].pc \in OwnsPool => used'[sess[t].p] = used[sess[t].p]
    BY <1>9, <1>a, <2>1 DEF PoolPatch, HeldInv, TypeInv, TypeOK
  <2> QED
    BY <1>9, <2>2, FinishUndisturbed DEF PoolPatch
<1>10. CASE SubmitLockPool(s)
  BY <1>0, <1>2, <1>10 DEF SubmitLockPool, Steps
<1>11. CASE LockPool(s)
  BY <1>0, <1>2, <1>11 DEF LockPool, Steps
<1>12. CASE LockRequest(s)
  BY <1>0, <1>3, <1>12 DEF LockRequest, Steps
<1>13. CASE CancelRequest(s)
  BY <1>0, <1>1, <1>3, <1>13 DEF CancelRequest, Steps
<1>14. CASE SubmitSave(s) \/ TaskSubmit(s) \/ StartReview(s) \/ Revise(s)
  BY <1>1, <1>14 DEF SubmitSave, TaskSubmit, StartReview, Revise, SaveSnapshot
<1>15. CASE Decide(s)
  BY <1>0, <1>1, <1>15 DEF Decide
<1>16. CASE UnlockRequest(s) \/ Patch(s) \/ Delete(s)
  BY <1>1, <1>16 DEF UnlockRequest, Patch, Delete
<1>17. CASE DeadlockAbort(s)
  BY <1>0, <1>17 DEF DeadlockAbort
<1> QED
  BY <1>4, <1>6, <1>7, <1>8, <1>9, <1>10, <1>11, <1>12, <1>13, <1>14, <1>15,
     <1>16, <1>17 DEF Step

(* The session that moves knows what its next step needs.                  *)
LEMMA OwnHeld ==
  ASSUME HeldInv, NEW s \in Sessions, Start(s) \/ Step(s) \/ Crash(s)
  PROVE  Held(s)'
<1> USE DEF At
<1>a. sess[s].pc \notin {"idle", "pool_patch"} => sess[s].r \in Requests /\ sess[s].p \in Pools
  BY InHandPool DEF HeldInv
<1>b. sess[s] \in Session /\ sess \in [Sessions -> Session]
  BY DEF HeldInv, TypeInv, TypeOK, Session
<1>0. CASE Finish(s)
  BY <1>0, FinishHeld DEF HeldInv
<1>1. CASE Start(s)
  <2>1. sess'[s].pc \notin OwnsRequest \cup OwnsPool
    <3>1. CASE Load(s)
      <4>1. PICK op \in Ops \ {"create", "pool_patch", "crash"}, r \in Requests :
                sess' = [sess EXCEPT ![s] = [pc |-> FirstStep(op), r |-> r, row |-> req[r],
                                             p |-> PoolOf[r], seen |-> 0]]
        BY <3>1 DEF Load
      <4>2. FirstStep(op) \notin OwnsRequest \cup OwnsPool
        BY LedgerConstants DEF FirstStep, AllOps, OwnsRequest, OwnsPool
      <4> QED
        BY <4>1, <4>2, <1>b
    <3>2. CASE Create(s)
      <4>1. sess'[s].pc \in {"idle", "submit"}
        BY <3>2, <1>b DEF Create
      <4> QED
        BY <4>1 DEF OwnsRequest, OwnsPool
    <3>3. CASE PoolLoad(s)
      <4>1. sess'[s].pc = "pool_patch"
        BY <3>3, <1>b DEF PoolLoad, Idle
      <4> QED
        BY <4>1 DEF OwnsRequest, OwnsPool
    <3> QED
      BY <1>1, <3>1, <3>2, <3>3 DEF Start
  <2> QED
    BY <2>1 DEF Held, OwnsRequest, OwnsPool
<1>2. CASE SubmitLockPool(s)
  BY <1>0, <1>2, <1>a, <1>b DEF SubmitLockPool, Fail, Goto, Held, OwnsRequest, OwnsPool,
     HeldInv, TypeInv, TypeOK
<1>3. CASE LockRequest(s)
  BY <1>0, <1>3, <1>a, <1>b DEF LockRequest, Fail, Session, Held, OwnsRequest, OwnsPool,
     HeldInv, TypeInv, TypeOK
<1>4. CASE ReadPool(s)
  <2>1. sess'[s].pc = AfterRead(sess[s].pc) /\ sess'[s].r = sess[s].r /\ sess'[s].row = sess[s].row
    BY <1>4, <1>b DEF ReadPool, Session
  <2>2. \/ sess[s].pc = "lock_read" /\ sess'[s].pc = "lock_pool"
        \/ sess[s].pc = "cancel_read" /\ sess'[s].pc = "cancel_pool"
        \/ sess[s].pc = "unlock_read" /\ sess'[s].pc = "unlock_pool"
    BY <1>4, <2>1 DEF ReadPool, AfterRead
  <2>3. Held(s)
    BY DEF HeldInv
  <2> QED
    BY <1>4, <2>1, <2>2, <2>3 DEF ReadPool, Held, OwnsRequest, OwnsPool
<1>5. CASE LockPool(s)
  <2>1. CASE Fail(s)
    BY <2>1, <1>0 DEF Fail
  <2>2. CASE /\ Available(sess[s].p, sess[s].row.amount)
             /\ poolLock' = [poolLock EXCEPT ![sess[s].p] = s]
             /\ Goto(s, "lock_commit")
             /\ UNCHANGED <<req, used, reqLock, charged>>
    <3>1. sess'[s] = [sess[s] EXCEPT !.pc = "lock_commit"]
      BY <2>2, <1>b DEF Goto
    <3>2. /\ sess'[s].pc = "lock_commit" /\ sess'[s].r = sess[s].r
          /\ sess'[s].row = sess[s].row /\ sess'[s].p = sess[s].p
      BY <3>1, <1>b DEF Session
    <3>3. poolLock'[sess[s].p] = s
      BY <2>2, <1>5, <1>a DEF LockPool, HeldInv, TypeInv, TypeOK
    <3>4. used[sess[s].p] \in Int /\ sess[s].row.amount \in Int /\ Total[sess[s].p] \in Int
      <4>1. sess[s].p \in Pools
        BY <1>5, <1>a DEF LockPool
      <4>2. sess[s].row.amount \in Nat
        BY <1>b, AmountsAreNat DEF Session, Rows
      <4> QED
        BY <4>1, <4>2, LedgerConstants DEF HeldInv, TypeInv, TypeOK
    <3>5. used[sess[s].p] + sess[s].row.amount <= Total[sess[s].p]
      BY <2>2, <3>4 DEF Available
    <3>6. Held(s)
      BY DEF HeldInv
    <3> QED
      BY <1>5, <2>2, <3>2, <3>3, <3>5, <3>6 DEF LockPool, Held, OwnsRequest, OwnsPool
  <2> QED
    BY <1>5, <2>1, <2>2 DEF LockPool
<1>6. CASE CancelRequest(s)
  BY <1>0, <1>6, <1>a, <1>b DEF CancelRequest, Fail, WriteRequest, Session, Held,
     OwnsRequest, OwnsPool, HeldInv, TypeInv, TypeOK
<1>7. CASE UnlockPool(s)
  BY <1>7, <1>b DEF UnlockPool, Goto, Session, Held, OwnsRequest, OwnsPool
<1>8. CASE SubmitSave(s) \/ TaskSubmit(s) \/ StartReview(s) \/ Revise(s)
  BY <1>0, <1>8 DEF SubmitSave, TaskSubmit, StartReview, Revise, SaveSnapshot, WriteRequest
<1>9. CASE Decide(s) \/ LockCommit(s) \/ CancelCommit(s) \/ UnlockRequest(s)
  BY <1>0, <1>9 DEF Decide, LockCommit, CancelCommit, UnlockRequest, Fail, WriteRequest
<1>10. CASE Patch(s) \/ Delete(s) \/ PoolPatch(s) \/ DeadlockAbort(s) \/ Crash(s)
  BY <1>0, <1>10 DEF Patch, Delete, PoolPatch, DeadlockAbort, Crash, Fail, WriteRequest
<1> QED
  BY <1>1, <1>2, <1>3, <1>4, <1>5, <1>6, <1>7, <1>8, <1>9, <1>10 DEF Step

LEMMA NextHeld == HeldInv /\ [Next]_vars => HeldInv'
<1> SUFFICES ASSUME HeldInv, [Next]_vars PROVE HeldInv'
  OBVIOUS
<1>1. TypeInv'
  BY NextType DEF HeldInv
<1>2. ASSUME NEW t \in Sessions PROVE Held(t)'
  <2>1. CASE Next
    <3>1. PICK s \in Sessions : Start(s) \/ Step(s) \/ Crash(s)
      BY <2>1 DEF Next
    <3>2. CASE s = t
      BY <3>1, <3>2, OwnHeld
    <3>3. CASE s # t
      <4>1. Undisturbed(t)
        BY <3>1, <3>3, StartUndisturbed, StepUndisturbed, FailUndisturbed DEF Crash
      <4> QED
        BY <4>1, UndisturbedHeld DEF HeldInv
    <3> QED
      BY <3>2, <3>3
  <2>2. CASE UNCHANGED vars
    BY <2>2 DEF vars, HeldInv, Held
  <2> QED
    BY <2>1, <2>2
<1> QED
  BY <1>1, <1>2 DEF HeldInv

LEMMA InitHeld == (Init \/ ReviewedInit) => HeldInv
<1>1. Init => HeldInv
  BY InitType DEF Init, HeldInv, Held, Idle, OwnsRequest, OwnsPool
<1>2. ReviewedInit => HeldInv
  BY ReviewedInitType DEF ReviewedInit, HeldInv, Held, Idle, OwnsRequest, OwnsPool
<1> QED
  BY <1>1, <1>2

(* What lock_budget_request tested is still true when it deducts: it holds *)
(* both row locks, the request is as it was read and APPROVED, and the     *)
(* pool has room for it.                                                   *)
THEOREM BalanceCheckedUnderLock == Spec => []CheckedBalanceHolds
<1>1. HeldInv => CheckedBalanceHolds
  BY DEF HeldInv, Held, CheckedBalanceHolds, At, OwnsRequest, OwnsPool
<1> QED
  BY <1>1, InitHeld, NextHeld, PTL DEF Spec
-----------------------------------------------------------------------------
(* The operations that re-read the request under its lock.  Each write they*)
(* make is one of four.                                                    *)
OnlyRowLocked == \A s \in Sessions : sess[s].pc \in RowLockedSteps

(* A LOCKED request was deducted, so its amount fitted the column.         *)
LockedFits == \A r \in Requests : req[r].status = "LOCKED" => req[r].amount <= Ceiling

(* None of these operations is unlock, so the balance of each request is   *)
(* exact at every moment.                                                  *)
DeductedExactly == \A r \in Requests :
    charged[r] = IF req[r].status = "LOCKED" THEN req[r].amount ELSE 0

LedgerInv == HeldInv /\ OnlyRowLocked /\ LockedFits /\ DeductedExactly

StatusMove(r, source, target) ==
    /\ req[r].status \in source
    /\ req' = [req EXCEPT ![r] = [status |-> target, amount |-> req[r].amount]]

(* The request keeps its amount and takes an edge that touches no money.   *)
PlainMove(r) ==
    /\ \/ StatusMove(r, {"UNDER_REVIEW"}, "APPROVED")
       \/ StatusMove(r, {"UNDER_REVIEW"}, "REJECTED")
       \/ StatusMove(r, {"UNDER_REVIEW"}, "UNDER_REVIEW")
       \/ StatusMove(r, Statuses \ {"CANCELLED", "LOCKED"}, "CANCELLED")
    /\ UNCHANGED charged

DeductingMove(r) ==
    /\ StatusMove(r, {"APPROVED"}, "LOCKED")
    /\ Deduct(r, req[r].amount) /\ req[r].amount <= Ceiling

ReversingMove(r) ==
    /\ StatusMove(r, {"LOCKED"}, "CANCELLED")
    /\ Reverse(r, req[r].amount)

LEMMA RowWithStatus == \A row \in Rows : \A target :
    [row EXCEPT !.status = target] = [status |-> target, amount |-> row.amount]
  BY DEF Rows

LEMMA RowLockedMoves ==
  ASSUME LedgerInv, NEW s \in Sessions, Step(s)
  PROVE  UNCHANGED <<req, charged>>
         \/ \E r \in Requests : PlainMove(r) \/ DeductingMove(r) \/ ReversingMove(r)
<1> USE DEF At
<1>a. sess[s].pc \in RowLockedSteps
  BY DEF LedgerInv, OnlyRowLocked
<1>b. sess[s].pc # "idle" => sess[s].r \in Requests /\ req[sess[s].r] \in Rows
  BY <1>a, InHandPool DEF RowLockedSteps, LedgerInv, HeldInv, TypeInv, TypeOK
<1>c. Held(s)
  BY DEF LedgerInv, HeldInv
<1>0. CASE UNCHANGED <<req, charged>>
  BY <1>0
<1>1. CASE Decide(s)
  <2>1. CASE Fail(s)
    BY <2>1 DEF Fail
  <2>2. CASE req[sess[s].r].status = "UNDER_REVIEW" /\
             \E outcome \in {"APPROVED", "REJECTED", "UNDER_REVIEW"} :
                WriteRequest(s, [req[sess[s].r] EXCEPT !.status = outcome])
    <3>1. PICK outcome \in {"APPROVED", "REJECTED", "UNDER_REVIEW"} :
              WriteRequest(s, [req[sess[s].r] EXCEPT !.status = outcome])
      BY <2>2
    <3>2. req' = [req EXCEPT ![sess[s].r] =
                     [status |-> outcome, amount |-> req[sess[s].r].amount]]
      BY <1>1, <1>b, <3>1, RowWithStatus DEF Decide, WriteRequest
    <3>3. PlainMove(sess[s].r)
      BY <2>2, <3>1, <3>2 DEF WriteRequest, PlainMove, StatusMove
    <3> QED
      BY <1>1, <1>b, <3>3 DEF Decide
  <2> QED
    BY <1>1, <2>1, <2>2 DEF Decide
<1>2. CASE CancelRequest(s)
  <2>1. CASE UNCHANGED <<req, charged>>
    BY <2>1
  <2>2. CASE /\ req[sess[s].r].status \notin Absent \cup {"CANCELLED", "LOCKED"}
             /\ WriteRequest(s, [req[sess[s].r] EXCEPT !.status = "CANCELLED"])
    <3>1. req[sess[s].r].status \in Statuses \ {"CANCELLED", "LOCKED"}
      BY <1>2, <1>b, <2>2 DEF CancelRequest, Rows
    <3>2. PlainMove(sess[s].r)
      BY <1>2, <1>b, <2>2, <3>1, RowWithStatus DEF CancelRequest, WriteRequest, PlainMove, StatusMove
    <3> QED
      BY <1>2, <1>b, <3>2 DEF CancelRequest
  <2> QED
    BY <1>2, <2>1, <2>2 DEF CancelRequest, Fail
<1>3. CASE LockCommit(s)
  <2>1. CASE Fail(s)
    BY <2>1 DEF Fail
  <2>2. CASE /\ sess[s].seen + sess[s].row.amount <= Ceiling
             /\ req' = [req EXCEPT ![sess[s].r] = [sess[s].row EXCEPT !.status = "LOCKED"]]
             /\ Deduct(sess[s].r, sess[s].row.amount)
    <3>1. req[sess[s].r] = sess[s].row /\ sess[s].row.status = "APPROVED"
      BY <1>3, <1>c DEF LockCommit, Held, OwnsRequest
    <3>2. sess[s].row.amount <= Ceiling
      <4>1. sess[s].row.amount \in Nat /\ sess[s].seen \in Nat
        BY AmountsAreNat DEF LedgerInv, HeldInv, TypeInv, TypeOK, Rows
      <4> QED
        BY <2>2, <4>1, LedgerConstants
    <3>3. DeductingMove(sess[s].r)
      BY <1>3, <1>b, <2>2, <3>1, <3>2, RowWithStatus DEF LockCommit, DeductingMove, StatusMove
    <3> QED
      BY <1>3, <1>b, <3>3 DEF LockCommit
  <2>3. sess[s].seen \in Nat /\ sess[s].row.amount \in Nat
    BY AmountsAreNat DEF LedgerInv, HeldInv, TypeInv, TypeOK, Rows
  <2>4. sess[s].seen + sess[s].row.amount > Ceiling \/ sess[s].seen + sess[s].row.amount <= Ceiling
    BY <2>3, LedgerConstants
  <2> QED
    BY <1>3, <2>1, <2>2, <2>4 DEF LockCommit
<1>4. CASE CancelCommit(s)
  <2>1. req[sess[s].r] = sess[s].row /\ sess[s].row.status = "LOCKED"
    BY <1>4, <1>c DEF CancelCommit, Held, OwnsRequest
  <2>2. ReversingMove(sess[s].r)
    BY <1>4, <1>b, <2>1, RowWithStatus DEF CancelCommit, ReversingMove, StatusMove
  <2> QED
    BY <1>4, <1>b, <2>2 DEF CancelCommit
<1>5. CASE LockRequest(s) \/ ReadPool(s) \/ LockPool(s) \/ DeadlockAbort(s) \/ SubmitLockPool(s)
  BY <1>0, <1>5 DEF LockRequest, ReadPool, LockPool, DeadlockAbort, SubmitLockPool, Fail
<1>6. CASE \/ SubmitSave(s) \/ TaskSubmit(s) \/ StartReview(s) \/ UnlockPool(s)
           \/ UnlockRequest(s) \/ Revise(s) \/ Patch(s) \/ Delete(s) \/ PoolPatch(s)
  BY <1>6, <1>a DEF RowLockedSteps, SubmitSave, TaskSubmit, StartReview, UnlockPool,
     UnlockRequest, Revise, Patch, Delete, PoolPatch
<1> QED
  BY <1>1, <1>2, <1>3, <1>4, <1>5, <1>6 DEF Step

LEMMA StartMovesNothing ==
  ASSUME Ops \subseteq RowLockedOps, NEW s \in Sessions, Start(s)
  PROVE  UNCHANGED <<req, charged>>
  BY DEF RowLockedOps, Start, Load, Create, PoolLoad

(* The sessions never leave the steps of the row-locked operations.        *)
LEMMA StaysRowLocked ==
  ASSUME Ops \subseteq RowLockedOps, LedgerInv, NEW s \in Sessions,
         Start(s) \/ Step(s) \/ Crash(s)
  PROVE  OnlyRowLocked'
<1> USE DEF At
<1>a. sess \in [Sessions -> Session] /\ \A t \in Sessions : sess[t].pc \in RowLockedSteps
  BY DEF LedgerInv, OnlyRowLocked, HeldInv, TypeInv, TypeOK, Session
<1>0. CASE Finish(s)
  BY <1>0, <1>a DEF Finish, Idle, OnlyRowLocked, RowLockedSteps
<1>1. CASE \E step \in RowLockedSteps : sess' = [sess EXCEPT ![s].pc = step]
  BY <1>1, <1>a DEF OnlyRowLocked, Session
<1>2. CASE Start(s)
  <2>1. Load(s)
    BY <1>2 DEF Start, Create, PoolLoad, RowLockedOps
  <2>2. PICK op \in Ops \ {"create", "pool_patch", "crash"}, r \in Requests :
            sess' = [sess EXCEPT ![s] = [pc |-> FirstStep(op), r |-> r, row |-> req[r],
                                         p |-> PoolOf[r], seen |-> 0]]
    BY <2>1 DEF Load
  <2>3. FirstStep(op) \in RowLockedSteps
    BY DEF RowLockedOps, FirstStep, RowLockedSteps
  <2> QED
    BY <1>a, <2>2, <2>3 DEF OnlyRowLocked
<1>3. CASE LockRequest(s) \/ CancelRequest(s)
  <2>1. CASE \E step \in RowLockedSteps :
                 sess' = [sess EXCEPT ![s].pc = step, ![s].row = req[sess[s].r]]
    BY <2>1, <1>a DEF OnlyRowLocked, Session
  <2> QED
    BY <1>0, <1>3, <2>1 DEF LockRequest, CancelRequest, Fail, WriteRequest, RowLockedSteps
<1>4. CASE ReadPool(s)
  <2>1. AfterRead(sess[s].pc) \in RowLockedSteps
    BY <1>4, <1>a DEF ReadPool, AfterRead, RowLockedSteps
  <2> QED
    BY <1>4, <1>a, <2>1 DEF ReadPool, OnlyRowLocked, Session
<1>5. CASE LockPool(s)
  BY <1>0, <1>1, <1>5 DEF LockPool, Fail, Goto, RowLockedSteps
<1>6. CASE Decide(s) \/ LockCommit(s) \/ CancelCommit(s) \/ DeadlockAbort(s) \/ Crash(s)
  BY <1>0, <1>6 DEF Decide, LockCommit, CancelCommit, DeadlockAbort, Crash, Fail, WriteRequest
<1>7. CASE \/ SubmitLockPool(s) \/ SubmitSave(s) \/ TaskSubmit(s) \/ StartReview(s)
           \/ UnlockPool(s) \/ UnlockRequest(s) \/ Revise(s) \/ Patch(s) \/ Delete(s)
           \/ PoolPatch(s)
  BY <1>7, <1>a DEF RowLockedSteps, SubmitLockPool, SubmitSave, TaskSubmit, StartReview,
     UnlockPool, UnlockRequest, Revise, Patch, Delete, PoolPatch
<1> QED
  BY <1>2, <1>3, <1>4, <1>5, <1>6, <1>7 DEF Step

(* Of the four moves, one deducts, one reverses, two leave the money alone,*)
(* and each is an edge of the FSM.                                         *)
LEMMA MoveKeepsLedger ==
  ASSUME LedgerInv, NEW r \in Requests, PlainMove(r) \/ DeductingMove(r) \/ ReversingMove(r)
  PROVE  LockedFits' /\ DeductedExactly'
<1>a. /\ req \in [Requests -> Rows] /\ charged \in [Requests -> Int]
      /\ req[r].amount \in Nat /\ Ceiling \in Nat
  BY AmountsAreNat, LedgerConstants DEF LedgerInv, HeldInv, TypeInv, TypeOK, Rows
<1>b. charged[r] = IF req[r].status = "LOCKED" THEN req[r].amount ELSE 0
  BY DEF LedgerInv, DeductedExactly
<1>1. CASE PlainMove(r)
  <2>1. req'[r].status # "LOCKED" /\ req[r].status # "LOCKED"
    BY <1>1, <1>a DEF PlainMove, StatusMove
  <2> QED
    BY <1>1, <1>a, <2>1 DEF PlainMove, StatusMove, LedgerInv, LockedFits, DeductedExactly
<1>2. CASE DeductingMove(r)
  <2>1. charged'[r] = req[r].amount
    BY <1>2, <1>a, <1>b DEF DeductingMove, StatusMove, Deduct, WithinCeiling
  <2>2. req'[r].status = "LOCKED" /\ req'[r].amount = req[r].amount /\ req[r].amount <= Ceiling
    BY <1>2, <1>a DEF DeductingMove, StatusMove
  <2>3. \A x \in Requests \ {r} : req'[x] = req[x] /\ charged'[x] = charged[x]
    BY <1>2, <1>a DEF DeductingMove, StatusMove, Deduct
  <2> QED
    BY <2>1, <2>2, <2>3 DEF LedgerInv, LockedFits, DeductedExactly
<1>3. CASE ReversingMove(r)
  <2>1. charged'[r] = 0
    BY <1>3, <1>a, <1>b DEF ReversingMove, StatusMove, Reverse, WithinCeiling
  <2>2. req'[r].status = "CANCELLED"
    BY <1>3, <1>a DEF ReversingMove, StatusMove
  <2>3. \A x \in Requests \ {r} : req'[x] = req[x] /\ charged'[x] = charged[x]
    BY <1>3, <1>a DEF ReversingMove, StatusMove, Reverse
  <2> QED
    BY <2>1, <2>2, <2>3 DEF LedgerInv, LockedFits, DeductedExactly
<1> QED
  BY <1>1, <1>2, <1>3

LEMMA MoveIsFSMStep ==
  ASSUME TypeInv, NEW r \in Requests, PlainMove(r) \/ DeductingMove(r) \/ ReversingMove(r)
  PROVE  [FSM!Next]_(FSM!vars)
<1> DEFINE st == [x \in Requests |-> req[x].status]
<1>a. req \in [Requests -> Rows]
  BY DEF TypeInv, TypeOK
<1>1. ASSUME NEW source, NEW target, StatusMove(r, source, target)
      PROVE  st[r] \in source /\ st' = [st EXCEPT ![r] = target]
  BY <1>1, <1>a DEF StatusMove
<1>2. CASE StatusMove(r, {"UNDER_REVIEW"}, "UNDER_REVIEW")
  <2>1. \A x \in Requests : req'[x].status = req[x].status
    BY <1>2, <1>a DEF StatusMove
  <2>2. st' = st
    BY <2>1
  <2> QED
    BY <2>2 DEF FSM!vars
<1>3. CASE StatusMove(r, {"UNDER_REVIEW"}, "APPROVED")
  BY <1>1, <1>3 DEF FSM!Next, FSM!Approve, FSM!Move
<1>4. CASE StatusMove(r, {"UNDER_REVIEW"}, "REJECTED")
  BY <1>1, <1>4 DEF FSM!Next, FSM!Reject, FSM!Move
<1>5. CASE StatusMove(r, {"APPROVED"}, "LOCKED")
  BY <1>1, <1>5 DEF FSM!Next, FSM!Lock, FSM!Move
<1>6. CASE \/ StatusMove(r, Statuses \ {"CANCELLED", "LOCKED"}, "CANCELLED")
           \/ StatusMove(r, {"LOCKED"}, "CANCELLED")
  BY <1>1, <1>6 DEF FSM!Next, FSM!Cancel, FSM!Move, FSM!Statuses, Statuses
<1> QED
  BY <1>2, <1>3, <1>4, <1>5, <1>6 DEF PlainMove, DeductingMove, ReversingMove

LEMMA NextMoves ==
  ASSUME Ops \subseteq RowLockedOps, LedgerInv, [Next]_vars
  PROVE  UNCHANGED <<req, charged>>
         \/ \E r \in Requests : PlainMove(r) \/ DeductingMove(r) \/ ReversingMove(r)
  BY StartMovesNothing, RowLockedMoves DEF Next, Crash, Fail, vars

LEMMA NextLedger ==
  ASSUME Ops \subseteq RowLockedOps
  PROVE  LedgerInv /\ [Next]_vars => LedgerInv'
<1> SUFFICES ASSUME LedgerInv, [Next]_vars PROVE LedgerInv'
  OBVIOUS
<1>1. HeldInv'
  BY NextHeld DEF LedgerInv
<1>2. OnlyRowLocked'
  <2>1. CASE Next
    BY <2>1, StaysRowLocked DEF Next
  <2>2. CASE UNCHANGED vars
    BY <2>2 DEF vars, LedgerInv, OnlyRowLocked
  <2> QED
    BY <2>1, <2>2
<1>3. LockedFits' /\ DeductedExactly'
  <2>1. CASE UNCHANGED <<req, charged>>
    BY <2>1 DEF LedgerInv, LockedFits, DeductedExactly
  <2> QED
    BY <2>1, NextMoves, MoveKeepsLedger
<1> QED
  BY <1>1, <1>2, <1>3 DEF LedgerInv

LEMMA ReviewedLedger == ReviewedInit => LedgerInv
<1> SUFFICES ASSUME ReviewedInit PROVE LedgerInv
  OBVIOUS
<1>1. HeldInv
  BY InitHeld
<1>2. OnlyRowLocked
  BY DEF ReviewedInit, OnlyRowLocked, Idle, RowLockedSteps
<1>3. LockedFits /\ DeductedExactly
  BY DEF ReviewedInit, LockedFits, DeductedExactly
<1> QED
  BY <1>1, <1>2, <1>3 DEF LedgerInv

(* With only handlers that re-read the request under its lock, no          *)
(* interleaving of any number of decisions, locks, cancellations and       *)
(* crashes deducts a request twice, reverses it twice, or leaves it        *)
(* deducted when it is not LOCKED.                                         *)
THEOREM RowLocksKeepDeductions ==
  ASSUME Ops \subseteq RowLockedOps
  PROVE  ReviewedSpec => []DeductedIffLocked
<1>1. LedgerInv => DeductedIffLocked
  BY DEF LedgerInv, DeductedExactly, DeductedIffLocked
<1>2. LedgerInv /\ [Next]_vars => LedgerInv'
  BY NextLedger
<1> QED
  BY <1>1, <1>2, ReviewedLedger, PTL DEF ReviewedSpec

(* Under the same operations every step of the handlers is an edge of the  *)
(* request's FSM or leaves every status alone.                             *)
THEOREM RowLocksKeepLifecycle ==
  ASSUME Ops \subseteq RowLockedOps
  PROVE  ReviewedSpec => LifecycleSteps
<1>1. LedgerInv /\ [Next]_vars => LedgerInv'
  BY NextLedger
<1>2. LedgerInv /\ [Next]_vars => [FSM!Next]_(FSM!vars)
  <2> SUFFICES ASSUME LedgerInv, [Next]_vars PROVE [FSM!Next]_(FSM!vars)
    OBVIOUS
  <2>1. CASE UNCHANGED <<req, charged>>
    BY <2>1 DEF FSM!vars
  <2> QED
    BY <2>1, NextMoves, MoveIsFSMStep DEF LedgerInv, HeldInv
<1> QED
  BY <1>1, <1>2, ReviewedLedger, PTL DEF ReviewedSpec, LifecycleSteps
=============================================================================
