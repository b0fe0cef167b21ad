---------------------------- MODULE BudgetLedger ----------------------------
(***************************************************************************)
(* The money side of budget approval: the budget_request and budget_pool   *)
(* tables, and the handlers that write them.  A session is one handler run *)
(* in one worker on one database connection.  There are no request-wide    *)
(* transactions (settings.py does not set ATOMIC_REQUESTS), so a handler   *)
(* first loads the request row, tests what it loaded, and only later       *)
(* writes; a step of this module is one database statement, or several     *)
(* that no other session can separate because the row they touch is locked.*)
(* Postgres runs at READ COMMITTED: a plain read sees committed rows, an   *)
(* UPDATE or DELETE waits for the row lock, SELECT FOR UPDATE NOWAIT fails *)
(* when the row is locked.  Model.save() rewrites every column of the row. *)
(***************************************************************************)
EXTENDS Integers, FiniteSets, Functions

CONSTANTS
    Sessions,     \* handler runs that may be in progress at once
    Requests,     \* budget_request primary keys
    Pools,        \* budget_pool primary keys
    Amounts,      \* the amounts a request may ask for
    PoolOf,       \* the pool each request draws on
    Total,        \* total_amount of each pool
    Ceiling,      \* the largest value the numeric(15, 2) amount columns hold
    Ops,          \* the operations exercised by a run
    None          \* no session, no request, no pool

Statuses == {"DRAFT", "SUBMITTED", "UNDER_REVIEW", "APPROVED", "REJECTED",
             "LOCKED", "CANCELLED"}
Absent == {"NEW", "DELETED"}      \* no row yet, no row any more

AllOps == {"create", "task_submit", "start_review", "decide", "lock", "cancel",
           "unlock", "revise", "patch", "delete", "pool_patch", "crash"}

(* The operations that re-read the request under its row lock before they  *)
(* write it.                                                               *)
RowLockedOps == {"decide", "lock", "cancel", "crash"}

ASSUME LedgerConstants ==
    /\ None \notin Sessions /\ None \notin Requests /\ None \notin Pools
    /\ IsFiniteSet(Requests)
    /\ Amounts \subseteq Nat \ {0}
    /\ PoolOf \in [Requests -> Pools]
    /\ Total \in [Pools -> Nat]
    /\ Ceiling \in Nat
    /\ Ops \subseteq AllOps

VARIABLES
    req,       \* the budget_request table
    used,      \* used_amount of each pool
    reqLock,   \* the session holding the row lock of a request
    poolLock,  \* the session holding the row lock of a pool
    sess,      \* the handler each session runs and the values it has read
    charged    \* history: what was deducted for a request and not reversed

vars == <<req, used, reqLock, poolLock, sess, charged>>

Rows == [status : Statuses \cup Absent, amount : Amounts \cup {0}]

Steps == {"idle", "submit", "submit_save", "task_submit", "start_review",
          "decide", "lock", "lock_read", "lock_pool", "lock_commit", "cancel",
          "cancel_read", "cancel_pool", "unlock_read", "unlock_pool",
          "unlock_req", "revise", "patch", "delete", "pool_patch"}

(* The steps of the operations in RowLockedOps.                            *)
RowLockedSteps == {"idle", "decide", "lock", "lock_read", "lock_pool", "lock_commit",
                   "cancel", "cancel_read", "cancel_pool"}

(* r is the loaded request, row its columns as read, p the pool in hand    *)
(* and seen its used_amount as read.                                       *)
NoRow == [status |-> "NEW", amount |-> 0]
Idle == [pc |-> "idle", r |-> None, row |-> NoRow, p |-> None, seen |-> 0]

TypeOK ==
    /\ req \in [Requests -> Rows]
    /\ used \in [Pools -> Nat]
    /\ reqLock \in [Requests -> Sessions \cup {None}]
    /\ poolLock \in [Pools -> Sessions \cup {None}]
    /\ sess \in [Sessions -> [pc : Steps, r : Requests \cup {None}, row : Rows,
                              p : Pools \cup {None}, seen : Nat]]
    /\ charged \in [Requests -> Int]

Init ==
    /\ req = [r \in Requests |-> NoRow]
    /\ used = [p \in Pools |-> 0]
    /\ reqLock = [r \in Requests |-> None]
    /\ poolLock = [p \in Pools |-> None]
    /\ sess = [s \in Sessions |-> Idle]
    /\ charged = [r \in Requests |-> 0]

(* The same system once every request has been created, submitted and sent *)
(* for review.                                                             *)
ReviewedInit ==
    /\ req \in [Requests -> [status : {"UNDER_REVIEW"}, amount : Amounts]]
    /\ used = [p \in Pools |-> 0]
    /\ reqLock = [r \in Requests |-> None]
    /\ poolLock = [p \in Pools |-> None]
    /\ sess = [s \in Sessions |-> Idle]
    /\ charged = [r \in Requests |-> 0]
-----------------------------------------------------------------------------
(* The database under the handlers.                                        *)

Released(locks, s) == [x \in DOMAIN locks |-> IF locks[x] = s THEN None ELSE locks[x]]

At(s, step) == sess[s].pc = step

(* Commit, roll back or simply return: the locks go, the session is free.  *)
Finish(s) ==
    /\ sess' = [sess EXCEPT ![s] = Idle]
    /\ reqLock' = Released(reqLock, s)
    /\ poolLock' = Released(poolLock, s)

Goto(s, step) == sess' = [sess EXCEPT ![s].pc = step]

(* Mutant: an error path that forgets the transaction's locks.             *)
Fail_KeepsLocks(s) ==
    /\ sess' = [sess EXCEPT ![s] = Idle]
    /\ UNCHANGED <<req, used, reqLock, poolLock, charged>>

(* The error path: whatever the transaction did is undone.                 *)
Fail(s) == Finish(s) /\ UNCHANGED <<req, used, charged>>

(* An UPDATE, INSERT or DELETE of the loaded request waits for its row lock*)
(* and, outside a longer transaction, ends the handler.                    *)
WriteRequest(s, row) ==
    /\ reqLock[sess[s].r] \in {None, s}
    /\ req' = [req EXCEPT ![sess[s].r] = row]
    /\ Finish(s)
    /\ UNCHANGED <<used, charged>>

(* Model.save() of the row the handler loaded: all its columns, with the   *)
(* status the transition gave it.  A row deleted meanwhile is re-inserted. *)
SaveSnapshot(s, target) == WriteRequest(s, [sess[s].row EXCEPT !.status = target])

WithinCeiling(n) == IF n > Ceiling THEN Ceiling ELSE IF n < -Ceiling THEN -Ceiling ELSE n
Deduct(r, amount) == charged' = [charged EXCEPT ![r] = WithinCeiling(@ + amount)]
Reverse(r, amount) == charged' = [charged EXCEPT ![r] = WithinCeiling(@ - amount)]
(* Mutant: the reversal without max(0, ...).                               *)
Less_NoFloor(n, m) == n - m
Less(n, m) == IF n > m THEN n - m ELSE 0
-----------------------------------------------------------------------------
(* The handlers.                                                           *)

(* check_budget_availability                                               *)
Available(p, amount) == Total[p] - used[p] >= amount

(* The status a handler wants to see in the row get_object returned, before*)
(* it opens any transaction.                                               *)
Admits(op) ==
    CASE op = "task_submit"  -> {"DRAFT"}
      [] op = "start_review" -> {"SUBMITTED"}
      [] op = "decide"       -> {"UNDER_REVIEW"}
      [] op = "lock"         -> {"APPROVED"}
      [] op = "unlock_read"  -> {"LOCKED"}
      [] op = "revise"       -> {"REJECTED", "CANCELLED"}
      [] OTHER               -> Statuses

FirstStep(op) == IF op = "unlock" THEN "unlock_read" ELSE op

Load(s) ==
    /\ At(s, "idle")
    /\ \E op \in Ops \ {"create", "pool_patch", "crash"}, r \in Requests :
        /\ req[r].status \in Admits(FirstStep(op))
        /\ sess' = [sess EXCEPT ![s] = [pc |-> FirstStep(op), r |-> r, row |-> req[r],
                                        p |-> PoolOf[r], seen |-> 0]]
    /\ UNCHANGED <<req, used, reqLock, poolLock, charged>>

(* perform_create: INSERT the draft; with an approver and no draft task it *)
(* goes on to submit_budget_request, whose failure it swallows.            *)
Create(s) ==
    /\ At(s, "idle") /\ "create" \in Ops
    /\ \E r \in Requests, amount \in Amounts, step \in {"idle", "submit"} :
        /\ req[r].status = "NEW"
        /\ LET row == [status |-> "DRAFT", amount |-> amount] IN
            /\ req' = [req EXCEPT ![r] = row]
            /\ sess' = IF step = "idle" THEN sess
                       ELSE [sess EXCEPT ![s] = [pc |-> "submit", r |-> r, row |-> row,
                                                 p |-> PoolOf[r], seen |-> 0]]
    /\ UNCHANGED <<used, reqLock, poolLock, charged>>

(* submit_budget_request: pool locked NOWAIT and the availability test,    *)
(* then the save of the draft as it was inserted.                          *)
SubmitLockPool(s) ==
    /\ At(s, "submit")
    /\ LET p == sess[s].p IN
       IF poolLock[p] = None /\ Available(p, sess[s].row.amount)
       THEN /\ poolLock' = [poolLock EXCEPT ![p] = s]
            /\ Goto(s, "submit_save")
            /\ UNCHANGED <<req, used, reqLock, charged>>
       ELSE Fail(s)

SubmitSave(s) == At(s, "submit_save") /\ SaveSnapshot(s, "SUBMITTED")

(* submit_task: the linked draft is submitted without a look at the pool.  *)
TaskSubmit(s) == At(s, "task_submit") /\ SaveSnapshot(s, "SUBMITTED")

StartReview(s) == At(s, "start_review") /\ SaveSnapshot(s, "UNDER_REVIEW")

(* Mutant: the decision is taken on the row as loaded.                     *)
Decide_NoRecheck(s) ==
    /\ At(s, "decide")
    /\ \E outcome \in {"APPROVED", "REJECTED", "UNDER_REVIEW"} : SaveSnapshot(s, outcome)

(* process_approval: the request row is locked, read again and must still  *)
(* be under review; an approval with a next approver comes back to         *)
(* UNDER_REVIEW through APPROVED in the same transaction.                  *)
Decide(s) ==
    /\ At(s, "decide")
    /\ LET r == sess[s].r IN
       IF req[r].status = "UNDER_REVIEW"
       THEN \E outcome \in {"APPROVED", "REJECTED", "UNDER_REVIEW"} :
                WriteRequest(s, [req[r] EXCEPT !.status = outcome])
       ELSE reqLock[r] = None /\ Fail(s)

(* Mutant: can_lock is not asked again under the row lock.                 *)
LockRequest_NoRecheck(s) ==
    /\ At(s, "lock")
    /\ IF reqLock[sess[s].r] = None
       THEN /\ reqLock' = [reqLock EXCEPT ![sess[s].r] = s]
            /\ Goto(s, "lock_read")
            /\ UNCHANGED <<req, used, poolLock, charged>>
       ELSE Fail(s)

(* lock_budget_request, first part: the request row NOWAIT, then can_lock  *)
(* again on the row as it is now.                                          *)
LockRequest(s) ==
    /\ At(s, "lock")
    /\ LET r == sess[s].r IN
       IF reqLock[r] = None /\ req[r].status = "APPROVED"
       THEN /\ reqLock' = [reqLock EXCEPT ![r] = s]
            /\ sess' = [sess EXCEPT ![s].pc = "lock_read", ![s].row = req[r]]
            /\ UNCHANGED <<req, used, poolLock, charged>>
       ELSE Fail(s)

(* locked_request.budget_pool is fetched by a plain SELECT and stays cached*)
(* on the request: the later deduction or reversal starts from this value. *)
AfterRead(step) == CASE step = "lock_read" -> "lock_pool"
                     [] step = "cancel_read" -> "cancel_pool"
                     [] step = "unlock_read" -> "unlock_pool"

ReadPool(s) ==
    /\ sess[s].pc \in {"lock_read", "cancel_read", "unlock_read"}
    /\ sess' = [sess EXCEPT ![s].pc = AfterRead(@), ![s].seen = used[sess[s].p]]
    /\ UNCHANGED <<req, used, reqLock, poolLock, charged>>

(* Mutant: availability tested on the cached pool.                         *)
LockPool_StaleCheck(s) ==
    /\ At(s, "lock_pool")
    /\ LET p == sess[s].p IN
       IF poolLock[p] = None /\ Total[p] - sess[s].seen >= sess[s].row.amount
       THEN /\ poolLock' = [poolLock EXCEPT ![p] = s]
            /\ Goto(s, "lock_commit")
            /\ UNCHANGED <<req, used, reqLock, charged>>
       ELSE Fail(s)

(* The pool row NOWAIT into another instance, and the availability test on *)
(* that one.                                                               *)
LockPool(s) ==
    /\ At(s, "lock_pool")
    /\ LET p == sess[s].p IN
       IF poolLock[p] = None /\ Available(p, sess[s].row.amount)
       THEN /\ poolLock' = [poolLock EXCEPT ![p] = s]
            /\ Goto(s, "lock_commit")
            /\ UNCHANGED <<req, used, reqLock, charged>>
       ELSE Fail(s)

(* BudgetRequest.lock() adds to the cached pool instance and saves both.   *)
(* A value the column cannot hold is refused by Postgres.                  *)
LockCommit(s) ==
    /\ At(s, "lock_commit")
    /\ LET r == sess[s].r
           sum == sess[s].seen + sess[s].row.amount
       IN IF sum > Ceiling THEN Fail(s)
          ELSE /\ used' = [used EXCEPT ![sess[s].p] = sum]
               /\ req' = [req EXCEPT ![r] = [sess[s].row EXCEPT !.status = "LOCKED"]]
               /\ Deduct(r, sess[s].row.amount)
               /\ Finish(s)

(* Mutant: the status is set before cancel() asks whether it was LOCKED.   *)
CancelRequest_NoReverse(s) ==
    /\ At(s, "cancel")
    /\ LET row == req[sess[s].r] IN
       IF row.status \in Absent \cup {"CANCELLED"}
       THEN reqLock[sess[s].r] = None /\ Fail(s)
       ELSE WriteRequest(s, [row EXCEPT !.status = "CANCELLED"])

(* cancel_budget_request: waits for the row, reads it again.  django-fsm   *)
(* refuses CANCELLED; a LOCKED request first fetches its pool, unlocked.   *)
CancelRequest(s) ==
    /\ At(s, "cancel")
    /\ LET r == sess[s].r IN
       /\ reqLock[r] = None
       /\ CASE req[r].status \in Absent \cup {"CANCELLED"} -> Fail(s)
            [] req[r].status = "LOCKED" ->
                 /\ reqLock' = [reqLock EXCEPT ![r] = s]
                 /\ sess' = [sess EXCEPT ![s].pc = "cancel_read", ![s].row = req[r]]
                 /\ UNCHANGED <<req, used, poolLock, charged>>
            [] OTHER -> WriteRequest(s, [req[r] EXCEPT !.status = "CANCELLED"])

(* The UPDATE of the pool waits for its row lock; the request follows in   *)
(* the same transaction.                                                   *)
CancelCommit(s) ==
    /\ At(s, "cancel_pool")
    /\ LET r == sess[s].r
           p == sess[s].p
       IN /\ poolLock[p] = None
          /\ used' = [used EXCEPT ![p] = Less(sess[s].seen, sess[s].row.amount)]
          /\ req' = [req EXCEPT ![r] = [sess[s].row EXCEPT !.status = "CANCELLED"]]
          /\ Reverse(r, sess[s].row.amount)
          /\ Finish(s)

(* The task's unlock endpoint: two autocommitted UPDATEs, the pool as read *)
(* less the amount as loaded, then the status column alone.                *)
UnlockPool(s) ==
    /\ At(s, "unlock_pool")
    /\ LET p == sess[s].p IN
       /\ poolLock[p] = None
       /\ used' = [used EXCEPT ![p] = Less(sess[s].seen, sess[s].row.amount)]
    /\ Reverse(sess[s].r, sess[s].row.amount)
    /\ Goto(s, "unlock_req")
    /\ UNCHANGED <<req, reqLock, poolLock>>

UnlockRequest(s) ==
    /\ At(s, "unlock_req")
    /\ LET row == req[sess[s].r] IN
       WriteRequest(s, IF row.status \in Absent THEN row
                       ELSE [row EXCEPT !.status = "APPROVED"])

(* The task's revise endpoint.                                             *)
Revise(s) == At(s, "revise") /\ SaveSnapshot(s, "DRAFT")

(* PATCH /budget-requests/<id>/: the amount is writable in every status.   *)
Patch(s) ==
    /\ At(s, "patch")
    /\ \E amount \in Amounts : WriteRequest(s, [sess[s].row EXCEPT !.amount = amount])

(* DELETE /budget-requests/<id>/ by a superuser; the pool is not touched.  *)
Delete(s) ==
    /\ At(s, "delete")
    /\ LET row == req[sess[s].r] IN
       WriteRequest(s, IF row.status \in Absent THEN row
                       ELSE [row EXCEPT !.status = "DELETED"])

(* PATCH /budget-pools/<id>/: every column is written back as loaded, so is*)
(* a used_amount the client did not send.                                  *)
PoolLoad(s) ==
    /\ At(s, "idle") /\ "pool_patch" \in Ops
    /\ \E p \in Pools :
        sess' = [sess EXCEPT ![s] = [Idle EXCEPT !.pc = "pool_patch", !.p = p, !.seen = used[p]]]
    /\ UNCHANGED <<req, used, reqLock, poolLock, charged>>

PoolPatch(s) ==
    /\ At(s, "pool_patch")
    /\ poolLock[sess[s].p] = None
    /\ used' = [used EXCEPT ![sess[s].p] = sess[s].seen]
    /\ Finish(s)
    /\ UNCHANGED <<req, charged>>

(* Postgres finds a cycle in the waits and aborts one transaction: a submit*)
(* holds the pool and waits for the request a cancel holds while it waits  *)
(* for the pool.                                                           *)
Deadlocked(submitter, canceller) ==
    /\ At(submitter, "submit_save") /\ At(canceller, "cancel_pool")
    /\ reqLock[sess[submitter].r] = canceller
    /\ poolLock[sess[canceller].p] = submitter

DeadlockAbort(s) ==
    /\ \E t \in Sessions : Deadlocked(s, t) \/ Deadlocked(t, s)
    /\ Fail(s)

(* The worker dies, or its connection does, between two statements.        *)
Crash(s) == "crash" \in Ops /\ ~At(s, "idle") /\ Fail(s)

Start(s) == Load(s) \/ Create(s) \/ PoolLoad(s)

(* The steps of a handler that has started.                                *)
Step(s) ==
    \/ SubmitLockPool(s) \/ SubmitSave(s) \/ TaskSubmit(s) \/ StartReview(s)
    \/ Decide(s)
    \/ LockRequest(s) \/ ReadPool(s) \/ LockPool(s) \/ LockCommit(s)
    \/ CancelRequest(s) \/ CancelCommit(s)
    \/ UnlockPool(s) \/ UnlockRequest(s)
    \/ Revise(s) \/ Patch(s) \/ Delete(s) \/ PoolPatch(s)
    \/ DeadlockAbort(s)

Next == \E s \in Sessions : Start(s) \/ Step(s) \/ Crash(s)

Spec == Init /\ [][Next]_vars
ReviewedSpec == ReviewedInit /\ [][Next]_vars

(* A worker that has started a handler carries on with it, and Postgres    *)
(* grants row locks to its waiters in the order they queued: a step that is*)
(* possible again and again is taken.                                      *)
FairSpec == Spec /\ \A s \in Sessions : SF_vars(Step(s))
-----------------------------------------------------------------------------
(* Properties.                                                             *)

(* When lock_budget_request is about to deduct, what it tested still holds *)
(* of the tables: it owns both rows, the request is APPROVED with the      *)
(* amount it read, and the pool has room for it, whatever the other        *)
(* sessions do.                                                            *)
CheckedBalanceHolds == \A s \in Sessions : At(s, "lock_commit") =>
    LET r == sess[s].r
        p == sess[s].p
    IN /\ reqLock[r] = s /\ poolLock[p] = s
       /\ req[r] = sess[s].row /\ req[r].status = "APPROVED"
       /\ used[p] + req[r].amount <= Total[p]

(* A request stands deducted for exactly its amount while it is LOCKED and *)
(* for nothing otherwise: no interleaving of lock and cancel deducts twice,*)
(* keeps a deduction of a cancelled request, or reverses one twice.  Only  *)
(* unlock has a moment between its two statements.                         *)
HalfUnlocked(r) == \E s \in Sessions : At(s, "unlock_req") /\ sess[s].r = r
DeductedIffLocked == \A r \in Requests : ~HalfUnlocked(r) =>
    charged[r] = IF req[r].status = "LOCKED" THEN req[r].amount ELSE 0

(* With one handler at a time, whenever none is half done, the pools'      *)
(* used_amount is the sum of the amounts of their LOCKED requests.         *)
LockedIn(p) == {r \in Requests : PoolOf[r] = p /\ req[r].status = "LOCKED"}
LockedAmount(p) == SumFunctionOnSet([r \in Requests |-> req[r].amount], LockedIn(p))
LedgerBalanced ==
    (\A s \in Sessions : ~At(s, "unlock_req")) => \A p \in Pools : used[p] = LockedAmount(p)

(* BudgetPool.clean: "Used amount cannot exceed total amount."; the lock's *)
(* availability test is there to see to it.  Stated of the requests, since *)
(* used_amount itself may have lost a deduction.                           *)
LockedWithinTotal == \A p \in Pools : LockedAmount(p) <= Total[p]

(* Every status change is a transition BudgetRequest declares.             *)
FSM == INSTANCE RequestFSM WITH status <- [r \in Requests |-> req[r].status]
LifecycleSteps == [][FSM!Next]_(FSM!vars)

(* Every handler that starts returns: row locks are always given back and  *)
(* no cycle of waits lasts.                                                *)
SessionsFinish == \A s \in Sessions : [](~At(s, "idle") => <>At(s, "idle"))
=============================================================================
