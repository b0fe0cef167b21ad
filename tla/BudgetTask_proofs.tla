-------------------------- MODULE BudgetTask_proofs --------------------------
(***************************************************************************)
(* Theorems about BudgetTask, for any sessions, users, admins and chain.   *)
(***************************************************************************)
EXTENDS MC_TaskModes, FiniteSetTheorems, TLAPS

Session == [op : AllOps \cup {"idle"}, pc : Steps, u : Users \cup {None},
            want : Statuses \cup {"-"}, next : Users \cup {None},
            task : Tasks, br : Rows]

(* A running handler has a caller, and one that decides knows its verdict. *)
Caller == \A s \in Sessions :
    /\ sess[s].pc # "idle" => sess[s].u \in Users
    /\ sess[s].op \in {"make_approval", "decision"} => sess[s].want \in Decisions
    /\ sess[s].pc \in {"make_approval", "br_next", "br_decide"} =>
           sess[s].op \in {"make_approval", "decision"}

(* The aggregate of the audit is a maximum: some record comes last.        *)
HasLast == records # {} => \E r \in records : \A q \in records : q.step <= r.step

TypeInv == TypeOK /\ Caller /\ HasLast /\ IsFiniteSet(records)

LEMMA IdleType == Idle \in Session
  BY DEF Idle, NoTask, NoRow, Session, Tasks, Rows, Statuses, Steps

LEMMA ChainType == \A k \in DOMAIN Chain : Chain[k] \in Users
  BY TaskConstants

LEMMA SuccessorType == \A t \in Tasks : Successor(t) \in Users \cup {None}
  BY TaskConstants DEF Successor, Tasks

LEMMA FollowUpType ==
  ASSUME NEW x, NEW row
  PROVE  /\ FollowUp(x, row) \in Steps
         /\ FollowUp(x, row) # "make_approval"
         /\ FollowUp(x, row) \in {"br_next", "br_decide"} =>
                x.op \in {"make_approval", "decision"}
  BY DEF FollowUp, Steps

(* Ending a handler, or moving it on, gives well-typed sessions.           *)
LEMMA GotoType ==
  ASSUME TypeInv, NEW s \in Sessions, NEW step \in Steps, Goto(s, step),
         step \notin {"make_approval", "br_next", "br_decide"},
         sess[s].pc # "idle"
  PROVE  sess' \in [Sessions -> Session] /\ Caller'
<1>1. CASE step = "idle"
  BY <1>1, IdleType DEF TypeInv, TypeOK, Caller, Goto, Session, Idle
<1>2. CASE step # "idle"
  <2>a. sess[s] \in Session
    BY DEF TypeInv, TypeOK, Session
  <2>b. NoTask \in Tasks
    BY DEF NoTask, Tasks, Statuses
  <2>1. [sess[s] EXCEPT !.pc = step, !.task = NoTask] \in Session
    BY <2>a, <2>b DEF Session
  <2>2. sess' = [sess EXCEPT ![s] = [sess[s] EXCEPT !.pc = step, !.task = NoTask]]
    BY <1>2 DEF Goto
  <2>3. sess' \in [Sessions -> Session]
    BY <2>1, <2>2 DEF TypeInv, TypeOK, Session
  <2>4. Caller'
    BY <2>2 DEF TypeInv, TypeOK, Caller
  <2> QED
    BY <2>3, <2>4
<1> QED
  BY <1>1, <1>2

LEMMA ReturnType ==
  ASSUME TypeInv, NEW s \in Sessions, Return(s), sess[s].pc # "idle"
  PROVE  TypeInv'
<1>1. "idle" \in Steps
  BY DEF Steps
<1> QED
  BY <1>1, GotoType DEF Return, TypeInv, TypeOK, HasLast, Session

LEMMA FollowType ==
  ASSUME TypeInv, NEW s \in Sessions, NEW x \in Session, NEW row \in Rows,
         Follow(s, x, row), x.u \in Users,
         x.op \in {"make_approval", "decision"} => x.want \in Decisions
  PROVE  sess' \in [Sessions -> Session] /\ Caller'
<1> DEFINE step == FollowUp(x, row)
<1>1. CASE step = "idle"
  BY <1>1, IdleType DEF TypeInv, TypeOK, Caller, Follow, Session, Idle
<1>2. CASE step # "idle"
  <2> DEFINE y == [x EXCEPT !.pc = step, !.task = NoTask, !.br = row]
  <2>1. y \in Session
    BY FollowUpType DEF Session, NoTask, Tasks, Statuses
  <2>2. y.u = x.u /\ y.op = x.op /\ y.want = x.want /\ y.pc = step
    BY DEF Session
  <2>3. sess' = [sess EXCEPT ![s] = y]
    BY <1>2 DEF Follow
  <2>4. step # "make_approval" /\ (step \in {"br_next", "br_decide"} =>
                                       x.op \in {"make_approval", "decision"})
    BY FollowUpType
  <2> HIDE DEF y, step
  <2> QED
    BY <2>1, <2>2, <2>3, <2>4 DEF TypeInv, TypeOK, Caller, Session
<1> QED
  BY <1>1, <1>2

(* One more record leaves a last one.                                      *)
LEMMA OneMoreRecord ==
  ASSUME TypeInv, NEW r \in Records, records' = records \cup {r}
  PROVE  records' \subseteq Records /\ HasLast' /\ IsFiniteSet(records)'
<1>1. records' \subseteq Records
  BY DEF TypeInv, TypeOK
<1>2. IsFiniteSet(records)'
  BY FS_AddElement DEF TypeInv
<1>3. \A q \in records' : q.step \in Nat
  BY <1>1 DEF Records
<1>4. \E m \in records' : \A q \in records' : q.step <= m.step
  <2>1. CASE records = {}
    BY <1>3, <2>1
  <2>2. CASE records # {}
    <3>1. PICK l \in records : \A q \in records : q.step <= l.step
      BY <2>2 DEF TypeInv, HasLast
    <3>2. CASE r.step <= l.step
      BY <3>1, <3>2
    <3>3. CASE ~(r.step <= l.step)
      <4>1. l.step \in Nat /\ r.step \in Nat /\ \A q \in records : q.step \in Nat
        BY <1>3
      <4>2. \A q \in records : q.step <= r.step
        BY <3>1, <3>3, <4>1
      <4> QED
        BY <4>1, <4>2
    <3> QED
      BY <3>2, <3>3
  <2> QED
    BY <2>1, <2>2
<1> QED
  BY <1>1, <1>2, <1>4 DEF HasLast

LEMMA AuditStepType == TypeInv => AuditStep \in Nat
<1> SUFFICES ASSUME TypeInv, records # {} PROVE AuditStep \in Nat
  BY DEF AuditStep
<1> DEFINE taken == {r.step : r \in records}
           top == CHOOSE k \in taken : \A r \in records : r.step <= k
<1>1. \E k \in taken : \A r \in records : r.step <= k
  BY DEF TypeInv, HasLast
<1>2. top \in taken
  BY <1>1
<1>3. taken \subseteq Nat
  BY DEF TypeInv, TypeOK, Records
<1>4. top + 1 \in Nat /\ 1 + top \in Nat
  <2> HIDE DEF top, taken
  <2> QED
    BY <1>2, <1>3
<1>5. AuditStep = 1 + top
  BY DEF AuditStep
<1> QED
  BY <1>4, <1>5

LEMMA StepNumberType == TypeInv => StepNumber \in Nat
  BY FS_CardinalityType DEF StepNumber, TypeInv, TypeOK, Tasks

LEMMA SaveType ==
  ASSUME TypeInv, NEW s \in Sessions, NEW row \in Tasks, NEW step \in Steps,
         Save(s, row, step), step \notin {"make_approval", "br_next", "br_decide"},
         sess[s].pc # "idle"
  PROVE  TypeInv'
  BY GotoType DEF Save, TypeInv, TypeOK, HasLast, Session

LEMMA SaveRequestType ==
  ASSUME TypeInv, NEW s \in Sessions, NEW row \in Rows, NEW step \in Steps,
         SaveRequest(s, row), Goto(s, step),
         step \notin {"make_approval", "br_next", "br_decide"}, sess[s].pc # "idle"
  PROVE  TypeInv'
  BY GotoType DEF SaveRequest, TypeInv, TypeOK, HasLast, Session

LEMMA LoadType ==
  ASSUME TypeInv, NEW s \in Sessions, Load(s)
  PROVE  TypeInv'
<1>1. PICK op \in Ops \cap TaskOps, u \in Users, want \in Statuses \cup {"-"},
           next \in Users \cup {None} :
        /\ Opens(op, u, want, next)
        /\ sess' = [sess EXCEPT ![s] =
                     [Idle EXCEPT !.op = op, !.pc = IF op = "lock" THEN "lock_check" ELSE op,
                                  !.u = u, !.want = want, !.next = next, !.task = task]]
        /\ UNCHANGED <<task, br, records>>
  BY DEF Load
<1> DEFINE x == [Idle EXCEPT !.op = op, !.pc = IF op = "lock" THEN "lock_check" ELSE op,
                             !.u = u, !.want = want, !.next = next, !.task = task]
<1>2. x \in Session
  <2>1. op \in AllOps /\ (IF op = "lock" THEN "lock_check" ELSE op) \in Steps
    BY DEF AllOps, TaskOps, Steps
  <2>2. task \in Tasks
    BY DEF TypeInv, TypeOK
  <2> QED
    BY <2>1, <2>2, IdleType DEF Session
<1>3. x.u = u /\ x.op = op /\ x.want = want /\ x.pc = IF op = "lock" THEN "lock_check" ELSE op
  BY DEF Idle
<1>4. op \in {"make_approval", "decision"} => op = "make_approval" /\ want \in Decisions
  BY <1>1 DEF Opens, TaskOps
<1>5. x.pc \in {"make_approval", "br_next", "br_decide"} => op = "make_approval"
  BY <1>1, <1>3 DEF TaskOps
<1>6. sess' = [sess EXCEPT ![s] = x]
  BY <1>1
<1> HIDE DEF x
<1>7. sess' \in [Sessions -> Session]
  BY <1>2, <1>6 DEF TypeInv, TypeOK, Session
<1>8. Caller'
  BY <1>3, <1>4, <1>5, <1>6 DEF TypeInv, TypeOK, Caller
<1> QED
  BY <1>1, <1>7, <1>8 DEF TypeInv, TypeOK, HasLast, Session

(* The actions of the task's views other than make_approval.               *)
LEMMA TaskViewType ==
  ASSUME TypeInv, NEW s \in Sessions,
         \/ Submit(s) \/ StartReview(s) \/ Forward(s) \/ Cancel(s) \/ Revise(s)
         \/ LockCheck(s) \/ Lock(s) \/ Unlock(s) \/ Patch(s) \/ Bulk(s)
         \/ RefuseApproval(s) \/ DeleteRecords(s)
  PROVE  TypeInv'
<1> USE DEF At
<1>1. /\ sess[s] \in Session /\ sess[s].task \in Tasks
      /\ sess[s].next \in Users \cup {None} /\ task \in Tasks
  BY DEF TypeInv, TypeOK, Session
<1>2. /\ {"idle", "br_read", "br_cancel", "delete_records", "br_lock"} \subseteq Steps
      /\ {ForBudget("br_read"), ForBudget("br_lock")} \subseteq
             Steps \ {"make_approval", "br_next", "br_decide"}
  BY DEF Steps, ForBudget
<1>3. ASSUME NEW t \in Tasks, NEW st \in Statuses, NEW u \in Users \cup {None}
      PROVE  /\ [t EXCEPT !.status = st] \in Tasks
             /\ [t EXCEPT !.approver = u] \in Tasks
             /\ [t EXCEPT !.status = st, !.approver = u] \in Tasks
             /\ [t EXCEPT !.status = st, !.round = @ + 1] \in Tasks
             /\ [t EXCEPT !.step = 1, !.approver = u] \in Tasks
  <2>1. t.round + 1 \in Nat
    BY DEF Tasks
  <2> QED
    BY <2>1 DEF Tasks
<1>4. {"SUBMITTED", "UNDER_REVIEW", "CANCELLED", "DRAFT", "LOCKED", "APPROVED"} \subseteq Statuses
  BY DEF Statuses
<1>5. CASE Submit(s)
  BY <1>1, <1>2, <1>3, <1>4, <1>5, SaveType DEF Submit
<1>6. CASE StartReview(s)
  <2> DEFINE t == [sess[s].task EXCEPT !.status = "UNDER_REVIEW"]
             first == [t EXCEPT !.step = 1, !.approver = IF @ = None THEN Chain[1] ELSE @]
  <2>1. t \in Tasks
    BY <1>1, <1>3, <1>4
  <2>2. t.step = 0 /\ Chain # <<>> => first \in Tasks
    <3>1. Chain # <<>> => 1 \in DOMAIN Chain
      BY TaskConstants
    <3>2. Chain # <<>> => (IF t.approver = None THEN Chain[1] ELSE t.approver) \in Users \cup {None}
      BY <2>1, <3>1, ChainType DEF Tasks
    <3> HIDE DEF t
    <3> QED
      BY <2>1, <3>2, <1>3, <1>4
  <2>3. Save(s, IF t.step = 0 /\ Chain # <<>> THEN first ELSE t, "idle")
    BY <1>6 DEF StartReview
  <2> HIDE DEF t, first
  <2> QED
    BY <1>2, <1>6, <2>1, <2>2, <2>3, SaveType DEF StartReview
<1>7. CASE Forward(s)
  BY <1>1, <1>2, <1>3, <1>4, <1>7, SaveType DEF Forward
<1>8. CASE Cancel(s)
  BY <1>1, <1>2, <1>3, <1>4, <1>8, SaveType DEF Cancel
<1>9. CASE Revise(s)
  BY <1>1, <1>2, <1>3, <1>4, <1>9, SaveType DEF Revise
<1>10. CASE LockCheck(s)
  <2>1. CASE Goto(s, "idle")
    BY <1>2, <1>10, <2>1, ReturnType DEF LockCheck, Return
  <2>2. CASE sess' = [sess EXCEPT ![s].pc = "lock"]
    BY <1>10, <2>2 DEF LockCheck, TypeInv, TypeOK, HasLast, Caller, Steps, TaskOps
  <2> QED
    BY <1>10, <2>1, <2>2 DEF LockCheck
<1>11. CASE Lock(s)
  BY <1>1, <1>2, <1>3, <1>4, <1>11, SaveType DEF Lock
<1>12. CASE Unlock(s)
  BY <1>1, <1>2, <1>3, <1>4, <1>12, SaveType DEF Unlock
<1>13. CASE Patch(s)
  BY <1>1, <1>2, <1>3, <1>4, <1>13, SaveType DEF Patch
<1>14. CASE Bulk(s)
  <2> DEFINE moves == <<task.status, sess[s].want>> \in BulkEdges
  <2>1. moves => sess[s].want \in Statuses
    BY DEF BulkEdges, Statuses
  <2>2. task.status \in Statuses
    BY <1>1 DEF Tasks
  <2>3. CASE Return(s)
    BY <1>14, <2>3, ReturnType DEF Bulk
  <2>4. ASSUME NEW u \in {task.approver, sess[s].next},
               Save(s, [task EXCEPT !.status = IF moves THEN sess[s].want ELSE @,
                                    !.approver = u], "idle")
        PROVE TypeInv'
    <3>1. u \in Users \cup {None}
      BY <1>1 DEF Tasks
    <3>2. [task EXCEPT !.status = IF moves THEN sess[s].want ELSE @, !.approver = u] \in Tasks
      <4> HIDE DEF moves
      <4> QED
        BY <1>1, <1>3, <2>1, <2>2, <3>1
    <3> HIDE DEF moves
    <3> QED
      BY <1>2, <1>14, <2>4, <3>2, SaveType DEF Bulk
  <2> QED
    BY <1>14, <2>3, <2>4 DEF Bulk
<1>15. CASE RefuseApproval(s)
  BY <1>15, ReturnType DEF RefuseApproval
<1>16. CASE DeleteRecords(s)
  BY <1>2, <1>16, GotoType, FS_EmptySet DEF DeleteRecords, TypeInv, TypeOK, HasLast, Session
<1> QED
  BY <1>5, <1>6, <1>7, <1>8, <1>9, <1>10, <1>11, <1>12, <1>13, <1>14, <1>15, <1>16

(* The task after a decision is a task.                                    *)
LEMMA DecidedType ==
  ASSUME TypeInv, NEW s \in Sessions
  PROVE  Decided(s) \in Tasks /\ InHand(Decided(s)) \in Users \cup {None}
<1>1. task \in Tasks /\ Successor(task) \in Users \cup {None} /\ task.step + 1 \in Nat
  BY SuccessorType DEF TypeInv, TypeOK, Tasks
<1>2. {"REJECTED", "APPROVED"} \subseteq Statuses
  BY DEF Statuses
<1>3. Decided(s) \in Tasks
  BY <1>1, <1>2 DEF Decided, Locked, Advanced, Tasks
<1> QED
  BY <1>3 DEF InHand, Tasks

LEMMA MakeApprovalType ==
  ASSUME TypeInv, NEW s \in Sessions, MakeApproval(s)
  PROVE  TypeInv'
<1> DEFINE t == Decided(s)
           x == [sess[s] EXCEPT !.next = InHand(t), !.pc = "br_read", !.task = NoTask]
           r == [step |-> StepNumber, round |-> task.round, by |-> sess[s].u,
                 approved |-> sess[s].want = "APPROVED"]
<1>1. /\ sess[s].pc = "make_approval" /\ records' = records \cup {r}
      /\ task' = t /\ br' = br
      /\ \/ Follow(s, x, br)
         \/ sess' = [sess EXCEPT ![s] = x]
         \/ sess' = [sess EXCEPT ![s] = Idle]
  BY DEF MakeApproval, At
<1>2. /\ sess[s] \in Session /\ sess[s].u \in Users
      /\ sess[s].op \in {"make_approval", "decision"} /\ sess[s].want \in Decisions
      /\ br \in Rows
  BY <1>1 DEF TypeInv, TypeOK, Caller, Session
<1>3. r \in Records
  BY <1>2, StepNumberType DEF TypeInv, TypeOK, Tasks, Records
<1>4. x \in Session /\ x.u = sess[s].u /\ x.op = sess[s].op /\ x.want = sess[s].want
      /\ x.pc = "br_read"
  <2>1. NoTask \in Tasks /\ "br_read" \in Steps
    BY DEF NoTask, Tasks, Statuses, Steps
  <2> HIDE DEF t
  <2>2. InHand(t) \in Users \cup {None}
    BY DecidedType DEF t
  <2> QED
    BY <1>2, <2>1, <2>2 DEF Session
<1>5. records' \subseteq Records /\ HasLast' /\ IsFiniteSet(records)'
  <2> HIDE DEF r
  <2> QED
    BY <1>1, <1>3, OneMoreRecord
<1>6. task' \in Tasks
  BY <1>1, DecidedType
<1> HIDE DEF t, x, r
<1>7. sess' \in [Sessions -> Session] /\ Caller'
  <2>1. CASE Follow(s, x, br)
    BY <1>2, <1>4, <2>1, FollowType
  <2>2. CASE sess' = [sess EXCEPT ![s] = x]
    BY <1>2, <1>4, <2>2 DEF TypeInv, TypeOK, Caller, Session
  <2>3. CASE sess' = [sess EXCEPT ![s] = Idle]
    BY <2>3, IdleType DEF TypeInv, TypeOK, Caller, Session, Idle
  <2> QED
    BY <1>1, <2>1, <2>2, <2>3
<1> QED
  BY <1>1, <1>2, <1>5, <1>6, <1>7 DEF TypeInv, TypeOK, Session

(* The request's side, one action after the other.                         *)
LEMMA RequestStepType ==
  ASSUME TypeInv, NEW s \in Sessions, RequestStep(s), ~ProcessApproval(s)
  PROVE  TypeInv'
<1> USE DEF At
<1>1. sess[s] \in Session /\ sess[s].br \in Rows /\ br \in Rows
  BY DEF TypeInv, TypeOK, Session
<1>2. {"idle", "delete_records"} \subseteq Steps
  BY DEF Steps
<1>3. ASSUME NEW row \in Rows, NEW st \in Statuses
      PROVE [row EXCEPT !.status = st] \in Rows
  BY DEF Rows
<1>4. {"SUBMITTED", "UNDER_REVIEW", "CANCELLED", "DRAFT", "LOCKED", "APPROVED"} \subseteq Statuses
  BY DEF Statuses
<1>5. CASE LoadRequest(s)
  <2>1. PICK op \in Ops \cap RequestOps, u \in Users, want \in Decisions \cup {"-"},
             next \in Named \cup {None} :
          /\ (want # "-") <=> (op = "decision")
          /\ Follow(s, [Idle EXCEPT !.op = op, !.u = u, !.want = want, !.next = next], br)
          /\ UNCHANGED <<task, br, records>>
    BY <1>5 DEF LoadRequest
  <2> DEFINE x == [Idle EXCEPT !.op = op, !.u = u, !.want = want, !.next = next]
  <2>2. op \in AllOps /\ want \in Statuses \cup {"-"} /\ next \in Users \cup {None}
    BY TaskConstants DEF AllOps, RequestOps, Decisions, Statuses
  <2>3. x \in Session /\ x.u = u /\ x.op = op /\ x.want = want
    BY <2>2, IdleType DEF Session
  <2>4. op \in {"make_approval", "decision"} => want \in Decisions
    BY <2>1 DEF RequestOps
  <2>5. Follow(s, x, br)
    BY <2>1
  <2> HIDE DEF x
  <2>6. sess' \in [Sessions -> Session] /\ Caller'
    BY <1>1, <2>3, <2>4, <2>5, FollowType
  <2> QED
    BY <2>1, <2>6 DEF TypeInv, TypeOK, HasLast, Session
<1>6. CASE ReadRequest(s)
  <2>1. sess[s].u \in Users /\ (sess[s].op \in {"make_approval", "decision"} =>
                                    sess[s].want \in Decisions)
    BY <1>6 DEF ReadRequest, TypeInv, Caller
  <2> QED
    BY <1>1, <1>6, <2>1, FollowType DEF ReadRequest, TypeInv, TypeOK, HasLast, Session
<1>7. CASE RequestSubmit(s)
  BY <1>1, <1>2, <1>3, <1>4, <1>7, SaveRequestType DEF RequestSubmit
<1>8. CASE RequestReview(s)
  <2> DEFINE row == [sess[s].br EXCEPT !.status = "UNDER_REVIEW"]
  <2>1. row \in Rows
    BY <1>1, <1>3, <1>4
  <2>2. SaveRequest(s, row) /\ Follow(s, sess[s], row)
    BY <1>8 DEF RequestReview
  <2>3. sess[s].u \in Users /\ (sess[s].op \in {"make_approval", "decision"} =>
                                    sess[s].want \in Decisions)
    BY <1>8 DEF RequestReview, TypeInv, Caller
  <2> HIDE DEF row
  <2> QED
    BY <1>1, <2>1, <2>2, <2>3, FollowType
    DEF SaveRequest, TypeInv, TypeOK, HasLast, Session
<1>9. CASE RequestRevise(s)
  <2>1. [status |-> "DRAFT", approver |-> None] \in Rows
    BY <1>4 DEF Rows
  <2> QED
    BY <1>2, <1>9, <2>1, SaveRequestType DEF RequestRevise
<1>10. CASE RequestPatch(s)
  <2>1. [sess[s].br EXCEPT !.approver = sess[s].next] \in Rows
    BY <1>1 DEF Rows, Session
  <2> QED
    BY <1>2, <1>10, <2>1, SaveRequestType DEF RequestPatch
<1>11. CASE RequestUnlock(s)
  BY <1>1, <1>2, <1>3, <1>4, <1>11, SaveRequestType DEF RequestUnlock
<1>12. CASE RequestCancel(s)
  BY <1>1, <1>2, <1>3, <1>4, <1>12, SaveRequestType DEF RequestCancel
<1>13. CASE RequestLock(s)
  <2>1. PICK admitted \in PoolAdmits :
          SaveRequest(s, [br EXCEPT !.status =
                            IF @ = "APPROVED" /\ admitted THEN "LOCKED" ELSE @])
    BY <1>13 DEF RequestLock
  <2>2. [br EXCEPT !.status = IF @ = "APPROVED" /\ admitted THEN "LOCKED" ELSE @] \in Rows
    BY <1>1, <1>4 DEF Rows
  <2> QED
    BY <1>2, <1>13, <2>1, <2>2, SaveRequestType DEF RequestLock
<1>14. CASE ResolveNext(s)
  <2>1. /\ sess' = [sess EXCEPT ![s] = [@ EXCEPT !.pc = "br_decide", !.task = task]]
        /\ UNCHANGED <<task, br, records>>
    BY <1>14 DEF ResolveNext, TypeInv, TypeOK, Session
  <2> DEFINE x == [sess[s] EXCEPT !.pc = "br_decide", !.task = task]
  <2>2. x \in Session /\ x.u = sess[s].u /\ x.op = sess[s].op /\ x.want = sess[s].want
    BY <1>1 DEF Session, Steps, TypeInv, TypeOK
  <2>3. sess[s].u \in Users /\ sess[s].op \in {"make_approval", "decision"}
        /\ sess[s].want \in Decisions
    BY <1>14 DEF ResolveNext, TypeInv, Caller
  <2>4. sess' = [sess EXCEPT ![s] = x]
    BY <2>1
  <2> HIDE DEF x
  <2>5. sess' \in [Sessions -> Session] /\ Caller'
    BY <2>2, <2>3, <2>4 DEF TypeInv, TypeOK, Caller, Session
  <2> QED
    BY <2>1, <2>5 DEF TypeInv, TypeOK, HasLast, Session
<1>15. CASE RefuseProcess(s)
  BY <1>15, ReturnType DEF RefuseProcess
<1> QED
  BY <1>5, <1>6, <1>7, <1>8, <1>9, <1>10, <1>11, <1>12, <1>13, <1>14, <1>15 DEF RequestStep

LEMMA ProcessApprovalType ==
  ASSUME TypeInv, NEW s \in Sessions, ProcessApproval(s)
  PROVE  TypeInv'
<1> DEFINE x == sess[s]
           override == Overrides(x.u, x.br)
           next == IF override THEN Successor(x.task) ELSE x.next
           audit == [step |-> AuditStep, round |-> task.round, by |-> x.u,
                     approved |-> x.want = "APPROVED"]
<1>1. /\ x.pc = "br_decide" /\ Goto(s, "idle")
      /\ br' \in {[br EXCEPT !.approver = next], [br EXCEPT !.status = x.want]}
      /\ task' \in {[task EXCEPT !.approver = next, !.step = x.task.step + 1], task}
      /\ records' \in {records \cup {audit}, records}
  BY DEF ProcessApproval, At
<1>2. /\ x \in Session /\ x.u \in Users /\ x.want \in Decisions
      /\ task \in Tasks /\ x.task \in Tasks /\ br \in Rows
  BY <1>1 DEF TypeInv, TypeOK, Caller, Session
<1>3. next \in Users \cup {None} /\ x.task.step + 1 \in Nat /\ x.want \in Statuses
  BY <1>2, SuccessorType DEF Session, Tasks, Decisions, Statuses
<1>4. audit \in Records
  BY <1>2, AuditStepType DEF Records, Tasks
<1>5. sess' \in [Sessions -> Session] /\ Caller'
  <2>1. "idle" \in Steps
    BY DEF Steps
  <2> QED
    BY <1>1, <2>1, GotoType
<1> HIDE DEF x, override, next, audit
<1>6. br' \in Rows /\ task' \in Tasks
  BY <1>1, <1>2, <1>3 DEF Rows, Tasks
<1>7. records' \subseteq Records /\ HasLast' /\ IsFiniteSet(records)'
  BY <1>1, <1>4, OneMoreRecord DEF TypeInv, TypeOK, HasLast
<1> QED
  BY <1>5, <1>6, <1>7 DEF TypeInv, TypeOK, Session

LEMMA TypeInvStep == TypeInv /\ [Next]_vars => TypeInv'
<1> SUFFICES ASSUME TypeInv, [Next]_vars PROVE TypeInv'
  OBVIOUS
<1>1. CASE UNCHANGED vars
  BY <1>1 DEF vars, TypeInv, TypeOK, Caller, HasLast
<1>2. ASSUME NEW s \in Sessions, TaskStep(s) PROVE TypeInv'
  BY <1>2, LoadType, TaskViewType, MakeApprovalType DEF TaskStep
<1>3. ASSUME NEW s \in Sessions, RequestStep(s) PROVE TypeInv'
  BY <1>3, RequestStepType, ProcessApprovalType
<1>4. ASSUME NEW s \in Sessions, Crash(s) PROVE TypeInv'
  BY <1>4, ReturnType DEF Crash, At
<1> QED
  BY <1>1, <1>2, <1>3, <1>4 DEF Next

LEMMA InitType == Init \/ ReviewInit => TypeInv
<1> SUFFICES ASSUME Init \/ ReviewInit PROVE TypeInv
  OBVIOUS
<1>1. task \in Tasks /\ br \in Rows
  BY TaskConstants DEF Init, ReviewInit, NoTask, NoRow, Tasks, Rows, Statuses
<1>2. records = {} /\ sess = [s \in Sessions |-> Idle]
  BY DEF Init, ReviewInit
<1> QED
  BY <1>1, <1>2, IdleType, FS_EmptySet DEF TypeInv, TypeOK, Caller, HasLast, Session, Idle
-----------------------------------------------------------------------------
(* What one step leaves in its session.                                    *)

LEMMA NobodyNoAdmin == None \notin Admins /\ Idle.u \notin Admins
  BY TaskConstants DEF Idle

(* The request in hand, or the end of the handler.                         *)
LEMMA Followed ==
  ASSUME NEW s \in Sessions, NEW x \in Session, NEW row \in Rows, Follow(s, x, row)
  PROVE  \E y \in Session :
           /\ sess' = [sess EXCEPT ![s] = y]
           /\ \/ y = Idle /\ FollowUp(x, row) = "idle"
              \/ /\ y.pc = FollowUp(x, row) /\ y.pc # "idle"
                 /\ y.op = x.op /\ y.u = x.u /\ y.want = x.want /\ y.next = x.next
                 /\ y.br = row
<1> DEFINE step == FollowUp(x, row)
           y == [x EXCEPT !.pc = step, !.task = NoTask, !.br = row]
<1>1. CASE step = "idle"
  BY <1>1, IdleType DEF Follow
<1>2. CASE step # "idle"
  <2>1. y \in Session
    BY FollowUpType DEF Session, NoTask, Tasks, Statuses
  <2>2. /\ y.pc = step /\ y.op = x.op /\ y.u = x.u /\ y.want = x.want /\ y.next = x.next
        /\ y.br = row
    BY DEF Session
  <2>3. sess' = [sess EXCEPT ![s] = y]
    BY <1>2 DEF Follow
  <2> HIDE DEF y, step
  <2> QED
    BY <1>2, <2>1, <2>2, <2>3 DEF step
<1> QED
  BY <1>1, <1>2

LEMMA Went ==
  ASSUME TypeInv, NEW s \in Sessions, NEW step \in Steps, Goto(s, step)
  PROVE  \E y \in Session :
           /\ sess' = [sess EXCEPT ![s] = y]
           /\ \/ y = Idle /\ step = "idle"
              \/ /\ y.pc = step /\ y.pc # "idle"
                 /\ y.op = sess[s].op /\ y.u = sess[s].u /\ y.want = sess[s].want
                 /\ y.next = sess[s].next /\ y.br = sess[s].br
<1> DEFINE x == sess[s]
           y == [x EXCEPT !.pc = step, !.task = NoTask]
<1>1. x \in Session
  BY DEF TypeInv, TypeOK, Session
<1>2. CASE step = "idle"
  BY <1>2, IdleType DEF Goto
<1>3. CASE step # "idle"
  <2> HIDE DEF x
  <2>1. y \in Session
    BY <1>1 DEF Session, NoTask, Tasks, Statuses
  <2>2. /\ y.pc = step /\ y.op = x.op /\ y.u = x.u /\ y.want = x.want /\ y.next = x.next
        /\ y.br = x.br
    BY <1>1 DEF Session
  <2>3. sess' = [sess EXCEPT ![s] = y]
    BY <1>3 DEF Goto, x
  <2> HIDE DEF y
  <2> QED
    BY <1>3, <2>1, <2>2, <2>3 DEF x
<1> QED
  BY <1>2, <1>3

(* A loaded task.                                                          *)
LEMMA Loaded ==
  ASSUME TypeInv, NEW s \in Sessions, Load(s)
  PROVE  \E op \in Ops \cap TaskOps, u \in Users, want \in Statuses \cup {"-"},
            next \in Users \cup {None}, y \in Session :
           /\ sess[s].pc = "idle" /\ Opens(op, u, want, next)
           /\ sess' = [sess EXCEPT ![s] = y]
           /\ y.op = op /\ y.pc = IF op = "lock" THEN "lock_check" ELSE op
           /\ y.u = u /\ y.want = want /\ y.next = next /\ y.task = task
           /\ UNCHANGED <<task, br, records>>
<1>1. PICK op \in Ops \cap TaskOps, u \in Users, want \in Statuses \cup {"-"},
           next \in Users \cup {None} :
        /\ sess[s].pc = "idle" /\ Opens(op, u, want, next)
        /\ sess' = [sess EXCEPT ![s] =
                     [Idle EXCEPT !.op = op, !.pc = IF op = "lock" THEN "lock_check" ELSE op,
                                  !.u = u, !.want = want, !.next = next, !.task = task]]
        /\ UNCHANGED <<task, br, records>>
  BY DEF Load, At
<1> DEFINE pc == IF op = "lock" THEN "lock_check" ELSE op
           y == [Idle EXCEPT !.op = op, !.pc = pc,
                             !.u = u, !.want = want, !.next = next, !.task = task]
<1>2. op \in AllOps /\ pc \in Steps /\ task \in Tasks
  BY DEF AllOps, TaskOps, Steps, TypeInv, TypeOK
<1> HIDE DEF pc
<1>3. y \in Session
  BY <1>2, IdleType DEF Session
<1>4. /\ y.op = op /\ y.pc = pc /\ y.u = u /\ y.want = want /\ y.next = next
      /\ y.task = task
  BY IdleType DEF Session
<1>5. sess' = [sess EXCEPT ![s] = y]
  BY <1>1 DEF pc
<1>6. sess[s].pc = "idle" /\ Opens(op, u, want, next) /\ UNCHANGED <<task, br, records>>
  BY <1>1
<1> HIDE DEF y
<1> QED
  BY <1>3, <1>4, <1>5, <1>6 DEF pc

(* A loaded request.                                                       *)
LEMMA RequestLoaded ==
  ASSUME TypeInv, NEW s \in Sessions, LoadRequest(s)
  PROVE  \E op \in Ops \cap RequestOps, u \in Users, want \in Decisions \cup {"-"},
            next \in Named \cup {None}, y \in Session :
           /\ sess[s].pc = "idle" /\ Budget
           /\ sess' = [sess EXCEPT ![s] = y]
           /\ y.op = op /\ y.u = u /\ y.want = want /\ y.next = next /\ y.br = br
           /\ \/ op = "request_review" /\ y.pc = "br_review"
              \/ op = "request_patch" /\ y.pc = "br_patch"
              \/ /\ op = "decision" /\ Processable(br) /\ MayProcess(u, br)
                 /\ want \in Decisions
                 /\ y.pc = IF Overrides(u, br) /\ want = "APPROVED" THEN "br_next"
                           ELSE "br_decide"
           /\ UNCHANGED <<task, br, records>>
<1>1. PICK op \in Ops \cap RequestOps, u \in Users, want \in Decisions \cup {"-"},
           next \in Named \cup {None} :
        LET x == [Idle EXCEPT !.op = op, !.u = u, !.want = want, !.next = next]
        IN  /\ Budget /\ sess[s].pc = "idle"
            /\ (want # "-") <=> (op = "decision")
            /\ FollowUp(x, br) # "idle"
            /\ Follow(s, x, br)
            /\ UNCHANGED <<task, br, records>>
  BY DEF LoadRequest, At
<1> DEFINE x == [Idle EXCEPT !.op = op, !.u = u, !.want = want, !.next = next]
<1>2. op \in AllOps /\ want \in Statuses \cup {"-"} /\ next \in Users \cup {None}
      /\ br \in Rows
  BY TaskConstants DEF AllOps, RequestOps, Decisions, Statuses, TypeInv, TypeOK
<1>3. x \in Session /\ x.op = op /\ x.u = u /\ x.want = want /\ x.next = next
  BY <1>2, IdleType DEF Session
<1>4. FollowUp(x, br) # "idle" /\ Follow(s, x, br)
  BY <1>1
<1>5. sess[s].pc = "idle" /\ Budget /\ UNCHANGED <<task, br, records>>
      /\ (op = "decision" => want \in Decisions)
  BY <1>1
<1> HIDE DEF x
<1>6. PICK y \in Session :
        /\ sess' = [sess EXCEPT ![s] = y] /\ y.pc = FollowUp(x, br)
        /\ y.op = op /\ y.u = u /\ y.want = want /\ y.next = next /\ y.br = br
  BY <1>2, <1>3, <1>4, Followed
<1>7. \/ op = "request_review" /\ y.pc = "br_review"
      \/ op = "request_patch" /\ y.pc = "br_patch"
      \/ /\ op = "decision" /\ Processable(br) /\ MayProcess(u, br)
         /\ y.pc = IF Overrides(u, br) /\ want = "APPROVED" THEN "br_next" ELSE "br_decide"
  BY <1>3, <1>4, <1>6 DEF FollowUp, RequestOps
<1> QED
  BY <1>5, <1>6, <1>7

(* Once loaded, a handler keeps its operation and its caller to the end.   *)
LEMMA Kept ==
  ASSUME TypeInv, NEW s \in Sessions, TaskStep(s) \/ RequestStep(s) \/ Crash(s),
         ~Load(s), ~LoadRequest(s)
  PROVE  \E y \in Session :
           /\ sess[s].pc # "idle" /\ sess' = [sess EXCEPT ![s] = y]
           /\ \/ y = Idle
              \/ /\ y.pc # "idle" /\ y.op = sess[s].op
                 /\ y.u = sess[s].u /\ y.want = sess[s].want
<1> DEFINE Goal == \E y \in Session :
           /\ sess' = [sess EXCEPT ![s] = y]
           /\ \/ y = Idle
              \/ /\ y.pc # "idle" /\ y.op = sess[s].op
                 /\ y.u = sess[s].u /\ y.want = sess[s].want
<1>1. sess[s] \in Session /\ sess[s].br \in Rows /\ br \in Rows /\ task \in Tasks
      /\ sess \in [Sessions -> Session]
  BY DEF TypeInv, TypeOK, Session
<1>2. sess[s].pc # "idle"
  BY DEF TaskStep, RequestStep, Crash, At, Submit, StartReview, Forward, Cancel, Revise,
         LockCheck, Lock, Unlock, Patch, Bulk, MakeApproval, RefuseApproval, DeleteRecords,
         ReadRequest, RequestSubmit, RequestReview, RequestRevise, RequestPatch,
         RequestUnlock, RequestCancel, RequestLock, ResolveNext, ProcessApproval,
         RefuseProcess
<1>3. ASSUME NEW step \in Steps, Goto(s, step) PROVE Goal
  BY <1>3, Went
<1>4. /\ {"idle", "br_read", "br_cancel", "delete_records", "br_lock"} \subseteq Steps
      /\ {ForBudget("br_read"), ForBudget("br_lock")} \subseteq Steps
      /\ (IF Budget THEN "br_cancel" ELSE "delete_records") \in Steps
  BY DEF Steps, ForBudget
<1>5. ASSUME NEW x \in Session, NEW row \in Rows, Follow(s, x, row),
             x.op = sess[s].op, x.u = sess[s].u, x.want = sess[s].want
      PROVE Goal
  BY <1>5, Followed
<1> SUFFICES Goal
  BY <1>2
<1> HIDE DEF Goal
<1>6. CASE \/ Submit(s) \/ StartReview(s) \/ Forward(s) \/ Cancel(s) \/ Revise(s)
           \/ Lock(s) \/ Unlock(s) \/ Patch(s)
  BY <1>3, <1>4, <1>6
  DEF Submit, StartReview, Forward, Cancel, Revise, Lock, Unlock, Patch, Save
<1>7. CASE LockCheck(s)
  <2>1. CASE Goto(s, "idle")
    BY <1>3, <1>4, <2>1
  <2>2. CASE sess' = [sess EXCEPT ![s].pc = "lock"]
    <3> DEFINE y == [sess[s] EXCEPT !.pc = "lock"]
    <3>1. y \in Session /\ y.pc = "lock" /\ y.op = sess[s].op /\ y.u = sess[s].u
          /\ y.want = sess[s].want
      BY <1>1 DEF Session, Steps, TaskOps
    <3>2. sess' = [sess EXCEPT ![s] = y]
      BY <1>1, <2>2
    <3> HIDE DEF y
    <3> QED
      BY <3>1, <3>2 DEF Goal
  <2> QED
    BY <1>7, <2>1, <2>2 DEF LockCheck
<1>8. CASE Bulk(s)
  BY <1>3, <1>4, <1>8 DEF Bulk, Save, Return
<1>9. CASE MakeApproval(s)
  <2> DEFINE x == [sess[s] EXCEPT !.next = InHand(Decided(s)), !.pc = "br_read",
                                  !.task = NoTask]
  <2>1. \/ Follow(s, x, br)
        \/ sess' = [sess EXCEPT ![s] = x]
        \/ sess' = [sess EXCEPT ![s] = Idle]
    BY <1>9 DEF MakeApproval
  <2>2. x \in Session /\ x.u = sess[s].u /\ x.op = sess[s].op /\ x.want = sess[s].want
        /\ x.pc = "br_read"
    BY <1>1, DecidedType DEF Session, NoTask, Tasks, Statuses, Steps
  <2> HIDE DEF x
  <2> QED
    BY <1>1, <1>5, <2>1, <2>2, IdleType DEF Goal
<1>10. CASE RefuseApproval(s) \/ DeleteRecords(s)
  BY <1>3, <1>4, <1>10 DEF RefuseApproval, DeleteRecords, Return
<1>11. CASE ReadRequest(s)
  BY <1>1, <1>5, <1>11 DEF ReadRequest
<1>12. CASE RequestReview(s)
  <2>1. [sess[s].br EXCEPT !.status = "UNDER_REVIEW"] \in Rows
    BY <1>1 DEF Rows, Statuses
  <2> QED
    BY <1>1, <1>5, <1>12, <2>1 DEF RequestReview
<1>13. CASE \/ RequestSubmit(s) \/ RequestRevise(s) \/ RequestPatch(s) \/ RequestUnlock(s)
            \/ RequestCancel(s) \/ RequestLock(s) \/ ProcessApproval(s) \/ RefuseProcess(s)
            \/ Crash(s)
  BY <1>3, <1>4, <1>13
  DEF RequestSubmit, RequestRevise, RequestPatch, RequestUnlock, RequestCancel,
      RequestLock, ProcessApproval, RefuseProcess, Crash, Return
<1>14. CASE ResolveNext(s)
  <2> DEFINE y == [sess[s] EXCEPT !.pc = "br_decide", !.task = task]
  <2>1. y \in Session /\ y.pc = "br_decide" /\ y.op = sess[s].op /\ y.u = sess[s].u
        /\ y.want = sess[s].want
    BY <1>1 DEF Session, Steps
  <2>2. sess' = [sess EXCEPT ![s] = y]
    BY <1>1, <1>14 DEF ResolveNext
  <2> HIDE DEF y
  <2> QED
    BY <2>1, <2>2 DEF Goal
<1> QED
  BY <1>6, <1>7, <1>8, <1>9, <1>10, <1>11, <1>12, <1>13, <1>14 DEF TaskStep, RequestStep
-----------------------------------------------------------------------------
(* Task, request, records and handlers stay well typed under every         *)
(* operation: each row a stale instance writes is still a row, and the step*)
(* number of an override's audit record always exists, because the records *)
(* have a last one (ApprovalRecord's aggregate Max).                       *)
THEOREM TaskTypeCorrect == Spec => []TypeOK
<1>1. Init => TypeInv
  BY InitType
<1>2. TypeInv /\ [Next]_vars => TypeInv'
  BY TypeInvStep
<1>3. TypeInv => TypeOK
  BY DEF TypeInv
<1> QED
  BY <1>1, <1>2, <1>3, PTL DEF Spec
-----------------------------------------------------------------------------
(***************************************************************************)
(* Concurrent make_approval calls, killed at any point, on a task under    *)
(* review over any chain, none of them by an admin: the linked setting, and*)
(* a component whose Ops and Admins allow nothing else.                    *)
(***************************************************************************)
OnlyApprovals == Runs({"make_approval"}) /\ NoAdmins

Approving == Ops \subseteq {"make_approval", "crash"} /\ Admins = {} /\ Chain # <<>>

(* The chain's place: no step ahead of it has a record, and the approver is*)
(* the one the chain names, or on step 1 the one the task came with.       *)
ChainInv ==
    /\ task.step \in 1..Len(Chain) /\ task.round = 0
    /\ task.status \in {"UNDER_REVIEW", "APPROVED", "REJECTED"}
    /\ task.approver = IF task.step = 1 THEN Assigned ELSE Chain[task.step]
    /\ \A r \in records :
          \/ r.step < task.step
          \/ r.step = task.step /\ task.status # "UNDER_REVIEW"

Reached == {Assigned} \cup {Chain[k] : k \in 1..task.step}

(* What a synchronisation still to come will write has already happened to *)
(* the task: it forwards to an approver the task reached, or approves after*)
(* the task was approved.                                                  *)
SyncInv == \A s \in Sessions :
    /\ sess[s].pc \in {"idle", "make_approval", "br_read", "br_decide"}
    /\ sess[s].op = IF sess[s].pc = "idle" THEN "idle" ELSE "make_approval"
    /\ sess[s].u \notin Admins
    /\ sess[s].pc \in {"br_read", "br_decide"} =>
          /\ sess[s].next = None /\ sess[s].want = "APPROVED" => task.status = "APPROVED"
          /\ sess[s].next # None => sess[s].next \in Reached

RequestInv ==
    /\ br.status \in {"UNDER_REVIEW", "APPROVED", "REJECTED"}
    /\ br.status = "APPROVED" => task.status = "APPROVED"
    /\ br.approver \in Reached

ApprovingInv == TypeInv /\ ChainInv /\ SyncInv /\ RequestInv

(* The actions left to such handlers.                                      *)
LEMMA ApprovingActions ==
  ASSUME OnlyApprovals, SyncInv, TypeInv, NEW s \in Sessions,
         TaskStep(s) \/ RequestStep(s) \/ Crash(s)
  PROVE  \/ Load(s) \/ MakeApproval(s) \/ ReadRequest(s) \/ ProcessApproval(s)
         \/ Return(s)
<1>1. sess[s].pc \in {"idle", "make_approval", "br_read", "br_decide"}
  BY DEF SyncInv
<1>2. ~LoadRequest(s)
  <2>1. LoadRequest(s) => sess'[s].op \in RequestOps
    BY RequestLoaded DEF TypeInv, TypeOK
  <2>2. sess'[s].op \in {"make_approval", "idle"}
    BY DEF OnlyApprovals, Runs
  <2> QED
    BY <2>1, <2>2 DEF RequestOps
<1>3. CASE TaskStep(s)
  BY <1>1, <1>3
  DEF TaskStep, At, Submit, StartReview, Forward, Cancel, Revise, LockCheck, Lock,
      Unlock, Patch, Bulk, RefuseApproval, DeleteRecords
<1>4. CASE RequestStep(s)
  BY <1>1, <1>2, <1>4
  DEF RequestStep, At, RequestSubmit, RequestReview, RequestRevise, RequestPatch,
      RequestUnlock, RequestCancel, RequestLock, ResolveNext, RefuseProcess
<1>5. CASE Crash(s)
  BY <1>5 DEF Crash
<1> QED
  BY <1>3, <1>4, <1>5

(* Unless its caller is an admin, a handler that has the request in hand   *)
(* after a decision decides it or is done.                                 *)
Ends(s) == sess' = [sess EXCEPT ![s] = Idle]
GoesOn(s, x, row) ==
    sess' = [sess EXCEPT ![s] = [x EXCEPT !.pc = "br_decide", !.task = NoTask, !.br = row]]

LEMMA ApprovingFollow ==
  ASSUME NEW s \in Sessions, NEW x, NEW row, x.u \notin Admins,
         x.op = "make_approval", row.status # "SUBMITTED", Follow(s, x, row)
  PROVE  Ends(s) \/ GoesOn(s, x, row)
<1>1. FollowUp(x, row) \in {"idle", "br_decide"}
  BY DEF FollowUp, Overrides
<1> QED
  BY <1>1 DEF Follow, Ends, GoesOn

(* Moving one session keeps the others' part of the invariant while the    *)
(* task stays where it is.                                                 *)
LEMMA ApprovingQuietStep ==
  ASSUME OnlyApprovals, ApprovingInv, TypeInv', NEW s \in Sessions,
         Load(s) \/ ReadRequest(s) \/ Return(s)
  PROVE  ApprovingInv'
<1>1. UNCHANGED <<task, br, records>>
  BY DEF Load, ReadRequest, Return
<1>2. ChainInv' /\ RequestInv' /\ Reached' = Reached
  BY <1>1 DEF ApprovingInv, ChainInv, RequestInv, Reached
<1>3. SyncInv'
  <2>1. CASE Load(s)
    <3>1. PICK op \in Ops \cap TaskOps, u \in Users, want \in Statuses \cup {"-"},
               next \in Users \cup {None} :
            sess' = [sess EXCEPT ![s] =
                       [Idle EXCEPT !.op = op,
                                    !.pc = IF op = "lock" THEN "lock_check" ELSE op,
                                    !.u = u, !.want = want, !.next = next, !.task = task]]
      BY <2>1 DEF Load
    <3>2. sess'[s].op = op /\ sess'[s].u = u
      BY <3>1 DEF ApprovingInv, TypeInv, TypeOK, Idle
    <3>3. op = "make_approval" /\ u \notin Admins
      BY <3>2 DEF OnlyApprovals, Runs, NoAdmins, TaskOps
    <3> QED
      BY <1>1, <1>2, <3>1, <3>3 DEF ApprovingInv, SyncInv, TypeInv, TypeOK, Idle
  <2>2. CASE ReadRequest(s)
    <3>1. sess[s].pc = "br_read" /\ Follow(s, sess[s], br)
      BY <2>2 DEF ReadRequest, At
    <3>2. br.status # "SUBMITTED" /\ sess[s].op = "make_approval" /\ sess[s].u \notin Admins
      BY <3>1 DEF ApprovingInv, SyncInv, RequestInv
    <3>3. CASE sess' = [sess EXCEPT ![s] = Idle]
      BY <1>1, <1>2, <3>3, NobodyNoAdmin DEF ApprovingInv, SyncInv, TypeInv, TypeOK, Idle
    <3>4. CASE sess' = [sess EXCEPT ![s] = [sess[s] EXCEPT !.pc = "br_decide",
                                                           !.task = NoTask, !.br = br]]
      <4>1. \A t \in Sessions : t # s => sess'[t] = sess[t]
        BY <3>4 DEF ApprovingInv, TypeInv, TypeOK
      <4>a. sess \in [Sessions -> Session]
        BY DEF ApprovingInv, TypeInv, TypeOK, Session
      <4>b. sess'[s] = [sess[s] EXCEPT !.pc = "br_decide", !.task = NoTask, !.br = br]
        BY <3>4, <4>a
      <4>2. /\ sess'[s].pc = "br_decide" /\ sess'[s].op = sess[s].op
            /\ sess'[s].next = sess[s].next /\ sess'[s].want = sess[s].want
            /\ sess'[s].u = sess[s].u
        BY <4>a, <4>b DEF Session
      <4> QED
        BY <1>1, <1>2, <3>1, <3>2, <4>1, <4>2 DEF ApprovingInv, SyncInv
    <3>5. Ends(s) \/ GoesOn(s, sess[s], br)
      BY <3>1, <3>2, ApprovingFollow
    <3> QED
      BY <3>3, <3>4, <3>5 DEF Ends, GoesOn
  <2>3. CASE Return(s)
    BY <1>1, <1>2, <2>3, NobodyNoAdmin
    DEF Return, Goto, ApprovingInv, SyncInv, TypeInv, TypeOK, Idle
  <2> QED
    BY <2>1, <2>2, <2>3
<1> QED
  BY <1>2, <1>3 DEF ApprovingInv

(* A decision taken under the row lock: the three ways it may leave the    *)
(* task.                                                                   *)
LEMMA DecisionCases ==
  ASSUME ApprovingInv, NEW s \in Sessions, MakeApproval(s)
  PROVE  /\ task.status = "UNDER_REVIEW" /\ sess[s].pc = "make_approval"
         /\ sess[s].op = "make_approval" /\ sess[s].u \in Users
         /\ records' = records \cup {[step |-> task.step, round |-> task.round,
                                      by |-> sess[s].u,
                                      approved |-> sess[s].want = "APPROVED"]}
         /\ task' = Decided(s) /\ br' = br
         /\ \/ /\ sess[s].want = "REJECTED"
               /\ task' = [task EXCEPT !.status = "REJECTED"]
            \/ /\ sess[s].want = "APPROVED" /\ task.step = Len(Chain)
               /\ task' = [task EXCEPT !.status = "APPROVED"]
            \/ /\ sess[s].want = "APPROVED" /\ task.step < Len(Chain)
               /\ task' = [task EXCEPT !.step = @ + 1, !.approver = Chain[task.step + 1]]
<1>1. /\ task.status = "UNDER_REVIEW" /\ sess[s].pc = "make_approval"
      /\ records' = records \cup {[step |-> StepNumber, round |-> task.round,
                                   by |-> sess[s].u,
                                   approved |-> sess[s].want = "APPROVED"]}
      /\ task' = Decided(s) /\ br' = br
  BY DEF MakeApproval, Decidable, At
<1>2. /\ sess[s].op = "make_approval" /\ sess[s].u \in Users
      /\ sess[s].want \in {"APPROVED", "REJECTED"}
  BY <1>1 DEF ApprovingInv, TypeInv, Caller, SyncInv, Decisions
<1>3. task.step \in 1..Len(Chain) /\ Len(Chain) \in Nat /\ task.step # 0
  BY TaskConstants DEF ApprovingInv, ChainInv
<1>4. StepNumber = task.step
  BY <1>3 DEF StepNumber
<1>5. CASE task.step = Len(Chain)
  BY <1>1, <1>2, <1>3, <1>4, <1>5 DEF Decided, Locked, Successor
<1>6. CASE task.step # Len(Chain)
  <2>1. task.step \in 1..Len(Chain) - 1 /\ task.step < Len(Chain)
    BY <1>3, <1>6
  <2>2. Successor(task) = Chain[task.step + 1]
    BY <2>1 DEF Successor
  <2>3. Successor(task) # None
    <3>1. task.step + 1 \in DOMAIN Chain
      BY <1>3, <2>1, TaskConstants
    <3> QED
      BY <2>2, <3>1, ChainType, TaskConstants
  <2> QED
    BY <1>1, <1>2, <1>4, <2>1, <2>2, <2>3 DEF Decided, Locked, Advanced
<1> QED
  BY <1>5, <1>6

LEMMA ApprovingDecision ==
  ASSUME ApprovingInv, TypeInv', NEW s \in Sessions, MakeApproval(s)
  PROVE  ApprovingInv'
<1> DEFINE r == [step |-> task.step, round |-> task.round, by |-> sess[s].u,
                 approved |-> sess[s].want = "APPROVED"]
           t == Decided(s)
           x == [sess[s] EXCEPT !.next = InHand(t), !.pc = "br_read", !.task = NoTask]
           y == [x EXCEPT !.pc = "br_decide", !.task = NoTask, !.br = br]
<1>1. /\ task.status = "UNDER_REVIEW" /\ sess[s].op = "make_approval"
      /\ records' = records \cup {r} /\ task' = t /\ br' = br
      /\ \/ sess[s].want = "REJECTED" /\ t = [task EXCEPT !.status = "REJECTED"]
         \/ /\ sess[s].want = "APPROVED" /\ task.step = Len(Chain)
            /\ t = [task EXCEPT !.status = "APPROVED"]
         \/ /\ sess[s].want = "APPROVED" /\ task.step < Len(Chain)
            /\ t = [task EXCEPT !.step = @ + 1, !.approver = Chain[task.step + 1]]
  BY DecisionCases
<1>2. task \in Tasks /\ task.step \in 1..Len(Chain) /\ Len(Chain) \in Nat /\ br.status # "SUBMITTED"
  BY TaskConstants DEF ApprovingInv, TypeInv, TypeOK, ChainInv, RequestInv
<1>3. \/ sess' = [sess EXCEPT ![s] = Idle]
      \/ sess' = [sess EXCEPT ![s] = x]
      \/ sess' = [sess EXCEPT ![s] = y]
  <2>1. \/ Follow(s, x, br)
        \/ sess' = [sess EXCEPT ![s] = x]
        \/ sess' = [sess EXCEPT ![s] = Idle]
    BY DEF MakeApproval
  <2>a. sess[s] \in Session
    BY DEF ApprovingInv, TypeInv, TypeOK, Session
  <2>2. x.op = "make_approval" /\ x.u \notin Admins
    BY <1>1, <2>a DEF Session, ApprovingInv, SyncInv
  <2>3. Follow(s, x, br) => Ends(s) \/ GoesOn(s, x, br)
    <3> HIDE DEF x
    <3> QED
      BY <1>2, <2>2, ApprovingFollow
  <2> QED
    BY <2>1, <2>3 DEF Ends, GoesOn
<1>4. /\ t.step \in 1..Len(Chain) /\ t.round = task.round
      /\ t.status \in {"UNDER_REVIEW", "APPROVED", "REJECTED"}
      /\ \/ t.step = task.step /\ t.status # "UNDER_REVIEW" /\ t.approver = task.approver
         \/ t.step = task.step + 1 /\ t.approver = Chain[t.step]
      /\ sess[s].want = "APPROVED" /\ InHand(t) = None => t.status = "APPROVED"
      /\ InHand(t) # None => InHand(t) = Chain[t.step]
  <2>1. CASE t = [task EXCEPT !.status = "REJECTED"] /\ sess[s].want = "REJECTED"
    BY <1>2, <2>1 DEF Tasks, InHand, ApprovingInv, ChainInv
  <2>2. CASE t = [task EXCEPT !.status = "APPROVED"]
    BY <1>2, <2>2 DEF Tasks, InHand, ApprovingInv, ChainInv
  <2>3. CASE /\ task.step < Len(Chain)
             /\ t = [task EXCEPT !.step = @ + 1, !.approver = Chain[task.step + 1]]
    <3>1. /\ t.step = task.step + 1 /\ t.approver = Chain[t.step] /\ t.round = task.round
          /\ t.status = "UNDER_REVIEW" /\ t.step \in 1..Len(Chain)
      BY <1>1, <1>2, <2>3 DEF Tasks
    <3>2. Chain[t.step] # None
      BY <3>1, ChainType, TaskConstants
    <3> HIDE DEF t
    <3> QED
      BY <3>1, <3>2 DEF InHand
  <2> HIDE DEF t
  <2> QED
    BY <1>1, <2>1, <2>2, <2>3
<1>5. /\ x.pc = "br_read" /\ y.pc = "br_decide"
      /\ x.op = "make_approval" /\ y.op = "make_approval"
      /\ x.want = sess[s].want /\ y.want = sess[s].want
      /\ x.next = InHand(t) /\ y.next = InHand(t)
      /\ x.u \notin Admins /\ y.u \notin Admins
  <2> HIDE DEF t
  <2> QED
    BY <1>1 DEF ApprovingInv, SyncInv, TypeInv, TypeOK
<1> HIDE DEF t, x, y
<1>6. ChainInv'
  <2>1. \A q \in records' : q.step < t.step \/ (q.step = t.step /\ t.status # "UNDER_REVIEW")
    <3>1. \A q \in records : q.step \in Nat /\ q.step < task.step
      BY <1>1 DEF ApprovingInv, ChainInv, TypeInv, TypeOK, Records
    <3> QED
      BY <1>1, <1>2, <1>4, <3>1
  <2>2. t.approver = IF t.step = 1 THEN Assigned ELSE Chain[t.step]
    BY <1>2, <1>4 DEF ApprovingInv, ChainInv
  <2> QED
    BY <1>1, <1>4, <2>1, <2>2 DEF ApprovingInv, ChainInv
<1>7. Reached \subseteq Reached' /\ Chain[t.step] \in Reached'
  BY <1>1, <1>2, <1>4 DEF Reached
<1>8. RequestInv'
  BY <1>1, <1>7 DEF ApprovingInv, RequestInv
<1>9. SyncInv'
  <2>1. ASSUME NEW q \in Sessions, q # s
        PROVE sess'[q] = sess[q] /\ task.status # "APPROVED"
    BY <1>1, <1>3, <2>1 DEF ApprovingInv, TypeInv, TypeOK
  <2>2. sess'[s] \in {Idle, x, y}
    BY <1>3 DEF ApprovingInv, TypeInv, TypeOK
  <2> QED
    BY <1>1, <1>4, <1>5, <1>7, <2>1, <2>2, NobodyNoAdmin DEF ApprovingInv, SyncInv, Idle
<1> QED
  BY <1>6, <1>8, <1>9 DEF ApprovingInv

LEMMA ApprovingSync ==
  ASSUME ApprovingInv, TypeInv', NEW s \in Sessions, ProcessApproval(s)
  PROVE  /\ ApprovingInv'
         /\ UNCHANGED <<task, records>>
<1>1. ~Overrides(sess[s].u, sess[s].br)
  BY DEF ApprovingInv, SyncInv, Overrides
<1>2. /\ sess[s].pc = "br_decide" /\ br.status = "UNDER_REVIEW"
      /\ task' = task /\ records' = records /\ Goto(s, "idle")
      /\ br' = IF sess[s].want = "APPROVED" /\ sess[s].next # None
               THEN [br EXCEPT !.approver = sess[s].next]
               ELSE [br EXCEPT !.status = sess[s].want]
  BY <1>1 DEF ProcessApproval, At, Processable
<1>3. /\ sess[s].want \in {"APPROVED", "REJECTED"}
      /\ sess[s].next = None /\ sess[s].want = "APPROVED" => task.status = "APPROVED"
      /\ sess[s].next # None => sess[s].next \in Reached
  BY <1>2 DEF ApprovingInv, SyncInv, TypeInv, Caller, Decisions
<1>4. ChainInv' /\ Reached' = Reached
  BY <1>2 DEF ApprovingInv, ChainInv, Reached
<1>5. RequestInv'
  BY <1>2, <1>3, <1>4 DEF ApprovingInv, RequestInv, TypeInv, TypeOK, Rows
<1>6. SyncInv'
  BY <1>2, <1>4, NobodyNoAdmin DEF Goto, ApprovingInv, SyncInv, TypeInv, TypeOK, Idle
<1> QED
  BY <1>2, <1>4, <1>5, <1>6 DEF ApprovingInv

LEMMA ApprovingStep == ApprovingInv /\ [LinkedNext]_vars => ApprovingInv'
<1> SUFFICES ASSUME ApprovingInv, [LinkedNext]_vars PROVE ApprovingInv'
  OBVIOUS
<1>1. TypeInv'
  BY TypeInvStep DEF ApprovingInv, LinkedNext
<1>2. CASE UNCHANGED vars
  BY <1>1, <1>2 DEF vars, ApprovingInv, ChainInv, SyncInv, RequestInv, Reached
<1>3. ASSUME NEW s \in Sessions, TaskStep(s) \/ RequestStep(s) \/ Crash(s), OnlyApprovals
      PROVE ApprovingInv'
  BY <1>1, <1>3, ApprovingActions, ApprovingQuietStep, ApprovingDecision, ApprovingSync
  DEF ApprovingInv
<1> QED
  BY <1>2, <1>3 DEF LinkedNext, Next, OnlyApprovals

(* Where Ops and Admins allow nothing else, every step is such a step.     *)
LEMMA ApprovingOnly ==
  ASSUME Approving PROVE ApprovingInv /\ [Next]_vars => [LinkedNext]_vars
<1> SUFFICES ASSUME ApprovingInv, NEW s \in Sessions,
                    TaskStep(s) \/ RequestStep(s) \/ Crash(s)
             PROVE  Runs({"make_approval"}) /\ NoAdmins
  BY DEF Next, LinkedNext
<1>1. NoAdmins
  BY DEF Approving, NoAdmins
<1>2. TypeInv /\ SyncInv /\ sess \in [Sessions -> Session]
  BY DEF ApprovingInv, TypeInv, TypeOK, Session
<1>3. \E x : sess' = [sess EXCEPT ![s] = x] /\ x.op \in {"make_approval", "idle"}
  <2>1. ~LoadRequest(s)
    BY DEF Approving, LoadRequest, RequestOps
  <2>2. CASE Load(s)
    <3>1. PICK op \in Ops \cap TaskOps : \E x : sess' = [sess EXCEPT ![s] = x] /\ x.op = op
      BY <1>2, <2>2, Loaded
    <3> QED
      BY <3>1 DEF Approving, TaskOps
  <2>3. CASE ~Load(s)
    BY <1>2, <2>1, <2>3, Kept DEF SyncInv, Idle
  <2> QED
    BY <2>2, <2>3
<1>4. \A t \in Sessions : sess[t].op \in {"make_approval", "idle"}
  BY <1>2 DEF SyncInv
<1> QED
  BY <1>1, <1>2, <1>3, <1>4 DEF Runs

(* Nothing but a decision changes the task or its records.                 *)
LEMMA ApprovingElsewhere ==
  ASSUME ApprovingInv, OnlyApprovals, NEW s \in Sessions,
         TaskStep(s) \/ RequestStep(s) \/ Crash(s)
  PROVE  UNCHANGED <<task, records>> \/ MakeApproval(s)
<1>1. TypeInv'
  BY TypeInvStep DEF ApprovingInv, Next
<1> QED
  BY <1>1, ApprovingActions, ApprovingSync DEF ApprovingInv, Load, ReadRequest, Return

LEMMA ApprovingForward ==
  ApprovingInv /\ [LinkedNext]_vars => [task'.round = task.round => task'.step >= task.step]_vars
<1> SUFFICES ASSUME ApprovingInv, [LinkedNext]_vars
             PROVE task' = task \/ task'.step >= task.step
  BY DEF ApprovingInv, ChainInv
<1>1. CASE UNCHANGED vars
  BY <1>1 DEF vars
<1>2. ASSUME NEW s \in Sessions, MakeApproval(s) PROVE task'.step >= task.step
  <2>1. task \in Tasks
    BY DEF ApprovingInv, TypeInv, TypeOK
  <2>2. \/ task' = [task EXCEPT !.status = "REJECTED"]
        \/ task' = [task EXCEPT !.status = "APPROVED"]
        \/ task' = [task EXCEPT !.step = @ + 1, !.approver = Chain[task.step + 1]]
    BY <1>2, DecisionCases
  <2>3. task'.step \in {task.step, task.step + 1}
    BY <2>1, <2>2 DEF Tasks
  <2>4. task.step \in Nat
    BY <2>1 DEF Tasks
  <2> QED
    BY <2>3, <2>4
<1>3. ASSUME NEW s \in Sessions, TaskStep(s) \/ RequestStep(s) \/ Crash(s), OnlyApprovals
      PROVE UNCHANGED <<task, records>> \/ MakeApproval(s)
  BY <1>3, ApprovingElsewhere
<1> QED
  BY <1>1, <1>2, <1>3 DEF LinkedNext, Next, OnlyApprovals

LEMMA ApprovingInit == ASSUME Chain # <<>> PROVE ReviewInit => ApprovingInv
<1> SUFFICES ASSUME ReviewInit PROVE ApprovingInv
  OBVIOUS
<1>1. Len(Chain) \in Nat /\ Len(Chain) # 0
  BY TaskConstants
<1> QED
  BY <1>1, InitType, NobodyNoAdmin
  DEF ReviewInit, ApprovingInv, ChainInv, SyncInv, RequestInv, Reached, Idle
(* A step that still waits has no record of its number in any round.       *)
LEMMA ApprovingRecordable == ApprovingInv => CurrentStepRecordable
<1> SUFFICES ASSUME ApprovingInv, task.status = "UNDER_REVIEW", Recorded PROVE FALSE
  BY DEF CurrentStepRecordable
<1>1. PICK r \in records : r.step = StepNumber
  BY DEF Recorded
<1>2. task.step \in Nat \ {0} /\ r.step < task.step
  BY TaskConstants DEF ApprovingInv, ChainInv
<1> QED
  BY <1>1, <1>2 DEF StepNumber

LEMMA ApprovingNotAhead == ApprovingInv => RequestNotAhead
  BY DEF ApprovingInv, RequestInv, RequestNotAhead, Reached

(* The linked setting.                                                     *)
LinkedInv == mode = "linked" => ApprovingInv

LEMMA LinkedInit == ASSUME Chain # <<>> PROVE ModeInit => LinkedInv
  BY ApprovingInit DEF ModeInit, LinkedInv

LEMMA LinkedSteps ==
  [ModeNext]_<<mode, vars>> =>
     /\ mode' = mode
     /\ mode = "linked" => [LinkedNext]_vars
  BY DEF ModeNext

LEMMA LinkedStep == LinkedInv /\ [ModeNext]_<<mode, vars>> => LinkedInv'
  BY LinkedSteps, ApprovingStep DEF LinkedInv
-----------------------------------------------------------------------------
(* Among concurrent make_approval calls, over a chain of any length, the   *)
(* awaited decision can always be recorded: no (task, step, round) key is  *)
(* taken before its step is decided.                                       *)
THEOREM AwaitedStepRecordable ==
  ASSUME Approving PROVE ReviewSpec => []CurrentStepRecordable
<1> QED
  BY ApprovingRecordable, ApprovingInit, ApprovingStep, ApprovingOnly, PTL
  DEF ReviewSpec, Approving

(* The same in the linked setting of the runs, where there are admins but  *)
(* none of them decides.                                                   *)
THEOREM LinkedStepRecordable ==
  ASSUME Chain # <<>> PROVE ModeSpec => []RaceStepRecordable
<1>1. LinkedInv => RaceStepRecordable
  BY ApprovingRecordable DEF LinkedInv, RaceStepRecordable
<1> QED
  BY <1>1, LinkedInit, LinkedStep, PTL DEF ModeSpec

(* Whatever the order in which the synchronisations of concurrent          *)
(* make_approval calls run, and whichever of them are lost to a crash, the *)
(* request is not approved before the task and never waits for somebody the*)
(* task has not reached.                                                   *)
THEOREM RequestFollowsTask ==
  ASSUME Approving PROVE ReviewSpec => []RequestNotAhead
<1> QED
  BY ApprovingNotAhead, ApprovingInit, ApprovingStep, ApprovingOnly, PTL
  DEF ReviewSpec, Approving

(* The same in the linked setting, where admins exist.                     *)
THEOREM LinkedRequestNotAhead ==
  ASSUME Chain # <<>> PROVE ModeSpec => []RaceRequestNotAhead
<1>1. LinkedInv => RaceRequestNotAhead
  BY ApprovingNotAhead DEF LinkedInv, RaceRequestNotAhead
<1> QED
  BY <1>1, LinkedInit, LinkedStep, PTL DEF ModeSpec

(* The row lock of make_approval loses no update: no decision, refusal or  *)
(* crash among concurrent calls takes the chain's position back.           *)
THEOREM PositionNeverBack ==
  ASSUME Approving PROVE ReviewSpec => PositionKept
<1>1. ApprovingInv /\ [LinkedNext]_vars
        => [task'.round = task.round => task'.step >= task.step]_vars
  BY ApprovingForward
<1> QED
  BY <1>1, ApprovingInit, ApprovingStep, ApprovingOnly, PTL
  DEF ReviewSpec, PositionKept, Approving

(* The same in the linked setting, where admins exist.                     *)
THEOREM LinkedPositionKept ==
  ASSUME Chain # <<>> PROVE ModeSpec => RacePositionKept
<1>1. LinkedInv /\ [ModeNext]_<<mode, vars>>
        => [task'.round = task.round /\ mode = "linked" => task'.step >= task.step]_vars
  BY LinkedSteps, ApprovingForward DEF LinkedInv
<1> QED
  BY <1>1, LinkedInit, LinkedStep, PTL DEF ModeSpec, RacePositionKept

(* A task without a linked request implements ApprovalRound: concurrent    *)
(* make_approval calls decide the steps of any chain in order, each once   *)
(* and each by the approver the chain names.  On a budget task the same is *)
(* not true (the request's lag lets an earlier approver in).               *)
THEOREM ChainImplemented ==
  ASSUME Approving, ~Budget, Assigned = Chain[1] PROVE ReviewSpec => ChainFollowed
<1>1. ReviewInit => Round!Init
  BY DEF Approving, ReviewInit, Round!Init, Decider, Verdict
<1>2. ApprovingInv /\ [LinkedNext]_vars => [Round!Next]_Round!vars
  <2> SUFFICES ASSUME ApprovingInv, [LinkedNext]_vars PROVE [Round!Next]_Round!vars
    OBVIOUS
  <2>1. CASE UNCHANGED <<task, records>>
    BY <2>1 DEF Round!vars, Decider, Verdict
  <2>2. ASSUME NEW s \in Sessions, MakeApproval(s) PROVE Round!Next
    <3> DEFINE r == [step |-> task.step, round |-> task.round, by |-> sess[s].u,
                     approved |-> sess[s].want = "APPROVED"]
               by == [k \in DOMAIN Chain |-> Decider(k)]
    <3>1. /\ task.status = "UNDER_REVIEW" /\ sess[s].u \in Users
          /\ records' = records \cup {r}
          /\ \/ task' = [task EXCEPT !.status = "REJECTED"]
             \/ /\ task.step = Len(Chain)
                /\ task' = [task EXCEPT !.status = "APPROVED"]
             \/ /\ task.step < Len(Chain)
                /\ task' = [task EXCEPT !.step = @ + 1, !.approver = Chain[task.step + 1]]
      BY <2>2, DecisionCases
    <3>2. task \in Tasks /\ task.step \in DOMAIN Chain /\ Len(Chain) \in Nat
      BY TaskConstants DEF ApprovingInv, TypeInv, TypeOK, ChainInv
    <3>3. sess[s].u = Chain[task.step]
      <4>1. task.approver = Chain[task.step]
        BY DEF ApprovingInv, ChainInv
      <4>2. task.approver \in {None, sess[s].u}
        BY <2>2 DEF MakeApproval, Decidable, Designated, Unassigned
      <4> QED
        BY <3>2, <4>1, <4>2, ChainType, TaskConstants
    <3>4. task'.round = task.round
      BY <3>1, <3>2 DEF Tasks
    <3>5. ASSUME NEW k \in DOMAIN Chain, k # task.step PROVE Decider(k)' = Decider(k)
      <4> DEFINE before == {q \in records : q.step = k /\ q.round = task.round}
                 now == {q \in records' : q.step = k /\ q.round = task'.round}
      <4>1. now = before
        BY <3>1, <3>4, <3>5
      <4>2. Decider(k) = IF before = {} THEN None ELSE (CHOOSE q \in before : TRUE).by
        BY DEF Decider
      <4>3. Decider(k)' = IF now = {} THEN None ELSE (CHOOSE q \in now : TRUE).by
        BY DEF Decider
      <4> HIDE DEF now, before
      <4> QED
        BY <4>1, <4>2, <4>3
    <3>6. ASSUME NEW k \in DOMAIN Chain, k = task.step PROVE Decider(k)' = Chain[k]
      <4> DEFINE now == {q \in records' : q.step = k /\ q.round = task'.round}
      <4>1. \A q \in records : q.step # k
        BY <3>1, <3>6 DEF ApprovingInv, ChainInv, TypeInv, TypeOK, Records
      <4>2. now = {r}
        BY <3>1, <3>4, <3>6, <4>1
      <4>3. now # {} /\ (CHOOSE q \in now : TRUE) = r
        BY <4>2
      <4>4. Decider(k)' = (CHOOSE q \in now : TRUE).by
        BY <4>3 DEF Decider
      <4>5. r.by = sess[s].u
        OBVIOUS
      <4> HIDE DEF now, r
      <4> QED
        BY <3>3, <3>6, <4>3, <4>4, <4>5
    <3>7. by' = [by EXCEPT ![task.step] = Chain[task.step]]
      <4>1. by' = [k \in DOMAIN Chain |-> Decider(k)']
        OBVIOUS
      <4>2. \A k \in DOMAIN Chain :
              Decider(k)' = IF k = task.step THEN Chain[task.step] ELSE Decider(k)
        BY <3>5, <3>6
      <4> QED
        BY <3>2, <4>1, <4>2
    <3>8. Round!Decide
      BY <3>1, <3>7 DEF Round!Decide, Verdict
    <3> HIDE DEF by
    <3>9. CASE task' = [task EXCEPT !.status = "REJECTED"]
      BY <3>2, <3>8, <3>9 DEF Round!Next, Round!Refuse, Verdict, Tasks
    <3>10. CASE task.step = Len(Chain) /\ task' = [task EXCEPT !.status = "APPROVED"]
      BY <3>2, <3>8, <3>10 DEF Round!Next, Round!Complete, Verdict, Tasks
    <3>11. CASE /\ task.step < Len(Chain)
                /\ task' = [task EXCEPT !.step = @ + 1, !.approver = Chain[task.step + 1]]
      BY <3>1, <3>2, <3>8, <3>11 DEF Round!Next, Round!Advance, Verdict, Tasks
    <3> QED
      BY <3>1, <3>9, <3>10, <3>11
  <2>3. ASSUME NEW s \in Sessions, TaskStep(s) \/ RequestStep(s) \/ Crash(s), OnlyApprovals
        PROVE UNCHANGED <<task, records>> \/ MakeApproval(s)
    BY <2>3, ApprovingElsewhere
  <2> QED
    BY <2>1, <2>2, <2>3 DEF LinkedNext, Next, OnlyApprovals, vars
<1> QED
  BY <1>1, <1>2, ApprovingInit, ApprovingStep, ApprovingOnly, PTL
  DEF ReviewSpec, ChainFollowed, Round!Spec, Approving
-----------------------------------------------------------------------------
(***************************************************************************)
(* One handler at a time over several rounds of review, from the creation  *)
(* of the task: the rounds setting.                                        *)
(***************************************************************************)
OneHandler == \A s, t \in Sessions : s = t \/ At(s, "idle") \/ At(t, "idle")

ApprovedRecords == {r \in records : r.approved}

HadEveryStep == \A k \in DOMAIN Chain : \E r \in ApprovedRecords : r.step = k

(* No step is approved twice.  The step a task waits for has no approval,  *)
(* or one of this very round (after a forward), whose key blocks another.  *)
Marks ==
    /\ task.step \in 0..Len(Chain)
    /\ task.step = 0 => task.status \in {"DRAFT", "SUBMITTED", "CANCELLED"}
    /\ \A r \in ApprovedRecords :
        /\ r.step \in 1..task.step
        /\ r.step = task.step =>
             \/ task.status = "CANCELLED"
             \/ task.status \in {"UNDER_REVIEW", "APPROVED", "LOCKED"} /\ r.round = task.round
    /\ \A r, q \in ApprovedRecords : r.step = q.step => r = q
    /\ task.status = "LOCKED" => HadEveryStep

(* A cancelled task has lost its records, or is about to.                  *)
Clearing == {"br_cancel", "delete_records"}
Cleared ==
    task.status = "CANCELLED" =>
        records = {} \/ \E s \in Sessions : sess[s].pc \in Clearing

TaskHandlers == {"submit", "start_review", "cancel", "revise", "forward", "lock_check",
                 "lock", "unlock"}
RequestHandlers == {"br_read", "br_submit", "br_review", "br_decide", "br_lock",
                    "br_unlock", "br_revise", "br_patch"}

(* What the views checked on the task they loaded still holds of the row.  *)
Opened(x) ==
    /\ x.pc = "submit" => task.status = "DRAFT"
    /\ x.pc = "start_review" => task.status = "SUBMITTED"
    /\ x.pc = "cancel" => task.status \in {"SUBMITTED", "UNDER_REVIEW", "APPROVED", "REJECTED"}
    /\ x.pc = "revise" => task.status \in {"REJECTED", "CANCELLED"}
    /\ x.pc \in {"forward", "lock_check", "lock"} => task.status = "APPROVED"
    /\ x.pc = "unlock" => task.status = "LOCKED"
    /\ x.pc \in TaskHandlers => x.task = task

Handler(x) ==
    /\ x.pc \in {"idle", "make_approval"} \cup TaskHandlers \cup RequestHandlers \cup Clearing
    /\ x.u \notin Admins
    /\ Opened(x)
    /\ x.pc = "lock" => HadEveryStep
    /\ x.pc \in Clearing => task.status = "CANCELLED"

RoundsInv ==
    /\ TypeInv /\ OneHandler /\ Marks /\ Cleared
    /\ \A s \in Sessions : Handler(sess[s])

(* As many approvals as the chain has steps, no two of them of one step,   *)
(* are one of every step.                                                  *)
LEMMA EveryStep ==
  ASSUME TypeInv, \A r \in ApprovedRecords : r.step \in 1..Len(Chain),
         \A r, q \in ApprovedRecords : r.step = q.step => r = q,
         Approvals >= Len(Chain)
  PROVE  HadEveryStep
<1> DEFINE A == ApprovedRecords
           I == 1..Len(Chain)
           f == [r \in A |-> r.step]
<1>1. Len(Chain) \in Nat /\ DOMAIN Chain = I
  BY TaskConstants
<1>2. IsFiniteSet(I) /\ Cardinality(I) = Len(Chain)
  <2>1. /\ IsFiniteSet(1..Len(Chain))
        /\ Cardinality(1..Len(Chain)) = IF 1 > Len(Chain) THEN 0 ELSE Len(Chain) - 1 + 1
    BY <1>1, FS_Interval
  <2>2. CASE 1 > Len(Chain)
    BY <1>1, <2>1, <2>2
  <2>3. CASE ~(1 > Len(Chain))
    BY <1>1, <2>1, <2>3
  <2> QED
    BY <2>2, <2>3
<1>3. f \in Injection(A, I)
  BY DEF Injection, IsInjective
<1>4. IsFiniteSet(A) /\ Cardinality(A) <= Cardinality(I) /\ Cardinality(A) \in Nat
      /\ (Cardinality(A) = Cardinality(I) <=> f \in Surjection(A, I))
  <2> HIDE DEF A, I, f
  <2>1. /\ IsFiniteSet(A) /\ Cardinality(A) <= Cardinality(I)
        /\ (Cardinality(A) = Cardinality(I) <=> f \in Surjection(A, I))
    BY <1>2, <1>3, FS_Injection
  <2> QED
    BY <2>1, FS_CardinalityType
<1>5. Cardinality(A) >= Len(Chain)
  BY DEF Approvals, ApprovedRecords
<1>6. f \in Surjection(A, I)
  <2> HIDE DEF A, I, f
  <2> QED
    BY <1>1, <1>2, <1>4, <1>5
<1>7. ASSUME NEW k \in I PROVE \E r \in A : r.step = k
  BY <1>6, <1>7 DEF Surjection
<1> QED
  BY <1>1, <1>7 DEF HadEveryStep

(* The other sessions stay idle, and the handler is left as y.             *)
LEMMA RoundsFrame ==
  ASSUME RoundsInv, TypeInv', NEW s \in Sessions, OthersIdle(s),
         NEW y \in Session, sess' = [sess EXCEPT ![s] = y],
         Handler(y)', Marks',
         task'.status = "CANCELLED" => records' = {} \/ y.pc \in Clearing
  PROVE  RoundsInv'
<1>1. sess \in [Sessions -> Session]
  BY DEF RoundsInv, TypeInv, TypeOK, Session
<1>2. sess'[s] = y /\ \A t \in Sessions \ {s} : sess'[t] = sess[t] /\ sess[t].pc = "idle"
  BY <1>1 DEF OthersIdle, At
<1>3. OneHandler'
  BY <1>2 DEF OneHandler, At
<1>4. Cleared'
  BY <1>2 DEF Cleared
<1>5. ASSUME NEW t \in Sessions PROVE Handler(sess[t])'
  <2>1. CASE t = s
    BY <1>2, <2>1
  <2>2. CASE t # s
    BY <1>2, <2>2 DEF RoundsInv, Handler, Opened, TaskHandlers, Clearing
  <2> QED
    BY <2>1, <2>2
<1> QED
  BY <1>3, <1>4, <1>5 DEF RoundsInv

(* Steps of the request's side leave the task and its records alone.       *)
LEMMA RoundsQuiet ==
  ASSUME RoundsInv, TypeInv', NEW s \in Sessions, OthersIdle(s),
         sess[s].pc \notin Clearing, UNCHANGED <<task, records>>,
         NEW y \in Session, sess' = [sess EXCEPT ![s] = y], y.u \notin Admins,
         \/ y.pc \in {"idle", "make_approval"} \cup RequestHandlers
         \/ y.pc \in TaskHandlers \ {"lock"} /\ Opened(y)
  PROVE  RoundsInv'
<1>1. Marks'
  BY DEF RoundsInv, Marks, ApprovedRecords, HadEveryStep
<1>2. Handler(y)'
  BY DEF Handler, Opened, TaskHandlers, RequestHandlers, Clearing
<1>3. task'.status = "CANCELLED" => records' = {}
  BY DEF RoundsInv, Cleared, OthersIdle, At, Clearing
<1> QED
  BY <1>1, <1>2, <1>3, RoundsFrame

LEMMA RoundsLoads ==
  ASSUME RoundsInv, TypeInv', NEW s \in Sessions, OthersIdle(s),
         Load(s) \/ LoadRequest(s), Runs(OneRound), NoAdmins
  PROVE  RoundsInv'
<1>1. sess \in [Sessions -> Session]
  BY DEF RoundsInv, TypeInv, TypeOK, Session
<1>2. CASE Load(s)
  <2>1. PICK op \in Ops \cap TaskOps, u \in Users, want \in Statuses \cup {"-"},
             next \in Users \cup {None}, y \in Session :
           /\ sess[s].pc = "idle" /\ Opens(op, u, want, next)
           /\ sess' = [sess EXCEPT ![s] = y]
           /\ y.op = op /\ y.pc = IF op = "lock" THEN "lock_check" ELSE op
           /\ y.u = u /\ y.want = want /\ y.next = next /\ y.task = task
           /\ UNCHANGED <<task, br, records>>
    BY <1>2, Loaded DEF RoundsInv
  <2>2. y.op \in OneRound /\ y.u \notin Admins
    BY <1>1, <2>1 DEF Runs, NoAdmins, TaskOps
  <2>3. y.pc = "make_approval" \/ (y.pc \in TaskHandlers \ {"lock"} /\ Opened(y))
    BY <2>1, <2>2 DEF Opens, Opened, MayCancel, OneRound, InStep, TaskOps, TaskHandlers
  <2>4. sess[s].pc \notin Clearing
    BY <2>1 DEF Clearing
  <2> QED
    BY <2>1, <2>2, <2>3, <2>4, RoundsQuiet
<1>3. CASE LoadRequest(s)
  <2>1. PICK y \in Session :
           /\ sess[s].pc = "idle"
           /\ sess' = [sess EXCEPT ![s] = y]
           /\ \/ y.pc \in {"br_review", "br_patch"}
              \/ y.op = "decision"
           /\ UNCHANGED <<task, br, records>>
    BY <1>3, RequestLoaded DEF RoundsInv
  <2>2. y.op # "decision" /\ y.u \notin Admins
    BY <1>1, <2>1 DEF Runs, NoAdmins, OneRound, InStep
  <2>3. sess[s].pc \notin Clearing /\ y.pc \in RequestHandlers
    BY <2>1, <2>2 DEF Clearing, RequestHandlers
  <2> QED
    BY <2>1, <2>2, <2>3, RoundsQuiet
<1> QED
  BY <1>2, <1>3

(* A handler that goes on with the request, none of its callers an admin.  *)
LEMMA NoOverride ==
  ASSUME NEW x, NEW row, x.u \notin Admins
  PROVE  FollowUp(x, row) \in {"idle"} \cup RequestHandlers
  BY DEF FollowUp, Overrides, RequestHandlers

LEMMA RoundsFollow ==
  ASSUME RoundsInv, TypeInv', NEW s \in Sessions, OthersIdle(s),
         sess[s].pc \notin Clearing, UNCHANGED <<task, records>>,
         NEW row \in Rows, Follow(s, sess[s], row)
  PROVE  RoundsInv'
<1>1. sess[s] \in Session /\ sess[s].u \notin Admins
  BY DEF RoundsInv, TypeInv, TypeOK, Session, Handler
<1>2. PICK y \in Session :
           /\ sess' = [sess EXCEPT ![s] = y]
           /\ \/ y = Idle
              \/ y.pc = FollowUp(sess[s], row) /\ y.u = sess[s].u
  BY <1>1, Followed
<1>3. y.u \notin Admins /\ (y.pc = "idle" \/ y.pc \in RequestHandlers)
  BY <1>1, <1>2, NobodyNoAdmin, NoOverride DEF Idle
<1> QED
  BY <1>2, <1>3, RoundsQuiet

LEMMA RoundsEnd ==
  ASSUME RoundsInv, TypeInv', NEW s \in Sessions, OthersIdle(s),
         sess[s].pc \notin Clearing, UNCHANGED <<task, records>>, Goto(s, "idle")
  PROVE  RoundsInv'
<1>1. sess' = [sess EXCEPT ![s] = Idle]
  BY DEF Goto
<1> QED
  BY <1>1, IdleType, NobodyNoAdmin, RoundsQuiet DEF Idle

LEMMA RoundsRequestSteps ==
  ASSUME RoundsInv, TypeInv', NEW s \in Sessions, OthersIdle(s),
         RequestStep(s), ~LoadRequest(s), ~RequestCancel(s)
  PROVE  RoundsInv'
<1> USE DEF At
<1>1. /\ sess[s] \in Session /\ br \in Rows /\ sess[s].br \in Rows /\ sess[s].u \notin Admins
      /\ sess[s].pc # "br_next"
  BY DEF RoundsInv, TypeInv, TypeOK, Session, Handler, TaskHandlers, RequestHandlers, Clearing
<1>2. CASE ReadRequest(s)
  BY <1>1, <1>2, RoundsFollow DEF ReadRequest, Clearing
<1>3. CASE RequestReview(s)
  <2>1. [sess[s].br EXCEPT !.status = "UNDER_REVIEW"] \in Rows
    BY <1>1 DEF Rows, Statuses
  <2> QED
    BY <1>3, <2>1, RoundsFollow DEF RequestReview, SaveRequest, Clearing
<1>4. CASE ProcessApproval(s)
  <2>1. ~Overrides(sess[s].u, sess[s].br)
    BY <1>1 DEF Overrides
  <2> QED
    BY <1>4, <2>1, RoundsEnd DEF ProcessApproval, Clearing
<1>5. CASE \/ RequestSubmit(s) \/ RequestRevise(s) \/ RequestPatch(s) \/ RequestUnlock(s)
           \/ RequestLock(s) \/ RefuseProcess(s)
  BY <1>5, RoundsEnd
  DEF RequestSubmit, RequestRevise, RequestPatch, RequestUnlock, RequestLock,
      RefuseProcess, SaveRequest, Return, Clearing
<1>6. ~ResolveNext(s)
  BY <1>1 DEF ResolveNext
<1> QED
  BY <1>2, <1>3, <1>4, <1>5, <1>6 DEF RequestStep

(* The writes of the task's views.                                         *)
LEMMA RoundsSave ==
  ASSUME RoundsInv, TypeInv', NEW s \in Sessions, OthersIdle(s), sess[s].pc \notin Clearing,
         NEW row, NEW step \in {"idle", "br_read", "br_lock"} \cup Clearing,
         Save(s, row, step),
         row.status = "CANCELLED" <=> step \in Clearing,
         Marks'
  PROVE  RoundsInv'
<1>1. step \in Steps
  BY DEF Steps, Clearing
<1>2. PICK y \in Session :
        /\ sess' = [sess EXCEPT ![s] = y]
        /\ y.pc = step /\ y.u \notin Admins
  <2>1. sess[s].u \notin Admins /\ Idle.pc = "idle"
    BY DEF RoundsInv, Handler, Idle
  <2> QED
    BY <1>1, <2>1, Went, NobodyNoAdmin DEF Save, RoundsInv
<1>3. task' = row
  BY DEF Save
<1>4. Handler(y)'
  BY <1>2, <1>3 DEF Handler, Opened, TaskHandlers, RequestHandlers, Clearing
<1> QED
  BY <1>2, <1>3, <1>4, RoundsFrame

LEMMA RoundsWrites ==
  ASSUME RoundsInv, TypeInv', Chain # <<>>, NEW s \in Sessions, OthersIdle(s),
         \/ Submit(s) \/ StartReview(s) \/ Forward(s) \/ Cancel(s) \/ Revise(s)
         \/ Lock(s) \/ Unlock(s)
  PROVE  RoundsInv'
<1> USE DEF At
<1>1. /\ task \in Tasks /\ records \subseteq Records /\ Marks
      /\ Len(Chain) \in Nat /\ Len(Chain) # 0
  BY TaskConstants DEF RoundsInv, TypeInv, TypeOK
<1>2. /\ ForBudget("br_read") \in {"idle", "br_read"}
      /\ ForBudget("br_lock") \in {"idle", "br_lock"}
      /\ (IF Budget THEN "br_cancel" ELSE "delete_records") \in Clearing
      /\ {"idle", "br_read", "br_lock"} \cap Clearing = {}
  BY DEF ForBudget, Clearing
<1>3. /\ sess[s].task = task /\ sess[s].pc \notin Clearing
      /\ sess[s].pc = "submit" => task.status = "DRAFT"
      /\ sess[s].pc = "start_review" => task.status = "SUBMITTED"
      /\ sess[s].pc = "cancel" =>
            task.status \in {"SUBMITTED", "UNDER_REVIEW", "APPROVED", "REJECTED"}
      /\ sess[s].pc = "revise" => task.status \in {"REJECTED", "CANCELLED"}
      /\ sess[s].pc = "forward" => task.status = "APPROVED"
      /\ sess[s].pc = "lock" => task.status = "APPROVED" /\ HadEveryStep
      /\ sess[s].pc = "unlock" => task.status = "LOCKED"
  <2>1. Handler(sess[s])
    BY DEF RoundsInv
  <2>2. sess[s].pc \in TaskHandlers /\ sess[s].pc \notin Clearing
    BY DEF Submit, StartReview, Forward, Cancel, Revise, Lock, Unlock, TaskHandlers, Clearing
  <2> QED
    BY <2>1, <2>2 DEF Handler, Opened
<1>4. ASSUME NEW row \in Tasks, NEW step \in {"idle", "br_read", "br_lock"} \cup Clearing,
             Save(s, row, step), row.status = "CANCELLED" <=> step \in Clearing,
             row.step = task.step \/ (task.step = 0 /\ row.step = 1),
             row.step = 0 => row.status \in {"DRAFT", "SUBMITTED", "CANCELLED"},
             \A r \in ApprovedRecords : r.step = row.step =>
                \/ row.status = "CANCELLED"
                \/ row.status \in {"UNDER_REVIEW", "APPROVED", "LOCKED"} /\ r.round = row.round,
             row.status = "LOCKED" => HadEveryStep
      PROVE  RoundsInv'
  <2>1. task' = row /\ records' = records /\ ApprovedRecords' = ApprovedRecords
    BY <1>4 DEF Save, ApprovedRecords
  <2>2. HadEveryStep' <=> HadEveryStep
    BY <2>1 DEF HadEveryStep
  <2>3. \A r \in ApprovedRecords : r.step \in 1..row.step
    BY <1>1, <1>4 DEF Marks, ApprovedRecords, Records
  <2>4. row.step \in 0..Len(Chain)
    BY <1>1, <1>4 DEF Marks
  <2>5. Marks'
    BY <1>1, <1>4, <2>1, <2>2, <2>3, <2>4 DEF Marks
  <2> QED
    BY <1>3, <1>4, <2>5, RoundsSave
<1>5. CASE Submit(s)
  <2>1. [task EXCEPT !.status = "SUBMITTED"] \in Tasks
    BY <1>1 DEF Tasks, Statuses
  <2>2. /\ Save(s, [task EXCEPT !.status = "SUBMITTED"], ForBudget("br_read"))
        /\ task.status = "DRAFT"
    BY <1>3, <1>5 DEF Submit
  <2> QED
    BY <1>1, <1>2, <1>4, <2>1, <2>2 DEF Tasks, Marks
<1>6. CASE StartReview(s)
  <2> DEFINE t == [task EXCEPT !.status = "UNDER_REVIEW"]
             first == [t EXCEPT !.step = 1, !.approver = IF @ = None THEN Chain[1] ELSE @]
             row == IF t.step = 0 /\ Chain # <<>> THEN first ELSE t
  <2>1. Save(s, row, "idle") /\ task.status = "SUBMITTED"
    BY <1>3, <1>6 DEF StartReview
  <2>2. Chain[1] \in Users
    BY <1>1, ChainType, TaskConstants
  <2>3. t \in Tasks /\ t.step = task.step /\ t.status = "UNDER_REVIEW" /\ t.round = task.round
    BY <1>1 DEF Tasks, Statuses
  <2>4. first \in Tasks /\ first.step = 1 /\ first.status = "UNDER_REVIEW"
    <3> HIDE DEF t
    <3>1. (IF t.approver = None THEN Chain[1] ELSE t.approver) \in Users \cup {None}
      BY <2>2, <2>3 DEF Tasks
    <3> QED
      BY <2>3, <3>1 DEF Tasks
  <2> HIDE DEF t, first
  <2>5. /\ row \in Tasks /\ row.status = "UNDER_REVIEW"
        /\ row.step = IF task.step = 0 THEN 1 ELSE task.step
    BY <2>3, <2>4
  <2>6. \A r \in ApprovedRecords : r.step # row.step
    BY <1>1, <2>1, <2>5 DEF Marks, Tasks
  <2> HIDE DEF row
  <2> QED
    BY <1>1, <1>2, <1>4, <2>1, <2>5, <2>6 DEF Tasks
<1>7. CASE Forward(s)
  <2> DEFINE row == [task EXCEPT !.status = "UNDER_REVIEW", !.approver = sess[s].next]
  <2>1. sess[s].next \in Users \cup {None}
    BY DEF RoundsInv, TypeInv, TypeOK
  <2>2. row \in Tasks /\ row.step = task.step /\ row.round = task.round
        /\ row.status = "UNDER_REVIEW"
    BY <1>1, <2>1 DEF Tasks, Statuses
  <2>3. Save(s, row, "idle") /\ task.status = "APPROVED"
    BY <1>3, <1>7 DEF Forward
  <2> HIDE DEF row
  <2> QED
    BY <1>1, <1>2, <1>4, <2>2, <2>3 DEF Marks
<1>8. CASE Cancel(s)
  <2> DEFINE row == [task EXCEPT !.status = "CANCELLED"]
             step == IF Budget THEN "br_cancel" ELSE "delete_records"
  <2>1. row \in Tasks /\ row.step = task.step /\ row.status = "CANCELLED"
    BY <1>1 DEF Tasks, Statuses
  <2>2. Save(s, row, step)
    BY <1>3, <1>8 DEF Cancel
  <2> HIDE DEF row, step
  <2> QED
    BY <1>2, <1>4, <2>1, <2>2 DEF step
<1>9. CASE Revise(s)
  <2> DEFINE row == [task EXCEPT !.status = "DRAFT", !.round = @ + 1]
  <2>1. row \in Tasks /\ row.step = task.step /\ row.status = "DRAFT"
    <3>1. task.round + 1 \in Nat
      BY <1>1 DEF Tasks
    <3> QED
      BY <1>1, <3>1 DEF Tasks, Statuses
  <2>2. Save(s, row, ForBudget("br_read")) /\ task.status \in {"REJECTED", "CANCELLED"}
    BY <1>3, <1>9 DEF Revise
  <2>3. task.status = "CANCELLED" => records = {}
    BY <1>3 DEF RoundsInv, Cleared, OthersIdle, Clearing
  <2>4. \A r \in ApprovedRecords : r.step # task.step
    BY <1>1, <2>2, <2>3 DEF Marks, ApprovedRecords
  <2> HIDE DEF row
  <2> QED
    BY <1>2, <1>4, <2>1, <2>2, <2>4
<1>10. CASE Lock(s)
  <2>1. [task EXCEPT !.status = "LOCKED"] \in Tasks
    BY <1>1 DEF Tasks, Statuses
  <2>2. /\ Save(s, [task EXCEPT !.status = "LOCKED"], ForBudget("br_lock"))
        /\ task.status = "APPROVED" /\ HadEveryStep
    BY <1>3, <1>10 DEF Lock
  <2> QED
    BY <1>1, <1>2, <1>4, <2>1, <2>2 DEF Tasks, Marks
<1>11. CASE Unlock(s)
  <2>1. [task EXCEPT !.status = "APPROVED"] \in Tasks
    BY <1>1 DEF Tasks, Statuses
  <2>2. /\ Save(s, [task EXCEPT !.status = "APPROVED"], ForBudget("br_read"))
        /\ task.status = "LOCKED"
    BY <1>3, <1>11 DEF Unlock
  <2> QED
    BY <1>1, <1>2, <1>4, <2>1, <2>2 DEF Tasks, Marks
<1> QED
  BY <1>5, <1>6, <1>7, <1>8, <1>9, <1>10, <1>11

(* A decision adds one record, of a step that had no approval.             *)
LEMMA RoundsDecision ==
  ASSUME RoundsInv, TypeInv', Chain # <<>>, NEW s \in Sessions, OthersIdle(s), MakeApproval(s)
  PROVE  RoundsInv'
<1> DEFINE r == [step |-> task.step, round |-> task.round, by |-> sess[s].u,
                 approved |-> sess[s].want = "APPROVED"]
           t == Decided(s)
           x == [sess[s] EXCEPT !.next = InHand(t), !.pc = "br_read", !.task = NoTask]
<1>1. /\ task.status = "UNDER_REVIEW" /\ ~Recorded /\ sess[s].pc = "make_approval"
      /\ records' = records \cup {[step |-> StepNumber, round |-> task.round,
                                   by |-> sess[s].u,
                                   approved |-> sess[s].want = "APPROVED"]}
      /\ task' = t /\ br' = br
      /\ \/ Follow(s, x, br)
         \/ sess' = [sess EXCEPT ![s] = x]
         \/ sess' = [sess EXCEPT ![s] = Idle]
  BY DEF MakeApproval, Decidable, At
<1>2. /\ sess[s] \in Session /\ sess[s].want \in {"APPROVED", "REJECTED"} /\ br \in Rows
      /\ task \in Tasks /\ records \subseteq Records /\ sess[s].u \notin Admins /\ Marks
      /\ Len(Chain) \in Nat
  BY <1>1, TaskConstants DEF RoundsInv, TypeInv, TypeOK, Caller, Session, Handler, Decisions
<1>3. task.step \in 1..Len(Chain) /\ StepNumber = task.step
  BY <1>1, <1>2 DEF Marks, StepNumber
<1>4. records' = records \cup {r}
  BY <1>1, <1>3
<1>5. \A q \in ApprovedRecords : q.step \in 1..task.step - 1
  BY <1>1, <1>2, <1>3 DEF Marks, Recorded, ApprovedRecords, Records
<1>6. \/ sess[s].want = "REJECTED" /\ t = [task EXCEPT !.status = "REJECTED"]
      \/ sess[s].want = "APPROVED" /\ t = [task EXCEPT !.status = "APPROVED"]
      \/ /\ sess[s].want = "APPROVED" /\ task.step < Len(Chain)
         /\ t = [task EXCEPT !.step = @ + 1, !.approver = Successor(task)]
  BY <1>2, <1>3 DEF Decided, Locked, Advanced, Successor
<1>7. /\ t.round = task.round
      /\ \/ sess[s].want = "REJECTED" /\ t.step = task.step /\ t.status = "REJECTED"
         \/ sess[s].want = "APPROVED" /\ t.step = task.step /\ t.status = "APPROVED"
         \/ /\ sess[s].want = "APPROVED" /\ t.step = task.step + 1
            /\ t.step \in 1..Len(Chain) /\ t.status = "UNDER_REVIEW"
  <2> HIDE DEF t
  <2>1. CASE t = [task EXCEPT !.status = "REJECTED"] /\ sess[s].want = "REJECTED"
    BY <1>2, <2>1 DEF Tasks
  <2>2. CASE t = [task EXCEPT !.status = "APPROVED"] /\ sess[s].want = "APPROVED"
    BY <1>2, <2>2 DEF Tasks
  <2>3. CASE /\ sess[s].want = "APPROVED" /\ task.step < Len(Chain)
             /\ t = [task EXCEPT !.step = @ + 1, !.approver = Successor(task)]
    <3>1. t.step = task.step + 1 /\ t.round = task.round /\ t.status = "UNDER_REVIEW"
      BY <1>1, <1>2, <2>3 DEF Tasks
    <3> QED
      BY <1>2, <1>3, <2>3, <3>1
  <2> QED
    BY <1>6, <2>1, <2>2, <2>3
<1>8. /\ x \in Session /\ x.u = sess[s].u /\ x.pc = "br_read"
  BY <1>2, DecidedType DEF Session, NoTask, Tasks, Statuses, Steps, RoundsInv
<1>9. PICK y \in Session :
        /\ sess' = [sess EXCEPT ![s] = y]
        /\ y.u \notin Admins /\ y.pc \in {"idle"} \cup RequestHandlers
  <2> HIDE DEF x
  <2>1. CASE Follow(s, x, br)
    <3>1. PICK y \in Session :
            /\ sess' = [sess EXCEPT ![s] = y]
            /\ y = Idle \/ (y.pc = FollowUp(x, br) /\ y.u = x.u)
      BY <1>2, <1>8, <2>1, Followed
    <3>2. y.u \notin Admins /\ y.pc \in {"idle"} \cup RequestHandlers
      <4>1. CASE y = Idle
        BY <4>1, NobodyNoAdmin DEF Idle
      <4>2. CASE y.pc = FollowUp(x, br) /\ y.u = x.u
        BY <1>2, <1>8, <4>2, NoOverride
      <4> QED
        BY <3>1, <4>1, <4>2
    <3> QED
      BY <3>1, <3>2
  <2>2. CASE sess' = [sess EXCEPT ![s] = x]
    BY <1>2, <1>8, <2>2 DEF RequestHandlers
  <2>3. CASE sess' = [sess EXCEPT ![s] = Idle]
    BY <2>3, IdleType, NobodyNoAdmin DEF Idle
  <2> QED
    BY <1>1, <2>1, <2>2, <2>3
<1>10. r.approved = (sess[s].want = "APPROVED") /\ r.step = task.step /\ r.round = task.round
  OBVIOUS
<1>11. task' = t
  BY <1>1
<1> HIDE DEF r, t, x
<1>12. ApprovedRecords' = IF sess[s].want = "APPROVED" THEN ApprovedRecords \cup {r}
                          ELSE ApprovedRecords
  BY <1>4, <1>10 DEF ApprovedRecords
<1>13. Marks'
  <2>1. \A q \in ApprovedRecords' : q.step \in 1..t.step
    BY <1>2, <1>3, <1>5, <1>7, <1>10, <1>12
  <2>2. \A q \in ApprovedRecords' : q.step = t.step =>
          t.status = "APPROVED" /\ q.round = t.round
    BY <1>2, <1>3, <1>5, <1>7, <1>10, <1>12
  <2>3. \A q, p \in ApprovedRecords' : q.step = p.step => q = p
    BY <1>2, <1>3, <1>5, <1>10, <1>12 DEF Marks
  <2>4. t.step \in 1..Len(Chain) /\ t.status # "LOCKED" /\ t.step # 0
    BY <1>3, <1>7
  <2> QED
    BY <1>2, <1>11, <2>1, <2>2, <2>3, <2>4 DEF Marks
<1>14. Handler(y)' /\ task'.status # "CANCELLED"
  BY <1>7, <1>9, <1>11 DEF Handler, Opened, TaskHandlers, RequestHandlers, Clearing
<1> QED
  BY <1>9, <1>13, <1>14, RoundsFrame

LEMMA RoundsTaskSteps ==
  ASSUME RoundsInv, TypeInv', Chain # <<>>, Required >= Len(Chain),
         NEW s \in Sessions, OthersIdle(s), TaskStep(s), ~Load(s)
  PROVE  RoundsInv'
<1> USE DEF At
<1>1. /\ sess[s] \in Session /\ sess[s].u \notin Admins /\ task \in Tasks
      /\ sess[s].pc \notin {"patch", "bulk"}
      /\ sess[s].pc = "lock_check" => task.status = "APPROVED" /\ sess[s].task = task
      /\ sess[s].pc \in Clearing => task.status = "CANCELLED"
      /\ Marks
  BY DEF RoundsInv, TypeInv, TypeOK, Session, Handler, Opened, TaskHandlers, RequestHandlers, Clearing
<1>2. CASE \/ Submit(s) \/ StartReview(s) \/ Forward(s) \/ Cancel(s) \/ Revise(s)
           \/ Lock(s) \/ Unlock(s)
  BY <1>2, RoundsWrites
<1>3. CASE LockCheck(s)
  <2>1. CASE Goto(s, "idle")
    BY <1>3, <2>1, RoundsEnd DEF LockCheck, Clearing
  <2>2. CASE /\ sess' = [sess EXCEPT ![s].pc = "lock"]
             /\ task.step = 0 \/ Approvals >= Required
    <3> DEFINE y == [sess[s] EXCEPT !.pc = "lock"]
    <3>1. y \in Session /\ y.pc = "lock" /\ y.u = sess[s].u /\ y.task = sess[s].task
      BY <1>1 DEF Session, Steps, TaskOps
    <3>2. sess' = [sess EXCEPT ![s] = y]
      BY <2>2 DEF RoundsInv, TypeInv, TypeOK
    <3>a. PICK z \in Session :
            /\ sess' = [sess EXCEPT ![s] = z]
            /\ z.pc = "lock" /\ z.u \notin Admins /\ z.task = task
      <4>1. sess[s].task = task
        BY <1>1, <1>3 DEF LockCheck
      <4> HIDE DEF y
      <4> QED
        BY <1>1, <3>1, <3>2, <4>1
    <3> HIDE DEF y
    <3>3. task.status = "APPROVED" /\ task.step # 0 /\ UNCHANGED <<task, br, records>>
      BY <1>1, <1>3 DEF LockCheck, Marks
    <3>4. HadEveryStep
      <4>1. Approvals \in Nat /\ Len(Chain) \in Nat /\ Required \in Nat
        <5>1. IsFiniteSet(ApprovedRecords)
          BY FS_Subset DEF ApprovedRecords, RoundsInv, TypeInv
        <5> QED
          BY <5>1, FS_CardinalityType, TaskConstants DEF Approvals, ApprovedRecords
      <4>2. Approvals >= Len(Chain)
        BY <2>2, <3>3, <4>1
      <4>3. \A r \in ApprovedRecords : r.step \in 1..Len(Chain)
        BY <1>1, <4>1 DEF Marks
      <4> QED
        BY <1>1, <4>2, <4>3, EveryStep DEF RoundsInv, Marks
    <3>5. Marks' /\ HadEveryStep'
      BY <1>1, <3>3, <3>4 DEF Marks, ApprovedRecords, HadEveryStep
    <3>6. Handler(z)' /\ task'.status # "CANCELLED"
      BY <3>a, <3>3, <3>5 DEF Handler, Opened, TaskHandlers, Clearing
    <3> QED
      BY <3>a, <3>5, <3>6, RoundsFrame
  <2> QED
    BY <1>1, <1>3, <2>1, <2>2 DEF LockCheck
<1>4. CASE MakeApproval(s)
  BY <1>4, RoundsDecision
<1>5. CASE RefuseApproval(s)
  BY <1>5, RoundsEnd DEF RefuseApproval, Return, Clearing
<1>6. CASE DeleteRecords(s)
  <2>1. /\ sess' = [sess EXCEPT ![s] = Idle] /\ records' = {} /\ task' = task
        /\ task.status = "CANCELLED"
    BY <1>1, <1>6 DEF DeleteRecords, Goto, Clearing
  <2>2. Marks' /\ Handler(Idle)'
    BY <1>1, <2>1, NobodyNoAdmin
    DEF Marks, ApprovedRecords, Handler, Opened, TaskHandlers, Clearing, Idle
  <2> QED
    BY <2>1, <2>2, IdleType, RoundsFrame
<1>7. ~Patch(s) /\ ~Bulk(s)
  BY <1>1 DEF Patch, Bulk
<1> QED
  BY <1>2, <1>3, <1>4, <1>5, <1>6, <1>7 DEF TaskStep

LEMMA RoundsCancels ==
  ASSUME RoundsInv, TypeInv', NEW s \in Sessions, OthersIdle(s), RequestCancel(s)
  PROVE  RoundsInv'
<1>1. "delete_records" \in Steps
  BY DEF Steps
<1>2. /\ sess[s].pc = "br_cancel" /\ Goto(s, "delete_records") /\ UNCHANGED <<task, records>>
      /\ sess[s].u \notin Admins /\ task.status = "CANCELLED"
  BY DEF RequestCancel, SaveRequest, At, RoundsInv, Handler, Clearing
<1>3. PICK y \in Session :
        sess' = [sess EXCEPT ![s] = y] /\ y.pc = "delete_records" /\ y.u = sess[s].u
  BY <1>1, <1>2, Went DEF RoundsInv
<1>4. Marks' /\ Handler(y)'
  BY <1>2, <1>3
  DEF RoundsInv, Marks, ApprovedRecords, HadEveryStep, Handler, Opened, TaskHandlers, Clearing
<1> QED
  BY <1>3, <1>4, RoundsFrame DEF Clearing

LEMMA RoundsStep ==
  ASSUME Chain # <<>>, Required >= Len(Chain)
  PROVE  RoundsInv /\ [RoundsNext]_vars => RoundsInv'
<1> SUFFICES ASSUME RoundsInv, [RoundsNext]_vars PROVE RoundsInv'
  OBVIOUS
<1>1. CASE UNCHANGED vars
  <2>1. TypeInv'
    BY <1>1, TypeInvStep DEF RoundsInv
  <2> QED
    BY <1>1, <2>1
    DEF vars, RoundsInv, OneHandler, At, Marks, ApprovedRecords, HadEveryStep, Cleared,
        Handler, Opened
<1>2. ASSUME NEW s \in Sessions, OthersIdle(s), TaskStep(s) \/ RequestStep(s),
             Runs(OneRound), NoAdmins
      PROVE  RoundsInv'
  <2>1. TypeInv'
    BY <1>2, TypeInvStep DEF RoundsInv, Next
  <2> QED
    BY <1>2, <2>1, RoundsLoads, RoundsTaskSteps, RoundsRequestSteps, RoundsCancels
    DEF TaskStep, RequestStep
<1> QED
  BY <1>1, <1>2 DEF RoundsNext, OneAtATime

LEMMA RoundsInit == Init => RoundsInv
<1> SUFFICES ASSUME Init PROVE RoundsInv
  OBVIOUS
<1>1. TypeInv /\ Len(Chain) \in Nat
  BY InitType, TaskConstants
<1>2. /\ task.step = 0 /\ task.status = "DRAFT" /\ records = {}
      /\ \A s \in Sessions : sess[s] = Idle
  BY DEF Init, NoTask
<1>3. Idle.pc = "idle" /\ Idle.u \notin Admins
  BY NobodyNoAdmin DEF Idle
<1> QED
  BY <1>1, <1>2, <1>3
  DEF RoundsInv, OneHandler, At, Marks, ApprovedRecords, Cleared, Handler, Opened,
      TaskHandlers, Clearing

(* Over any number of rounds of reviews, rejections, cancellations and     *)
(* forwards, handler after handler: a task is locked only after every step *)
(* of its chain was approved, provided the chain requires as many          *)
(* approvals as it has steps.  lock only counts records; that they are of  *)
(* different steps is what the record key and the kept chain position give.*)
THEOREM RoundsLocks ==
  ASSUME Required >= Len(Chain) PROVE ModeSpec => []RoundsLockedHadEveryStep
<1> DEFINE I == mode = "rounds" /\ Chain # <<>> => RoundsInv
<1>1. ModeInit => I
  BY RoundsInit DEF ModeInit
<1>2. I /\ [ModeNext]_<<mode, vars>> => I'
  <2>1. [ModeNext]_<<mode, vars>> => mode' = mode /\ (mode = "rounds" => [RoundsNext]_vars)
    BY DEF ModeNext
  <2> QED
    BY <2>1, RoundsStep
<1>3. I => RoundsLockedHadEveryStep
  <2>1. Chain = <<>> => DOMAIN Chain = {}
    OBVIOUS
  <2> QED
    BY <2>1
    DEF RoundsInv, Marks, HadEveryStep, ApprovedRecords, RoundsLockedHadEveryStep,
        LockedHadEveryStep
<1> HIDE DEF I
<1> QED
  BY <1>1, <1>2, <1>3, PTL DEF ModeSpec
-----------------------------------------------------------------------------
(***************************************************************************)
(* One handler at a time, each to its end, from the creation of the task:  *)
(* the serial setting.                                                     *)
(***************************************************************************)
(* The first step is decided by whoever was named at the creation.         *)
Approver(k) == IF k \in {0, 1} THEN Assigned ELSE Chain[k]

(* The task waits for the approver of its step.                            *)
Place ==
    /\ task.step \in 0..Len(Chain)
    /\ task.approver = Approver(task.step)
    /\ task.step = 0 => Chain = <<>> \/ task.status \in {"DRAFT", "SUBMITTED", "CANCELLED"}
    /\ task.step # 0 => task.status \notin {"DRAFT", "SUBMITTED"}

Deciders == \A r \in records : r.step \in DOMAIN Chain => r.by = Approver(r.step)

(* Task and request between two handlers: the same status, but that the    *)
(* request's review starts with the first decision, and until the end the  *)
(* same approver.                                                          *)
Agreed == Budget =>
    /\ \/ br.status = task.status
       \/ task.status = "UNDER_REVIEW" /\ br.status = "SUBMITTED"
    /\ task.status \in {"DRAFT", "SUBMITTED", "UNDER_REVIEW"} => br.approver = task.approver

(* x has decided the task for the approver the request still names, and    *)
(* takes to the request what it did to the task.                           *)
Passing(x) ==
    /\ x.op = "make_approval" /\ br.status \in {"SUBMITTED", "UNDER_REVIEW"}
    /\ br.approver = x.u /\ x.u \notin Admins
    /\ \/ x.want = "REJECTED" /\ x.next = None /\ task.status = "REJECTED"
       \/ x.want = "APPROVED" /\ x.next = None /\ task.status = "APPROVED"
       \/ x.want = "APPROVED" /\ x.next = task.approver /\ task.status = "UNDER_REVIEW"

OnTask(x) ==
    /\ x.pc \in InStep \cup {"lock_check"}
    /\ x.op = IF x.pc = "lock_check" THEN "lock" ELSE x.pc
    /\ Opened(x) /\ Agreed
    /\ x.u \notin Admins

OnRequest(x) ==
    \/ /\ x.pc = "br_read" /\ x.op = "submit"
       /\ task.status = "SUBMITTED" /\ br.status = "DRAFT" /\ br.approver = task.approver
    \/ /\ x.pc = "br_submit"
       /\ task.status = "SUBMITTED" /\ x.br.approver = task.approver
    \/ x.pc = "br_read" /\ Passing(x)
    \/ x.pc = "br_review" /\ Passing(x) /\ x.br = br
    \/ x.pc = "br_decide" /\ Passing(x) /\ x.br = br /\ br.status = "UNDER_REVIEW"
    \/ /\ x.pc = "br_read" /\ x.op = "unlock"
       /\ task.status = "APPROVED" /\ br.status = "LOCKED"
    \/ x.pc = "br_unlock" /\ task.status = "APPROVED"
    \/ x.pc = "br_cancel" /\ task.status = "CANCELLED"
    \/ x.pc = "br_lock" /\ task.status = "LOCKED" /\ br.status = "APPROVED"

Underway(x) ==
    \/ OnTask(x)
    \/ Budget /\ OnRequest(x)
    \/ /\ x.pc = "delete_records" /\ task.status = "CANCELLED"
       /\ Budget => br.status = "CANCELLED"

SerialInv ==
    /\ TypeInv /\ OneHandler /\ Place /\ Deciders
    /\ Quiet => Agreed
    /\ \A s \in Sessions : ~At(s, "idle") => Underway(sess[s])

LEMMA PlaceApprover == Place => task.approver \in Users /\ task.approver # None
<1> SUFFICES ASSUME Place PROVE task.approver \in Users
  BY TaskConstants
<1>1. CASE task.step \in {0, 1}
  BY <1>1, TaskConstants DEF Place, Approver
<1>2. CASE task.step \notin {0, 1}
  <2>1. Len(Chain) \in Nat /\ task.step \in DOMAIN Chain
    BY <1>2, TaskConstants DEF Place
  <2> QED
    BY <1>2, <2>1, ChainType DEF Place, Approver
<1> QED
  BY <1>1, <1>2

(* The other sessions stay idle, and the handler is left as y.             *)
LEMMA SerialFrame ==
  ASSUME SerialInv, TypeInv', NEW s \in Sessions, OthersIdle(s),
         NEW y \in Session, sess' = [sess EXCEPT ![s] = y],
         Place', Deciders',
         \/ y.pc = "idle" /\ Agreed'
         \/ y.pc # "idle" /\ Underway(y)'
  PROVE  SerialInv'
<1>1. sess \in [Sessions -> Session]
  BY DEF SerialInv, TypeInv, TypeOK, Session
<1>2. sess'[s] = y /\ \A t \in Sessions \ {s} : sess'[t] = sess[t] /\ sess[t].pc = "idle"
  BY <1>1 DEF OthersIdle, At
<1>3. OneHandler'
  BY <1>2 DEF OneHandler, At
<1>4. Quiet' => Agreed'
  BY <1>2 DEF Quiet, At
<1>5. ASSUME NEW t \in Sessions, ~At(t, "idle")' PROVE Underway(sess[t])'
  <2>1. t = s
    BY <1>2, <1>5 DEF At
  <2>2. sess'[t] = y
    BY <1>2, <2>1
  <2>3. y.pc # "idle"
    BY <1>5, <2>2 DEF At
  <2> QED
    BY <2>2, <2>3
<1> QED
  BY <1>3, <1>4, <1>5 DEF SerialInv

LEMMA SerialNow ==
  ASSUME SerialInv, NEW s \in Sessions, OthersIdle(s)
  PROVE  IF sess[s].pc = "idle" THEN Agreed ELSE Underway(sess[s])
  BY DEF SerialInv, OthersIdle, Quiet, At

(* Ending a handler that leaves task and request agreed.                   *)
LEMMA SerialEnd ==
  ASSUME SerialInv, TypeInv', NEW s \in Sessions, OthersIdle(s), Goto(s, "idle"),
         Place', Deciders', Agreed'
  PROVE  SerialInv'
<1>1. sess' = [sess EXCEPT ![s] = Idle] /\ Idle.pc = "idle"
  BY DEF Goto, Idle
<1> QED
  BY <1>1, IdleType, SerialFrame

LEMMA SerialLoads ==
  ASSUME SerialInv, TypeInv', NEW s \in Sessions, OthersIdle(s),
         Load(s) \/ LoadRequest(s), Runs(InStep), NoAdmins
  PROVE  SerialInv'
<1>1. sess \in [Sessions -> Session]
  BY DEF SerialInv, TypeInv, TypeOK, Session
<1>2. CASE Load(s)
  <2>1. PICK op \in Ops \cap TaskOps, u \in Users, want \in Statuses \cup {"-"},
             next \in Users \cup {None}, y \in Session :
           /\ sess[s].pc = "idle" /\ Opens(op, u, want, next)
           /\ sess' = [sess EXCEPT ![s] = y]
           /\ y.op = op /\ y.pc = IF op = "lock" THEN "lock_check" ELSE op
           /\ y.u = u /\ y.want = want /\ y.next = next /\ y.task = task
           /\ UNCHANGED <<task, br, records>>
    BY <1>2, Loaded DEF SerialInv
  <2>2. y.op \in InStep /\ y.u \notin Admins
    BY <1>1, <2>1 DEF Runs, NoAdmins, TaskOps
  <2>3. y.pc \in InStep \cup {"lock_check"} /\ Opened(y)
        /\ y.op = IF y.pc = "lock_check" THEN "lock" ELSE y.pc
    BY <2>1, <2>2 DEF Opens, Opened, MayCancel, InStep
  <2>4. Agreed
    BY <2>1, SerialNow
  <2>5. OnTask(y)' /\ y.pc # "idle"
    BY <2>1, <2>2, <2>3, <2>4 DEF OnTask, Opened, Agreed, InStep
  <2>6. Place' /\ Deciders'
    BY <2>1 DEF SerialInv, Place, Deciders
  <2> QED
    BY <2>1, <2>5, <2>6, SerialFrame DEF Underway
<1>3. CASE LoadRequest(s)
  <2>1. PICK op \in Ops \cap RequestOps, y \in Session :
           sess' = [sess EXCEPT ![s] = y] /\ y.op = op
    BY <1>3, RequestLoaded DEF SerialInv
  <2>2. sess'[s].op \in RequestOps
    BY <1>1, <2>1
  <2> QED
    BY <2>2 DEF Runs, InStep, RequestOps
<1> QED
  BY <1>2, <1>3

(* The steps on the request, as they take it to where the task is.         *)
LEMMA SerialRequestSteps ==
  ASSUME SerialInv, TypeInv', NEW s \in Sessions, OthersIdle(s), RequestStep(s),
         ~LoadRequest(s), PoolTakes
  PROVE  SerialInv'
<1> USE DEF At
<1> DEFINE x == sess[s]
<1>1. /\ x \in Session /\ br \in Rows /\ x.br \in Rows /\ task \in Tasks /\ Place
  BY DEF SerialInv, TypeInv, TypeOK, Session
<1>2. /\ x.pc # "idle" /\ x.pc \notin InStep \cup {"lock_check", "delete_records"}
      /\ UNCHANGED <<task, records>> \/ ProcessApproval(s)
  BY DEF RequestStep, ReadRequest, RequestSubmit, RequestReview, RequestRevise, RequestPatch,
         RequestUnlock, RequestCancel, RequestLock, ResolveNext, ProcessApproval,
         RefuseProcess, SaveRequest, Return, InStep
<1>3. Budget /\ OnRequest(x)
  BY <1>2, SerialNow DEF Underway, OnTask
<1>4. x.pc \in {"br_review", "br_decide"} \/ (x.pc = "br_read" /\ x.op = "make_approval") =>
         Passing(x) /\ ~Overrides(x.u, x.br) /\ ~Overrides(x.u, br)
  BY <1>3 DEF OnRequest, Passing, Overrides
<1>5. UNCHANGED <<task, records>> => Place' /\ Deciders'
  BY DEF SerialInv, Place, Deciders
<1>6. CASE ReadRequest(s)
  <2>1. x.pc = "br_read" /\ Follow(s, x, br) /\ UNCHANGED <<task, br, records>>
    BY <1>6 DEF ReadRequest
  <2>2. PICK y \in Session :
           /\ sess' = [sess EXCEPT ![s] = y]
           /\ \/ y = Idle /\ FollowUp(x, br) = "idle"
              \/ /\ y.pc = FollowUp(x, br) /\ y.pc # "idle"
                 /\ y.op = x.op /\ y.u = x.u /\ y.want = x.want /\ y.next = x.next
                 /\ y.br = br
    <3> HIDE DEF x
    <3> QED
      BY <1>1, <2>1, Followed
  <2>3. \/ x.op = "submit" /\ FollowUp(x, br) = "br_submit"
        \/ x.op = "unlock" /\ FollowUp(x, br) = "br_unlock" /\ task.status = "APPROVED"
        \/ /\ Passing(x)
           /\ FollowUp(x, br) = IF br.status = "SUBMITTED" THEN "br_review" ELSE "br_decide"
    <3> HIDE DEF x
    <3>1. \/ /\ x.op = "submit" /\ br.status = "DRAFT"
          \/ /\ x.op = "unlock" /\ br.status = "LOCKED" /\ task.status = "APPROVED"
          \/ Passing(x)
      BY <1>3, <2>1 DEF OnRequest
    <3>2. Passing(x) => x.op = "make_approval" /\ x.u = br.approver /\ x.u \notin Admins
                        /\ br.status \in {"SUBMITTED", "UNDER_REVIEW"}
      BY DEF Passing
    <3> QED
      BY <3>1, <3>2 DEF FollowUp, Processable, MayProcess, Overrides
  <2> HIDE DEF x
  <2>4. y.pc = FollowUp(x, br) /\ y.pc # "idle"
        /\ y.op = x.op /\ y.u = x.u /\ y.want = x.want /\ y.next = x.next /\ y.br = br
    BY <2>2, <2>3
  <2>5. OnRequest(y)'
    <3>1. CASE x.op = "submit" /\ FollowUp(x, br) = "br_submit"
      BY <1>3, <2>1, <2>4, <3>1 DEF OnRequest, Passing
    <3>2. CASE x.op = "unlock" /\ FollowUp(x, br) = "br_unlock" /\ task.status = "APPROVED"
      BY <2>1, <2>4, <3>2 DEF OnRequest
    <3>3. CASE /\ Passing(x)
               /\ FollowUp(x, br) = IF br.status = "SUBMITTED" THEN "br_review" ELSE "br_decide"
      <4>1. Passing(y)'
        BY <2>1, <2>4, <3>3 DEF Passing
      <4>2. br.status = "SUBMITTED" \/ br.status = "UNDER_REVIEW"
        BY <3>3 DEF Passing
      <4> QED
        BY <2>1, <2>4, <3>3, <4>1, <4>2 DEF OnRequest
    <3> QED
      BY <2>3, <3>1, <3>2, <3>3
  <2> QED
    BY <1>3, <1>5, <2>1, <2>2, <2>4, <2>5, SerialFrame DEF Underway
<1>7. CASE RequestSubmit(s)
  <2>1. br' = [x.br EXCEPT !.status = "SUBMITTED"] /\ task' = task /\ records' = records
        /\ Goto(s, "idle") /\ x.pc = "br_submit"
    BY <1>7 DEF RequestSubmit, SaveRequest
  <2>2. task.status = "SUBMITTED" /\ x.br.approver = task.approver
    BY <1>3, <2>1 DEF OnRequest
  <2>3. Agreed'
    BY <1>1, <2>1, <2>2 DEF Agreed, Rows
  <2> QED
    BY <1>5, <2>1, <2>3, SerialEnd
<1>8. CASE RequestReview(s)
  <2> DEFINE row == [x.br EXCEPT !.status = "UNDER_REVIEW"]
  <2>1. br' = row /\ UNCHANGED <<task, records>> /\ Follow(s, x, row) /\ x.pc = "br_review"
    BY <1>8 DEF RequestReview, SaveRequest
  <2>2. Passing(x) /\ x.br = br
    BY <1>3, <2>1 DEF OnRequest
  <2>3. row \in Rows /\ row.status = "UNDER_REVIEW" /\ row.approver = br.approver
    BY <1>1, <2>2 DEF Rows, Statuses
  <2> HIDE DEF row
  <2>4. FollowUp(x, row) = "br_decide"
    <3> HIDE DEF x
    <3> QED
      BY <2>2, <2>3 DEF Passing, FollowUp, Processable, MayProcess, Overrides
  <2>5. PICK y \in Session :
           /\ sess' = [sess EXCEPT ![s] = y] /\ y.pc = "br_decide"
           /\ y.op = x.op /\ y.u = x.u /\ y.want = x.want /\ y.next = x.next /\ y.br = row
    <3> HIDE DEF x
    <3> QED
      BY <1>1, <2>1, <2>3, <2>4, Followed
  <2>6. Passing(y)'
    BY <2>1, <2>2, <2>3, <2>5 DEF Passing
  <2>7. OnRequest(y)'
    BY <2>1, <2>3, <2>5, <2>6 DEF OnRequest
  <2> QED
    BY <1>3, <1>5, <2>1, <2>5, <2>7, SerialFrame DEF Underway
<1>9. CASE ProcessApproval(s)
  <2>1. x.pc = "br_decide"
    BY <1>9 DEF ProcessApproval
  <2>2. /\ task' = task /\ records' = records /\ Goto(s, "idle")
        /\ br' = IF x.want = "APPROVED" /\ x.next # None
                 THEN [br EXCEPT !.approver = x.next]
                 ELSE [br EXCEPT !.status = x.want]
    BY <1>4, <1>9, <2>1 DEF ProcessApproval
  <2>3. Passing(x) /\ br.status = "UNDER_REVIEW"
    BY <1>3, <2>1 DEF OnRequest
  <2>4. task.approver # None
    BY <1>1, PlaceApprover
  <2> HIDE DEF x
  <2>5. Agreed'
    <3>1. CASE x.want = "REJECTED" /\ task.status = "REJECTED"
      BY <1>1, <2>2, <3>1 DEF Agreed, Rows
    <3>2. CASE x.want = "APPROVED" /\ x.next = None /\ task.status = "APPROVED"
      BY <1>1, <2>2, <3>2 DEF Agreed, Rows
    <3>3. CASE x.want = "APPROVED" /\ x.next = task.approver /\ task.status = "UNDER_REVIEW"
      BY <1>1, <2>2, <2>3, <2>4, <3>3 DEF Agreed, Rows
    <3> QED
      BY <2>3, <3>1, <3>2, <3>3 DEF Passing
  <2> QED
    BY <1>5, <2>2, <2>5, SerialEnd
<1>10. CASE RequestUnlock(s)
  <2>1. br' = [br EXCEPT !.status = "APPROVED"] /\ UNCHANGED <<task, records>>
        /\ Goto(s, "idle") /\ x.pc = "br_unlock"
    BY <1>10 DEF RequestUnlock, SaveRequest
  <2>2. task.status = "APPROVED"
    BY <1>3, <2>1 DEF OnRequest
  <2>3. Agreed'
    BY <1>1, <2>1, <2>2 DEF Agreed, Rows
  <2> QED
    BY <1>5, <2>1, <2>3, SerialEnd
<1>11. CASE RequestCancel(s)
  <2>1. br' = [br EXCEPT !.status = "CANCELLED"] /\ UNCHANGED <<task, records>>
        /\ Goto(s, "delete_records") /\ x.pc = "br_cancel"
    BY <1>11 DEF RequestCancel, SaveRequest
  <2>2. task.status = "CANCELLED"
    BY <1>3, <2>1 DEF OnRequest
  <2>3. "delete_records" \in Steps
    BY DEF Steps
  <2>4. PICK y \in Session : sess' = [sess EXCEPT ![s] = y] /\ y.pc = "delete_records"
    BY <2>1, <2>3, Went DEF SerialInv
  <2>5. Underway(y)'
    BY <1>1, <2>1, <2>2, <2>4 DEF Underway, Rows
  <2> QED
    BY <1>5, <2>1, <2>4, <2>5, SerialFrame
<1>12. CASE RequestLock(s)
  <2>1. UNCHANGED <<task, records>> /\ Goto(s, "idle") /\ x.pc = "br_lock"
    BY <1>12 DEF RequestLock, SaveRequest
  <2>2. task.status = "LOCKED" /\ br.status = "APPROVED"
    BY <1>3, <2>1 DEF OnRequest
  <2>3. br'.status = "LOCKED"
    BY <2>1, <2>2 DEF PoolTakes
  <2>4. Agreed'
    BY <2>1, <2>2, <2>3 DEF Agreed
  <2> QED
    BY <1>5, <2>1, <2>4, SerialEnd
<1>13. ~RefuseProcess(s)
  <2> SUFFICES ASSUME RefuseProcess(s) PROVE FALSE
    OBVIOUS
  <2>1. x.pc = "br_decide"
    BY DEF RefuseProcess
  <2>2. Passing(x) /\ br.status = "UNDER_REVIEW" /\ ~Overrides(x.u, x.br)
    BY <1>3, <1>4, <2>1 DEF OnRequest
  <2>3. Processable(br) /\ SameStep(s)
    BY <2>2 DEF Processable, SameStep, Passing
  <2> QED
    BY <2>3 DEF RefuseProcess
<1>14. ~ResolveNext(s) /\ ~RequestRevise(s) /\ ~RequestPatch(s)
  BY <1>3 DEF ResolveNext, RequestRevise, RequestPatch, OnRequest
<1> QED
  BY <1>6, <1>7, <1>8, <1>9, <1>10, <1>11, <1>12, <1>13, <1>14 DEF RequestStep

(* A view writes the task it loaded and ends, or goes on to the request.   *)
LEMMA SerialSave ==
  ASSUME SerialInv, TypeInv', NEW s \in Sessions, OthersIdle(s), NEW row \in Tasks,
         NEW step \in {"idle", "br_read", "br_lock", "br_cancel", "delete_records"},
         Save(s, row, step), row.step = task.step, row.approver = task.approver,
         row.step = 0 => Chain = <<>> \/ row.status \in {"DRAFT", "SUBMITTED", "CANCELLED"},
         row.step # 0 => row.status \notin {"DRAFT", "SUBMITTED"},
         \/ step = "idle" /\ Agreed'
         \/ step = "delete_records" /\ ~Budget /\ row.status = "CANCELLED"
         \/ step = "br_cancel" /\ Budget /\ row.status = "CANCELLED"
         \/ step = "br_lock" /\ Budget /\ row.status = "LOCKED" /\ br.status = "APPROVED"
         \/ /\ step = "br_read" /\ Budget
            /\ \/ /\ sess[s].op = "submit" /\ row.status = "SUBMITTED"
                  /\ br.status = "DRAFT" /\ br.approver = row.approver
               \/ sess[s].op = "unlock" /\ row.status = "APPROVED" /\ br.status = "LOCKED"
  PROVE  SerialInv'
<1>1. step \in Steps /\ task' = row /\ UNCHANGED <<br, records>> /\ Goto(s, step)
  BY DEF Steps, Save
<1>2. PICK y \in Session :
        /\ sess' = [sess EXCEPT ![s] = y] /\ y.pc = step
        /\ step # "idle" => y.op = sess[s].op
  <2>1. Idle.pc = "idle"
    BY DEF Idle
  <2> QED
    BY <1>1, <2>1, Went DEF SerialInv
<1>3. Place' /\ Deciders'
  BY <1>1 DEF SerialInv, Place, Deciders
<1>4. step # "idle" => Underway(y)'
  BY <1>1, <1>2 DEF Underway, OnRequest
<1> QED
  BY <1>1, <1>2, <1>3, <1>4, SerialFrame

LEMMA SerialWrites ==
  ASSUME SerialInv, TypeInv', NEW s \in Sessions, OthersIdle(s),
         Submit(s) \/ Cancel(s) \/ Lock(s) \/ Unlock(s)
  PROVE  SerialInv'
<1> USE DEF At
<1>1. task \in Tasks /\ br \in Rows /\ Place
  BY DEF SerialInv, TypeInv, TypeOK
<1>2. sess[s].pc \in {"submit", "cancel", "lock", "unlock"} /\ OnTask(sess[s])
  <2>1. sess[s].pc \in {"submit", "cancel", "lock", "unlock"}
    BY DEF Submit, Cancel, Lock, Unlock
  <2> QED
    BY <2>1, SerialNow DEF Underway, OnRequest
<1>3. /\ sess[s].task = task /\ Agreed /\ sess[s].op = sess[s].pc
      /\ sess[s].pc = "submit" => task.status = "DRAFT"
      /\ sess[s].pc = "cancel" =>
            task.status \in {"SUBMITTED", "UNDER_REVIEW", "APPROVED", "REJECTED"}
      /\ sess[s].pc = "lock" => task.status = "APPROVED"
      /\ sess[s].pc = "unlock" => task.status = "LOCKED"
  BY <1>2 DEF OnTask, Opened, TaskHandlers
<1>4. ASSUME NEW status \in Statuses
      PROVE  LET row == [task EXCEPT !.status = status]
             IN  /\ row \in Tasks /\ row.step = task.step /\ row.approver = task.approver
                 /\ row.status = status
  BY <1>1 DEF Tasks
<1>5. CASE Submit(s)
  <2> DEFINE row == [task EXCEPT !.status = "SUBMITTED"]
  <2>1. row \in Tasks /\ row.step = task.step /\ row.approver = task.approver
        /\ row.status = "SUBMITTED"
    BY <1>4 DEF Statuses
  <2>2. Save(s, row, ForBudget("br_read")) /\ sess[s].pc = "submit"
    BY <1>3, <1>5 DEF Submit
  <2>3. (task.step = 0 /\ Agreed') \/ Budget
    BY <1>1, <1>3, <2>2 DEF Place, Agreed
  <2>4. task.step = 0
    BY <1>1, <1>3, <2>2 DEF Place
  <2> HIDE DEF row
  <2>5. CASE Budget
    BY <1>3, <2>1, <2>2, <2>4, <2>5, SerialSave DEF ForBudget, Agreed
  <2>6. CASE ~Budget
    BY <2>1, <2>2, <2>3, <2>4, <2>6, SerialSave DEF ForBudget
  <2> QED
    BY <2>5, <2>6
<1>6. CASE Cancel(s)
  <2> DEFINE row == [task EXCEPT !.status = "CANCELLED"]
  <2>1. row \in Tasks /\ row.step = task.step /\ row.approver = task.approver
        /\ row.status = "CANCELLED"
    BY <1>4 DEF Statuses
  <2>2. Save(s, row, IF Budget THEN "br_cancel" ELSE "delete_records")
    BY <1>3, <1>6 DEF Cancel
  <2> HIDE DEF row
  <2> QED
    BY <2>1, <2>2, SerialSave
<1>7. CASE Lock(s)
  <2> DEFINE row == [task EXCEPT !.status = "LOCKED"]
  <2>1. row \in Tasks /\ row.step = task.step /\ row.approver = task.approver
        /\ row.status = "LOCKED"
    BY <1>4 DEF Statuses
  <2>2. Save(s, row, ForBudget("br_lock")) /\ task.status = "APPROVED"
    BY <1>3, <1>7 DEF Lock
  <2>3. row.step = 0 => Chain = <<>>
    BY <1>1, <2>1, <2>2 DEF Place
  <2> HIDE DEF row
  <2>4. CASE Budget
    BY <1>3, <2>1, <2>2, <2>3, <2>4, SerialSave DEF ForBudget, Agreed
  <2>5. CASE ~Budget
    BY <2>1, <2>2, <2>3, <2>5, SerialSave DEF ForBudget, Agreed
  <2> QED
    BY <2>4, <2>5
<1>8. CASE Unlock(s)
  <2> DEFINE row == [task EXCEPT !.status = "APPROVED"]
  <2>1. row \in Tasks /\ row.step = task.step /\ row.approver = task.approver
        /\ row.status = "APPROVED"
    BY <1>4 DEF Statuses
  <2>2. Save(s, row, ForBudget("br_read")) /\ task.status = "LOCKED" /\ sess[s].op = "unlock"
    BY <1>3, <1>8 DEF Unlock
  <2>3. row.step = 0 => Chain = <<>>
    BY <1>1, <2>1, <2>2 DEF Place
  <2> HIDE DEF row
  <2>4. CASE Budget
    BY <1>3, <2>1, <2>2, <2>3, <2>4, SerialSave DEF ForBudget, Agreed
  <2>5. CASE ~Budget
    BY <2>1, <2>2, <2>3, <2>5, SerialSave DEF ForBudget, Agreed
  <2> QED
    BY <2>4, <2>5
<1> QED
  BY <1>5, <1>6, <1>7, <1>8

(* The review starts at the first step, for whoever was named.             *)
LEMMA SerialReview ==
  ASSUME SerialInv, TypeInv', NEW s \in Sessions, OthersIdle(s), StartReview(s)
  PROVE  SerialInv'
<1>1. task \in Tasks /\ Place /\ Deciders /\ Assigned # None /\ Len(Chain) \in Nat
  BY TaskConstants DEF SerialInv, TypeInv, TypeOK
<1>2. sess[s].pc = "start_review" /\ OnTask(sess[s])
  <2>1. sess[s].pc = "start_review"
    BY DEF StartReview, At
  <2> QED
    BY <2>1, SerialNow DEF Underway, OnRequest
<1>3. sess[s].task = task /\ Agreed /\ task.status = "SUBMITTED"
  BY <1>2 DEF OnTask, Opened, TaskHandlers
<1>4. task.step = 0 /\ task.approver = Assigned
  BY <1>1, <1>3 DEF Place, Approver
<1> DEFINE t == [task EXCEPT !.status = "UNDER_REVIEW"]
           first == [t EXCEPT !.step = 1, !.approver = IF @ = None THEN Chain[1] ELSE @]
<1>5. task' = (IF t.step = 0 /\ Chain # <<>> THEN first ELSE t)
      /\ UNCHANGED <<br, records>> /\ Goto(s, "idle")
  BY <1>3 DEF StartReview, Save
<1>6. /\ task'.status = "UNDER_REVIEW" /\ task'.approver = Assigned
      /\ task'.step = IF Chain # <<>> THEN 1 ELSE 0
  BY <1>1, <1>4, <1>5 DEF Tasks
<1> HIDE DEF t, first
<1>7. Place' /\ Deciders' /\ Agreed'
  <2>1. Chain # <<>> => Len(Chain) >= 1
    BY <1>1
  <2>2. Place'
    BY <1>1, <1>6, <2>1 DEF Place, Approver
  <2> QED
    BY <1>1, <1>3, <1>4, <1>5, <1>6, <2>2 DEF Deciders, Agreed
<1> QED
  BY <1>5, <1>7, SerialEnd

(* The decision, by the approver of the step and nobody else.              *)
LEMMA SerialDecision ==
  ASSUME SerialInv, TypeInv', NEW s \in Sessions, OthersIdle(s), MakeApproval(s)
  PROVE  SerialInv'
<1> DEFINE r == [step |-> StepNumber, round |-> task.round, by |-> sess[s].u,
                 approved |-> sess[s].want = "APPROVED"]
           t == Decided(s)
           x == [sess[s] EXCEPT !.next = InHand(t), !.pc = "br_read", !.task = NoTask]
<1>1. /\ task.status = "UNDER_REVIEW" /\ sess[s].pc = "make_approval"
      /\ Designated(sess[s].u) \/ (Budget /\ MayProcess(sess[s].u, br))
      /\ records' = records \cup {r} /\ task' = t /\ br' = br
      /\ IF Budget /\ ~Designated(sess[s].u) THEN Follow(s, x, br)
         ELSE sess' = [sess EXCEPT ![s] = IF Budget THEN x ELSE Idle]
  BY DEF MakeApproval, Decidable, At
<1>2. /\ sess[s] \in Session /\ sess[s].want \in {"APPROVED", "REJECTED"}
      /\ sess[s].u \in Users /\ task \in Tasks /\ br \in Rows /\ Place /\ Deciders
      /\ records \subseteq Records /\ Len(Chain) \in Nat
  BY <1>1, TaskConstants DEF SerialInv, TypeInv, TypeOK, Caller, Session, Decisions
<1>3. OnTask(sess[s])
  BY <1>1, SerialNow DEF Underway, OnRequest
<1>4. Agreed /\ sess[s].op = "make_approval" /\ sess[s].u \notin Admins
  BY <1>1, <1>3 DEF OnTask
<1>5. task.approver \in Users /\ task.approver # None
  BY <1>2, PlaceApprover
<1>6. sess[s].u = task.approver /\ Designated(sess[s].u)
  BY <1>1, <1>4, <1>5 DEF Designated, Unassigned, MayProcess, Agreed
<1>7. /\ task.step = 0 => Chain = <<>>
      /\ task.step # 0 => StepNumber = task.step
  BY <1>1, <1>2 DEF Place, StepNumber
<1>8. Deciders'
  <2>1. ASSUME NEW q \in records', q.step \in DOMAIN Chain PROVE q.by = Approver(q.step)
    <3>1. CASE q \in records
      BY <1>2, <2>1, <3>1 DEF Deciders
    <3>2. CASE q = r
      <4>1. q.step = StepNumber /\ q.by = task.approver
        BY <1>6, <3>2
      <4>2. task.step # 0
        BY <1>7, <2>1
      <4> QED
        BY <1>2, <1>7, <4>1, <4>2 DEF Place
    <3> QED
      BY <1>1, <2>1, <3>1, <3>2
  <2> QED
    BY <2>1 DEF Deciders
<1>9. \/ sess[s].want = "REJECTED" /\ t = [task EXCEPT !.status = "REJECTED"]
      \/ sess[s].want = "APPROVED" /\ t = [task EXCEPT !.status = "APPROVED"]
      \/ /\ sess[s].want = "APPROVED" /\ task.step \in 1..Len(Chain) - 1
         /\ t = [task EXCEPT !.step = @ + 1, !.approver = Chain[task.step + 1]]
  BY <1>2 DEF Decided, Locked, Advanced, Successor
<1>10. /\ \/ t.step = task.step /\ t.approver = task.approver
          \/ /\ t.step = task.step + 1 /\ task.step \in 1..Len(Chain) - 1
             /\ t.approver = Chain[t.step]
       /\ \/ sess[s].want = "REJECTED" /\ t.status = "REJECTED"
          \/ sess[s].want = "APPROVED" /\ t.status \in {"APPROVED", "UNDER_REVIEW"}
  <2> HIDE DEF t
  <2>1. CASE t = [task EXCEPT !.status = "REJECTED"] /\ sess[s].want = "REJECTED"
    BY <1>2, <2>1 DEF Tasks
  <2>2. CASE t = [task EXCEPT !.status = "APPROVED"] /\ sess[s].want = "APPROVED"
    BY <1>2, <2>2 DEF Tasks
  <2>3. CASE /\ sess[s].want = "APPROVED" /\ task.step \in 1..Len(Chain) - 1
             /\ t = [task EXCEPT !.step = @ + 1, !.approver = Chain[task.step + 1]]
    <3>1. t.step = task.step + 1 /\ t.approver = Chain[task.step + 1]
          /\ t.status = "UNDER_REVIEW"
      BY <1>1, <1>2, <2>3 DEF Tasks
    <3> QED
      BY <2>3, <3>1
  <2> QED
    BY <1>9, <2>1, <2>2, <2>3
<1>11. Place'
  <2> HIDE DEF t
  <2>1. task' = t
    BY <1>1
  <2>2. CASE t.step = task.step /\ t.approver = task.approver
    BY <1>1, <1>2, <1>10, <2>1, <2>2 DEF Place
  <2>3. CASE t.step = task.step + 1 /\ task.step \in 1..Len(Chain) - 1
             /\ t.approver = Chain[t.step]
    <3>1. t.step \in 2..Len(Chain)
      BY <1>2, <2>3
    <3> QED
      BY <1>2, <1>10, <2>1, <2>3, <3>1 DEF Place, Approver
  <2> QED
    BY <1>10, <2>2, <2>3
<1>12. CASE ~Budget
  <2>1. sess' = [sess EXCEPT ![s] = Idle] /\ Idle.pc = "idle"
    BY <1>1, <1>12 DEF Idle
  <2> QED
    BY <1>8, <1>11, <1>12, <2>1, IdleType, SerialFrame DEF Agreed
<1>13. CASE Budget
  <2>1. sess' = [sess EXCEPT ![s] = x]
    BY <1>1, <1>6, <1>13
  <2>2. /\ x \in Session /\ x.pc = "br_read" /\ x.op = sess[s].op /\ x.u = sess[s].u
        /\ x.want = sess[s].want /\ x.next = InHand(t)
    <3>1. NoTask \in Tasks /\ "br_read" \in Steps
      BY DEF NoTask, Tasks, Statuses, Steps
    <3> HIDE DEF t
    <3>2. InHand(t) \in Users \cup {None}
      BY DecidedType DEF t, SerialInv
    <3> QED
      BY <1>2, <3>1, <3>2 DEF Session
  <2>3. PICK y \in Session :
          /\ sess' = [sess EXCEPT ![s] = y]
          /\ y.pc = "br_read" /\ y.op = sess[s].op /\ y.u = sess[s].u
          /\ y.want = sess[s].want /\ y.next = InHand(t)
    <3> HIDE DEF x, t
    <3> QED
      BY <2>1, <2>2
  <2>4. br.status \in {"SUBMITTED", "UNDER_REVIEW"} /\ br.approver = task.approver
    BY <1>1, <1>4, <1>13 DEF Agreed
  <2>5. task' = t /\ br' = br
    BY <1>1
  <2> HIDE DEF t, x
  <2>6. Passing(y)'
    BY <1>4, <1>6, <1>10, <2>3, <2>4, <2>5 DEF Passing, InHand
  <2>7. Underway(y)'
    BY <1>13, <2>3, <2>6 DEF Underway, OnRequest
  <2> QED
    BY <1>8, <1>11, <2>3, <2>7, SerialFrame
<1> QED
  BY <1>12, <1>13

LEMMA SerialTaskSteps ==
  ASSUME SerialInv, TypeInv', NEW s \in Sessions, OthersIdle(s), TaskStep(s), ~Load(s)
  PROVE  SerialInv'
<1> USE DEF At
<1>1. /\ sess[s] \in Session /\ task \in Tasks
      /\ sess[s].pc # "idle" /\ Underway(sess[s])
      /\ UNCHANGED <<task, br, records>> => Place' /\ Deciders' /\ (Agreed => Agreed')
  <2>1. sess[s].pc # "idle"
    BY DEF TaskStep, Submit, StartReview, Forward, Cancel, Revise, LockCheck, Lock, Unlock,
           Patch, Bulk, MakeApproval, RefuseApproval, DeleteRecords
  <2> QED
    BY <2>1, SerialNow
    DEF SerialInv, TypeInv, TypeOK, Session, Place, Deciders, Agreed
<1>2. ~Forward(s) /\ ~Revise(s) /\ ~Patch(s) /\ ~Bulk(s)
  BY <1>1 DEF Forward, Revise, Patch, Bulk, Underway, OnTask, OnRequest, InStep
<1>3. CASE LockCheck(s)
  <2>1. OnTask(sess[s]) /\ UNCHANGED <<task, br, records>>
    BY <1>1, <1>3 DEF LockCheck, Underway, OnRequest
  <2>2. Agreed
    BY <2>1 DEF OnTask
  <2>3. CASE Goto(s, "idle")
    BY <1>1, <2>1, <2>2, <2>3, SerialEnd
  <2>4. CASE sess' = [sess EXCEPT ![s].pc = "lock"]
    <3>1. PICK y \in Session :
            /\ sess' = [sess EXCEPT ![s] = y]
            /\ y.pc = "lock" /\ y.op = sess[s].op /\ y.u = sess[s].u /\ y.task = sess[s].task
      <4> DEFINE y == [sess[s] EXCEPT !.pc = "lock"]
      <4>1. /\ y \in Session /\ y.pc = "lock" /\ y.op = sess[s].op /\ y.u = sess[s].u
            /\ y.task = sess[s].task
        BY <1>1 DEF Session, Steps, TaskOps
      <4>2. sess' = [sess EXCEPT ![s] = y]
        BY <2>4 DEF SerialInv, TypeInv, TypeOK
      <4> HIDE DEF y
      <4> QED
        BY <4>1, <4>2
    <3>2. sess[s].pc = "lock_check"
      BY <1>3 DEF LockCheck
    <3>3. sess[s].op = "lock" /\ sess[s].u \notin Admins /\ sess[s].task = task
          /\ task.status = "APPROVED"
      BY <2>1, <3>2 DEF OnTask, Opened, TaskHandlers
    <3>4. OnTask(y)'
      BY <1>1, <2>1, <2>2, <3>1, <3>3 DEF OnTask, Opened, TaskHandlers, InStep
    <3> QED
      BY <1>1, <2>1, <3>1, <3>4, SerialFrame DEF Underway
  <2> QED
    BY <1>3, <2>3, <2>4 DEF LockCheck
<1>4. CASE RefuseApproval(s)
  <2>1. OnTask(sess[s]) /\ UNCHANGED <<task, br, records>> /\ Goto(s, "idle")
    BY <1>1, <1>4 DEF RefuseApproval, Return, Underway, OnRequest
  <2> QED
    BY <1>1, <2>1, SerialEnd DEF OnTask
<1>5. CASE DeleteRecords(s)
  <2>1. /\ records' = {} /\ UNCHANGED <<task, br>> /\ Goto(s, "idle")
        /\ sess[s].pc = "delete_records"
    BY <1>5 DEF DeleteRecords
  <2>2. task.status = "CANCELLED" /\ (Budget => br.status = "CANCELLED")
    BY <1>1, <2>1 DEF Underway, OnTask, OnRequest, InStep
  <2>3. Place' /\ Deciders' /\ Agreed'
    BY <2>1, <2>2 DEF SerialInv, Place, Deciders, Agreed
  <2> QED
    BY <2>1, <2>3, SerialEnd
<1> QED
  BY <1>2, <1>3, <1>4, <1>5, SerialWrites, SerialReview, SerialDecision DEF TaskStep

LEMMA SerialInit == Init => SerialInv
<1> SUFFICES ASSUME Init PROVE SerialInv
  OBVIOUS
<1>1. TypeInv /\ Len(Chain) \in Nat
  BY InitType, TaskConstants
<1>2. /\ task.step = 0 /\ task.status = "DRAFT" /\ task.approver = Assigned
      /\ br.status = "DRAFT" /\ br.approver = Assigned /\ records = {}
      /\ \A s \in Sessions : sess[s].pc = "idle"
  BY DEF Init, NoTask, NoRow, Idle
<1> QED
  BY <1>1, <1>2 DEF SerialInv, OneHandler, At, Place, Approver, Deciders, Agreed

LEMMA SerialStep == SerialInv /\ [SerialNext]_vars => SerialInv'
<1> SUFFICES ASSUME SerialInv, [SerialNext]_vars PROVE SerialInv'
  OBVIOUS
<1>1. CASE UNCHANGED vars
  <2>1. TypeInv'
    BY <1>1, TypeInvStep DEF SerialInv
  <2>2. \A s \in Sessions : Underway(sess[s]) => Underway(sess[s])'
    BY <1>1 DEF vars, Underway, OnTask, OnRequest, Opened, Agreed, Passing
  <2> QED
    BY <1>1, <2>1, <2>2 DEF vars, SerialInv, OneHandler, Quiet, At, Place, Deciders, Agreed
<1>2. ASSUME NEW s \in Sessions, OthersIdle(s), TaskStep(s) \/ RequestStep(s),
             Runs(InStep), NoAdmins, PoolTakes
      PROVE  SerialInv'
  <2>1. TypeInv'
    BY <1>2, TypeInvStep DEF SerialInv, Next
  <2> QED
    BY <1>2, <2>1, SerialLoads, SerialTaskSteps, SerialRequestSteps
    DEF TaskStep, RequestStep
<1> QED
  BY <1>1, <1>2 DEF SerialNext, OneAtATime

LEMMA SerialAlways == ModeSpec => [](mode = "serial" => SerialInv)
<1> DEFINE I == mode = "serial" => SerialInv
<1>1. ModeInit => I
  BY SerialInit DEF ModeInit
<1>2. I /\ [ModeNext]_<<mode, vars>> => I'
  <2>1. [ModeNext]_<<mode, vars>> => mode' = mode /\ (mode = "serial" => [SerialNext]_vars)
    BY DEF ModeNext
  <2> QED
    BY <2>1, SerialStep
<1> HIDE DEF I
<1> QED
  <2>1. ModeSpec => []I
    BY <1>1, <1>2, PTL DEF ModeSpec
  <2> QED
    BY <2>1 DEF I

(* Handler after handler, each run to its end and the pool taking what is  *)
(* approved, a request has the status its task was decided, locked or      *)
(* cancelled with, whatever the chain and whoever was named first.         *)
THEOREM SerialAgreement == ModeSpec => []SerialInSync
<1>1. (mode = "serial" => SerialInv) => SerialInSync
  BY DEF SerialInv, Agreed, SerialInSync, InSync
<1> QED
  BY <1>1, SerialAlways, PTL

(* In the same setting every step is decided by its own approver, if the   *)
(* task was created for the first of its chain: start_review keeps whoever *)
(* was named, chain or no chain.                                           *)
THEOREM SerialDeciders ==
  ASSUME Chain # <<>> => Assigned = Chain[1]
  PROVE  ModeSpec => []SerialByDesignated
<1>1. (mode = "serial" => SerialInv) => SerialByDesignated
  <2>1. Chain = <<>> => DOMAIN Chain = {}
    OBVIOUS
  <2>2. \A k \in DOMAIN Chain : Approver(k) = Chain[k]
    <3>1. \A k \in DOMAIN Chain : k \in {0, 1} => k = 1
      BY TaskConstants
    <3> QED
      BY <2>1, <3>1 DEF Approver
  <2> QED
    BY <2>2 DEF SerialInv, Deciders, SerialByDesignated, DecidedByDesignated
<1> QED
  BY <1>1, SerialAlways, PTL
-----------------------------------------------------------------------------
(***************************************************************************)
(* Concurrent calls of the decision endpoint, admins among the callers, of *)
(* a task and a request under review: the override setting.                *)
(***************************************************************************)
(* Until the request is decided, both wait at the same step, and the audit *)
(* is numbered up to it.                                                   *)
Ahead ==
    br.status = "UNDER_REVIEW" =>
        /\ br.approver = task.approver /\ task.approver = Approver(task.step)
        /\ task.step \in 0..Len(Chain)
        /\ task.step = 0 <=> Chain = <<>>
        /\ {r.step : r \in records} = 1..(task.step - 1)

(* What x has read is of an earlier step, or of this one: of the request   *)
(* first, and then, for an override, of the task.                          *)
Late(x) ==
    /\ x.pc \in {"idle", "br_next", "br_decide"}
    /\ x.next = None
    /\ (x.pc # "idle" /\ br.status = "UNDER_REVIEW" /\ Chain # <<>>) =>
          \E j \in 1..task.step :
             /\ x.br.approver = Approver(j)
             /\ (x.pc = "br_decide" /\ x.want = "APPROVED" /\ Overrides(x.u, x.br)) =>
                    x.task.step \in j..task.step

OverrideInv == TypeInv /\ Ahead /\ \A s \in Sessions : Late(sess[s])

(* Nobody is to decide two steps.                                          *)
Distinct == \A i, j \in DOMAIN Chain : Approver(i) = Approver(j) => i = j

LEMMA OverrideFrame ==
  ASSUME OverrideInv, TypeInv', NEW s \in Sessions, NEW y \in Session,
         sess' = [sess EXCEPT ![s] = y], Ahead', Late(y)',
         br'.status = "UNDER_REVIEW" => br.status = "UNDER_REVIEW" /\ task'.step >= task.step
  PROVE  OverrideInv'
<1>1. /\ sess \in [Sessions -> Session] /\ task.step \in Nat /\ task'.step \in Nat
  BY DEF OverrideInv, TypeInv, TypeOK, Session, Tasks
<1>2. ASSUME NEW t \in Sessions PROVE Late(sess[t])'
  <2>1. CASE t = s
    <3>1. sess'[t] = y
      BY <1>1, <2>1
    <3> QED
      BY <3>1
  <2>2. CASE t # s
    <3>1. sess'[t] = sess[t] /\ Late(sess[t]) /\ sess[t].task.step \in Nat
      BY <1>1, <2>2 DEF OverrideInv, Session, Tasks
    <3>2. SUFFICES ASSUME sess[t].pc # "idle", br'.status = "UNDER_REVIEW", Chain # <<>>
                   PROVE  \E j \in 1..task'.step :
                            /\ sess[t].br.approver = Approver(j)
                            /\ (/\ sess[t].pc = "br_decide" /\ sess[t].want = "APPROVED"
                                /\ Overrides(sess[t].u, sess[t].br)) =>
                                   sess[t].task.step \in j..task'.step
      BY <3>1 DEF Late
    <3>3. PICK j \in 1..task.step :
            /\ sess[t].br.approver = Approver(j)
            /\ (/\ sess[t].pc = "br_decide" /\ sess[t].want = "APPROVED"
                /\ Overrides(sess[t].u, sess[t].br)) =>
                   sess[t].task.step \in j..task.step
      BY <3>1, <3>2 DEF Late
    <3>4. j \in 1..task'.step /\ \A k \in j..task.step : k \in j..task'.step
      BY <1>1, <3>2
    <3> QED
      BY <3>3, <3>4
  <2> QED
    BY <2>1, <2>2
<1> QED
  BY <1>2 DEF OverrideInv

(* The end of a handler that has written nothing.                          *)
LEMMA OverrideEnd ==
  ASSUME OverrideInv, TypeInv', NEW s \in Sessions, Return(s)
  PROVE  OverrideInv'
<1>1. /\ sess' = [sess EXCEPT ![s] = Idle] /\ UNCHANGED <<task, br, records>>
      /\ Idle.pc = "idle" /\ Idle.next = None /\ task.step \in Nat
  BY DEF Return, Goto, Idle, OverrideInv, TypeInv, TypeOK, Tasks
<1>2. Ahead' /\ Late(Idle)'
  BY <1>1 DEF OverrideInv, Ahead, Late
<1>3. br' = br /\ task' = task /\ task.step >= task.step
  BY <1>1
<1> QED
  BY <1>1, <1>2, <1>3, IdleType, OverrideFrame

LEMMA OverrideLoads ==
  ASSUME OverrideInv, TypeInv', NEW s \in Sessions, LoadRequest(s),
         Runs({"decision"}), NobodyNamed
  PROVE  OverrideInv'
<1>1. sess \in [Sessions -> Session] /\ task.step \in Nat /\ Len(Chain) \in Nat
  BY TaskConstants DEF OverrideInv, TypeInv, TypeOK, Session, Tasks
<1>2. PICK op \in Ops \cap RequestOps, u \in Users, want \in Decisions \cup {"-"},
           next \in Named \cup {None}, y \in Session :
         /\ sess' = [sess EXCEPT ![s] = y]
         /\ y.op = op /\ y.u = u /\ y.want = want /\ y.next = next /\ y.br = br
         /\ op = "decision" =>
               /\ Processable(br)
               /\ y.pc = IF Overrides(u, br) /\ want = "APPROVED" THEN "br_next"
                         ELSE "br_decide"
         /\ UNCHANGED <<task, br, records>>
  BY RequestLoaded DEF OverrideInv, RequestOps
<1>3. sess'[s] = y
  BY <1>1, <1>2
<1>4. y.next = None /\ y.op = "decision"
  BY <1>2, <1>3 DEF Runs, NobodyNamed, RequestOps
<1>5. Ahead' /\ br.status = "UNDER_REVIEW"
  BY <1>2, <1>4 DEF OverrideInv, Ahead, Processable
<1>6. Chain # <<>> => task.step \in 1..task.step /\ br.approver = Approver(task.step)
  BY <1>1, <1>5 DEF OverrideInv, Ahead
<1>7. Late(y)'
  <2>1. y.pc \in {"br_next", "br_decide"}
        /\ ~(y.pc = "br_decide" /\ y.want = "APPROVED" /\ Overrides(y.u, y.br))
    BY <1>2, <1>4
  <2> QED
    BY <1>2, <1>4, <1>6, <2>1 DEF Late
<1>8. br' = br /\ task' = task /\ task.step >= task.step
  BY <1>1, <1>2
<1> QED
  BY <1>2, <1>5, <1>7, <1>8, OverrideFrame

(* The task is read after the request: its step can only be a later one.   *)
LEMMA OverrideResolves ==
  ASSUME OverrideInv, TypeInv', NEW s \in Sessions, ResolveNext(s)
  PROVE  OverrideInv'
<1> DEFINE y == [sess[s] EXCEPT !.pc = "br_decide", !.task = task]
<1>1. /\ sess[s] \in Session /\ task \in Tasks /\ task.step \in Nat /\ Late(sess[s]) /\ Ahead
      /\ sess[s].pc = "br_next" /\ UNCHANGED <<task, br, records>>
      /\ sess' = [sess EXCEPT ![s] = y]
  BY DEF ResolveNext, At, OverrideInv, TypeInv, TypeOK, Session, Tasks
<1>2. /\ y \in Session /\ y.pc = "br_decide" /\ y.next = sess[s].next /\ y.br = sess[s].br
      /\ y.task = task
  BY <1>1 DEF Session, Steps
<1>3. PICK z \in Session :
        /\ sess' = [sess EXCEPT ![s] = z] /\ z.pc = "br_decide"
        /\ z.next = sess[s].next /\ z.br = sess[s].br /\ z.task = task
  <2> HIDE DEF y
  <2> QED
    BY <1>1, <1>2
<1> HIDE DEF y
<1>4. Ahead'
  BY <1>1 DEF Ahead
<1>5. Late(z)'
  <2>1. \A j \in 1..task.step : task.step \in j..task.step
    BY <1>1
  <2> QED
    BY <1>1, <1>3, <2>1 DEF Late
<1>6. br' = br /\ task' = task /\ task.step >= task.step
  BY <1>1
<1> QED
  BY <1>3, <1>4, <1>5, <1>6, OverrideFrame

(* The number after the last of 1, 2, ..., k - 1.                          *)
LEMMA AuditNumber ==
  ASSUME TypeInv, NEW k \in Nat, k # 0, {r.step : r \in records} = 1..(k - 1)
  PROVE  AuditStep = k
<1>1. CASE records = {}
  <2>1. ~(1 \in 1..(k - 1))
    BY <1>1
  <2> QED
    BY <1>1, <2>1 DEF AuditStep
<1>2. CASE records # {}
  <2>1. \A r \in records : r.step \in 1..(k - 1)
    OBVIOUS
  <2>2. k - 1 \in 1..(k - 1)
    BY <1>2, <2>1
  <2>3. PICK last \in records : last.step = k - 1
    BY <2>2
  <2> DEFINE top == CHOOSE n \in {r.step : r \in records} : \A r \in records : r.step <= n
  <2>4. \E n \in {r.step : r \in records} : \A r \in records : r.step <= n
    BY <2>1, <2>2
  <2>5. top \in 1..(k - 1) /\ \A r \in records : r.step <= top
    BY <2>4
  <2>6. AuditStep = 1 + top
    BY <1>2 DEF AuditStep
  <2> HIDE DEF top
  <2>7. top = k - 1
    BY <2>3, <2>5
  <2> QED
    BY <2>6, <2>7
<1> QED
  BY <1>1, <1>2

(* A decision is taken of the step both rows wait at, or not at all.       *)
LEMMA OverrideDecides ==
  ASSUME OverrideInv, TypeInv', Distinct, NEW s \in Sessions, ProcessApproval(s)
  PROVE  OverrideInv'
<1> DEFINE x == sess[s]
           audit == [step |-> AuditStep, round |-> task.round, by |-> x.u, approved |-> TRUE]
<1>1. /\ x.pc = "br_decide" /\ br.status = "UNDER_REVIEW" /\ SameStep(s)
      /\ sess' = [sess EXCEPT ![s] = Idle]
      /\ x \in Session /\ task \in Tasks /\ br \in Rows /\ x.want \in {"APPROVED", "REJECTED"}
      /\ x.next = None /\ Ahead /\ Late(x) /\ Len(Chain) \in Nat
  BY TaskConstants
  DEF ProcessApproval, Processable, Goto, At, OverrideInv, Late, TypeInv, TypeOK, Caller,
      Session, Decisions
<1>2. Late(Idle)'
  BY DEF Late, Idle
<1>3. \/ br' = [br EXCEPT !.status = x.want]
      \/ /\ Overrides(x.u, x.br) /\ x.want = "APPROVED" /\ Successor(x.task) # None
         /\ br' = [br EXCEPT !.approver = Successor(x.task)]
         /\ task' = [task EXCEPT !.approver = Successor(x.task), !.step = x.task.step + 1]
         /\ records' = records \cup {audit}
  BY <1>1 DEF ProcessApproval
<1> HIDE DEF x
<1>4. CASE br' = [br EXCEPT !.status = x.want]
  <2>1. br'.status # "UNDER_REVIEW"
    BY <1>1, <1>4 DEF Rows
  <2>2. Ahead'
    BY <2>1 DEF Ahead
  <2> QED
    BY <1>1, <1>2, <2>1, <2>2, IdleType, OverrideFrame
<1>5. CASE /\ Overrides(x.u, x.br) /\ x.want = "APPROVED" /\ Successor(x.task) # None
           /\ br' = [br EXCEPT !.approver = Successor(x.task)]
           /\ task' = [task EXCEPT !.approver = Successor(x.task), !.step = x.task.step + 1]
           /\ records' = records \cup {audit}
  <2>1. x.task.step \in 1..Len(Chain) - 1 /\ Successor(x.task) = Chain[x.task.step + 1]
        /\ Chain # <<>>
    BY <1>1, <1>5 DEF Successor
  <2>2. PICK j \in 1..task.step :
          x.br.approver = Approver(j) /\ x.task.step \in j..task.step
    BY <1>1, <1>5, <2>1 DEF Late
  <2>3. Approver(j) = Approver(task.step)
    BY <1>1, <1>5, <2>2 DEF SameStep, Ahead, x
  <2>4. task.step \in 1..Len(Chain) /\ j \in 1..Len(Chain)
    BY <1>1, <2>1, <2>2 DEF Ahead, Tasks
  <2>5. j = task.step
    BY <1>1, <2>3, <2>4, TaskConstants DEF Distinct
  <2>6. x.task.step = task.step
    BY <2>2, <2>4, <2>5
  <2>7. /\ task'.step = task.step + 1 /\ task'.approver = Chain[task.step + 1]
        /\ br'.approver = task'.approver /\ br'.status = "UNDER_REVIEW"
    BY <1>1, <1>5, <2>1, <2>6 DEF Tasks, Rows
  <2>8. {r.step : r \in records} = 1..(task.step - 1)
    BY <1>1 DEF Ahead
  <2>9. AuditStep = task.step
    BY <2>4, <2>8, AuditNumber DEF OverrideInv
  <2>10. {r.step : r \in records'} = 1..task.step
    <3>1. {r.step : r \in records'} = {r.step : r \in records} \cup {audit.step}
      BY <1>5
    <3>2. audit.step = task.step
      BY <2>9
    <3>3. 1..task.step = 1..(task.step - 1) \cup {task.step}
      BY <2>4
    <3> HIDE DEF audit
    <3> QED
      BY <2>8, <3>1, <3>2, <3>3
  <2>11. Ahead'
    <3>1. task'.step \in 2..Len(Chain) /\ task'.step - 1 = task.step
      BY <1>1, <2>1, <2>4, <2>6, <2>7
    <3> QED
      BY <2>1, <2>7, <2>10, <3>1 DEF Ahead, Approver
  <2>12. task'.step >= task.step
    BY <2>4, <2>7
  <2> QED
    BY <1>1, <1>2, <2>11, <2>12, IdleType, OverrideFrame
<1> QED
  BY <1>3, <1>4, <1>5

LEMMA OverrideStep == Distinct /\ OverrideInv /\ [OverrideNext]_vars => OverrideInv'
<1> SUFFICES ASSUME Distinct, OverrideInv, [OverrideNext]_vars PROVE OverrideInv'
  OBVIOUS
<1> USE DEF At
<1>1. TypeInv'
  BY TypeInvStep DEF OverrideNext, OverrideInv
<1>2. CASE UNCHANGED vars
  BY <1>1, <1>2 DEF vars, OverrideInv, Ahead, Late
<1>3. ASSUME NEW s \in Sessions, TaskStep(s) \/ RequestStep(s) \/ Crash(s),
             Runs({"decision"}), NobodyNamed
      PROVE  OverrideInv'
  <2>1. sess \in [Sessions -> Session] /\ sess[s].pc \in {"idle", "br_next", "br_decide"}
    BY DEF OverrideInv, Late, TypeInv, TypeOK, Session
  <2>2. ~Load(s)
    <3> SUFFICES ASSUME Load(s) PROVE FALSE
      OBVIOUS
    <3>1. PICK op \in Ops \cap TaskOps, y \in Session :
            sess' = [sess EXCEPT ![s] = y] /\ y.op = op
      BY Loaded DEF OverrideInv
    <3>2. sess'[s].op \in TaskOps
      BY <2>1, <3>1
    <3> QED
      BY <1>3, <3>2 DEF Runs, TaskOps
  <2>3. CASE Crash(s) \/ RefuseProcess(s)
    BY <1>1, <2>3, OverrideEnd DEF Crash, RefuseProcess
  <2>4. CASE LoadRequest(s)
    BY <1>1, <1>3, <2>4, OverrideLoads
  <2>5. CASE ResolveNext(s)
    BY <1>1, <2>5, OverrideResolves
  <2>6. CASE ProcessApproval(s)
    BY <1>1, <2>6, OverrideDecides
  <2>7. ~TaskStep(s)
    BY <2>1, <2>2
    DEF TaskStep, Submit, StartReview, Forward, Cancel, Revise, LockCheck, Lock, Unlock,
        Patch, Bulk, MakeApproval, RefuseApproval, DeleteRecords
  <2>8. RequestStep(s) => \/ LoadRequest(s) \/ ResolveNext(s) \/ ProcessApproval(s)
                          \/ RefuseProcess(s)
    BY <2>1
    DEF RequestStep, ReadRequest, RequestSubmit, RequestReview, RequestRevise, RequestPatch,
        RequestUnlock, RequestCancel, RequestLock
  <2> QED
    BY <1>3, <2>3, <2>4, <2>5, <2>6, <2>7, <2>8
<1> QED
  BY <1>2, <1>3 DEF OverrideNext, Next

LEMMA OverrideInit == ReviewInit => OverrideInv
<1> SUFFICES ASSUME ReviewInit PROVE OverrideInv
  OBVIOUS
<1>1. TypeInv /\ Len(Chain) \in Nat /\ (Chain = <<>> <=> Len(Chain) = 0)
  BY InitType, TaskConstants
<1>2. /\ task.step = (IF Chain = <<>> THEN 0 ELSE 1) /\ task.approver = Assigned
      /\ br.approver = Assigned /\ records = {}
      /\ \A s \in Sessions : sess[s] = Idle
  BY DEF ReviewInit
<1>3. Ahead
  <2>1. {r.step : r \in records} = {} /\ 1..(task.step - 1) = {}
    BY <1>2
  <2> QED
    BY <1>1, <1>2, <2>1 DEF Ahead, Approver
<1>4. \A s \in Sessions : Late(sess[s])
  BY <1>2 DEF Late, Idle
<1> QED
  BY <1>1, <1>3, <1>4 DEF OverrideInv

(* However the calls of the decision endpoint interleave or die, task and  *)
(* request wait for the same person and the audit has one number for each  *)
(* step passed, if nobody is to decide two steps.  process_approval tells  *)
(* a late override by the approver of the step it was meant for: were the  *)
(* same person asked again two steps on, it would not be late.             *)
THEOREM OverrideTogether ==
  ASSUME Distinct PROVE ModeSpec => []OverridePointersTogether
<1> DEFINE I == mode = "override" => OverrideInv
<1>1. ModeInit => I
  BY OverrideInit DEF ModeInit
<1>2. I /\ [ModeNext]_<<mode, vars>> => I'
  <2>1. [ModeNext]_<<mode, vars>> =>
           mode' = mode /\ (mode = "override" => [OverrideNext]_vars)
    BY DEF ModeNext
  <2> QED
    BY <2>1, OverrideStep
<1>3. I => OverridePointersTogether
  BY DEF OverrideInv, Ahead, OverridePointersTogether, PointersTogether
<1> HIDE DEF I
<1> QED
  BY <1>1, <1>2, <1>3, PTL DEF ModeSpec
-----------------------------------------------------------------------------
(* The request's own state machine.  A handler that is about to save the   *)
(* request has it in hand in the status the edge starts from; the decision *)
(* and the lock read it again.                                             *)
Saving == {"br_submit", "br_review", "br_revise", "br_patch", "br_unlock"}

Edge(x) ==
    /\ x.pc \in Saving => x.br.status = br.status
    /\ x.pc = "br_submit" => br.status = "DRAFT"
    /\ x.pc = "br_review" => br.status = "SUBMITTED"
    /\ x.pc = "br_revise" => Resets(br)
    /\ x.pc = "br_unlock" => br.status = "LOCKED"

LEMMA EdgeMoves ==
  ASSUME NEW source, NEW target,
         \/ source = {"DRAFT"} /\ target = "SUBMITTED"
         \/ source = {"SUBMITTED"} /\ target = "UNDER_REVIEW"
         \/ source = {"UNDER_REVIEW"} /\ target \in Decisions
         \/ source = {"APPROVED"} /\ target = "LOCKED"
         \/ source = {"LOCKED"} /\ target = "APPROVED"
         \/ source = {"REJECTED", "CANCELLED"} /\ target = "DRAFT"
         \/ source = Statuses \ {"CANCELLED"} /\ target = "CANCELLED",
         br.status \in source, br'.status = target
  PROVE  Lifecycle!Next
<1>1. Lifecycle!Move("br", source, target)
  BY DEF Lifecycle!Move
<1> QED
  BY <1>1 DEF Lifecycle!Next, Lifecycle!Submit, Lifecycle!SendForReview, Lifecycle!Approve,
     Lifecycle!Reject, Lifecycle!Lock, Lifecycle!Unlock, Lifecycle!Revise, Lifecycle!Cancel,
     Lifecycle!Statuses, Decisions, Statuses

LEMMA EdgeTaken ==
  ASSUME TypeInv, NEW s \in Sessions, Edge(sess[s]),
         TaskStep(s) \/ RequestStep(s) \/ Crash(s)
  PROVE  [Lifecycle!Next]_<<br.status>>
<1> USE DEF At
<1>1. br \in Rows /\ sess[s].br \in Rows
  BY DEF TypeInv, TypeOK
<1>2. CASE UNCHANGED br
  BY <1>2
<1>3. CASE RequestSubmit(s)
  <2>1. br.status = "DRAFT" /\ br'.status = "SUBMITTED"
    BY <1>1, <1>3 DEF RequestSubmit, SaveRequest, Edge, Rows
  <2> QED
    BY <2>1, EdgeMoves
<1>4. CASE RequestReview(s)
  <2>1. br.status = "SUBMITTED" /\ br'.status = "UNDER_REVIEW"
    BY <1>1, <1>4 DEF RequestReview, SaveRequest, Edge, Rows
  <2> QED
    BY <2>1, EdgeMoves
<1>5. CASE RequestRevise(s)
  <2>1. br.status \in {"REJECTED", "CANCELLED"} /\ br'.status = "DRAFT"
    BY <1>5 DEF RequestRevise, SaveRequest, Edge, Resets
  <2> QED
    BY <2>1, EdgeMoves
<1>6. CASE RequestPatch(s)
  <2>1. br'.status = br.status
    BY <1>1, <1>6 DEF RequestPatch, SaveRequest, Edge, Saving, Rows
  <2> QED
    BY <2>1
<1>7. CASE RequestUnlock(s)
  <2>1. br.status = "LOCKED" /\ br'.status = "APPROVED"
    BY <1>1, <1>7 DEF RequestUnlock, SaveRequest, Edge, Rows
  <2> QED
    BY <2>1, EdgeMoves
<1>8. CASE RequestCancel(s)
  <2>1. br'.status = "CANCELLED" /\ br.status \in Statuses
    BY <1>1, <1>8 DEF RequestCancel, SaveRequest, Rows
  <2>2. CASE br.status = "CANCELLED"
    BY <2>1, <2>2
  <2>3. CASE br.status \in Statuses \ {"CANCELLED"}
    BY <2>1, <2>3, EdgeMoves
  <2> QED
    BY <2>1, <2>2, <2>3
<1>9. CASE RequestLock(s)
  <2>1. \/ br.status = "APPROVED" /\ br'.status = "LOCKED"
        \/ br'.status = br.status
    BY <1>1, <1>9 DEF RequestLock, SaveRequest, Rows
  <2>2. CASE br.status = "APPROVED" /\ br'.status = "LOCKED"
    BY <2>2, EdgeMoves
  <2> QED
    BY <2>1, <2>2
<1>10. CASE ProcessApproval(s)
  <2>1. sess[s].want \in Decisions
    BY <1>10 DEF ProcessApproval, TypeInv, Caller
  <2>2. /\ br.status = "UNDER_REVIEW"
        /\ br'.status = sess[s].want \/ br'.status = br.status
    BY <1>1, <1>10 DEF ProcessApproval, Processable, Rows
  <2>3. CASE br'.status = sess[s].want
    BY <2>1, <2>2, <2>3, EdgeMoves
  <2> QED
    BY <2>2, <2>3
<1> QED
  BY <1>2, <1>3, <1>4, <1>5, <1>6, <1>7, <1>8, <1>9, <1>10
  DEF TaskStep, RequestStep, Crash, Load, Submit, StartReview, Forward, Cancel, Revise,
      LockCheck, Lock, Unlock, Patch, Bulk, MakeApproval, RefuseApproval, DeleteRecords,
      LoadRequest, ReadRequest, ResolveNext, RefuseProcess, Return, Save

(* What a handler takes in hand it has just read.                          *)
LEMMA EdgeFollowed ==
  ASSUME NEW s \in Sessions, NEW x \in Session, NEW row \in Rows, Follow(s, x, row),
         row = br'
  PROVE  \E y \in Session : sess' = [sess EXCEPT ![s] = y] /\ Edge(y)'
<1>1. PICK y \in Session :
           /\ sess' = [sess EXCEPT ![s] = y]
           /\ \/ y = Idle
              \/ y.pc = FollowUp(x, row) /\ y.br = row
  BY Followed
<1>2. CASE y = Idle
  <2>1. Edge(y)'
    BY <1>2 DEF Edge, Idle, Saving
  <2> QED
    BY <1>1, <2>1
<1>3. CASE y.pc = FollowUp(x, row) /\ y.br = row
  <2>1. Edge(y)'
    BY <1>3 DEF Edge, FollowUp, Saving, Resets
  <2> QED
    BY <1>1, <2>1
<1> QED
  BY <1>1, <1>2, <1>3

LEMMA EdgeInHand ==
  ASSUME TypeInv, NEW s \in Sessions, TaskStep(s) \/ RequestStep(s) \/ Crash(s)
  PROVE  \E y \in Session : sess' = [sess EXCEPT ![s] = y] /\ Edge(y)'
<1> DEFINE Goal == \E y \in Session : sess' = [sess EXCEPT ![s] = y] /\ Edge(y)'
<1>1. sess[s] \in Session /\ sess[s].br \in Rows /\ br \in Rows /\ task \in Tasks
      /\ sess \in [Sessions -> Session]
  BY DEF TypeInv, TypeOK, Session
<1>2. ASSUME NEW y \in Session, sess' = [sess EXCEPT ![s] = y], y.pc \notin Saving
      PROVE  Goal
  <2>1. Edge(y)'
    BY <1>2 DEF Edge, Saving
  <2> QED
    BY <1>2, <2>1
<1>3. ASSUME NEW step \in Steps \ Saving, Goto(s, step) PROVE Goal
  <2>1. PICK y \in Session : sess' = [sess EXCEPT ![s] = y] /\ (y = Idle \/ y.pc = step)
    BY <1>3, Went
  <2>2. y.pc \notin Saving
    BY <2>1 DEF Idle, Saving
  <2> QED
    BY <1>2, <2>1, <2>2
<1>4. /\ {"idle", "br_read", "br_cancel", "delete_records", "br_lock"} \subseteq Steps \ Saving
      /\ {ForBudget("br_read"), ForBudget("br_lock")} \subseteq Steps \ Saving
      /\ (IF Budget THEN "br_cancel" ELSE "delete_records") \in Steps \ Saving
  BY DEF Steps, ForBudget, Saving
<1>5. ASSUME NEW x \in Session, NEW row \in Rows, Follow(s, x, row), row = br'
      PROVE Goal
  BY <1>5, EdgeFollowed
<1> SUFFICES Goal
  OBVIOUS
<1> HIDE DEF Goal
<1>6. CASE Load(s)
  <2>1. PICK op \in Ops \cap TaskOps, y \in Session :
          /\ sess' = [sess EXCEPT ![s] = y]
          /\ y.pc = IF op = "lock" THEN "lock_check" ELSE op
    BY <1>6, Loaded
  <2>2. y.pc \notin Saving
    BY <2>1 DEF TaskOps, Saving
  <2> QED
    BY <1>2, <2>1, <2>2
<1>7. CASE \/ Submit(s) \/ StartReview(s) \/ Forward(s) \/ Cancel(s) \/ Revise(s)
           \/ Lock(s) \/ Unlock(s) \/ Patch(s)
  BY <1>3, <1>4, <1>7
  DEF Submit, StartReview, Forward, Cancel, Revise, Lock, Unlock, Patch, Save
<1>8. CASE LockCheck(s)
  <2>1. CASE Goto(s, "idle")
    BY <1>3, <1>4, <2>1
  <2>2. CASE sess' = [sess EXCEPT ![s].pc = "lock"]
    <3> DEFINE y == [sess[s] EXCEPT !.pc = "lock"]
    <3>1. y \in Session /\ y.pc = "lock"
      BY <1>1 DEF Session, Steps, TaskOps
    <3>2. sess' = [sess EXCEPT ![s] = y]
      BY <1>1, <2>2
    <3>3. y.pc \notin Saving
      BY <3>1 DEF Saving
    <3> HIDE DEF y
    <3> QED
      BY <1>2, <3>1, <3>2, <3>3
  <2> QED
    BY <1>8, <2>1, <2>2 DEF LockCheck
<1>9. CASE Bulk(s)
  BY <1>3, <1>4, <1>9 DEF Bulk, Save, Return
<1>10. CASE MakeApproval(s)
  <2> DEFINE hand == InHand(Decided(s))
             x == [sess[s] EXCEPT !.next = hand, !.pc = "br_read", !.task = NoTask]
  <2>1. /\ br' = br
        /\ \/ Follow(s, x, br)
           \/ sess' = [sess EXCEPT ![s] = x]
           \/ sess' = [sess EXCEPT ![s] = Idle]
    BY <1>10 DEF MakeApproval
  <2>2. x \in Session /\ x.pc \notin Saving /\ Idle.pc \notin Saving
    <3>1. hand \in Users \cup {None}
      BY <1>1, DecidedType
    <3>2. NoTask \in Tasks /\ "br_read" \in Steps
      BY DEF NoTask, Tasks, Statuses, Steps
    <3>3. x \in Session /\ x.pc = "br_read"
      <4> HIDE DEF hand
      <4> QED
        BY <1>1, <3>1, <3>2 DEF Session
    <3> QED
      BY <3>3 DEF Saving, Idle
  <2> HIDE DEF x
  <2> QED
    BY <1>1, <1>2, <1>5, <2>1, <2>2, IdleType
<1>11. CASE RefuseApproval(s) \/ DeleteRecords(s)
  BY <1>3, <1>4, <1>11 DEF RefuseApproval, DeleteRecords, Return
<1>12. CASE ReadRequest(s)
  BY <1>1, <1>5, <1>12 DEF ReadRequest
<1>13. CASE RequestReview(s)
  <2>1. [sess[s].br EXCEPT !.status = "UNDER_REVIEW"] \in Rows
    BY <1>1 DEF Rows, Statuses
  <2> QED
    BY <1>1, <1>5, <1>13, <2>1 DEF RequestReview, SaveRequest
<1>14. CASE \/ RequestSubmit(s) \/ RequestRevise(s) \/ RequestPatch(s) \/ RequestUnlock(s)
            \/ RequestCancel(s) \/ RequestLock(s) \/ ProcessApproval(s) \/ RefuseProcess(s)
            \/ Crash(s)
  BY <1>3, <1>4, <1>14
  DEF RequestSubmit, RequestRevise, RequestPatch, RequestUnlock, RequestCancel,
      RequestLock, ProcessApproval, RefuseProcess, Crash, Return
<1>15. CASE ResolveNext(s)
  <2> DEFINE y == [sess[s] EXCEPT !.pc = "br_decide", !.task = task]
  <2>1. y \in Session /\ y.pc \notin Saving
    BY <1>1 DEF Session, Steps, Saving
  <2>2. sess' = [sess EXCEPT ![s] = y]
    BY <1>1, <1>15 DEF ResolveNext
  <2> HIDE DEF y
  <2> QED
    BY <1>2, <2>1, <2>2
<1>16. CASE LoadRequest(s)
  <2>1. PICK op \in Ops \cap RequestOps, u \in Users, want \in Decisions \cup {"-"},
            next \in Named \cup {None} :
        LET x == [Idle EXCEPT !.op = op, !.u = u, !.want = want, !.next = next]
        IN  Follow(s, x, br) /\ UNCHANGED <<task, br, records>>
    BY <1>16 DEF LoadRequest
  <2> DEFINE x == [Idle EXCEPT !.op = op, !.u = u, !.want = want, !.next = next]
  <2>2. op \in AllOps /\ want \in Statuses \cup {"-"} /\ next \in Users \cup {None}
    BY TaskConstants DEF AllOps, RequestOps, Decisions, Statuses
  <2>3. x \in Session
    BY <2>2, IdleType DEF Session
  <2>4. Follow(s, x, br) /\ br' = br
    BY <2>1
  <2> HIDE DEF x
  <2> QED
    BY <1>1, <1>5, <2>3, <2>4
<1> QED
  BY <1>6, <1>7, <1>8, <1>9, <1>10, <1>11, <1>12, <1>13, <1>14, <1>15, <1>16
  DEF TaskStep, RequestStep

(* One handler at a time, over every operation, killed at any point.       *)
Sole == \E s \in Sessions : OthersIdle(s) /\ (TaskStep(s) \/ RequestStep(s) \/ Crash(s))

SoleInv == TypeInv /\ \A s \in Sessions : Edge(sess[s])

LEMMA SoleStep == SoleInv /\ [Sole]_vars => SoleInv' /\ [Lifecycle!Next]_<<br.status>>
<1> SUFFICES ASSUME SoleInv, [Sole]_vars
             PROVE  SoleInv' /\ [Lifecycle!Next]_<<br.status>>
  OBVIOUS
<1>1. TypeInv'
  <2>1. Sole => Next
    BY DEF Sole, Next
  <2> QED
    BY <2>1, TypeInvStep DEF SoleInv
<1>2. CASE UNCHANGED vars
  BY <1>1, <1>2 DEF vars, SoleInv, Edge, Resets
<1>3. ASSUME NEW s \in Sessions, OthersIdle(s), TaskStep(s) \/ RequestStep(s) \/ Crash(s)
      PROVE  SoleInv' /\ [Lifecycle!Next]_<<br.status>>
  <2>1. PICK y \in Session : sess' = [sess EXCEPT ![s] = y] /\ Edge(y)'
    BY <1>3, EdgeInHand DEF SoleInv
  <2>2. \A t \in Sessions \ {s} : sess'[t] = sess[t] /\ sess'[t].pc = "idle"
    BY <1>3, <2>1 DEF OthersIdle, At, SoleInv, TypeInv, TypeOK
  <2>3. sess'[s] = y
    BY <2>1 DEF SoleInv, TypeInv, TypeOK
  <2>4. ASSUME NEW t \in Sessions PROVE Edge(sess[t])'
    <3>1. CASE t = s
      BY <2>1, <2>3, <3>1 DEF Edge
    <3>2. CASE t # s
      BY <2>2, <3>2 DEF Edge, Saving
    <3> QED
      BY <3>1, <3>2
  <2>5. [Lifecycle!Next]_<<br.status>>
    BY <1>3, EdgeTaken DEF SoleInv
  <2> QED
    BY <1>1, <2>4, <2>5 DEF SoleInv
<1> QED
  BY <1>2, <1>3 DEF Sole

(* Decisions race each other, over either endpoint; each tests the request *)
(* again under its lock, so one that is decided stays as it was decided.   *)
RacingInv ==
    /\ TypeInv
    /\ br.status \in {"UNDER_REVIEW", "APPROVED", "REJECTED"}
    /\ \A s \in Sessions :
           /\ sess[s].pc \in {"idle", "make_approval", "br_read", "br_next", "br_decide"}
           /\ sess[s].op \in {"idle", "make_approval", "decision"}

LEMMA RacingStep ==
  ASSUME RacingInv, [Next]_vars, Runs({"make_approval", "decision"})
  PROVE  RacingInv' /\ [Lifecycle!Next]_<<br.status>>
<1>1. TypeInv'
  BY TypeInvStep DEF RacingInv
<1>2. CASE UNCHANGED vars
  BY <1>1, <1>2 DEF vars, RacingInv
<1>3. ASSUME NEW s \in Sessions, TaskStep(s) \/ RequestStep(s) \/ Crash(s)
      PROVE  RacingInv' /\ [Lifecycle!Next]_<<br.status>>
  <2> USE DEF At
  <2>1. [Lifecycle!Next]_<<br.status>>
    <3>1. Edge(sess[s])
      BY DEF RacingInv, Edge, Saving
    <3> QED
      BY <1>3, <3>1, EdgeTaken DEF RacingInv
  <2>2. /\ sess'[s].op \in {"idle", "make_approval", "decision"}
        /\ sess[s].pc \in {"idle", "make_approval", "br_read", "br_next", "br_decide"}
        /\ sess[s].op \in {"idle", "make_approval", "decision"}
    BY DEF Runs, RacingInv
  <2>3. br'.status \in {"UNDER_REVIEW", "APPROVED", "REJECTED"}
    <3>1. CASE ProcessApproval(s)
      <4>1. sess[s].want \in Decisions
        BY <3>1 DEF ProcessApproval, RacingInv, TypeInv, Caller
      <4>2. br \in Rows
        BY DEF RacingInv, TypeInv, TypeOK
      <4>3. \/ \E next : br' = [br EXCEPT !.approver = next]
            \/ br' = [br EXCEPT !.status = sess[s].want]
        BY <3>1 DEF ProcessApproval
      <4>4. br'.status = br.status \/ br'.status = sess[s].want
        BY <4>2, <4>3 DEF Rows
      <4> QED
        BY <4>1, <4>4 DEF RacingInv, Decisions
    <3>2. CASE ~ProcessApproval(s)
      <4>1. /\ ~RequestSubmit(s) /\ ~RequestReview(s) /\ ~RequestRevise(s)
            /\ ~RequestPatch(s) /\ ~RequestUnlock(s) /\ ~RequestCancel(s) /\ ~RequestLock(s)
        BY <2>2 DEF RequestSubmit, RequestReview, RequestRevise, RequestPatch, RequestUnlock,
                    RequestCancel, RequestLock
      <4>2. TaskStep(s) => br' = br
        BY DEF TaskStep, Load, Submit, StartReview, Forward, Cancel, Revise, LockCheck,
               Lock, Unlock, Patch, Bulk, MakeApproval, RefuseApproval, DeleteRecords,
               Return, Save
      <4>3. RequestStep(s) \/ Crash(s) => br' = br
        BY <3>2, <4>1 DEF RequestStep, Crash, LoadRequest, ReadRequest, ResolveNext,
                          RefuseProcess, Return
      <4>4. br' = br
        BY <1>3, <4>2, <4>3
      <4> QED
        BY <4>4 DEF RacingInv
    <3> QED
      BY <3>1, <3>2
  <2> DEFINE Racing == {"idle", "make_approval", "br_read", "br_next", "br_decide"}
  <2>4. \E y \in Session : sess' = [sess EXCEPT ![s] = y] /\ y.pc \in Racing
    <3> DEFINE Goal == \E y \in Session : sess' = [sess EXCEPT ![s] = y] /\ y.pc \in Racing
    <3>1. sess \in [Sessions -> Session] /\ sess[s] \in Session /\ br \in Rows
      BY DEF RacingInv, TypeInv, TypeOK, Session
    <3>2. ASSUME NEW x \in Session, Follow(s, x, br), x.op \in {"make_approval", "decision"}
          PROVE  Goal
      <4>1. PICK y \in Session :
              sess' = [sess EXCEPT ![s] = y] /\ (y = Idle \/ y.pc = FollowUp(x, br))
        BY <3>1, <3>2, Followed
      <4>2. FollowUp(x, br) \in Racing
        BY <3>2 DEF FollowUp, RacingInv
      <4>3. y.pc \in Racing
        BY <4>1, <4>2 DEF Idle
      <4> QED
        BY <4>1, <4>3
    <3>3. ASSUME NEW step \in {"idle", "br_decide"}, Goto(s, step) PROVE Goal
      <4>1. step \in Steps
        BY DEF Steps
      <4>2. PICK y \in Session :
              sess' = [sess EXCEPT ![s] = y] /\ (y = Idle \/ y.pc = step)
        BY <3>3, <4>1, Went DEF RacingInv
      <4>3. y.pc \in Racing
        BY <4>2 DEF Idle
      <4> QED
        BY <4>2, <4>3
    <3> SUFFICES Goal
      OBVIOUS
    <3>4. CASE Load(s)
      <4>1. PICK op \in Ops \cap TaskOps, y \in Session :
              /\ sess' = [sess EXCEPT ![s] = y] /\ y.op = op
              /\ y.pc = IF op = "lock" THEN "lock_check" ELSE op
        BY <3>4, Loaded DEF RacingInv
      <4>2. sess'[s] = y
        BY <3>1, <4>1
      <4> QED
        BY <2>2, <4>1, <4>2 DEF TaskOps
    <3>5. CASE LoadRequest(s)
      <4>1. PICK op \in Ops \cap RequestOps, y \in Session :
              /\ sess' = [sess EXCEPT ![s] = y] /\ y.op = op
              /\ op = "decision" => y.pc \in {"br_next", "br_decide"}
        BY <3>5, RequestLoaded DEF RacingInv
      <4>2. sess'[s] = y
        BY <3>1, <4>1
      <4> QED
        BY <2>2, <4>1, <4>2 DEF RequestOps
    <3>6. CASE MakeApproval(s)
      <4> DEFINE x == [sess[s] EXCEPT !.next = InHand(Decided(s)), !.pc = "br_read",
                                      !.task = NoTask]
      <4>1. \/ Follow(s, x, br)
            \/ sess' = [sess EXCEPT ![s] = x]
            \/ sess' = [sess EXCEPT ![s] = Idle]
        BY <3>6 DEF MakeApproval
      <4>2. x \in Session /\ x.pc = "br_read" /\ x.op = sess[s].op
        BY <3>1, DecidedType DEF RacingInv, TypeInv, TypeOK, Session, NoTask, Tasks, Statuses,
                                 Steps
      <4>3. sess[s].op \in {"make_approval", "decision"}
        BY <3>6 DEF MakeApproval, RacingInv, TypeInv, Caller
      <4> HIDE DEF x
      <4>4. Idle.pc \in Racing
        BY DEF Idle
      <4> QED
        BY <3>2, <4>1, <4>2, <4>3, <4>4, IdleType
    <3>7. CASE ReadRequest(s)
      <4>1. sess[s].op \in {"make_approval", "decision"} \/ sess[s].op = "idle"
        BY <2>2
      <4>2. CASE sess[s].op = "idle"
        <5>1. FollowUp(sess[s], br) = "idle"
          BY <4>2 DEF FollowUp
        <5>2. sess' = [sess EXCEPT ![s] = Idle]
          BY <3>7, <5>1 DEF ReadRequest, Follow
        <5> QED
          BY <5>2, IdleType DEF Idle
      <4> QED
        BY <3>1, <3>2, <3>7, <4>1, <4>2 DEF ReadRequest
    <3>8. CASE ResolveNext(s)
      <4> DEFINE y == [sess[s] EXCEPT !.pc = "br_decide", !.task = task]
      <4>1. y \in Session /\ y.pc = "br_decide"
        BY <3>1 DEF RacingInv, TypeInv, TypeOK, Session, Steps
      <4>2. sess' = [sess EXCEPT ![s] = y]
        BY <3>1, <3>8 DEF ResolveNext
      <4> HIDE DEF y
      <4> QED
        BY <4>1, <4>2
    <3>9. CASE RefuseApproval(s) \/ ProcessApproval(s) \/ RefuseProcess(s) \/ Crash(s)
      BY <3>3, <3>9 DEF RefuseApproval, ProcessApproval, RefuseProcess, Crash, Return
    <3> HIDE DEF Goal
    <3> QED
      BY <1>3, <2>2, <3>4, <3>5, <3>6, <3>7, <3>8, <3>9
      DEF TaskStep, RequestStep, Submit, StartReview, Forward, Cancel, Revise,
          LockCheck, Lock, Unlock, Patch, Bulk, DeleteRecords,
          RequestSubmit, RequestReview, RequestRevise, RequestPatch, RequestUnlock,
          RequestCancel, RequestLock
  <2>5. \A t \in Sessions : sess'[t].pc \in Racing
    BY <2>4 DEF RacingInv, TypeInv, TypeOK
  <2> QED
    BY <1>1, <2>1, <2>3, <2>5 DEF RacingInv, Runs
<1> QED
  BY <1>2, <1>3 DEF Next

LEMMA RacingInit == ReviewInit => RacingInv
  BY InitType DEF ReviewInit, RacingInv, Idle

(* Every handler of the task and of the request, run to its end or killed  *)
(* on the way, moves the request along the edges of its own state machine: *)
(* for any chain, users and operations, admins and callers that name an    *)
(* approver included.                                                      *)
THEOREM HandlersKeepLifecycle == Init /\ [][Sole]_vars => RequestLifecycle
<1>1. Init => SoleInv
  BY InitType DEF Init, SoleInv, Edge, Saving, Idle
<1> QED
  BY <1>1, SoleStep, PTL DEF RequestLifecycle

(* The same in the settings of MC_TaskModes that have its constants: no    *)
(* interleaving of decisions and crashes leaves those edges either.        *)
THEOREM SettingsKeepLifecycle ==
  ModeSpec /\ mode \in {"linked", "override", "serial", "rounds"} => RequestLifecycle
<1> DEFINE MInv == \/ mode \in {"linked", "override"} /\ RacingInv
                   \/ mode \in {"serial", "rounds"} /\ SoleInv
<1>1. ModeInit /\ mode \in {"linked", "override", "serial", "rounds"} => MInv
  BY RacingInit, InitType DEF ModeInit, Init, SoleInv, Edge, Saving, Idle
<1>2. MInv /\ [ModeNext]_<<mode, vars>> => MInv' /\ [Lifecycle!Next]_<<br.status>>
  <2> SUFFICES ASSUME MInv, [ModeNext]_<<mode, vars>>
               PROVE  MInv' /\ [Lifecycle!Next]_<<br.status>>
    OBVIOUS
  <2>1. mode' = mode
    BY DEF ModeNext
  <2>2. CASE mode \in {"linked", "override"} /\ RacingInv
    <3>1. RacingInv' /\ [Lifecycle!Next]_<<br.status>>
      <4>1. CASE UNCHANGED vars
        <5>1. RacingInv' /\ br' = br
          BY <2>2, <4>1, TypeInvStep DEF vars, RacingInv
        <5> QED
          BY <5>1
      <4>2. CASE LinkedNext \/ OverrideNext
        <5>1. Next /\ Runs({"make_approval", "decision"})
          BY <4>2 DEF LinkedNext, OverrideNext, Runs
        <5> QED
          BY <2>2, <5>1, RacingStep
      <4> QED
        BY <2>2, <4>1, <4>2 DEF ModeNext
    <3> QED
      BY <2>1, <2>2, <3>1
  <2>3. CASE mode \in {"serial", "rounds"} /\ SoleInv
    <3>1. [Sole]_vars
      BY <2>3 DEF ModeNext, SerialNext, RoundsNext, OneAtATime, Sole
    <3> QED
      BY <2>1, <2>3, <3>1, SoleStep
  <2> QED
    BY <2>2, <2>3
<1> QED
  BY <1>1, <1>2, PTL DEF ModeSpec, RequestLifecycle
=============================================================================
