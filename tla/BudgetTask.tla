----------------------------- MODULE BudgetTask -----------------------------
(***************************************************************************)
(* One task, the approval chain it walks and, when it is a budget task, the*)
(* budget request linked to it.  A session is one handler run.  Its steps  *)
(* are the statements and transactions that other handlers can come        *)
(* between: the load of the task (get_object, no lock), the write of the   *)
(* task, and then, outside the task's transaction, the synchronisation of  *)
(* the request, whose errors the views log and swallow.  Task.save() and   *)
(* BudgetRequest.save() write every column of the loaded instance.         *)
(***************************************************************************)
EXTENDS Naturals, Sequences, FiniteSets

CONSTANTS
    Sessions,   \* handler runs that may be in progress at once
    Users,      \* members of the task's project
    Owner,      \* owner of the task and author of the request
    Admins,     \* the organisation's admins among the users
    Chain,      \* approvers of the chain configured for the task, in order
    Required,   \* effective_required_approvals of that chain
    Assigned,   \* the approver named when task and request were created
    Budget,     \* is the task a budget task with a linked request?
    Named,      \* whom callers of the request's endpoints may name as approver
    PoolAdmits, \* what the pool may answer when a request is to be locked
    MaxRounds,  \* bound on the revisions of the task
    MaxRecords, \* bound on the approval records when a decision is asked for
    Ops,        \* the operations exercised by a run
    None        \* nobody

Statuses == {"DRAFT", "SUBMITTED", "UNDER_REVIEW", "APPROVED", "REJECTED",
             "LOCKED", "CANCELLED"}
Decisions == {"APPROVED", "REJECTED"}
TaskOps == {"submit", "start_review", "make_approval", "cancel", "revise",
            "forward", "lock", "unlock", "patch", "bulk"}
RequestOps == {"decision", "request_review", "request_patch"}
AllOps == TaskOps \cup RequestOps \cup {"crash"}

ASSUME TaskConstants ==
    /\ None \notin Users
    /\ Owner \in Users /\ Assigned \in Users /\ Admins \subseteq Users
    /\ Chain \in Seq(Users)
    /\ Required \in Nat /\ MaxRounds \in Nat /\ MaxRecords \in Nat
    /\ Named \subseteq Users \cup {None}
    /\ Budget \in BOOLEAN /\ PoolAdmits \subseteq BOOLEAN
    /\ Ops \subseteq AllOps

VARIABLES
    task,     \* the task row
    br,       \* the budget_request row
    records,  \* the task's approval records
    sess      \* the handler each session runs and what it has read

vars == <<task, br, records, sess>>

Steps == TaskOps \cup
    {"idle", "lock_check", "delete_records", "br_read", "br_submit", "br_review",
     "br_next", "br_decide", "br_cancel", "br_lock", "br_unlock", "br_revise",
     "br_patch"}

(* step is current_approval_step, 0 when it is null; approval_chain is set *)
(* together with it and never unset.                                       *)
Tasks == [status : Statuses, step : Nat, approver : Users \cup {None}, round : Nat]
Rows == [status : Statuses, approver : Users \cup {None}]
Records == [step : Nat, round : Nat, by : Users, approved : BOOLEAN]

NoTask == [status |-> "DRAFT", step |-> 0, approver |-> None, round |-> 0]
NoRow == [status |-> "DRAFT", approver |-> None]
Idle == [op |-> "idle", pc |-> "idle", u |-> None, want |-> "-", next |-> None,
         task |-> NoTask, br |-> NoRow]

(* u makes the call; want is the decision or target status it asks for,    *)
(* next the approver it names or has in hand.                              *)
TypeOK ==
    /\ task \in Tasks
    /\ br \in Rows
    /\ records \subseteq Records
    /\ sess \in [Sessions -> [op : AllOps \cup {"idle"}, pc : Steps,
                              u : Users \cup {None}, want : Statuses \cup {"-"},
                              next : Users \cup {None}, task : Tasks, br : Rows]]

Init ==
    /\ task = [NoTask EXCEPT !.approver = Assigned]
    /\ br = [NoRow EXCEPT !.approver = Assigned]
    /\ records = {}
    /\ sess = [s \in Sessions |-> Idle]

(* The same system once the task is submitted and its review has started.  *)
ReviewInit ==
    /\ task = [status |-> "UNDER_REVIEW", step |-> IF Chain = <<>> THEN 0 ELSE 1,
               approver |-> Assigned, round |-> 0]
    /\ br = [status |-> "UNDER_REVIEW", approver |-> Assigned]
    /\ records = {}
    /\ sess = [s \in Sessions |-> Idle]
-----------------------------------------------------------------------------
(* Control of a session.                                                   *)

At(s, step) == sess[s].pc = step

(* The loaded task is used once; "idle" is the return of the view.         *)
Goto(s, step) ==
    sess' = [sess EXCEPT ![s] =
               IF step = "idle" THEN Idle ELSE [@ EXCEPT !.pc = step, !.task = NoTask]]

Return(s) == Goto(s, "idle") /\ UNCHANGED <<task, br, records>>

ForBudget(step) == IF Budget THEN step ELSE "idle"

(* Who may do what, on the rows as a handler sees them.                    *)
Unassigned(t, u) == t.approver \in {None, u}

MayEdit(u) == task.status # "LOCKED" /\ u \in {Owner, task.approver}

(* is_org_admin_override_action                                            *)
Overrides(u, row) == u \in Admins /\ row.approver # u

(* user_may_process_budget_approval                                        *)
MayProcess(u, row) == u = row.approver \/ u \in Admins

(* The approver of the step after t's, None on the last step or off chain. *)
Successor(t) == IF t.step \in 1..Len(Chain) - 1 THEN Chain[t.step + 1] ELSE None

MayCancel(u) ==
    \/ task.status = "SUBMITTED" /\ u \in {task.approver, Owner}
    \/ task.status \in {"UNDER_REVIEW", "APPROVED", "REJECTED"} /\ Unassigned(task, u)

(* The transitions a bulk update resolves a target status to.              *)
BulkEdges ==
    {<<"DRAFT", "SUBMITTED">>, <<"SUBMITTED", "UNDER_REVIEW">>,
     <<"UNDER_REVIEW", "APPROVED">>, <<"UNDER_REVIEW", "REJECTED">>,
     <<"APPROVED", "LOCKED">>, <<"LOCKED", "APPROVED">>,
     <<"REJECTED", "DRAFT">>, <<"CANCELLED", "DRAFT">>}
    \cup ({"SUBMITTED", "UNDER_REVIEW", "APPROVED", "REJECTED"} \X {"CANCELLED"})

(* The checks each view makes on the task it has just loaded.              *)
Opens(op, u, want, next) ==
    \/ /\ want = "-" /\ next = None
       /\ \/ op = "submit" /\ task.status = "DRAFT" /\ u = Owner
          \/ op = "start_review" /\ task.status = "SUBMITTED" /\ Unassigned(task, u)
          \/ op = "cancel" /\ MayCancel(u)
          \/ op = "revise" /\ task.status \in {"REJECTED", "CANCELLED"}
                           /\ task.round < MaxRounds
          \/ op = "lock" /\ task.status = "APPROVED" /\ Unassigned(task, u)
          \/ op = "unlock" /\ task.status = "LOCKED" /\ Unassigned(task, u)
    \/ op = "make_approval" /\ want \in Decisions /\ next = None
                            /\ Cardinality(records) < MaxRecords
    \/ op = "forward" /\ task.status = "APPROVED" /\ want = "-" /\ next # None
    \/ op = "patch" /\ MayEdit(u) /\ want = "-"
                    /\ (next = task.approver \/ task.status = "DRAFT")
    \/ op = "bulk" /\ MayEdit(u)
                   /\ (want \in {"-", task.status} \/ <<task.status, want>> \in BulkEdges)

(* get_object and the checks on it; a call refused here changes nothing.   *)
Load(s) ==
    /\ At(s, "idle")
    /\ \E op \in Ops \cap TaskOps, u \in Users, want \in Statuses \cup {"-"},
       next \in Users \cup {None} :
        /\ Opens(op, u, want, next)
        /\ sess' = [sess EXCEPT ![s] =
                     [Idle EXCEPT !.op = op, !.pc = IF op = "lock" THEN "lock_check" ELSE op,
                                  !.u = u, !.want = want, !.next = next, !.task = task]]
        /\ UNCHANGED <<task, br, records>>
-----------------------------------------------------------------------------
(* The views of the task that write the instance they loaded.              *)

Save(s, row, step) == task' = row /\ Goto(s, step) /\ UNCHANGED <<br, records>>

Submit(s) ==
    /\ At(s, "submit")
    /\ Save(s, [sess[s].task EXCEPT !.status = "SUBMITTED"], ForBudget("br_read"))

(* The chain is attached once, on the first review.                        *)
StartReview(s) ==
    LET t == [sess[s].task EXCEPT !.status = "UNDER_REVIEW"]
        first == [t EXCEPT !.step = 1,
                           !.approver = IF @ = None THEN Chain[1] ELSE @]
    IN  /\ At(s, "start_review")
        /\ Save(s, IF t.step = 0 /\ Chain # <<>> THEN first ELSE t, "idle")

Forward(s) ==
    /\ At(s, "forward")
    /\ Save(s, [sess[s].task EXCEPT !.status = "UNDER_REVIEW",
                                    !.approver = sess[s].next], "idle")

Cancel(s) ==
    /\ At(s, "cancel")
    /\ Save(s, [sess[s].task EXCEPT !.status = "CANCELLED"],
            IF Budget THEN "br_cancel" ELSE "delete_records")

Revise(s) ==
    /\ At(s, "revise")
    /\ Save(s, [sess[s].task EXCEPT !.status = "DRAFT", !.round = @ + 1],
            ForBudget("br_read"))

Lock(s) ==
    /\ At(s, "lock")
    /\ Save(s, [sess[s].task EXCEPT !.status = "LOCKED"], ForBudget("br_lock"))

Unlock(s) ==
    /\ At(s, "unlock")
    /\ Save(s, [sess[s].task EXCEPT !.status = "APPROVED"], ForBudget("br_read"))

(* PATCH of a column not modelled here, or of the approver of a draft.     *)
Patch(s) ==
    /\ At(s, "patch")
    /\ Save(s, [sess[s].task EXCEPT !.approver = sess[s].next], "idle")

(* Mutant: rejections count as approvals.                                  *)
Approvals_All == Cardinality(records)
Approvals == Cardinality({r \in records : r.approved})

(* lock reads the records and the request before it writes the task.       *)
LockCheck(s) ==
    /\ At(s, "lock_check")
    /\ IF (sess[s].task.step = 0 \/ Approvals >= Required)
          /\ (Budget => br.status = "APPROVED")
       THEN sess' = [sess EXCEPT ![s].pc = "lock"]
       ELSE Goto(s, "idle")
    /\ UNCHANGED <<task, br, records>>

(* The second, locked half of a bulk update: the transition is resolved    *)
(* again on the fresh row and fails, or applies to it, alone or with a new *)
(* approver.                                                               *)
Bulk(s) ==
    LET want == sess[s].want
        moves == <<task.status, want>> \in BulkEdges
    IN  /\ At(s, "bulk")
        /\ IF moves \/ want \in {"-", "APPROVED", task.status}
           THEN \E u \in {task.approver, sess[s].next} :
                  Save(s, [task EXCEPT !.status = IF moves THEN want ELSE @,
                                       !.approver = u], "idle")
           ELSE Return(s)
-----------------------------------------------------------------------------
(* Deciding a step of the task, in one transaction on the locked row.      *)

StepNumber == IF task.step # 0 THEN task.step ELSE Cardinality(records) + 1

Recorded == \E r \in records : r.step = StepNumber /\ r.round = task.round

Designated(u) == Unassigned(task, u)

(* Who may decide, and whether the record can be inserted.                 *)
Decidable(s) ==
    /\ task.status = "UNDER_REVIEW"
    /\ (Designated(sess[s].u) \/ (Budget /\ MayProcess(sess[s].u, br)))
    /\ ~Recorded

(* Mutant: the decision is applied to the instance loaded without a lock.  *)
Locked_Snapshot(s) == sess[s].task
(* lock_for_transition: the row, read again under its lock.                *)
Locked(s) == task

(* Mutant: the chain advances without changing hands.                      *)
Advanced_SameApprover(t) == [t EXCEPT !.step = @ + 1]
(* Mutant: the chain changes hands without advancing.                      *)
Advanced_SameStep(t) == [t EXCEPT !.approver = Successor(t)]
(* More steps remain: forward_to_next with the next step's approver.       *)
Advanced(t) == [t EXCEPT !.step = @ + 1, !.approver = Successor(t)]

(* The task after the decision.                                            *)
Decided(s) ==
    LET t == Locked(s)
    IN  IF sess[s].want = "REJECTED" THEN [t EXCEPT !.status = "REJECTED"]
        ELSE IF Successor(t) = None THEN [t EXCEPT !.status = "APPROVED"]
        ELSE Advanced(t)

(* Mutant: a decided request may be decided again.                         *)
Processable_Decided(row) == row.status \in {"UNDER_REVIEW", "APPROVED"}
(* _raise_if_not_processable                                               *)
Processable(row) == row.status = "UNDER_REVIEW"

(* Mutant: a request under review is reset too.                            *)
Resets_Any(row) == row.status # "DRAFT"
(* The statuses from which revise takes the request back to a draft.       *)
Resets(row) == row.status \in {"CANCELLED", "REJECTED"}

(* What a handler does once it has the request row in hand.                *)
FollowUp(x, row) ==
    CASE x.op = "submit" /\ row.status = "DRAFT" -> "br_submit"
      [] x.op = "revise" /\ Resets(row) -> "br_revise"
      [] x.op = "unlock" /\ row.status = "LOCKED" -> "br_unlock"
      [] x.op \in {"make_approval", "request_review"} /\ row.status = "SUBMITTED" -> "br_review"
      [] x.op = "request_patch" -> "br_patch"
      [] /\ x.op \in {"make_approval", "decision"}
         /\ Processable(row)
         /\ MayProcess(x.u, row) ->
           IF Overrides(x.u, row) /\ x.want = "APPROVED" THEN "br_next" ELSE "br_decide"
      [] OTHER -> "idle"

(* Handler x of session s goes on with the request as row.                 *)
Follow(s, x, row) ==
    LET step == FollowUp(x, row)
    IN  sess' = [sess EXCEPT ![s] =
                   IF step = "idle" THEN Idle
                   ELSE [x EXCEPT !.pc = step, !.task = NoTask, !.br = row]]

(* Mutant: an approver is handed on after the last step as well.           *)
InHand_Always(t) == t.approver
(* Mutant: the next approver is not passed on to the request.              *)
InHand_Forgotten(t) == None
(* The approver process_approval is to forward the request to.             *)
InHand(t) == IF t.status = "UNDER_REVIEW" THEN t.approver ELSE None

(* The transaction of make_approval.  A caller who is not the designated   *)
(* approver had its rights checked on the request, and that instance of the*)
(* request, cached by the generic foreign key, is the one synchronised.    *)
MakeApproval(s) ==
    LET u == sess[s].u
        t == Decided(s)
        x == [sess[s] EXCEPT !.next = InHand(t), !.pc = "br_read", !.task = NoTask]
    IN  /\ At(s, "make_approval")
        /\ Decidable(s)
        /\ records' = records \cup {[step |-> StepNumber, round |-> task.round, by |-> u,
                                     approved |-> sess[s].want = "APPROVED"]}
        /\ task' = t
        /\ IF Budget /\ ~Designated(u) THEN Follow(s, x, br)
           ELSE sess' = [sess EXCEPT ![s] = IF Budget THEN x ELSE Idle]
        /\ UNCHANGED br

(* Wrong status, wrong caller, or the unique key of the record is taken.   *)
RefuseApproval(s) == At(s, "make_approval") /\ ~Decidable(s) /\ Return(s)
-----------------------------------------------------------------------------
(* The request's side.                                                     *)

(* The request's own endpoints load it first.                              *)
LoadRequest(s) ==
    \E op \in Ops \cap RequestOps, u \in Users, want \in Decisions \cup {"-"},
       next \in Named \cup {None} :
        LET x == [Idle EXCEPT !.op = op, !.u = u, !.want = want, !.next = next]
        IN  /\ Budget /\ At(s, "idle")
            /\ (want # "-") <=> (op = "decision")
            /\ op = "decision" => Cardinality(records) < MaxRecords
            /\ op = "request_patch" => u = Owner
            /\ op = "request_review" => next = None
            /\ FollowUp(x, br) # "idle"
            /\ Follow(s, x, br)
            /\ UNCHANGED <<task, br, records>>

ReadRequest(s) ==
    /\ At(s, "br_read")
    /\ Follow(s, sess[s], br)
    /\ UNCHANGED <<task, br, records>>

(* BudgetRequest.save() of the instance in hand.                           *)
SaveRequest(s, row) == br' = row /\ UNCHANGED <<task, records>>

RequestSubmit(s) ==
    /\ At(s, "br_submit")
    /\ SaveRequest(s, [sess[s].br EXCEPT !.status = "SUBMITTED"]) /\ Goto(s, "idle")

(* BudgetRequestService.start_review; make_approval goes on with it.       *)
RequestReview(s) ==
    LET row == [sess[s].br EXCEPT !.status = "UNDER_REVIEW"]
    IN  At(s, "br_review") /\ SaveRequest(s, row) /\ Follow(s, sess[s], row)

RequestRevise(s) ==
    /\ At(s, "br_revise")
    /\ SaveRequest(s, [status |-> "DRAFT", approver |-> None]) /\ Goto(s, "idle")

(* The owner's PATCH of the request, whatever its status.                  *)
RequestPatch(s) ==
    /\ At(s, "br_patch")
    /\ SaveRequest(s, [sess[s].br EXCEPT !.approver = sess[s].next]) /\ Goto(s, "idle")

(* unlock updates the status column alone.                                 *)
RequestUnlock(s) ==
    /\ At(s, "br_unlock")
    /\ SaveRequest(s, [br EXCEPT !.status = "APPROVED"]) /\ Goto(s, "idle")

(* cancel_budget_request re-reads the request under its row lock.          *)
RequestCancel(s) ==
    /\ At(s, "br_cancel")
    /\ SaveRequest(s, [br EXCEPT !.status = "CANCELLED"]) /\ Goto(s, "delete_records")

DeleteRecords(s) ==
    /\ At(s, "delete_records")
    /\ records' = {} /\ Goto(s, "idle") /\ UNCHANGED <<task, br>>

(* lock_budget_request: BudgetLedger has its inside; here the pool admits  *)
(* the request or not, and the error of the second case is swallowed.      *)
RequestLock(s) ==
    /\ At(s, "br_lock")
    /\ \E admitted \in PoolAdmits :
          SaveRequest(s, [br EXCEPT !.status =
                            IF @ = "APPROVED" /\ admitted THEN "LOCKED" ELSE @])
    /\ Goto(s, "idle")

(* An override reads the chain position of the task, as it is now.         *)
ResolveNext(s) ==
    /\ At(s, "br_next")
    /\ sess' = [sess EXCEPT ![s].pc = "br_decide", ![s].task = task]
    /\ UNCHANGED <<task, br, records>>

(* Mutant: an override is not checked against the step it was meant for.   *)
SameStep_AnyOverride(s) == Overrides(sess[s].u, sess[s].br) \/ br.approver = sess[s].u
(* _raise_if_step_moved                                                    *)
SameStep(s) ==
    IF Overrides(sess[s].u, sess[s].br) THEN br.approver = sess[s].br.approver
    ELSE br.approver = sess[s].u

(* Mutant: the maximum of no record taken as it comes.                     *)
AuditStep_NoDefault ==
    IF records = {} THEN None
    ELSE 1 + CHOOSE k \in {r.step : r \in records} : \A r \in records : r.step <= k
(* Numbered after the task's last record of any round.                     *)
AuditStep ==
    IF records = {} THEN 1
    ELSE 1 + CHOOSE k \in {r.step : r \in records} : \A r \in records : r.step <= k

(* The transaction of process_approval.                                    *)
ProcessApproval(s) ==
    LET x == sess[s]
        override == Overrides(x.u, x.br)
        approved == x.want = "APPROVED"
        next == IF override THEN Successor(x.task) ELSE x.next
        forwards == approved /\ next # None
        audit == [step |-> AuditStep, round |-> task.round, by |-> x.u,
                  approved |-> approved]
    IN  /\ At(s, "br_decide")
        /\ Processable(br) /\ SameStep(s)
        /\ br' = IF forwards THEN [br EXCEPT !.approver = next]
                 ELSE [br EXCEPT !.status = x.want]
        /\ task' = IF override /\ forwards
                   THEN [task EXCEPT !.approver = next, !.step = x.task.step + 1]
                   ELSE task
        /\ records' = IF override THEN records \cup {audit} ELSE records
        /\ Goto(s, "idle")

(* ApprovalConflict                                                        *)
RefuseProcess(s) ==
    /\ At(s, "br_decide")
    /\ ~(Processable(br) /\ SameStep(s))
    /\ Return(s)

(* The worker dies; what it committed stays.                               *)
Crash(s) == "crash" \in Ops /\ ~At(s, "idle") /\ Return(s)
-----------------------------------------------------------------------------
TaskStep(s) ==
    \/ Load(s) \/ Submit(s) \/ StartReview(s) \/ Forward(s) \/ Cancel(s)
    \/ Revise(s) \/ LockCheck(s) \/ Lock(s) \/ Unlock(s) \/ Patch(s) \/ Bulk(s)
    \/ MakeApproval(s) \/ RefuseApproval(s) \/ DeleteRecords(s)

RequestStep(s) ==
    \/ LoadRequest(s) \/ ReadRequest(s) \/ RequestSubmit(s) \/ RequestReview(s)
    \/ RequestRevise(s) \/ RequestPatch(s) \/ RequestUnlock(s) \/ RequestCancel(s)
    \/ RequestLock(s) \/ ResolveNext(s) \/ ProcessApproval(s) \/ RefuseProcess(s)

Next == \E s \in Sessions : TaskStep(s) \/ RequestStep(s) \/ Crash(s)

Spec == Init /\ [][Next]_vars
ReviewSpec == ReviewInit /\ [][Next]_vars
-----------------------------------------------------------------------------
(* Correctness.                                                            *)

Quiet == \A s \in Sessions : At(s, "idle")

Verdict(status) ==
    IF status = "UNDER_REVIEW" THEN "PENDING" ELSE status

(* Who decided a step in the task's current round.                         *)
Decider(k) ==
    LET found == {r \in records : r.step = k /\ r.round = task.round}
    IN  IF found = {} THEN None ELSE (CHOOSE r \in found : TRUE).by

Round == INSTANCE ApprovalRound WITH
    pos <- task.step, outcome <- Verdict(task.status),
    by <- [k \in DOMAIN Chain |-> Decider(k)]

(* A task under review walks its chain as ApprovalRound says: every step   *)
(* in order, once, by its own approver.  make_approval promises this to    *)
(* concurrent callers.                                                     *)
ChainFollowed == Round!Spec

(* Whenever the task waits for a decision, the record of that decision can *)
(* still be inserted: its (task, step, round) key is free.  Otherwise every*)
(* make_approval ends in an IntegrityError and the task can only be        *)
(* cancelled.                                                              *)
CurrentStepRecordable == task.status = "UNDER_REVIEW" => ~Recorded

(* Only the designated approver of a step, or an admin, has decided it     *)
(* (the message of the 403 that make_approval returns to anyone else).     *)
DecidedByDesignated ==
    \A r \in records : r.step \in DOMAIN Chain => r.by = Chain[r.step] \/ r.by \in Admins

(* The request is never further along the chain than the task: it is not   *)
(* approved while the task still waits for a step, nor waiting for somebody*)
(* the task has not reached.                                               *)
RequestNotAhead ==
    /\ br.status = "APPROVED" => task.status \in {"APPROVED", "LOCKED", "CANCELLED"}
    /\ br.status = "UNDER_REVIEW" =>
          br.approver \in {Assigned} \cup {Chain[k] : k \in 1..task.step}

(* When no handler is running, the request has the status the task's       *)
(* decision and lock gave it.                                              *)
InSync ==
    (Quiet /\ Budget /\ task.status \in {"APPROVED", "REJECTED", "LOCKED", "CANCELLED"})
        => br.status = task.status

(* A task is locked only after every step of its chain was approved, in    *)
(* this round or an earlier one.                                           *)
LockedHadEveryStep ==
    (task.status = "LOCKED" /\ task.step # 0) =>
        \A k \in DOMAIN Chain : \E r \in records : r.step = k /\ r.approved

(* While an override chain is under way, task and request wait for the same*)
(* person, and the audit has one record for each step already passed.      *)
PointersTogether ==
    (task.status = "UNDER_REVIEW" /\ br.status = "UNDER_REVIEW") =>
        /\ br.approver = task.approver
        /\ {r.step : r \in records} = 1..(task.step - 1)

(* What a decision did to the task is not undone by a handler that loaded  *)
(* the task before it: inside a round the chain position never goes back.  *)
PositionKept == [][task'.round = task.round => task'.step >= task.step]_vars

Lifecycle == INSTANCE RequestFSM WITH
    Requests <- {"br"}, status <- [r \in {"br"} |-> br.status]

(* Every handler of the task, run to its end or killed on the way, moves   *)
(* the request along the edges of its own state machine.                   *)
RequestLifecycle == [][Lifecycle!Next]_<<br.status>>
=============================================================================
