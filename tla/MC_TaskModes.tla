------------------------------ MODULE MC_TaskModes -----------------------------
(* One task in six settings; mode says which and never changes.               *)
(*   linked   concurrent make_approval calls on a budget task under review,   *)
(*            by anybody but admins                                           *)
(*   alone    the same on a task that has no request, over a chain that names *)
(*            one person twice                                                *)
(*   override three concurrent calls of the decision endpoint, an admin among *)
(*            the callers                                                     *)
(*   serial   one handler at a time, each to its end, from the creation of    *)
(*            the task; nobody is an admin                                    *)
(*   rounds   the same over revisions, forwards and PATCHes of the request    *)
(*   all      every operation, one at a time, killed at any point, an admin   *)
(*            at the end of the chain                                         *)
(* The first three include crashes.                                           *)
EXTENDS MC_BudgetTask
VARIABLE mode

InStep == {"submit", "start_review", "make_approval", "cancel", "lock", "unlock"}
OneRound == InStep \cup {"revise", "forward", "request_patch", "request_review"}
Restricted == OneRound \cup {"decision", "crash"}

Alone == INSTANCE BudgetTask WITH
    Users <- {a, b, c}, Admins <- {}, Chain <- AgainLater, Ops <- Deciding, Budget <- FALSE
All == INSTANCE BudgetTask WITH
    Users <- {a, admin}, Chain <- AdminLast, Required <- 2, MaxRecords <- 2, MaxRounds <- 0,
    Ops <- AllOps, Named <- {a}

(* What restricts a setting: the operations called, and by whom.              *)
Runs(ops) == \A s \in Sessions : sess'[s].op \in ops \cup {"idle"}
NoAdmins == \A s \in Sessions : {sess'[s].u, sess'[s].next} \cap Admins = {}
NobodyNamed == \A s \in Sessions : sess'[s].next = None
OthersIdle(s) == \A t \in Sessions \ {s} : At(t, "idle")
OneAtATime == \E s \in Sessions : OthersIdle(s) /\ (TaskStep(s) \/ RequestStep(s))

(* The pool admits every request that is approved.                            *)
PoolTakes == \A s \in Sessions :
    At(s, "br_lock") /\ br.status = "APPROVED" => br'.status = "LOCKED"

ModeInit ==
    \/ mode \in {"all", "serial", "rounds"} /\ Init
    \/ mode \in {"linked", "alone", "override"} /\ ReviewInit

LinkedNext == Next /\ Runs({"make_approval"}) /\ NoAdmins
OverrideNext == Next /\ Runs({"decision"}) /\ NobodyNamed
SerialNext == OneAtATime /\ Runs(InStep) /\ NoAdmins /\ PoolTakes
RoundsNext == OneAtATime /\ Runs(OneRound) /\ NoAdmins

ModeNext ==
    /\ UNCHANGED mode
    /\ \/ mode = "linked" /\ LinkedNext
       \/ mode = "override" /\ OverrideNext
       \/ mode = "serial" /\ SerialNext
       \/ mode = "rounds" /\ RoundsNext
       \/ mode = "alone" /\ Alone!Next
       \/ /\ mode = "all"
          /\ \E s \in Sessions :
                OthersIdle(s) /\ (All!TaskStep(s) \/ All!RequestStep(s) \/ All!Crash(s))

ModeSpec == ModeInit /\ [][ModeNext]_<<mode, vars>>

(* RequestNotAhead, CurrentStepRecordable and PositionKept of BudgetTask,     *)
(* where make_approval alone decides.                                         *)
RaceRequestNotAhead == mode = "linked" => RequestNotAhead
RaceStepRecordable == mode = "linked" => CurrentStepRecordable
RacePositionKept ==
    [][task'.round = task.round /\ mode = "linked" => task'.step >= task.step]_vars

(* ChainFollowed of BudgetTask, where the task decides alone.                 *)
AloneFollowsChain ==
    /\ mode = "alone" => Alone!Round!Init
    /\ [][mode = "alone" => Alone!Round!Next]_(Alone!Round!vars)

(* InSync and DecidedByDesignated of BudgetTask, one handler at a time.       *)
SerialInSync == mode = "serial" => InSync
SerialByDesignated == mode = "serial" => DecidedByDesignated

(* LockedHadEveryStep of BudgetTask, over several rounds.                     *)
RoundsLockedHadEveryStep == mode = "rounds" => LockedHadEveryStep

(* PointersTogether of BudgetTask, over the decision endpoint.                *)
OverridePointersTogether == mode = "override" => PointersTogether

Symmetry == Permutations(Sessions)
=============================================================================
