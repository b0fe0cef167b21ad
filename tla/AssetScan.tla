------------------------------ MODULE AssetScan ------------------------------
(***************************************************************************)
(* The versions of one asset, their virus scans and the asset's review.    *)
(* A session is one call of a view, a worker one run of scan_asset_version. *)
(* Both load a row, look at what they loaded and write later, statement by *)
(* statement in autocommit: the views the whole row, a scan its            *)
(* scan_status column.                                                     *)
(***************************************************************************)
EXTENDS Integers, FiniteSets

CONSTANTS
    Ids,      \* bound: primary keys of versions, in the order they are handed out
    Files,    \* contents uploaded, one checksum each
    Infected, \* those of them the scanner finds a virus in
    Sessions, Workers,
    None,
    MaxQueued, \* bound: tasks waiting for one version
    Ops       \* the operations a run considers

ASSUME AssetConstants ==
    /\ Ids \subseteq Nat /\ IsFiniteSet(Ids)
    /\ Infected \subseteq Files
    /\ MaxQueued \in Nat \ {0}

VARIABLES
    asset,    \* status of the asset
    version,  \* rows of asset_versions, None where there is none
    issued,   \* primary keys handed out
    queue,    \* scan_asset_version messages waiting, for each version
    lost,     \* history: versions a fault left without their scan, so far as known
    sess, work

vars == <<asset, version, issued, queue, lost, sess, work>>

Statuses == {"NotSubmitted", "PendingReview", "UnderReview", "Approved",
             "RevisionRequired", "Archived"}
ScanStatuses == {"pending", "scanning", "clean", "infected", "error"}
Version == [number : Nat \ {0}, state : {"Draft", "Finalized"},
            scan : ScanStatuses, file : Files]

ASSUME NoneIsNoRow == None \notin Version

(* The review actions, from which status to which.                         *)
Reviews == {"submit", "start_review", "approve", "reject", "acknowledge", "archive"}
ReviewOf(op) ==
    CASE op = "submit" -> [from |-> {"NotSubmitted", "RevisionRequired"}, to |-> "PendingReview"]
      [] op = "start_review" -> [from |-> {"PendingReview"}, to |-> "UnderReview"]
      [] op = "approve" -> [from |-> {"UnderReview"}, to |-> "Approved"]
      [] op = "reject" -> [from |-> {"UnderReview"}, to |-> "RevisionRequired"]
      [] op = "acknowledge" -> [from |-> {"RevisionRequired"}, to |-> "NotSubmitted"]
      [] op = "archive" -> [from |-> {"Approved"}, to |-> "Archived"]

Steps == {"idle", "validate", "insert", "replace", "delete", "finalize", "publish",
          "enqueue", "resubmit", "review", "edit"}
Session == [pc : Steps, op : Reviews \cup {None}, id : Ids \cup {None},
            row : Version \cup {None}, status : Statuses, number : Nat, file : Files \cup {None}]
Idle == [pc |-> "idle", op |-> None, id |-> None, row |-> None,
         status |-> "NotSubmitted", number |-> 0, file |-> None]
Scan == [pc : {"idle", "loaded", "scanning"}, id : Ids \cup {None}, file : Files \cup {None}]
NoScan == [pc |-> "idle", id |-> None, file |-> None]

TypeOK ==
    /\ asset \in Statuses
    /\ version \in [Ids -> Version \cup {None}]
    /\ issued \subseteq Ids
    /\ queue \in [Ids -> Nat]
    /\ lost \subseteq Ids
    /\ sess \in [Sessions -> Session]
    /\ work \in [Workers -> Scan]

Init ==
    /\ asset = "NotSubmitted"
    /\ version = [v \in Ids |-> None]
    /\ issued = {}
    /\ queue = [v \in Ids |-> 0]
    /\ lost = {}
    /\ sess = [s \in Sessions |-> Idle]
    /\ work = [w \in Workers |-> NoScan]
-----------------------------------------------------------------------------
(* Queries over the asset's versions.                                      *)

Present == {v \in Ids : version[v] # None}
HasDraft == \E v \in Present : version[v].state = "Draft"
Latest(v) == v \in Present /\ \A u \in Present : version[u].number <= version[v].number
Editable == {"NotSubmitted", "RevisionRequired"}

(* Mutant: the first version gets the number 0.                            *)
NextNumber_Zero(n) ==
    /\ \A v \in Present : version[v].number < n
    /\ n = 0 \/ \E v \in Present : version[v].number = n - 1

NextNumber(n) ==
    /\ \A v \in Present : version[v].number < n
    /\ n = 1 \/ \E v \in Present : version[v].number = n - 1

(* Mutant: the asset's status is not looked at.                            *)
CanCreate_AnyStatus(status) ==
    /\ ~HasDraft
    /\ Present = {} \/ \E v \in Present : Latest(v) /\ version[v].state = "Finalized"

(* can_create_version and can_submit, with the status as loaded and the    *)
(* versions as they are; can_be_finalized, on a loaded row.                *)
CanCreate(status) ==
    /\ status \in Editable
    /\ ~HasDraft
    /\ Present = {} \/ \E v \in Present : Latest(v) /\ version[v].state = "Finalized"

CanSubmit(status) ==
    /\ status \in Editable
    /\ ~HasDraft
    /\ \E v \in Present :
           Latest(v) /\ version[v].state = "Finalized" /\ version[v].scan = "clean"

(* Mutant: the test the code's comments remember as removed.               *)
CanFinalize_Draft(row) == row.state = "Draft"

CanFinalize(row) == row.state = "Draft" /\ row.scan = "clean"

(* Mutant: (asset, version_number) is not unique.                          *)
NumberFree_Always(v, n) == TRUE

NumberFree(v, n) == \A u \in Present \ {v} : version[u].number # n
-----------------------------------------------------------------------------
(* Views.  A call that is refused on what it loads changes nothing: its    *)
(* test is the guard of the load.                                          *)

At(s, step) == sess[s].pc = step
Goto(s, step) == sess' = [sess EXCEPT ![s].pc = step]
Finish(s) == sess' = [sess EXCEPT ![s] = Idle]
Load(s, v, step, f) ==
    /\ At(s, "idle") /\ v \in Present
    /\ sess' = [sess EXCEPT ![s] =
           [Idle EXCEPT !.pc = step, !.id = v, !.row = version[v], !.file = f]]
    /\ UNCHANGED <<asset, version, issued, queue, lost, work>>

(* Model.save: an UPDATE of every column, or an INSERT when the row is     *)
(* gone, which the unique key may refuse.                                  *)
SaveVersion(s, row, next) ==
    LET v == sess[s].id IN
    /\ IF NumberFree(v, row.number)
       THEN version' = [version EXCEPT ![v] = row] /\ next
       ELSE UNCHANGED <<version, lost>> /\ Finish(s)
    /\ UNCHANGED <<asset, issued, queue, work>>

(* perform_create reads the asset and the latest number, create_new_version *)
(* looks at the versions again and inserts.                                *)
Upload(s, f) ==
    /\ "upload" \in Ops /\ At(s, "idle")
    /\ \E n \in 0..Cardinality(Ids) :
           /\ NextNumber(n)
           /\ sess' = [sess EXCEPT ![s] = [Idle EXCEPT
                  !.pc = "validate", !.status = asset, !.number = n, !.file = f]]
    /\ UNCHANGED <<asset, version, issued, queue, lost, work>>

Validate(s) ==
    /\ At(s, "validate")
    /\ IF CanCreate(sess[s].status) THEN Goto(s, "insert") ELSE Finish(s)
    /\ UNCHANGED <<asset, version, issued, queue, lost, work>>

Insert(s) ==
    /\ At(s, "insert")
    /\ \E v \in Ids \ issued :
           /\ \A u \in Ids \ issued : v <= u
           /\ IF NumberFree(v, sess[s].number)
              THEN /\ version' = [version EXCEPT ![v] =
                          [number |-> sess[s].number, state |-> "Draft",
                           scan |-> "pending", file |-> sess[s].file]]
                   /\ issued' = issued \cup {v}
                   /\ sess' = [sess EXCEPT ![s].pc = "enqueue", ![s].id = v]
              ELSE UNCHANGED <<version, issued>> /\ Finish(s)
    /\ UNCHANGED <<asset, queue, lost, work>>

(* Mutant: no message while a worker is busy with the version.             *)
Enqueue_Deduplicated(s) ==
    LET v == sess[s].id IN
    /\ At(s, "enqueue") /\ queue[v] < MaxQueued
    /\ queue' = IF \E w \in Workers : work[w].id = v THEN queue
                ELSE [queue EXCEPT ![v] = @ + 1]
    /\ Finish(s)
    /\ UNCHANGED <<asset, version, issued, lost, work>>

(* scan_asset_version.delay                                                *)
Enqueue(s) ==
    LET v == sess[s].id IN
    /\ At(s, "enqueue") /\ queue[v] < MaxQueued
    /\ queue' = [queue EXCEPT ![v] = @ + 1]
    /\ Finish(s)
    /\ UNCHANGED <<asset, version, issued, lost, work>>

(* PUT of another file; the same file is refused.  The row waits again,    *)
(* and now the view is to send its message.                                *)
Replace(s, v, f) ==
    /\ "replace" \in Ops /\ Load(s, v, "replace", f)
    /\ version[v].state = "Draft" /\ version[v].file # f

ReplaceSave(s) ==
    /\ At(s, "replace")
    /\ SaveVersion(s, [sess[s].row EXCEPT !.file = sess[s].file, !.scan = "pending"],
                   Goto(s, "enqueue") /\ lost' = lost \ {sess[s].id})

Delete(s, v) ==
    /\ "delete" \in Ops /\ Load(s, v, "delete", None)
    /\ version[v].state = "Draft"

DeleteRow(s) ==
    /\ At(s, "delete")
    /\ version' = [version EXCEPT ![sess[s].id] = None]
    /\ Finish(s)
    /\ UNCHANGED <<asset, issued, queue, lost, work>>

Publish(s, v) ==
    /\ "publish" \in Ops /\ Load(s, v, "finalize", None)
    /\ CanFinalize(version[v])

(* finalize saves its column before django-fsm sets the new state, so what *)
(* it writes is Draft; the view's save that follows writes Finalized.  A   *)
(* row deleted meanwhile fails the first of them.                          *)
Finalize(s) ==
    LET v == sess[s].id IN
    /\ At(s, "finalize")
    /\ IF version[v] = None
       THEN UNCHANGED version /\ Finish(s)
       ELSE version' = [version EXCEPT ![v].state = "Draft"] /\ Goto(s, "publish")
    /\ UNCHANGED <<asset, issued, queue, lost, work>>

PublishSave(s) ==
    /\ At(s, "publish")
    /\ SaveVersion(s, [sess[s].row EXCEPT !.state = "Finalized"],
                   Finish(s) /\ UNCHANGED lost)

(* The asset's own row: the review actions and PUT, which write the status *)
(* they loaded or the one it leads to.  submit tests twice.                *)
Review(s, op) ==
    /\ op \in Ops /\ At(s, "idle")
    /\ asset \in ReviewOf(op).from
    /\ IF op = "submit" THEN CanSubmit(asset) ELSE Present # {}
    /\ sess' = [sess EXCEPT ![s] = [Idle EXCEPT
           !.pc = IF op = "submit" THEN "resubmit" ELSE "review", !.op = op, !.status = asset]]
    /\ UNCHANGED <<asset, version, issued, queue, lost, work>>

Resubmit(s) ==
    /\ At(s, "resubmit")
    /\ IF CanSubmit(sess[s].status) THEN Goto(s, "review") ELSE Finish(s)
    /\ UNCHANGED <<asset, version, issued, queue, lost, work>>

Edit(s) ==
    /\ "edit" \in Ops /\ At(s, "idle")
    /\ sess' = [sess EXCEPT ![s] = [Idle EXCEPT !.pc = "edit", !.status = asset]]
    /\ UNCHANGED <<asset, version, issued, queue, lost, work>>

AssetSave(s) ==
    /\ \/ At(s, "review") /\ asset' = ReviewOf(sess[s].op).to
       \/ At(s, "edit") /\ asset' = sess[s].status
    /\ Finish(s)
    /\ UNCHANGED <<version, issued, queue, lost, work>>

(* The server process dies, or the broker refuses the message.             *)
Crash(s) ==
    /\ "crash" \in Ops /\ ~At(s, "idle") /\ Finish(s)
    /\ lost' = IF At(s, "enqueue") THEN lost \cup {sess[s].id} ELSE lost
    /\ UNCHANGED <<asset, version, issued, queue, work>>

Call(s) ==
    \/ \E f \in Files : Upload(s, f) \/ \E v \in Ids : Replace(s, v, f)
    \/ \E v \in Ids : Delete(s, v) \/ Publish(s, v)
    \/ \E op \in Reviews : Review(s, op)
    \/ Edit(s)

Handle(s) ==
    \/ Validate(s) \/ Insert(s) \/ Enqueue(s) \/ ReplaceSave(s) \/ DeleteRow(s)
    \/ Finalize(s) \/ PublishSave(s) \/ Resubmit(s) \/ AssetSave(s)
-----------------------------------------------------------------------------
(* Scans.                                                                  *)

Leave(w) == work' = [work EXCEPT ![w] = NoScan]

(* A worker takes a message and loads the row.  A version that is gone or  *)
(* not pending ends the task: the exception becomes its result.            *)
Take(w, v) ==
    /\ work[w].pc = "idle" /\ queue[v] > 0
    /\ queue' = [queue EXCEPT ![v] = @ - 1]
    /\ IF v \in Present /\ version[v].scan = "pending"
       THEN work' = [work EXCEPT ![w] = [pc |-> "loaded", id |-> v, file |-> version[v].file]]
       ELSE UNCHANGED work
    /\ UNCHANGED <<asset, version, issued, lost, sess>>

(* start_scan and the save after it, in one transaction; a row deleted     *)
(* meanwhile makes it fail.                                                *)
StartScan(w) ==
    LET v == work[w].id IN
    /\ work[w].pc = "loaded"
    /\ IF v \in Present
       THEN /\ version' = [version EXCEPT ![v].scan = "scanning"]
            /\ work' = [work EXCEPT ![w].pc = "scanning"]
       ELSE UNCHANGED version /\ Leave(w)
    /\ UNCHANGED <<asset, issued, queue, lost, sess>>

(* The scanner's answer about a file, or no answer.                        *)
Verdicts(f) == {IF f \in Infected THEN "infected" ELSE "clean", "error"}

(* Mutant: a scan without an answer is not recorded.                       *)
Report_Answer(w) ==
    LET v == work[w].id IN
    /\ work[w].pc = "scanning" /\ Leave(w)
    /\ \E verdict \in Verdicts(work[w].file) :
           version' = IF v \in Present /\ verdict # "error"
                      THEN [version EXCEPT ![v].scan = verdict] ELSE version
    /\ lost' = lost \ {v}
    /\ UNCHANGED <<asset, issued, queue, sess>>

(* The file the worker loaded is read and judged; the verdict goes to the  *)
(* row as it is now.                                                       *)
Report(w) ==
    LET v == work[w].id IN
    /\ work[w].pc = "scanning" /\ Leave(w)
    /\ \E verdict \in Verdicts(work[w].file) :
           version' = IF v \in Present
                      THEN [version EXCEPT ![v].scan = verdict] ELSE version
    /\ lost' = lost \ {v}
    /\ UNCHANGED <<asset, issued, queue, sess>>

(* The verdict is announced in the transaction that writes it.  When the   *)
(* announcement raises, the row keeps SCANNING, and scan_version makes a   *)
(* result of the exception: the task is done and is not retried.           *)
ReportFails(w) ==
    /\ "broadcast" \in Ops /\ work[w].pc = "scanning" /\ Leave(w)
    /\ lost' = lost \cup {work[w].id}
    /\ UNCHANGED <<asset, version, issued, queue, sess>>

(* The worker dies; Celery acknowledged its message before it ran.         *)
Die(w) ==
    /\ "crash" \in Ops /\ work[w].pc # "idle" /\ Leave(w)
    /\ lost' = lost \cup {work[w].id}
    /\ UNCHANGED <<asset, version, issued, queue, sess>>

(* scan_all_pending_versions; nothing schedules it.  It passes over a row  *)
(* that says SCANNING, and the broker may refuse some of its messages.     *)
Overdue == {v \in Present : version[v].scan \in {"pending", "error"}}
Sweep ==
    \E sent \in SUBSET Overdue :
        /\ "sweep" \in Ops /\ sent # {}
        /\ \A v \in sent : queue[v] < MaxQueued
        /\ queue' = [v \in Ids |-> IF v \in sent THEN queue[v] + 1 ELSE queue[v]]
        /\ lost' = lost \ sent
        /\ UNCHANGED <<asset, version, issued, sess, work>>

ScanStep(w) == StartScan(w) \/ Report(w) \/ ReportFails(w)

Next ==
    \/ \E s \in Sessions : Call(s) \/ Handle(s) \/ Crash(s)
    \/ \E w \in Workers : ScanStep(w) \/ Die(w) \/ \E v \in Ids : Take(w, v)
    \/ Sweep

(* Requests and tasks that have begun go on, and a message reaches the     *)
(* head of the queue.                                                      *)
Fairness ==
    /\ \A s \in Sessions : WF_vars(Handle(s))
    /\ \A w \in Workers : WF_vars(ScanStep(w))
    /\ \A v \in Ids : SF_vars(\E w \in Workers : Take(w, v))

Spec == Init /\ [][Next]_vars
FairSpec == Spec /\ Fairness
-----------------------------------------------------------------------------
(* Whoever replaces a file or loads a row before somebody else writes it,  *)
(* no version waits for a scan that is not coming: while its row says      *)
(* pending there is a message or somebody about to send or act on one,     *)
(* while it says scanning a worker is at it.  Excepted is what a crash or  *)
(* a failed announcement left, until a sweep or another file makes it good. *)
(* (scan_version drops a task that finds its version no longer pending.)   *)
Attended ==
    \A v \in Present \ lost :
        /\ version[v].scan = "pending" =>
               \/ queue[v] > 0
               \/ \E s \in Sessions : At(s, "enqueue") /\ sess[s].id = v
               \/ \E w \in Workers : work[w].pc = "loaded" /\ work[w].id = v
        /\ version[v].scan = "scanning" =>
               \E w \in Workers : work[w].pc = "scanning" /\ work[w].id = v

(* Every upload gets a verdict, or its version is deleted, or a fault took *)
(* its scan; the next file or sweep then starts the promise anew.          *)
Waiting(v) == v \in Present /\ version[v].scan \in {"pending", "scanning"}
Answered == \A v \in Ids : Waiting(v) ~> ~Waiting(v) \/ v \in lost

(* Uploads that race each other never leave two versions to work on:       *)
(* can_create_version asks for no draft, and the numbers are unique.       *)
OneDraft ==
    \A u, v \in Present :
        version[u].state = "Draft" /\ version[v].state = "Draft" => u = v

(* A version that was published holds a file the scanner found clean       *)
(* (finalize: "Validate that scan status is clean").                       *)
PublishedIsClean ==
    \A v \in Present : version[v].state = "Finalized" => version[v].file \notin Infected

(* An asset in review has versions, and none of them is still a draft      *)
(* (can_submit: "Cannot have any draft versions").                         *)
ReviewedIsComplete ==
    asset \notin Editable => Present # {} /\ ~HasDraft
=============================================================================
