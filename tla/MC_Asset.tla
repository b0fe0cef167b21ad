------------------------------- MODULE MC_Asset -------------------------------
(* One asset in three settings; mode says which and never changes.            *)
(*   crowd   an uploaded version under two views and two scans at any time    *)
(*   upload  uploads, edits and publications by all views at any time, the    *)
(*           publications one after another                                   *)
(*   patient one view at a time, a file replaced only when nobody scans its   *)
(*           predecessor any more; sweeps, and crashes at any point           *)
EXTENDS AssetScan
CONSTANTS
    s1, s2,    \* the views of the crowd, the first of them the patient one
    PatientIds \* bound: primary keys handed out in the patient setting
ASSUME SettingConstants == {s1, s2} \subseteq Sessions
VARIABLE mode

(* After an upload, with its message sent.                                    *)
Uploaded(f) ==
    /\ asset = "NotSubmitted"
    /\ version = [v \in Ids |-> IF v = 1
           THEN [number |-> 1, state |-> "Draft", scan |-> "pending", file |-> f]
           ELSE None]
    /\ issued = {1}
    /\ queue = [v \in Ids |-> IF v = 1 THEN 1 ELSE 0]
    /\ lost = {}
    /\ sess = [s \in Sessions |-> Idle]
    /\ work = [w \in Workers |-> NoScan]

ModeInit ==
    \/ mode = "crowd" /\ \E f \in Files : Uploaded(f)
    \/ mode \in {"upload", "patient"} /\ Init

(* The steps a view may be at afterwards, which bounds what is called.        *)
Visits(steps) == \A s \in Sessions : sess'[s].pc \in steps \cup {"idle"}
Scans == \E w \in Workers : ScanStep(w) \/ \E v \in Ids : Take(w, v)

CrowdNext ==
    /\ (\E s \in {s1, s2} : Call(s) \/ Handle(s)) \/ Scans
    /\ Visits({"replace", "delete", "finalize", "publish", "enqueue"})

Publishing == {s \in Sessions : sess[s].pc \in {"finalize", "publish"}}

UploadNext ==
    /\ (\E s \in Sessions : Call(s) \/ Handle(s)) \/ Scans
    /\ Visits({"validate", "insert", "enqueue", "finalize", "publish", "edit"})
    /\ \A s, t \in Publishing' : s = t

Unscanned(v) == queue[v] = 0 /\ \A w \in Workers : work[w].id # v

PatientNext ==
    /\ \/ Call(s1) \/ Handle(s1) \/ Crash(s1)
       \/ Scans \/ (\E w \in Workers : Die(w)) \/ Sweep
    /\ issued' \subseteq PatientIds
    /\ sess'[s1].pc = "replace" => Unscanned(sess'[s1].id)

ModeNext ==
    /\ UNCHANGED mode
    /\ \/ mode = "crowd" /\ CrowdNext
       \/ mode = "upload" /\ UploadNext
       \/ mode = "patient" /\ PatientNext

ModeSpec ==
    /\ ModeInit /\ [][ModeNext]_<<mode, vars>>
    /\ \A s \in {s1, s2} : WF_<<mode, vars>>(mode = "crowd" /\ Handle(s) /\ UNCHANGED mode)
    /\ \A w \in Workers : WF_<<mode, vars>>(mode = "crowd" /\ ScanStep(w) /\ UNCHANGED mode)
    /\ SF_<<mode, vars>>(mode = "crowd" /\ (\E w \in Workers : Take(w, 1)) /\ UNCHANGED mode)

(* Answered of AssetScan for the one version there is, where nobody crashes:  *)
(* what can take its scan is an announcement that fails.                      *)
CrowdAnswered == mode = "crowd" /\ Waiting(1) ~> ~Waiting(1) \/ 1 \in lost

(* OneDraft of AssetScan, where nothing is replaced or deleted.               *)
UploadOneDraft == mode = "upload" => OneDraft

(* PublishedIsClean and ReviewedIsComplete of AssetScan, one view at a time.  *)
PatientPublishedIsClean == mode = "patient" => PublishedIsClean
PatientReviewedIsComplete == mode = "patient" => ReviewedIsComplete
=============================================================================
