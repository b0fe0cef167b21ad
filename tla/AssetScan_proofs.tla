-------------------------- MODULE AssetScan_proofs --------------------------
(***************************************************************************)
(* For any number of versions, views, workers and crashes, a version that  *)
(* waits for its scan is attended to, unless a crash took the message or   *)
(* the scan.  And in two of the settings of MC_Asset: uploads leave one    *)
(* draft; what one view at a time publishes or submits is what it should   *)
(* be.                                                                     *)
(***************************************************************************)
EXTENDS MC_Asset, FiniteSetTheorems, TLAPS

(* What a view or a worker has in hand at each of its steps; who publishes *)
(* has loaded a clean row.                                                 *)
Hand(x) ==
    /\ x.pc \in {"enqueue", "replace", "delete", "finalize", "publish"} => x.id \in Ids
    /\ x.pc \in {"replace", "finalize", "publish"} => x.row \in Version
    /\ x.pc \in {"finalize", "publish"} => x.row.scan = "clean"
    /\ x.pc \in {"validate", "insert"} => x.number # 0
    /\ x.pc \in {"validate", "insert", "replace"} => x.file \in Files
    /\ x.pc \in {"resubmit", "review"} => x.op \in Reviews

Grip(x) == x.pc # "idle" => x.id \in Ids /\ x.file \in Files

InHand ==
    /\ \A s \in Sessions : Hand(sess[s])
    /\ \A w \in Workers : Grip(work[w])

TypeInv == TypeOK /\ InHand
Inv == TypeInv /\ Attended

(* One view takes a step.                                                  *)
LEMMA OneSession ==
    ASSUME TypeInv, NEW s \in Sessions, NEW x \in Session, Hand(x),
           sess' = [sess EXCEPT ![s] = x]
    PROVE  /\ sess' \in [Sessions -> Session]
           /\ \A t \in Sessions : Hand(sess'[t])
           /\ sess'[s] = x /\ \A t \in Sessions \ {s} : sess'[t] = sess[t]
BY DEF TypeInv, TypeOK, InHand

LEMMA OneWorker ==
    ASSUME TypeInv, NEW w \in Workers, NEW x \in Scan, Grip(x),
           work' = [work EXCEPT ![w] = x]
    PROVE  /\ work' \in [Workers -> Scan]
           /\ \A u \in Workers : Grip(work'[u])
           /\ work'[w] = x /\ \A u \in Workers \ {w} : work'[u] = work[u]
BY DEF TypeInv, TypeOK, InHand

LEMMA IdleValue == Idle \in Session /\ Hand(Idle) /\ Idle.pc = "idle"
BY DEF Idle, Session, Hand, Steps, Statuses

LEMMA NoScanValue == NoScan \in Scan /\ Grip(NoScan) /\ NoScan.pc = "idle"
BY DEF NoScan, Scan, Grip

LEMMA MovedValue ==
    ASSUME TypeInv, NEW s \in Sessions, NEW step \in Steps,
           NEW x, x = [sess[s] EXCEPT !.pc = step]
    PROVE  /\ x \in Session /\ x.pc = step
           /\ x.id = sess[s].id /\ x.row = sess[s].row /\ x.number = sess[s].number
           /\ x.file = sess[s].file /\ x.op = sess[s].op
BY DEF TypeInv, TypeOK, Session

(* A view moves on with what it has in hand.                               *)
LEMMA Moves ==
    ASSUME TypeInv, NEW s \in Sessions, NEW step \in Steps, Goto(s, step),
           \/ At(s, "validate") /\ step = "insert"
           \/ At(s, "replace") /\ step = "enqueue"
           \/ At(s, "finalize") /\ step = "publish"
           \/ At(s, "resubmit") /\ step = "review"
    PROVE  /\ sess' \in [Sessions -> Session]
           /\ \A t \in Sessions : Hand(sess'[t])
           /\ sess'[s].pc = step /\ sess'[s].id = sess[s].id
           /\ \A t \in Sessions \ {s} : sess'[t] = sess[t]
<1> DEFINE x == [sess[s] EXCEPT !.pc = step]
<1>1. sess' = [sess EXCEPT ![s] = x]
  BY DEF Goto, TypeInv, TypeOK
<1>2. /\ x \in Session /\ x.pc = step
      /\ x.id = sess[s].id /\ x.row = sess[s].row /\ x.number = sess[s].number
      /\ x.file = sess[s].file /\ x.op = sess[s].op
  BY MovedValue
<1> HIDE DEF x
<1>3. Hand(x)
  BY <1>2 DEF TypeInv, InHand, Hand, At
<1> QED
  BY <1>1, <1>2, <1>3, OneSession

LEMMA Finishes ==
    ASSUME TypeInv, NEW s \in Sessions, Finish(s)
    PROVE  /\ sess' \in [Sessions -> Session]
           /\ \A t \in Sessions : Hand(sess'[t])
           /\ sess'[s].pc = "idle" /\ \A t \in Sessions \ {s} : sess'[t] = sess[t]
BY OneSession, IdleValue DEF Finish

(* Attended survives steps that write no row, take no message, and leave   *)
(* senders and workers to what they are at.                                *)
LEMMA StillAttended ==
    ASSUME Inv, UNCHANGED version,
           \A v \in Ids : queue[v] > 0 => queue'[v] > 0,
           lost \subseteq lost',
           \A s \in Sessions : At(s, "enqueue") =>
               \/ sess'[s] = sess[s]
               \/ queue'[sess[s].id] > 0
               \/ sess[s].id \in lost',
           \A w \in Workers : work'[w] = work[w] \/ work[w].pc = "idle" \/ work[w].id \in lost'
    PROVE  Attended'
BY DEF Inv, Attended, Present, At

(* The same for a step that writes one row: who waits for another version's *)
(* scan notices nothing, and the row itself is clean or judged, waits as it *)
(* did before, or has somebody for it.                                      *)
LEMMA OneRow ==
    ASSUME Inv, NEW v \in Ids, NEW row \in Version \cup {None},
           version' = [version EXCEPT ![v] = row], UNCHANGED queue,
           lost \ {v} \subseteq lost',
           \A s \in Sessions : At(s, "enqueue") => sess'[s] = sess[s],
           \A w \in Workers : work'[w] = work[w] \/ work[w].pc = "idle" \/ work[w].id = v,
           \/ row = None
           \/ row.scan \notin {"pending", "scanning"}
           \/ /\ row.scan = "pending"
              /\ \E s \in Sessions : sess'[s].pc = "enqueue" /\ sess'[s].id = v
           \/ /\ row.scan = "scanning"
              /\ \E w \in Workers : work'[w].pc = "scanning" /\ work'[w].id = v
           \/ /\ version[v] # None /\ row.scan = version[v].scan
              /\ UNCHANGED <<lost, work>>
    PROVE  Attended'
<1> SUFFICES ASSUME NEW u \in Ids, version'[u] # None, u \notin lost'
             PROVE  /\ version'[u].scan = "pending" =>
                          \/ queue[u] > 0
                          \/ \E s \in Sessions : sess'[s].pc = "enqueue" /\ sess'[s].id = u
                          \/ \E w \in Workers : work'[w].pc = "loaded" /\ work'[w].id = u
                    /\ version'[u].scan = "scanning" =>
                          \E w \in Workers : work'[w].pc = "scanning" /\ work'[w].id = u
  BY DEF Attended, Present, At
<1>1. \A t \in Sessions : sess[t].pc = "enqueue" => sess'[t] = sess[t]
  BY DEF At
<1>2. CASE u # v
  <2>1. version'[u] = version[u] /\ u \in Present \ lost
    BY <1>2 DEF Inv, TypeInv, TypeOK, Present
  <2> QED
    BY <1>1, <1>2, <2>1 DEF Inv, Attended, At
<1>3. CASE u = v
  <2>1. version'[v] = row /\ row # None
    BY <1>3 DEF Inv, TypeInv, TypeOK
  <2>2. CASE /\ version[v] # None /\ row.scan = version[v].scan
             /\ UNCHANGED <<lost, work>>
    <3>1. v \in Present \ lost
      BY <1>3, <2>2 DEF Present
    <3> QED
      BY <1>1, <1>3, <2>1, <2>2, <3>1 DEF Inv, Attended, At
  <2> QED
    BY <1>3, <2>1, <2>2
<1> QED
  BY <1>2, <1>3
-----------------------------------------------------------------------------
(* Views.                                                                  *)

(* A view that only looked, or wrote the asset's own row.                  *)
LEMMA Looked ==
    ASSUME Inv, NEW s \in Sessions, ~At(s, "enqueue"),
           UNCHANGED <<version, issued, queue, lost, work>>, asset' \in Statuses,
           sess' \in [Sessions -> Session], \A t \in Sessions : Hand(sess'[t]),
           \A t \in Sessions \ {s} : sess'[t] = sess[t]
    PROVE  Inv'
<1>1. TypeInv'
  BY DEF Inv, TypeInv, TypeOK, InHand
<1>2. Attended'
  BY StillAttended
<1> QED
  BY <1>1, <1>2 DEF Inv

LEMMA LoadStep ==
    ASSUME Inv, NEW s \in Sessions, NEW v \in Ids,
           NEW step \in {"replace", "delete", "finalize"}, NEW f \in Files \cup {None},
           Load(s, v, step, f),
           step = "replace" => f \in Files, step = "finalize" => version[v].scan = "clean"
    PROVE  Inv'
<1> DEFINE x == [Idle EXCEPT !.pc = step, !.id = v, !.row = version[v], !.file = f]
<1>1. sess' = [sess EXCEPT ![s] = x] /\ version[v] \in Version
  BY DEF Load, Inv, TypeInv, TypeOK, Present
<1>2. x \in Session /\ Hand(x)
  BY <1>1 DEF Idle, Session, Hand, Steps, Statuses
<1> HIDE DEF x
<1>3. asset' \in Statuses
  BY DEF Load, Inv, TypeInv, TypeOK
<1>4. ~At(s, "enqueue") /\ UNCHANGED <<version, issued, queue, lost, work>>
  BY DEF Load, At
<1>5. /\ sess' \in [Sessions -> Session] /\ \A t \in Sessions : Hand(sess'[t])
      /\ \A t \in Sessions \ {s} : sess'[t] = sess[t]
  BY <1>1, <1>2, OneSession DEF Inv
<1> QED
  BY <1>3, <1>4, <1>5, Looked

LEMMA UploadStep ==
    ASSUME Inv, NEW s \in Sessions, NEW f \in Files, Upload(s, f)
    PROVE  Inv'
<1>1. PICK n \in 0..Cardinality(Ids) :
          /\ NextNumber(n)
          /\ sess' = [sess EXCEPT ![s] = [Idle EXCEPT
                 !.pc = "validate", !.status = asset, !.number = n, !.file = f]]
  BY DEF Upload
<1> DEFINE x == [Idle EXCEPT !.pc = "validate", !.status = asset, !.number = n, !.file = f]
<1>2. asset \in Statuses /\ n \in Nat
  BY FS_CardinalityType, AssetConstants DEF Inv, TypeInv, TypeOK
<1>3. n # 0
  <2>1. ASSUME NEW v \in Present, version[v].number = n - 1
        PROVE  n # 0
    BY <1>2, <2>1 DEF Present, Inv, TypeInv, TypeOK, Version
  <2> QED
    BY <1>1, <2>1 DEF NextNumber
<1>4. x \in Session /\ Hand(x)
  BY <1>2, <1>3 DEF Idle, Session, Hand, Steps
<1> HIDE DEF x
<1>5. asset' \in Statuses
  BY <1>2 DEF Upload
<1>6. sess' = [sess EXCEPT ![s] = x]
  BY <1>1 DEF x
<1> QED
  BY <1>4, <1>5, <1>6, OneSession, Looked DEF Upload, At, Inv

LEMMA ReviewStep ==
    ASSUME Inv, NEW s \in Sessions, NEW op \in Reviews, Review(s, op)
    PROVE  Inv'
<1> DEFINE x == [Idle EXCEPT !.pc = IF op = "submit" THEN "resubmit" ELSE "review",
                             !.op = op, !.status = asset]
<1>1. sess' = [sess EXCEPT ![s] = x]
  BY DEF Review
<1>2. asset \in Statuses
  BY DEF Inv, TypeInv, TypeOK
<1>3. x \in Session /\ Hand(x)
  <2>1. /\ x.id = None /\ x.row = None /\ x.number = 0 /\ x.file = None
        /\ x.op = op /\ x.status = asset
        /\ x.pc = IF op = "submit" THEN "resubmit" ELSE "review"
    BY DEF Idle
  <2>2. x \in Session
    BY <1>2 DEF Idle, Session, Steps
  <2> HIDE DEF x
  <2> QED
    BY <2>1, <2>2 DEF Hand
<1> HIDE DEF x
<1>4. asset' \in Statuses
  BY <1>2 DEF Review
<1> QED
  BY <1>1, <1>3, <1>4, OneSession, Looked DEF Review, At, Inv

LEMMA EditStep ==
    ASSUME Inv, NEW s \in Sessions, Edit(s)
    PROVE  Inv'
<1> DEFINE x == [Idle EXCEPT !.pc = "edit", !.status = asset]
<1>1. sess' = [sess EXCEPT ![s] = x]
  BY DEF Edit
<1>2. asset \in Statuses
  BY DEF Inv, TypeInv, TypeOK
<1>3. x \in Session /\ Hand(x)
  BY <1>2 DEF Idle, Session, Steps, Hand
<1> HIDE DEF x
<1>4. asset' \in Statuses
  BY <1>2 DEF Edit
<1> QED
  BY <1>1, <1>3, <1>4, OneSession, Looked DEF Edit, At, Inv

LEMMA CallStep ==
    ASSUME Inv, NEW s \in Sessions, Call(s)
    PROVE  Inv'
<1>1. ASSUME NEW v \in Ids, NEW f \in Files, Replace(s, v, f)
      PROVE  Inv'
  BY <1>1, LoadStep DEF Replace
<1>2. ASSUME NEW v \in Ids, Delete(s, v)
      PROVE  Inv'
  BY <1>2, LoadStep DEF Delete
<1>3. ASSUME NEW v \in Ids, Publish(s, v)
      PROVE  Inv'
  BY <1>3, LoadStep DEF Publish, CanFinalize
<1> QED
  BY <1>1, <1>2, <1>3, UploadStep, ReviewStep, EditStep DEF Call

(* Validate and Resubmit go on or give up, AssetSave ends the review.      *)
LEMMA SmallSteps ==
    ASSUME Inv, NEW s \in Sessions, Validate(s) \/ Resubmit(s) \/ AssetSave(s)
    PROVE  Inv'
<1>1. ~At(s, "enqueue") /\ UNCHANGED <<version, issued, queue, lost, work>>
  BY DEF Validate, Resubmit, AssetSave, At
<1>2. asset' \in Statuses
  <2>1. CASE AssetSave(s)
    <3>1. sess[s].status \in Statuses
      BY DEF Inv, TypeInv, TypeOK, Session
    <3>2. CASE At(s, "review") /\ asset' = ReviewOf(sess[s].op).to
      <4>1. sess[s].op \in Reviews
        BY <3>2 DEF Inv, TypeInv, InHand, Hand, At
      <4> QED
        BY <3>2, <4>1 DEF ReviewOf, Reviews, Statuses
    <3> QED
      BY <2>1, <3>1, <3>2 DEF AssetSave
  <2>2. CASE Validate(s) \/ Resubmit(s)
    BY <2>2 DEF Validate, Resubmit, Inv, TypeInv, TypeOK
  <2> QED
    BY <2>1, <2>2
<1>3. \/ Finish(s)
      \/ At(s, "validate") /\ Goto(s, "insert")
      \/ At(s, "resubmit") /\ Goto(s, "review")
  BY DEF Validate, Resubmit, AssetSave
<1>4. /\ sess' \in [Sessions -> Session] /\ \A t \in Sessions : Hand(sess'[t])
      /\ \A t \in Sessions \ {s} : sess'[t] = sess[t]
  <2>1. "insert" \in Steps /\ "review" \in Steps
    BY DEF Steps
  <2> QED
    BY <1>3, <2>1, Finishes, Moves DEF Inv
<1> QED
  BY <1>1, <1>2, <1>4, Looked

LEMMA CrashStep ==
    ASSUME Inv, NEW s \in Sessions, Crash(s)
    PROVE  Inv'
<1>1. /\ sess' \in [Sessions -> Session] /\ \A t \in Sessions : Hand(sess'[t])
      /\ \A t \in Sessions \ {s} : sess'[t] = sess[t]
  BY Finishes DEF Crash, Inv
<1>2. UNCHANGED <<asset, version, issued, queue, work>>
  BY DEF Crash
<1>3. /\ At(s, "enqueue") => sess[s].id \in Ids /\ lost' = lost \cup {sess[s].id}
      /\ ~At(s, "enqueue") => lost' = lost
  BY DEF Crash, Inv, TypeInv, InHand, Hand, At
<1>4. TypeInv'
  BY <1>1, <1>2, <1>3 DEF Inv, TypeInv, TypeOK, InHand
<1>5. Attended'
  BY <1>1, <1>2, <1>3, StillAttended
<1> QED
  BY <1>4, <1>5 DEF Inv

LEMMA EnqueueStep ==
    ASSUME Inv, NEW s \in Sessions, Enqueue(s)
    PROVE  Inv'
<1> DEFINE v == sess[s].id
<1>1. /\ sess' \in [Sessions -> Session] /\ \A t \in Sessions : Hand(sess'[t])
      /\ \A t \in Sessions \ {s} : sess'[t] = sess[t]
  BY Finishes DEF Enqueue, Inv
<1>2. UNCHANGED <<asset, version, issued, lost, work>>
  BY DEF Enqueue
<1>3. v \in Ids
  BY DEF Enqueue, Inv, TypeInv, InHand, Hand, At
<1>4. queue' = [queue EXCEPT ![v] = @ + 1]
  BY DEF Enqueue
<1> HIDE DEF v
<1>5. /\ queue' \in [Ids -> Nat] /\ queue'[v] > 0
      /\ \A u \in Ids : queue[u] > 0 => queue'[u] > 0
  BY <1>3, <1>4 DEF Inv, TypeInv, TypeOK
<1>6. TypeInv'
  BY <1>1, <1>2, <1>5 DEF Inv, TypeInv, TypeOK, InHand
<1>7. \A t \in Sessions : At(t, "enqueue") =>
          sess'[t] = sess[t] \/ queue'[sess[t].id] > 0
  BY <1>1, <1>5 DEF v
<1>8. Attended'
  BY <1>2, <1>5, <1>7, StillAttended
<1> QED
  BY <1>6, <1>8 DEF Inv

(* A view that writes one row and leaves with nothing to send, or to send  *)
(* a message about it.                                                     *)
LEMMA Written ==
    ASSUME Inv, NEW s \in Sessions, ~At(s, "enqueue"),
           NEW v \in Ids, NEW row \in Version \cup {None},
           version' = [version EXCEPT ![v] = row],
           UNCHANGED <<asset, queue, work>>, issued' \subseteq Ids,
           lost' \subseteq lost, lost \ {v} \subseteq lost',
           sess' \in [Sessions -> Session], \A t \in Sessions : Hand(sess'[t]),
           \A t \in Sessions \ {s} : sess'[t] = sess[t],
           \/ row = None
           \/ row.scan = "clean"
           \/ row.scan = "pending" /\ sess'[s].pc = "enqueue" /\ sess'[s].id = v
           \/ version[v] # None /\ row.scan = version[v].scan /\ UNCHANGED lost
    PROVE  Inv'
<1>1. TypeInv'
  BY DEF Inv, TypeInv, TypeOK, InHand
<1>2. /\ \A t \in Sessions : At(t, "enqueue") => sess'[t] = sess[t]
      /\ \A w \in Workers : work'[w] = work[w]
      /\ UNCHANGED queue
      /\ \/ row = None
         \/ row.scan \notin {"pending", "scanning"}
         \/ row.scan = "pending" /\ sess'[s].pc = "enqueue" /\ sess'[s].id = v
         \/ version[v] # None /\ row.scan = version[v].scan /\ UNCHANGED <<lost, work>>
  OBVIOUS
<1>3. Attended'
  BY <1>2, OneRow
<1> QED
  BY <1>1, <1>3 DEF Inv

LEMMA InsertStep ==
    ASSUME Inv, NEW s \in Sessions, Insert(s)
    PROVE  Inv'
<1>1. PICK v \in Ids \ issued :
          IF NumberFree(v, sess[s].number)
          THEN /\ version' = [version EXCEPT ![v] =
                      [number |-> sess[s].number, state |-> "Draft",
                       scan |-> "pending", file |-> sess[s].file]]
               /\ issued' = issued \cup {v}
               /\ sess' = [sess EXCEPT ![s].pc = "enqueue", ![s].id = v]
          ELSE UNCHANGED <<version, issued>> /\ Finish(s)
  BY DEF Insert
<1>2. ~At(s, "enqueue") /\ UNCHANGED <<asset, queue, lost, work>>
  BY DEF Insert, At
<1>3. CASE NumberFree(v, sess[s].number)
  <2> DEFINE row == [number |-> sess[s].number, state |-> "Draft",
                     scan |-> "pending", file |-> sess[s].file]
             x == [sess[s] EXCEPT !.pc = "enqueue", !.id = v]
  <2>1. row \in Version /\ row.scan = "pending"
    BY DEF Insert, At, Inv, TypeInv, TypeOK, InHand, Hand, Session, Version, ScanStatuses
  <2>2. sess' = [sess EXCEPT ![s] = x] /\ version' = [version EXCEPT ![v] = row]
    BY <1>1, <1>3 DEF Inv, TypeInv, TypeOK
  <2>3. x \in Session /\ x.pc = "enqueue" /\ x.id = v
    BY DEF Inv, TypeInv, TypeOK, Session, Steps
  <2> HIDE DEF row, x
  <2>4. Hand(x)
    BY <2>3 DEF Hand
  <2>5. /\ sess' \in [Sessions -> Session] /\ \A t \in Sessions : Hand(sess'[t])
        /\ sess'[s] = x /\ \A t \in Sessions \ {s} : sess'[t] = sess[t]
    BY <2>2, <2>3, <2>4, OneSession DEF Inv
  <2>6. issued' \subseteq Ids
    BY <1>1, <1>3 DEF Inv, TypeInv, TypeOK
  <2> QED
    BY <1>2, <2>1, <2>2, <2>3, <2>5, <2>6, Written
<1>4. CASE ~NumberFree(v, sess[s].number)
  <2>1. UNCHANGED <<version, issued>> /\ Finish(s)
    BY <1>1, <1>4
  <2>2. asset' \in Statuses
    BY <1>2 DEF Inv, TypeInv, TypeOK
  <2> QED
    BY <1>2, <2>1, <2>2, Finishes, Looked DEF Inv
<1> QED
  BY <1>3, <1>4

LEMMA ReplaceSaveStep ==
    ASSUME Inv, NEW s \in Sessions, ReplaceSave(s)
    PROVE  Inv'
<1> DEFINE v == sess[s].id
           row == [sess[s].row EXCEPT !.file = sess[s].file, !.scan = "pending"]
<1>1. v \in Ids /\ sess[s].row \in Version /\ sess[s].file \in Files
  BY DEF ReplaceSave, Inv, TypeInv, InHand, Hand, At
<1>2. row \in Version /\ row.scan = "pending"
  BY <1>1 DEF Version, ScanStatuses
<1>3. /\ At(s, "replace") /\ ~At(s, "enqueue")
      /\ UNCHANGED <<asset, issued, queue, work>>
  BY DEF ReplaceSave, SaveVersion, At
<1>4. \/ version' = [version EXCEPT ![v] = row] /\ Goto(s, "enqueue") /\ lost' = lost \ {v}
      \/ UNCHANGED <<version, lost>> /\ Finish(s)
  BY DEF ReplaceSave, SaveVersion
<1>5. issued' \subseteq Ids /\ asset' \in Statuses
  BY <1>3 DEF Inv, TypeInv, TypeOK
<1>6. CASE version' = [version EXCEPT ![v] = row] /\ Goto(s, "enqueue") /\ lost' = lost \ {v}
  <2>1. "enqueue" \in Steps
    BY DEF Steps
  <2>2. /\ sess' \in [Sessions -> Session] /\ \A t \in Sessions : Hand(sess'[t])
        /\ sess'[s].pc = "enqueue" /\ sess'[s].id = v
        /\ \A t \in Sessions \ {s} : sess'[t] = sess[t]
    BY <1>3, <1>6, <2>1, Moves DEF Inv
  <2> HIDE DEF v, row
  <2> QED
    BY <1>1, <1>2, <1>3, <1>5, <1>6, <2>2, Written
<1>7. CASE UNCHANGED <<version, lost>> /\ Finish(s)
  BY <1>3, <1>5, <1>7, Finishes, Looked DEF Inv
<1> QED
  BY <1>4, <1>6, <1>7

LEMMA DeleteRowStep ==
    ASSUME Inv, NEW s \in Sessions, DeleteRow(s)
    PROVE  Inv'
<1>1. sess[s].id \in Ids /\ ~At(s, "enqueue")
  BY DEF DeleteRow, Inv, TypeInv, InHand, Hand, At
<1>2. issued' \subseteq Ids
  BY DEF DeleteRow, Inv, TypeInv, TypeOK
<1> QED
  BY <1>1, <1>2, Finishes, Written DEF DeleteRow, Inv

LEMMA FinalizeStep ==
    ASSUME Inv, NEW s \in Sessions, Finalize(s)
    PROVE  Inv'
<1> DEFINE v == sess[s].id
<1>1. v \in Ids /\ At(s, "finalize") /\ ~At(s, "enqueue")
  BY DEF Finalize, Inv, TypeInv, InHand, Hand, At
<1>2. UNCHANGED <<asset, issued, queue, lost, work>>
  BY DEF Finalize
<1>3. issued' \subseteq Ids /\ asset' \in Statuses
  BY <1>2 DEF Inv, TypeInv, TypeOK
<1>4. CASE version[v] = None
  BY <1>1, <1>2, <1>3, <1>4, Finishes, Looked DEF Finalize, Inv
<1>5. CASE version[v] # None
  <2> DEFINE row == [version[v] EXCEPT !.state = "Draft"]
  <2>1. version[v] \in Version
    BY <1>1, <1>5 DEF Inv, TypeInv, TypeOK
  <2>2. row \in Version /\ row.scan = version[v].scan
    BY <2>1 DEF Version
  <2>3. version' = [version EXCEPT ![v] = row] /\ Goto(s, "publish")
    BY <1>1, <1>5 DEF Finalize, Inv, TypeInv, TypeOK
  <2>4. "publish" \in Steps
    BY DEF Steps
  <2>5. /\ sess' \in [Sessions -> Session] /\ \A t \in Sessions : Hand(sess'[t])
        /\ \A t \in Sessions \ {s} : sess'[t] = sess[t]
    BY <1>1, <2>3, <2>4, Moves DEF Inv
  <2> HIDE DEF v, row
  <2> QED
    BY <1>1, <1>2, <1>3, <1>5, <2>2, <2>3, <2>5, Written
<1> QED
  BY <1>4, <1>5

LEMMA PublishSaveStep ==
    ASSUME Inv, NEW s \in Sessions, PublishSave(s)
    PROVE  Inv'
<1> DEFINE v == sess[s].id
           row == [sess[s].row EXCEPT !.state = "Finalized"]
<1>1. /\ v \in Ids /\ sess[s].row \in Version /\ sess[s].row.scan = "clean"
      /\ ~At(s, "enqueue")
  BY DEF PublishSave, Inv, TypeInv, InHand, Hand, At
<1>2. row \in Version /\ row.scan = "clean"
  BY <1>1 DEF Version
<1>3. UNCHANGED <<asset, issued, queue, lost, work>> /\ Finish(s)
  BY DEF PublishSave, SaveVersion
<1>4. version' = [version EXCEPT ![v] = row] \/ UNCHANGED version
  BY DEF PublishSave, SaveVersion
<1>5. issued' \subseteq Ids /\ asset' \in Statuses
  BY <1>3 DEF Inv, TypeInv, TypeOK
<1>6. /\ sess' \in [Sessions -> Session] /\ \A t \in Sessions : Hand(sess'[t])
      /\ \A t \in Sessions \ {s} : sess'[t] = sess[t]
  BY <1>3, Finishes DEF Inv
<1> HIDE DEF v, row
<1>7. CASE version' = [version EXCEPT ![v] = row]
  BY <1>1, <1>2, <1>3, <1>5, <1>6, <1>7, Written
<1>8. CASE UNCHANGED version
  BY <1>1, <1>3, <1>5, <1>6, <1>8, Looked
<1> QED
  BY <1>4, <1>7, <1>8

LEMMA HandleStep ==
    ASSUME Inv, NEW s \in Sessions, Handle(s)
    PROVE  Inv'
BY SmallSteps, InsertStep, EnqueueStep, ReplaceSaveStep, DeleteRowStep, FinalizeStep,
   PublishSaveStep DEF Handle
-----------------------------------------------------------------------------
(* Scans.                                                                  *)

LEMMA TakeStep ==
    ASSUME Inv, NEW w \in Workers, NEW v \in Ids, Take(w, v)
    PROVE  Inv'
<1>1. UNCHANGED <<asset, version, issued, lost, sess>> /\ work[w].pc = "idle"
  BY DEF Take
<1>2. queue' \in [Ids -> Nat] /\ \A u \in Ids \ {v} : queue'[u] = queue[u]
  BY DEF Take, Inv, TypeInv, TypeOK
<1>3. CASE v \in Present /\ version[v].scan = "pending"
  <2> DEFINE x == [pc |-> "loaded", id |-> v, file |-> version[v].file]
  <2>1. x \in Scan /\ Grip(x) /\ x.pc = "loaded" /\ x.id = v
    BY <1>3 DEF Present, Inv, TypeInv, TypeOK, Version, Scan, Grip
  <2>2. work' = [work EXCEPT ![w] = x]
    BY <1>3 DEF Take
  <2> HIDE DEF x
  <2>3. /\ work' \in [Workers -> Scan] /\ \A u \in Workers : Grip(work'[u])
        /\ work'[w] = x /\ \A u \in Workers \ {w} : work'[u] = work[u]
    BY <2>1, <2>2, OneWorker DEF Inv
  <2>4. TypeInv'
    BY <1>1, <1>2, <2>3 DEF Inv, TypeInv, TypeOK, InHand
  <2>5. Attended'
    BY <1>1, <1>2, <1>3, <2>1, <2>3 DEF Inv, Attended, Present, At
  <2> QED
    BY <2>4, <2>5 DEF Inv
<1>4. CASE ~(v \in Present /\ version[v].scan = "pending")
  <2>1. UNCHANGED work
    BY <1>4 DEF Take
  <2>2. TypeInv'
    BY <1>1, <1>2, <2>1 DEF Inv, TypeInv, TypeOK, InHand
  <2>3. Attended'
    BY <1>1, <1>2, <1>4, <2>1 DEF Inv, Attended, Present, At
  <2> QED
    BY <2>2, <2>3 DEF Inv
<1> QED
  BY <1>3, <1>4

LEMMA StartScanStep ==
    ASSUME Inv, NEW w \in Workers, StartScan(w)
    PROVE  Inv'
<1> DEFINE v == work[w].id
           x == [work[w] EXCEPT !.pc = "scanning"]
           row == [version[v] EXCEPT !.scan = "scanning"]
<1>1. v \in Ids /\ UNCHANGED <<asset, issued, queue, lost, sess>>
  BY DEF StartScan, Inv, TypeInv, InHand, Grip
<1>2. CASE v \in Present
  <2>1. row \in Version /\ row.scan = "scanning"
    BY <1>1, <1>2 DEF Present, Inv, TypeInv, TypeOK, Version, ScanStatuses
  <2>2. x \in Scan /\ Grip(x) /\ x.pc = "scanning" /\ x.id = v
    BY DEF Inv, TypeInv, TypeOK, InHand, StartScan, Scan, Grip
  <2>3. version' = [version EXCEPT ![v] = row] /\ work' = [work EXCEPT ![w] = x]
    BY <1>1, <1>2 DEF StartScan, Inv, TypeInv, TypeOK
  <2>4. \A t \in Sessions : sess'[t] = sess[t]
    BY <1>1
  <2>5. work[w].id = v
    OBVIOUS
  <2> HIDE DEF v, x, row
  <2>6. /\ work' \in [Workers -> Scan] /\ \A u \in Workers : Grip(work'[u])
        /\ work'[w] = x /\ \A u \in Workers \ {w} : work'[u] = work[u]
    BY <2>2, <2>3, OneWorker DEF Inv
  <2>7. TypeInv'
    BY <1>1, <2>1, <2>3, <2>6 DEF Inv, TypeInv, TypeOK, InHand
  <2>8. Attended'
    BY <1>1, <2>1, <2>2, <2>3, <2>4, <2>5, <2>6, OneRow
  <2> QED
    BY <2>7, <2>8 DEF Inv
<1>3. CASE v \notin Present
  <2>1. UNCHANGED version /\ Leave(w)
    BY <1>3 DEF StartScan
  <2>2. /\ work' \in [Workers -> Scan] /\ \A u \in Workers : Grip(work'[u])
        /\ \A u \in Workers \ {w} : work'[u] = work[u]
    BY <2>1, OneWorker, NoScanValue DEF Leave, Inv
  <2>3. TypeInv'
    BY <1>1, <2>1, <2>2 DEF Inv, TypeInv, TypeOK, InHand
  <2>4. Attended'
    BY <1>1, <1>3, <2>1, <2>2 DEF Inv, Attended, Present, At
  <2> QED
    BY <2>3, <2>4 DEF Inv
<1> QED
  BY <1>2, <1>3

LEMMA ReportStep ==
    ASSUME Inv, NEW w \in Workers, Report(w)
    PROVE  Inv'
<1> DEFINE v == work[w].id
<1>1. /\ v \in Ids /\ UNCHANGED <<asset, issued, queue, sess>>
      /\ lost' = lost \ {v} /\ Leave(w)
  BY DEF Report, Inv, TypeInv, InHand, Grip
<1>2. PICK verdict \in Verdicts(work[w].file) :
          version' = IF v \in Present THEN [version EXCEPT ![v].scan = verdict] ELSE version
  BY DEF Report
<1>3. verdict \in {"infected", "clean", "error"}
  BY DEF Verdicts
<1>4. /\ work' \in [Workers -> Scan] /\ \A u \in Workers : Grip(work'[u])
      /\ \A u \in Workers \ {w} : work'[u] = work[u]
  BY <1>1, OneWorker, NoScanValue DEF Leave, Inv
<1>5. \A u \in Workers : work'[u] = work[u] \/ work[u].id = v
  BY <1>4
<1> HIDE DEF v
<1> DEFINE row == IF v \in Present THEN [version[v] EXCEPT !.scan = verdict] ELSE None
<1>6. /\ row \in Version \cup {None}
      /\ row = None \/ row.scan \notin {"pending", "scanning"}
  BY <1>1, <1>3 DEF Present, Inv, TypeInv, TypeOK, Version, ScanStatuses
<1>7. version' = [version EXCEPT ![v] = row]
  BY <1>1, <1>2 DEF Present, Inv, TypeInv, TypeOK
<1> HIDE DEF row
<1>8. TypeInv'
  BY <1>1, <1>4, <1>6, <1>7 DEF Inv, TypeInv, TypeOK, InHand
<1>9. Attended'
  BY <1>1, <1>5, <1>6, <1>7, OneRow
<1> QED
  BY <1>8, <1>9 DEF Inv

LEMMA DieStep ==
    ASSUME Inv, NEW w \in Workers, Die(w) \/ ReportFails(w)
    PROVE  Inv'
<1>1. /\ UNCHANGED <<asset, version, issued, queue, sess>>
      /\ lost' = lost \cup {work[w].id} /\ work[w].id \in Ids
  BY DEF Die, ReportFails, Inv, TypeInv, InHand, Grip
<1>2. /\ work' \in [Workers -> Scan] /\ \A u \in Workers : Grip(work'[u])
      /\ \A u \in Workers \ {w} : work'[u] = work[u]
  BY OneWorker, NoScanValue DEF Die, ReportFails, Leave, Inv
<1>3. TypeInv'
  BY <1>1, <1>2 DEF Inv, TypeInv, TypeOK, InHand
<1>4. Attended'
  BY <1>1, <1>2, StillAttended
<1> QED
  BY <1>3, <1>4 DEF Inv

LEMMA SweepStep ==
    ASSUME Inv, Sweep
    PROVE  Inv'
<1>1. PICK sent \in SUBSET Overdue :
          /\ queue' = [v \in Ids |-> IF v \in sent THEN queue[v] + 1 ELSE queue[v]]
          /\ lost' = lost \ sent
          /\ UNCHANGED <<asset, version, issued, sess, work>>
  BY DEF Sweep
<1>2. /\ queue' \in [Ids -> Nat] /\ \A v \in Ids : queue[v] > 0 => queue'[v] > 0
      /\ \A v \in Ids \cap sent : queue'[v] > 0
  BY <1>1 DEF Inv, TypeInv, TypeOK
<1>3. TypeInv'
  BY <1>1, <1>2 DEF Inv, TypeInv, TypeOK, InHand
<1>4. \A v \in sent : version[v].scan \in {"pending", "error"}
  BY DEF Overdue
<1>5. Attended'
  BY <1>1, <1>2, <1>4 DEF Inv, Attended, Present, At
<1> QED
  BY <1>3, <1>5 DEF Inv
-----------------------------------------------------------------------------
LEMMA InvInit == Init => Inv
<1> SUFFICES ASSUME Init PROVE Inv
  OBVIOUS
<1>1. TypeInv
  BY IdleValue, NoScanValue DEF Init, TypeInv, TypeOK, InHand, Statuses
<1>2. Attended
  BY DEF Init, Attended, Present
<1> QED
  BY <1>1, <1>2 DEF Inv

LEMMA InvStep == Inv /\ [Next]_vars => Inv'
<1> SUFFICES ASSUME Inv, [Next]_vars PROVE Inv'
  OBVIOUS
<1>1. CASE UNCHANGED vars
  BY <1>1 DEF vars, Inv, TypeInv, TypeOK, InHand, Attended, Present, At
<1>2. ASSUME NEW w \in Workers, ScanStep(w)
      PROVE  Inv'
  BY <1>2, StartScanStep, ReportStep, DieStep DEF ScanStep
<1> QED
  BY <1>1, <1>2, CallStep, HandleStep, CrashStep, TakeStep, DieStep, SweepStep DEF Next

(* Rows, queue, views and workers stay well typed: every view has in hand  *)
(* what its next statement needs, deleted rows included.                   *)
THEOREM AssetTypeCorrect == Spec => []TypeOK
<1>1. Inv => TypeOK
  BY DEF Inv, TypeInv
<1> QED
  BY <1>1, InvInit, InvStep, PTL DEF Spec

(* Whatever the views, the scans, the sweeps and the crashes do to each    *)
(* other, a version that waits for its scan is attended to, unless a crash *)
(* or a failed announcement took the message or the scan, and neither a    *)
(* sweep nor another file has made it good since.                          *)
THEOREM EveryVersionAttended == Spec => []Attended
<1>1. Inv => Attended
  BY DEF Inv
<1> QED
  BY <1>1, InvInit, InvStep, PTL DEF Spec
-----------------------------------------------------------------------------
(* Uploads.  Numbers are handed out without a gap, so the number of who is *)
(* about to insert is free only if it is the next one; and who inserts it  *)
(* saw no draft, or another upload took the number meanwhile.              *)
Taken(n) == \E v \in Present : version[v].number = n

Numbered ==
    /\ \A u, v \in Present : version[u].number = version[v].number => u = v
    /\ \A v \in Present : \A n \in 1..version[v].number : Taken(n)

DraftIsLatest == \A u \in Present : version[u].state = "Draft" => Latest(u)

Carries(s) ==
    /\ sess[s].pc \in {"idle", "validate", "insert", "enqueue", "finalize", "publish", "edit"}
    /\ sess[s].pc \in {"validate", "insert"} =>
           \A n \in 1..(sess[s].number - 1) : Taken(n)
    /\ sess[s].pc = "insert" /\ HasDraft => Taken(sess[s].number)
    /\ s \in Publishing =>
           /\ sess[s].id \in Present /\ version[sess[s].id].state = "Draft"
           /\ sess[s].row.number = version[sess[s].id].number

UploadInv ==
    /\ Inv
    /\ Present \subseteq issued
    /\ Numbered /\ DraftIsLatest
    /\ \A s \in Sessions : Carries(s)
    /\ \A s, t \in Publishing : s = t

(* No row comes or goes, and none becomes a draft.                         *)
RowsKept ==
    /\ Present' = Present
    /\ \A v \in Present :
           /\ version'[v].number = version[v].number
           /\ version'[v].state = "Draft" => version[v].state = "Draft"

LEMMA RowsKeptNumbers ==
    ASSUME RowsKept
    PROVE  /\ \A n : Taken(n) <=> \E v \in Present : version'[v].number = n
           /\ HasDraft' => HasDraft
BY DEF RowsKept, Taken, HasDraft

LEMMA UploadKept ==
    ASSUME UploadInv, Inv', RowsKept, issued \subseteq issued',
           \A s \in Sessions :
               \/ sess'[s] = sess[s] /\ (s \in Publishing => version'[sess[s].id].state = "Draft")
               \/ Carries(s)',
           \A s, t \in Publishing' : s = t
    PROVE  UploadInv'
<1>1. Numbered'
  BY DEF UploadInv, Numbered, RowsKept, Taken
<1>2. DraftIsLatest'
  BY DEF UploadInv, DraftIsLatest, Latest, RowsKept
<1>3. ASSUME NEW s \in Sessions PROVE Carries(s)'
  <2>1. CASE sess'[s] = sess[s] /\ (s \in Publishing => version'[sess[s].id].state = "Draft")
    <3>1. Carries(s)
      BY DEF UploadInv
    <3>2. s \in Publishing' <=> s \in Publishing
      BY <2>1 DEF Publishing
    <3> QED
      BY <2>1, <3>1, <3>2 DEF Carries, RowsKept, Taken, HasDraft
  <2> QED
    BY <2>1
<1> QED
  BY <1>1, <1>2, <1>3 DEF UploadInv, RowsKept

(* A scan writes the scan of a row, if anything.                           *)
Rescanned ==
    /\ Present' = Present
    /\ \A v \in Present :
           /\ version'[v].number = version[v].number
           /\ version'[v].state = version[v].state /\ version'[v].file = version[v].file

LEMMA ScanRows ==
    ASSUME Inv, NEW w \in Workers, ScanStep(w) \/ \E v \in Ids : Take(w, v)
    PROVE  Rescanned /\ UNCHANGED <<asset, issued, sess>>
<1>1. CASE UNCHANGED version /\ UNCHANGED <<asset, issued, sess>>
  BY <1>1 DEF Rescanned, Present
<1>2. CASE /\ UNCHANGED <<asset, issued, sess>>
           /\ \E v \in Present, x \in ScanStatuses : version' = [version EXCEPT ![v].scan = x]
  <2>1. PICK v \in Present, x \in ScanStatuses : version' = [version EXCEPT ![v].scan = x]
    BY <1>2
  <2> DEFINE row == [version[v] EXCEPT !.scan = x]
  <2>2. version[v] \in Version /\ v \in Ids
    BY DEF Inv, TypeInv, TypeOK, Present
  <2>3. /\ row \in Version /\ row.number = version[v].number
        /\ row.state = version[v].state /\ row.file = version[v].file
    BY <2>2 DEF Version
  <2>4. /\ version'[v] = row
        /\ \A u \in Ids \ {v} : version'[u] = version[u]
    BY <2>1, <2>2 DEF Inv, TypeInv, TypeOK
  <2> HIDE DEF row
  <2> QED
    BY <1>2, <2>2, <2>3, <2>4, NoneIsNoRow DEF Rescanned, Present
<1>3. ASSUME StartScan(w) PROVE Rescanned /\ UNCHANGED <<asset, issued, sess>>
  <2>1. "scanning" \in ScanStatuses
    BY DEF ScanStatuses
  <2> QED
    BY <1>1, <1>2, <1>3, <2>1 DEF StartScan
<1>4. ASSUME Report(w) PROVE Rescanned /\ UNCHANGED <<asset, issued, sess>>
  <2>1. \A f : Verdicts(f) \subseteq ScanStatuses
    BY DEF Verdicts, ScanStatuses
  <2> QED
    BY <1>1, <1>2, <1>4, <2>1 DEF Report
<1>5. ASSUME NEW v \in Ids, Take(w, v) PROVE Rescanned /\ UNCHANGED <<asset, issued, sess>>
  BY <1>1, <1>5 DEF Take
<1>6. ASSUME ReportFails(w) PROVE Rescanned /\ UNCHANGED <<asset, issued, sess>>
  BY <1>1, <1>6 DEF ReportFails
<1> QED
  BY <1>3, <1>4, <1>5, <1>6 DEF ScanStep

(* A view that has left, sends its message or edits the asset carries      *)
(* nothing; one that looked leaves the rows alone.                         *)
LEMMA UploadLooked ==
    ASSUME UploadInv, Inv', UNCHANGED <<version, issued>>, NEW s \in Sessions,
           \A t \in Sessions \ {s} : sess'[t] = sess[t],
           sess'[s].pc \in {"idle", "enqueue", "edit"} \/ Carries(s)',
           \A t, u \in Publishing' : t = u
    PROVE  UploadInv'
<1>1. RowsKept
  BY DEF RowsKept, Present
<1>2. \A t \in Publishing : version'[sess[t].id].state = "Draft"
  BY DEF UploadInv, Carries, Publishing
<1>3. Carries(s)'
  BY DEF Carries, Publishing
<1>4. \A t \in Sessions :
          \/ sess'[t] = sess[t] /\ (t \in Publishing => version'[sess[t].id].state = "Draft")
          \/ Carries(t)'
  BY <1>2, <1>3
<1> QED
  BY <1>1, <1>4, UploadKept

LEMMA UploadUpload ==
    ASSUME UploadInv, Inv', NEW s \in Sessions, NEW f \in Files, Upload(s, f),
           \A t, u \in Publishing' : t = u
    PROVE  UploadInv'
<1>1. PICK n \in 0..Cardinality(Ids) :
          /\ NextNumber(n)
          /\ sess' = [sess EXCEPT ![s] = [Idle EXCEPT
                 !.pc = "validate", !.status = asset, !.number = n, !.file = f]]
  BY DEF Upload
<1>2. n \in Nat
  BY FS_CardinalityType, AssetConstants
<1>3. /\ sess'[s].pc = "validate" /\ sess'[s].number = n
      /\ \A t \in Sessions \ {s} : sess'[t] = sess[t]
      /\ UNCHANGED <<version, issued>>
  BY <1>1 DEF Idle, UploadInv, Inv, TypeInv, TypeOK, Upload
<1>4. ASSUME NEW k \in 1..(n - 1) PROVE Taken(k)
  <2>1. PICK v \in Present : version[v].number = n - 1
    BY <1>1, <1>2, <1>4 DEF NextNumber
  <2> QED
    BY <1>2, <1>4, <2>1 DEF UploadInv, Numbered
<1>5. Carries(s)'
  BY <1>3, <1>4 DEF Carries, Publishing, Taken, Present
<1> QED
  BY <1>3, <1>5, UploadLooked

LEMMA UploadPublish ==
    ASSUME UploadInv, Inv', NEW s \in Sessions, NEW v \in Ids, Publish(s, v),
           \A t, u \in Publishing' : t = u
    PROVE  UploadInv'
<1>1. /\ sess'[s].pc = "finalize" /\ sess'[s].id = v /\ sess'[s].row = version[v]
      /\ \A t \in Sessions \ {s} : sess'[t] = sess[t]
      /\ UNCHANGED <<version, issued>>
      /\ v \in Present /\ version[v].state = "Draft"
  BY DEF Publish, Load, CanFinalize, Idle, UploadInv, Inv, TypeInv, TypeOK
<1>2. Carries(s)'
  BY <1>1 DEF Carries, Present
<1> QED
  BY <1>1, <1>2, UploadLooked

LEMMA UploadValidate ==
    ASSUME UploadInv, Inv', NEW s \in Sessions, Validate(s),
           \A t, u \in Publishing' : t = u
    PROVE  UploadInv'
<1>1. UNCHANGED <<version, issued>>
  BY DEF Validate
<1>2. CASE CanCreate(sess[s].status)
  <2>1. /\ sess'[s].pc = "insert" /\ sess'[s].number = sess[s].number
        /\ \A t \in Sessions \ {s} : sess'[t] = sess[t]
    BY <1>2, MovedValue DEF Validate, Goto, UploadInv, Inv, TypeInv, TypeOK, Steps
  <2>2. Carries(s)'
    BY <1>1, <1>2, <2>1 DEF Carries, UploadInv, Validate, At, CanCreate, HasDraft, Taken,
                            Present, Publishing
  <2> QED
    BY <1>1, <2>1, <2>2, UploadLooked
<1>3. CASE ~CanCreate(sess[s].status)
  BY <1>1, <1>3, Finishes, UploadLooked DEF Validate, UploadInv, Inv
<1> QED
  BY <1>2, <1>3

(* Who inserts has the next number, or none: the unique key decides which  *)
(* of several uploads gets it.                                             *)
LEMMA UploadInsert ==
    ASSUME UploadInv, Inv', NEW s \in Sessions, Insert(s),
           \A t, u \in Publishing' : t = u
    PROVE  UploadInv'
<1> DEFINE n == sess[s].number
<1>1. PICK v \in Ids \ issued :
          IF NumberFree(v, n)
          THEN /\ version' = [version EXCEPT ![v] =
                      [number |-> n, state |-> "Draft",
                       scan |-> "pending", file |-> sess[s].file]]
               /\ issued' = issued \cup {v}
               /\ sess' = [sess EXCEPT ![s].pc = "enqueue", ![s].id = v]
          ELSE UNCHANGED <<version, issued>> /\ Finish(s)
  BY DEF Insert
<1>2. CASE ~NumberFree(v, n)
  BY <1>1, <1>2, Finishes, UploadLooked DEF UploadInv, Inv
<1>3. CASE NumberFree(v, n)
  <2> DEFINE row == [number |-> n, state |-> "Draft",
                     scan |-> "pending", file |-> sess[s].file]
  <2>1. n \in Nat \ {0} /\ sess[s].file \in Files
    BY DEF UploadInv, Inv, TypeInv, TypeOK, InHand, Hand, Session, Insert, At
  <2>2. v \notin Present
    BY DEF UploadInv
  <2>3. ~Taken(n)
    BY <1>3, <2>2 DEF NumberFree, Taken
  <2>4. ~HasDraft /\ \A k \in 1..(n - 1) : Taken(k)
    BY <2>3 DEF UploadInv, Carries, Insert, At
  <2>5. \A u \in Present : version[u].number \in Nat /\ version[u].number < n
    <3> SUFFICES ASSUME NEW u \in Present
                 PROVE  version[u].number \in Nat /\ version[u].number < n
      OBVIOUS
    <3>1. version[u].number \in Nat
      BY DEF UploadInv, Inv, TypeInv, TypeOK, Present, Version
    <3>2. \A k \in 1..version[u].number : Taken(k)
      BY DEF UploadInv, Numbered
    <3> QED
      BY <2>1, <2>3, <3>1, <3>2
  <2>6. row \in Version /\ row.number = n /\ row.state = "Draft"
    BY <2>1 DEF Version, ScanStatuses
  <2>7. version' = [version EXCEPT ![v] = row]
    BY <1>1, <1>3
  <2> HIDE DEF row
  <2>8. /\ version'[v] = row /\ \A u \in Ids \ {v} : version'[u] = version[u]
        /\ Present' = Present \cup {v}
    BY <2>6, <2>7, NoneIsNoRow DEF UploadInv, Inv, TypeInv, TypeOK, Present
  <2>9. \A u \in Present : u \in Ids /\ version'[u] = version[u] /\ u # v
    BY <2>2, <2>8 DEF Present
  <2>10. \A k : Taken(k)' <=> Taken(k) \/ k = n
    BY <2>6, <2>8, <2>9 DEF Taken
  <2> HIDE DEF n
  <2>11. Numbered'
    <3>1. \A a, b \in Present' : version'[a].number = version'[b].number => a = b
      BY <2>5, <2>6, <2>8, <2>9 DEF UploadInv, Numbered
    <3>2. ASSUME NEW a \in Present' PROVE \A k \in 1..version'[a].number : Taken(k)'
      <4>1. CASE a = v
        <5>1. version'[a].number = n
          BY <2>6, <2>8, <4>1
        <5>2. \A k \in 1..n : k = n \/ k \in 1..(n - 1)
          BY <2>1
        <5> QED
          BY <2>4, <2>10, <5>1, <5>2
      <4>2. CASE a \in Present
        <5>1. \A k \in 1..version[a].number : Taken(k)
          BY <4>2 DEF UploadInv, Numbered
        <5> QED
          BY <2>9, <2>10, <4>2, <5>1
      <4> QED
        BY <2>8, <4>1, <4>2
    <3> QED
      BY <3>1, <3>2 DEF Numbered
  <2>12. DraftIsLatest'
    <3>1. \A u \in Present : version'[u].state # "Draft"
      BY <2>4, <2>9 DEF HasDraft
    <3>2. Latest(v)'
      BY <2>1, <2>5, <2>6, <2>8, <2>9 DEF Latest
    <3> QED
      BY <2>8, <3>1, <3>2 DEF DraftIsLatest
  <2>13. /\ sess'[s].pc = "enqueue" /\ \A t \in Sessions \ {s} : sess'[t] = sess[t]
         /\ issued' = issued \cup {v}
    BY <1>1, <1>3 DEF UploadInv, Inv, TypeInv, TypeOK, Session
  <2>14. ASSUME NEW t \in Sessions PROVE Carries(t)'
    <3>1. CASE t = s
      BY <2>13, <3>1 DEF Carries, Publishing
    <3>2. CASE t # s
      <4>1. sess'[t] = sess[t] /\ Carries(t) /\ t \notin Publishing
        BY <2>4, <2>13, <3>2 DEF UploadInv, Carries, HasDraft
      <4>2. t \notin Publishing'
        BY <4>1 DEF Publishing
      <4>3. ASSUME NEW m, m = sess[t].number, sess[t].pc = "insert"
            PROVE  Taken(m)'
        <5>1. m \in Nat \ {0}
          BY <4>3 DEF UploadInv, Inv, TypeInv, TypeOK, InHand, Hand, Session
        <5>2. \A k \in 1..(m - 1) : Taken(k)
          BY <4>1, <4>3 DEF Carries
        <5>3. Taken(m) \/ m = n
          BY <2>1, <2>3, <2>4, <5>1, <5>2
        <5> QED
          BY <2>10, <5>3
      <4>4. sess[t].pc \in {"validate", "insert"} =>
                \A k \in 1..(sess[t].number - 1) : Taken(k)'
        BY <2>10, <4>1 DEF Carries
      <4> QED
        BY <4>1, <4>2, <4>3, <4>4 DEF Carries, Taken, Present
    <3> QED
      BY <3>1, <3>2
  <2>15. Present' \subseteq issued'
    BY <2>8, <2>13 DEF UploadInv
  <2> QED
    BY <2>11, <2>12, <2>14, <2>15 DEF UploadInv
<1> QED
  BY <1>2, <1>3

(* The one publication there is writes a row that is still the draft it    *)
(* loaded.                                                                 *)
LEMMA UploadWrites ==
    ASSUME UploadInv, Inv', NEW s \in Publishing, NEW row \in Version,
           version' = [version EXCEPT ![sess[s].id] = row],
           row.number = version[sess[s].id].number,
           UNCHANGED issued, \A t \in Sessions \ {s} : sess'[t] = sess[t],
           sess'[s].pc = "idle" \/ Carries(s)',
           \A t, u \in Publishing' : t = u
    PROVE  UploadInv'
<1> DEFINE v == sess[s].id
<1>1. s \in Sessions /\ v \in Present /\ v \in Ids /\ version[v].state = "Draft"
  BY DEF UploadInv, Carries, Publishing, Present
<1>2. version'[v] = row /\ \A u \in Ids \ {v} : version'[u] = version[u]
  BY <1>1 DEF UploadInv, Inv, TypeInv, TypeOK
<1>3. row.number = version[v].number
  OBVIOUS
<1> HIDE DEF v
<1>4. RowsKept
  BY <1>1, <1>2, <1>3, NoneIsNoRow DEF RowsKept, Present
<1>5. Carries(s)'
  BY DEF Carries, Publishing
<1>6. \A t \in Sessions : t = s \/ (sess'[t] = sess[t] /\ t \notin Publishing)
  BY DEF UploadInv
<1> QED
  BY <1>4, <1>5, <1>6, UploadKept

LEMMA UploadFinalize ==
    ASSUME UploadInv, Inv', NEW s \in Sessions, Finalize(s),
           \A t, u \in Publishing' : t = u
    PROVE  UploadInv'
<1> DEFINE v == sess[s].id
           row == [version[v] EXCEPT !.state = "Draft"]
<1>1. /\ s \in Publishing /\ v \in Present /\ v \in Ids /\ version[v] # None
      /\ version[v].state = "Draft" /\ sess[s].row.number = version[v].number
  BY DEF Finalize, At, UploadInv, Carries, Publishing, Present
<1>2. version[v] \in Version
  BY <1>1 DEF UploadInv, Inv, TypeInv, TypeOK
<1>3. row \in Version /\ row.number = version[v].number /\ row.state = "Draft"
  BY <1>2 DEF Version
<1>4. version' = [version EXCEPT ![v] = row] /\ Goto(s, "publish") /\ UNCHANGED issued
  BY <1>1 DEF Finalize, UploadInv, Inv, TypeInv, TypeOK
<1>5. /\ sess'[s].pc = "publish" /\ sess'[s].id = v /\ sess'[s].row = sess[s].row
      /\ \A t \in Sessions \ {s} : sess'[t] = sess[t]
  BY <1>4, MovedValue DEF Goto, UploadInv, Inv, TypeInv, TypeOK, Steps
<1>6. version'[v] = row
  BY <1>1, <1>4 DEF UploadInv, Inv, TypeInv, TypeOK
<1> HIDE DEF row
<1>7. Carries(s)'
  <2>1. v \in Present'
    BY <1>1, <1>3, <1>6, NoneIsNoRow DEF Present
  <2> QED
    BY <1>1, <1>3, <1>5, <1>6, <2>1 DEF Carries
<1> QED
  BY <1>1, <1>3, <1>4, <1>5, <1>7, UploadWrites

LEMMA UploadPublishSave ==
    ASSUME UploadInv, Inv', NEW s \in Sessions, PublishSave(s),
           \A t, u \in Publishing' : t = u
    PROVE  UploadInv'
<1> DEFINE v == sess[s].id
           row == [sess[s].row EXCEPT !.state = "Finalized"]
<1>1. /\ s \in Publishing /\ sess[s].row \in Version
      /\ sess[s].row.number = version[v].number
  BY DEF PublishSave, At, UploadInv, Carries, Publishing, Inv, TypeInv, InHand, Hand
<1>2. row \in Version /\ row.number = version[v].number
  BY <1>1 DEF Version
<1>3. UNCHANGED issued /\ Finish(s)
  BY DEF PublishSave, SaveVersion
<1>4. sess'[s].pc = "idle" /\ \A t \in Sessions \ {s} : sess'[t] = sess[t]
  BY <1>3, Finishes DEF UploadInv, Inv
<1>5. version' = [version EXCEPT ![v] = row] \/ UNCHANGED version
  BY DEF PublishSave, SaveVersion
<1> HIDE DEF row
<1>6. CASE version' = [version EXCEPT ![v] = row]
  BY <1>1, <1>2, <1>3, <1>4, <1>6, UploadWrites
<1>7. CASE UNCHANGED version
  BY <1>3, <1>4, <1>7, UploadLooked
<1> QED
  BY <1>5, <1>6, <1>7

UploadSteps == {"validate", "insert", "enqueue", "finalize", "publish", "edit"}

LEMMA UploadCall ==
    ASSUME UploadInv, Inv', NEW s \in Sessions, Call(s), Visits(UploadSteps),
           \A t, u \in Publishing' : t = u
    PROVE  UploadInv'
<1>1. sess'[s].pc \in UploadSteps \cup {"idle"}
  BY DEF Visits
<1>2. ASSUME NEW v \in Ids, NEW step \in {"replace", "delete"}, NEW f, Load(s, v, step, f)
      PROVE  FALSE
  BY <1>1, <1>2 DEF Load, Idle, UploadInv, Inv, TypeInv, TypeOK, UploadSteps
<1>3. ASSUME NEW op \in Reviews, Review(s, op) PROVE FALSE
  BY <1>1, <1>3 DEF Review, Idle, UploadInv, Inv, TypeInv, TypeOK, UploadSteps
<1>4. ASSUME Edit(s) PROVE UploadInv'
  <2>1. /\ UNCHANGED <<version, issued>> /\ sess'[s].pc = "edit"
        /\ \A t \in Sessions \ {s} : sess'[t] = sess[t]
    BY <1>4 DEF Edit, Idle, UploadInv, Inv, TypeInv, TypeOK
  <2> QED
    BY <2>1, UploadLooked
<1> QED
  BY <1>2, <1>3, <1>4, UploadUpload, UploadPublish DEF Call, Replace, Delete

LEMMA UploadHandle ==
    ASSUME UploadInv, Inv', NEW s \in Sessions, Handle(s),
           \A t, u \in Publishing' : t = u
    PROVE  UploadInv'
<1>1. ~ReplaceSave(s) /\ ~DeleteRow(s) /\ ~Resubmit(s)
  BY DEF ReplaceSave, DeleteRow, Resubmit, At, UploadInv, Carries
<1>2. CASE Enqueue(s) \/ AssetSave(s)
  <2>1. UNCHANGED <<version, issued>> /\ Finish(s)
    BY <1>2 DEF Enqueue, AssetSave
  <2> QED
    BY <2>1, Finishes, UploadLooked DEF UploadInv, Inv
<1> QED
  BY <1>1, <1>2, UploadValidate, UploadInsert, UploadFinalize, UploadPublishSave DEF Handle
-----------------------------------------------------------------------------
LEMMA UploadInit == Init => UploadInv
<1> SUFFICES ASSUME Init PROVE UploadInv
  OBVIOUS
<1>1. Present = {} /\ Publishing = {} /\ \A s \in Sessions : sess[s].pc = "idle"
  BY DEF Init, Present, Publishing, Idle
<1> QED
  BY <1>1, InvInit DEF UploadInv, Numbered, DraftIsLatest, Carries

LEMMA UploadStepInv == UploadInv /\ [UploadNext]_vars => UploadInv'
<1> SUFFICES ASSUME UploadInv, [UploadNext]_vars PROVE UploadInv'
  OBVIOUS
<1>1. Inv'
  <2>1. UploadNext => Next
    BY DEF UploadNext, Scans, Next
  <2> QED
    BY <2>1, InvStep DEF UploadInv
<1>2. CASE UNCHANGED vars
  BY <1>2 DEF vars, UploadInv, Inv, TypeInv, TypeOK, InHand, Attended, Present, At, Numbered,
              DraftIsLatest, Latest, Carries, Taken, HasDraft, Publishing, Hand, Grip
<1>3. CASE UploadNext
  <2>1. Visits(UploadSteps) /\ \A t, u \in Publishing' : t = u
    BY <1>3 DEF UploadNext, UploadSteps
  <2>2. CASE Scans
    <3>1. Rescanned /\ UNCHANGED <<issued, sess>>
      BY <2>2, ScanRows DEF Scans, UploadInv
    <3>2. RowsKept
      BY <3>1 DEF Rescanned, RowsKept
    <3>3. \A t \in Publishing : version'[sess[t].id].state = "Draft"
      BY <3>1 DEF Rescanned, UploadInv, Carries, Publishing
    <3> QED
      BY <1>1, <2>1, <3>1, <3>2, <3>3, UploadKept
  <2> QED
    BY <1>1, <1>3, <2>1, <2>2, UploadCall, UploadHandle DEF UploadNext
<1> QED
  BY <1>2, <1>3
-----------------------------------------------------------------------------
(* One view at a time.  A worker has the file of the row it works on, and  *)
(* a view the state and the file of the row it is about to save.           *)
Scanned ==
    /\ \A v \in Present :
           version[v].state = "Finalized" \/ version[v].scan = "clean" =>
               version[v].file \notin Infected
    /\ \A w \in Workers : work[w].pc # "idle" =>
           /\ work[w].id \in issued
           /\ work[w].id \in Present => work[w].file = version[work[w].id].file

Holds(s) ==
    /\ sess[s].pc \in {"replace", "delete", "finalize", "publish"} =>
           /\ sess[s].id \in Present
           /\ version[sess[s].id].state = "Draft"
    /\ sess[s].pc = "replace" =>
           /\ sess[s].row.state = "Draft"
           /\ \A w \in Workers : work[w].pc # "idle" => work[w].id # sess[s].id
    /\ sess[s].pc \in {"finalize", "publish"} =>
           /\ sess[s].row.file = version[sess[s].id].file
           /\ sess[s].row.file \notin Infected
    /\ sess[s].pc \in {"validate", "resubmit", "edit"} => sess[s].status = asset
    /\ sess[s].pc = "insert" => asset \in Editable
    /\ sess[s].pc = "resubmit" => sess[s].op = "submit"
    /\ sess[s].pc = "review" =>
           /\ asset \in ReviewOf(sess[s].op).from
           /\ sess[s].op = "submit" => Present # {} /\ ~HasDraft

PatientInv ==
    /\ Inv
    /\ Present \subseteq issued
    /\ Scanned
    /\ Holds(s1)
    /\ \A t \in Sessions \ {s1} : sess[t].pc = "idle"
    /\ ReviewedIsComplete

LEMMA ViewOne == PatientInv => s1 \in Sessions
BY SettingConstants

(* A view that only looked.                                                *)
LEMMA PatientLooked ==
    ASSUME PatientInv, Inv', UNCHANGED <<asset, version, issued, work>>,
           \A t \in Sessions \ {s1} : sess'[t] = sess[t], sess'[s1].pc = "idle" \/ Holds(s1)'
    PROVE  PatientInv'
<1>1. Holds(s1)'
  BY DEF Holds
<1>2. Scanned' /\ ReviewedIsComplete' /\ Present' = Present
  BY DEF PatientInv, Scanned, ReviewedIsComplete, Present, HasDraft
<1> QED
  BY <1>1, <1>2 DEF PatientInv

(* A view that saves the draft it loaded, the asset being editable.        *)
LEMMA PatientWrites ==
    ASSUME PatientInv, Inv', UNCHANGED <<asset, issued, work>>,
           sess[s1].pc \in {"replace", "finalize", "publish"},
           NEW row \in Version, version' = [version EXCEPT ![sess[s1].id] = row],
           row.state = "Finalized" \/ row.scan = "clean" => row.file \notin Infected,
           \A w \in Workers : work[w].pc # "idle" /\ work[w].id = sess[s1].id =>
               work[w].file = row.file,
           \A t \in Sessions \ {s1} : sess'[t] = sess[t],
           sess'[s1].pc \in {"idle", "enqueue"} \/ Holds(s1)'
    PROVE  PatientInv'
<1> DEFINE v == sess[s1].id
<1>1. v \in Present /\ v \in Ids /\ version[v].state = "Draft"
  BY DEF PatientInv, Holds, Present
<1>2. asset \in Editable
  BY <1>1 DEF PatientInv, ReviewedIsComplete, HasDraft
<1>3. version'[v] = row /\ \A u \in Ids \ {v} : version'[u] = version[u]
  BY <1>1 DEF PatientInv, Inv, TypeInv, TypeOK
<1>4. Holds(s1)'
  BY DEF Holds
<1>5. \A w \in Workers : work[w].pc # "idle" /\ work[w].id = v => work[w].file = row.file
  OBVIOUS
<1> HIDE DEF v
<1>6. Present' = Present
  BY <1>1, <1>3, NoneIsNoRow DEF Present
<1>7. Scanned'
  <2>1. ASSUME NEW u \in Present', version'[u].state = "Finalized" \/ version'[u].scan = "clean"
        PROVE  version'[u].file \notin Infected
    <3>1. CASE u = v
      BY <1>3, <2>1, <3>1
    <3>2. CASE u # v
      <4>1. version'[u] = version[u] /\ u \in Present
        BY <1>3, <1>6, <3>2 DEF Present
      <4> QED
        BY <2>1, <4>1 DEF PatientInv, Scanned
    <3> QED
      BY <3>1, <3>2
  <2>2. ASSUME NEW w \in Workers, work[w].pc # "idle"
        PROVE  /\ work[w].id \in issued
               /\ work[w].id \in Present => work[w].file = version'[work[w].id].file
    <3>1. CASE work[w].id = v
      BY <1>3, <1>5, <2>2, <3>1 DEF PatientInv, Scanned
    <3>2. CASE work[w].id # v
      BY <1>3, <2>2, <3>2 DEF PatientInv, Scanned, Present
    <3> QED
      BY <3>1, <3>2
  <2> QED
    BY <1>6, <2>1, <2>2 DEF Scanned
<1>8. ReviewedIsComplete'
  BY <1>2 DEF ReviewedIsComplete
<1> QED
  BY <1>4, <1>6, <1>7, <1>8 DEF PatientInv

LEMMA PatientDelete ==
    ASSUME PatientInv, Inv', DeleteRow(s1)
    PROVE  PatientInv'
<1> DEFINE v == sess[s1].id
<1>1. v \in Present /\ v \in Ids /\ version[v].state = "Draft"
  BY DEF PatientInv, Holds, DeleteRow, At, Present
<1>2. asset \in Editable
  BY <1>1 DEF PatientInv, ReviewedIsComplete, HasDraft
<1>3. /\ version'[v] = None /\ \A u \in Ids \ {v} : version'[u] = version[u]
      /\ UNCHANGED <<asset, issued, work>>
  BY <1>1 DEF DeleteRow, PatientInv, Inv, TypeInv, TypeOK
<1>4. sess'[s1].pc = "idle" /\ \A t \in Sessions \ {s1} : sess'[t] = sess[t]
  BY Finishes, ViewOne DEF DeleteRow, PatientInv, Inv
<1> HIDE DEF v
<1>5. /\ Present' \subseteq Present
      /\ \A u \in Present' : version'[u] = version[u]
  BY <1>1, <1>3 DEF Present
<1>6. Scanned'
  BY <1>3, <1>5 DEF PatientInv, Scanned
<1>7. Holds(s1)' /\ ReviewedIsComplete'
  BY <1>2, <1>3, <1>4 DEF Holds, ReviewedIsComplete
<1> QED
  BY <1>3, <1>4, <1>5, <1>6, <1>7 DEF PatientInv

LEMMA PatientInsert ==
    ASSUME PatientInv, Inv', Insert(s1)
    PROVE  PatientInv'
<1>1. PICK v \in Ids \ issued :
          IF NumberFree(v, sess[s1].number)
          THEN /\ version' = [version EXCEPT ![v] =
                      [number |-> sess[s1].number, state |-> "Draft",
                       scan |-> "pending", file |-> sess[s1].file]]
               /\ issued' = issued \cup {v}
               /\ sess' = [sess EXCEPT ![s1].pc = "enqueue", ![s1].id = v]
          ELSE UNCHANGED <<version, issued>> /\ Finish(s1)
  BY DEF Insert
<1>2. UNCHANGED <<asset, work>> /\ asset \in Editable
  BY DEF Insert, At, PatientInv, Holds
<1>3. CASE ~NumberFree(v, sess[s1].number)
  BY <1>1, <1>2, <1>3, Finishes, ViewOne, PatientLooked DEF PatientInv, Inv
<1>4. CASE NumberFree(v, sess[s1].number)
  <2> DEFINE row == [number |-> sess[s1].number, state |-> "Draft",
                     scan |-> "pending", file |-> sess[s1].file]
  <2>1. row.state = "Draft" /\ row.scan = "pending" /\ v \notin Present
    BY DEF PatientInv
  <2>2. version' = [version EXCEPT ![v] = row]
    BY <1>1, <1>4
  <2> HIDE DEF row
  <2>3. version'[v] = row /\ \A u \in Ids \ {v} : version'[u] = version[u]
    BY <2>2 DEF PatientInv, Inv, TypeInv, TypeOK
  <2>4. /\ Present' \subseteq Present \cup {v}
        /\ \A u \in Present : version'[u] = version[u]
    BY <2>1, <2>3 DEF Present
  <2>5. issued' = issued \cup {v}
    BY <1>1, <1>4
  <2>6. /\ sess'[s1].pc = "enqueue" /\ \A t \in Sessions \ {s1} : sess'[t] = sess[t]
    BY <1>1, <1>4, ViewOne DEF PatientInv, Inv, TypeInv, TypeOK, Session
  <2>7. Scanned'
    <3>1. ASSUME NEW u \in Present', version'[u].state = "Finalized" \/ version'[u].scan = "clean"
          PROVE  version'[u].file \notin Infected
      <4>1. u \in Present /\ version'[u] = version[u]
        BY <2>1, <2>3, <2>4, <3>1
      <4> QED
        BY <3>1, <4>1 DEF PatientInv, Scanned
    <3>2. ASSUME NEW w \in Workers, work[w].pc # "idle"
          PROVE  /\ work[w].id \in issued' /\ work[w].id # v
                 /\ work[w].id \in Present => work[w].file = version'[work[w].id].file
      BY <2>4, <2>5, <3>2 DEF PatientInv, Scanned
    <3> QED
      BY <1>2, <2>4, <3>1, <3>2 DEF Scanned
  <2>8. Holds(s1)' /\ ReviewedIsComplete'
    BY <1>2, <2>6 DEF Holds, ReviewedIsComplete
  <2> QED
    BY <2>4, <2>5, <2>6, <2>7, <2>8 DEF PatientInv
<1> QED
  BY <1>3, <1>4

LEMMA PatientReplaceSave ==
    ASSUME PatientInv, Inv', ReplaceSave(s1)
    PROVE  PatientInv'
<1> DEFINE v == sess[s1].id
           row == [sess[s1].row EXCEPT !.file = sess[s1].file, !.scan = "pending"]
<1>1. /\ sess[s1].pc = "replace" /\ sess[s1].row \in Version /\ sess[s1].file \in Files
      /\ sess[s1].row.state = "Draft"
      /\ \A w \in Workers : work[w].pc # "idle" => work[w].id # v
  BY ViewOne DEF ReplaceSave, At, PatientInv, Holds, Inv, TypeInv, InHand, Hand
<1>2. row \in Version /\ row.state = "Draft" /\ row.scan = "pending"
  BY <1>1 DEF Version, ScanStatuses
<1>3. UNCHANGED <<asset, issued, work>>
  BY DEF ReplaceSave, SaveVersion
<1>4. \/ version' = [version EXCEPT ![v] = row] /\ Goto(s1, "enqueue")
      \/ UNCHANGED version /\ Finish(s1)
  BY DEF ReplaceSave, SaveVersion
<1> HIDE DEF row
<1>5. CASE version' = [version EXCEPT ![v] = row] /\ Goto(s1, "enqueue")
  <2>1. sess'[s1].pc = "enqueue" /\ \A t \in Sessions \ {s1} : sess'[t] = sess[t]
    BY <1>5, ViewOne DEF Goto, PatientInv, Inv, TypeInv, TypeOK, Session
  <2> QED
    BY <1>1, <1>2, <1>3, <1>5, <2>1, PatientWrites
<1>6. CASE UNCHANGED version /\ Finish(s1)
  BY <1>3, <1>6, Finishes, ViewOne, PatientLooked DEF PatientInv, Inv
<1> QED
  BY <1>4, <1>5, <1>6

LEMMA PatientFinalize ==
    ASSUME PatientInv, Inv', Finalize(s1)
    PROVE  PatientInv'
<1> DEFINE v == sess[s1].id
           row == [version[v] EXCEPT !.state = "Draft"]
<1>1. /\ sess[s1].pc = "finalize" /\ v \in Present /\ v \in Ids /\ version[v] # None
      /\ version[v].state = "Draft"
      /\ sess[s1].row.file = version[v].file /\ sess[s1].row.file \notin Infected
  BY DEF Finalize, At, PatientInv, Holds, Present
<1>2. version[v] \in Version
  BY <1>1 DEF PatientInv, Inv, TypeInv, TypeOK
<1>3. /\ row \in Version /\ row.state = "Draft" /\ row.file = version[v].file
      /\ row.scan = version[v].scan
  BY <1>2 DEF Version
<1>4. /\ version' = [version EXCEPT ![v] = row] /\ Goto(s1, "publish")
      /\ UNCHANGED <<asset, issued, work>>
  BY <1>1 DEF Finalize, PatientInv, Inv, TypeInv, TypeOK
<1>5. /\ sess'[s1].pc = "publish" /\ sess'[s1].id = v /\ sess'[s1].row = sess[s1].row
      /\ \A t \in Sessions \ {s1} : sess'[t] = sess[t]
  BY <1>4, ViewOne, MovedValue DEF Goto, PatientInv, Inv, TypeInv, TypeOK, Steps
<1>6. version'[v] = row
  BY <1>1, <1>4 DEF PatientInv, Inv, TypeInv, TypeOK
<1>7. \A w \in Workers : work[w].pc # "idle" /\ work[w].id = v => work[w].file = version[v].file
  BY <1>1 DEF PatientInv, Scanned
<1> HIDE DEF row
<1>8. Holds(s1)'
  <2>1. v \in Present'
    BY <1>1, <1>3, <1>6, NoneIsNoRow DEF Present
  <2> QED
    BY <1>1, <1>3, <1>5, <1>6, <2>1 DEF Holds
<1> QED
  BY <1>1, <1>3, <1>4, <1>5, <1>7, <1>8, PatientWrites

LEMMA PatientPublishSave ==
    ASSUME PatientInv, Inv', PublishSave(s1)
    PROVE  PatientInv'
<1> DEFINE v == sess[s1].id
           row == [sess[s1].row EXCEPT !.state = "Finalized"]
<1>1. /\ sess[s1].pc = "publish" /\ sess[s1].row \in Version /\ v \in Present
      /\ sess[s1].row.file = version[v].file /\ sess[s1].row.file \notin Infected
  BY ViewOne DEF PublishSave, At, PatientInv, Holds, Inv, TypeInv, InHand, Hand
<1>2. row \in Version /\ row.file = sess[s1].row.file
  BY <1>1 DEF Version
<1>3. UNCHANGED <<asset, issued, work>> /\ Finish(s1)
  BY DEF PublishSave, SaveVersion
<1>4. sess'[s1].pc = "idle" /\ \A t \in Sessions \ {s1} : sess'[t] = sess[t]
  BY <1>3, ViewOne, Finishes DEF PatientInv, Inv
<1>5. version' = [version EXCEPT ![v] = row] \/ UNCHANGED version
  BY DEF PublishSave, SaveVersion
<1>6. \A w \in Workers : work[w].pc # "idle" /\ work[w].id = v => work[w].file = version[v].file
  BY <1>1 DEF PatientInv, Scanned
<1> HIDE DEF row
<1>7. CASE version' = [version EXCEPT ![v] = row]
  BY <1>1, <1>2, <1>3, <1>4, <1>6, <1>7, PatientWrites
<1>8. CASE UNCHANGED version
  BY <1>3, <1>4, <1>8, PatientLooked
<1> QED
  BY <1>5, <1>7, <1>8

(* The other steps of a view save nothing but the asset's own row.         *)
LEMMA PatientAssetSave ==
    ASSUME PatientInv, Inv', AssetSave(s1)
    PROVE  PatientInv'
<1>1. Finish(s1) /\ UNCHANGED <<version, issued, work>>
  BY DEF AssetSave
<1>2. sess'[s1].pc = "idle" /\ \A t \in Sessions \ {s1} : sess'[t] = sess[t]
  BY <1>1, ViewOne, Finishes DEF PatientInv, Inv
<1>3. Holds(s1)' /\ Scanned' /\ Present' = Present /\ (HasDraft' => HasDraft)
  BY <1>1, <1>2 DEF Holds, PatientInv, Scanned, Present, HasDraft
<1>4. ASSUME sess[s1].pc = "edit", asset' = sess[s1].status PROVE ReviewedIsComplete'
  BY <1>3, <1>4 DEF PatientInv, Holds, ReviewedIsComplete
<1>5. ASSUME sess[s1].pc = "review", asset' = ReviewOf(sess[s1].op).to
      PROVE  ReviewedIsComplete'
  <2> DEFINE op == sess[s1].op
  <2>1. /\ asset \in ReviewOf(op).from /\ asset' = ReviewOf(op).to /\ op \in Reviews
        /\ op = "submit" => Present # {} /\ ~HasDraft
    BY <1>5, ViewOne DEF PatientInv, Holds, Inv, TypeInv, InHand, Hand
  <2> HIDE DEF op
  <2>2. asset \notin Editable => Present # {} /\ ~HasDraft
    BY DEF PatientInv, ReviewedIsComplete
  <2>3. asset' \notin Editable => Present # {} /\ ~HasDraft
    BY <2>1, <2>2 DEF Reviews, ReviewOf, Editable
  <2> QED
    BY <1>3, <2>3 DEF ReviewedIsComplete
<1>6. ReviewedIsComplete'
  BY <1>4, <1>5 DEF AssetSave, At
<1> QED
  BY <1>1, <1>2, <1>3, <1>6 DEF PatientInv

LEMMA PatientTests ==
    ASSUME PatientInv, Inv', Validate(s1) \/ Resubmit(s1)
    PROVE  PatientInv'
<1>1. UNCHANGED <<asset, version, issued, work>>
  BY DEF Validate, Resubmit
<1>2. CASE Finish(s1)
  BY <1>1, <1>2, ViewOne, Finishes, PatientLooked DEF PatientInv, Inv
<1>3. CASE At(s1, "validate") /\ CanCreate(sess[s1].status) /\ Goto(s1, "insert")
  <2>1. /\ sess'[s1].pc = "insert" /\ \A t \in Sessions \ {s1} : sess'[t] = sess[t]
    BY <1>3, ViewOne DEF Goto, PatientInv, Inv, TypeInv, TypeOK, Session
  <2>2. Holds(s1)'
    BY <1>1, <1>3, <2>1 DEF Holds, PatientInv, At, CanCreate
  <2> QED
    BY <1>1, <2>1, <2>2, PatientLooked
<1>4. CASE At(s1, "resubmit") /\ CanSubmit(sess[s1].status) /\ Goto(s1, "review")
  <2>1. /\ sess'[s1].pc = "review" /\ sess'[s1].op = sess[s1].op
        /\ \A t \in Sessions \ {s1} : sess'[t] = sess[t]
    BY <1>4, ViewOne, MovedValue DEF Goto, PatientInv, Inv, TypeInv, TypeOK, Steps
  <2>2. /\ sess[s1].op = "submit" /\ asset \in Editable
        /\ Present' # {} /\ ~HasDraft'
    BY <1>1, <1>4 DEF PatientInv, Holds, At, CanSubmit, Present, HasDraft
  <2>3. Holds(s1)'
    BY <1>1, <2>1, <2>2 DEF Holds, ReviewOf, Editable
  <2> QED
    BY <1>1, <2>1, <2>3, PatientLooked
<1> QED
  BY <1>2, <1>3, <1>4 DEF Validate, Resubmit

LEMMA PatientHandle ==
    ASSUME PatientInv, Inv', Handle(s1)
    PROVE  PatientInv'
<1>1. CASE Enqueue(s1)
  BY <1>1, ViewOne, Finishes, PatientLooked DEF Enqueue, PatientInv, Inv
<1> QED
  BY <1>1, PatientTests, PatientInsert, PatientReplaceSave, PatientDelete, PatientFinalize,
     PatientPublishSave, PatientAssetSave DEF Handle

LEMMA PatientCall ==
    ASSUME PatientInv, Inv', Call(s1), sess'[s1].pc = "replace" => Unscanned(sess'[s1].id)
    PROVE  PatientInv'
<1>1. UNCHANGED <<asset, version, issued, work>>
  BY DEF Call, Upload, Replace, Delete, Publish, Load, Review, Edit
<1>2. Present' = Present
  BY <1>1 DEF Present
<1>3. ASSUME NEW v \in Ids, NEW step \in {"replace", "delete", "finalize"}, NEW f,
             Load(s1, v, step, f), version[v].state = "Draft",
             step = "finalize" => version[v].scan = "clean"
      PROVE  PatientInv'
  <2>1. /\ sess'[s1].pc = step /\ sess'[s1].id = v /\ sess'[s1].row = version[v]
        /\ v \in Present /\ \A t \in Sessions \ {s1} : sess'[t] = sess[t]
    BY <1>3, ViewOne DEF Load, Idle, PatientInv, Inv, TypeInv, TypeOK
  <2>2. step = "replace" => \A w \in Workers : work[w].id # v
    BY <2>1 DEF Unscanned
  <2>3. step = "finalize" => version[v].file \notin Infected
    BY <1>3, <2>1 DEF PatientInv, Scanned
  <2>4. Holds(s1)'
    BY <1>1, <1>2, <1>3, <2>1, <2>2, <2>3 DEF Holds
  <2> QED
    BY <1>1, <2>1, <2>4, PatientLooked
<1>4. ASSUME NEW f \in Files, Upload(s1, f)
      PROVE  PatientInv'
  <2>1. PICK n \in 0..Cardinality(Ids) :
            sess' = [sess EXCEPT ![s1] = [Idle EXCEPT
                !.pc = "validate", !.status = asset, !.number = n, !.file = f]]
    BY <1>4 DEF Upload
  <2>2. /\ sess'[s1].pc = "validate" /\ sess'[s1].status = asset
        /\ \A t \in Sessions \ {s1} : sess'[t] = sess[t]
    BY <2>1, ViewOne DEF Idle, PatientInv, Inv, TypeInv, TypeOK
  <2>3. Holds(s1)'
    BY <1>1, <2>2 DEF Holds
  <2> QED
    BY <1>1, <2>2, <2>3, PatientLooked
<1>5. ASSUME Edit(s1) PROVE PatientInv'
  <2>1. /\ sess'[s1].pc = "edit" /\ sess'[s1].status = asset
        /\ \A t \in Sessions \ {s1} : sess'[t] = sess[t]
    BY <1>5, ViewOne DEF Edit, Idle, PatientInv, Inv, TypeInv, TypeOK
  <2>2. Holds(s1)'
    BY <1>1, <2>1 DEF Holds
  <2> QED
    BY <1>1, <2>1, <2>2, PatientLooked
<1>6. ASSUME NEW op \in Reviews, Review(s1, op)
      PROVE  PatientInv'
  <2>1. /\ sess'[s1].pc = IF op = "submit" THEN "resubmit" ELSE "review"
        /\ sess'[s1].status = asset /\ sess'[s1].op = op
        /\ \A t \in Sessions \ {s1} : sess'[t] = sess[t]
    BY <1>6, ViewOne DEF Review, Idle, PatientInv, Inv, TypeInv, TypeOK
  <2>2. asset \in ReviewOf(op).from
    BY <1>6 DEF Review
  <2>3. Holds(s1)'
    BY <1>1, <2>1, <2>2 DEF Holds
  <2> QED
    BY <1>1, <2>1, <2>3, PatientLooked
<1> QED
  BY <1>3, <1>4, <1>5, <1>6 DEF Call, Replace, Delete, Publish, CanFinalize
-----------------------------------------------------------------------------
(* A worker that starts has the file of the row, and its version is not    *)
(* about to be replaced; a verdict is about the file the row still has.    *)
LEMMA PatientScanned ==
    ASSUME PatientInv, Inv', Rescanned, UNCHANGED <<asset, issued, sess>>,
           \A v \in Present : version'[v].scan = "clean" =>
               version[v].scan = "clean" \/ version[v].file \notin Infected,
           \A w \in Workers : work'[w].pc # "idle" =>
               \/ /\ work[w].pc # "idle" /\ work'[w].id = work[w].id
                  /\ work'[w].file = work[w].file
               \/ /\ work'[w].id \in Present /\ work'[w].file = version[work'[w].id].file
                  /\ sess[s1].pc # "replace" \/ work'[w].id # sess[s1].id
    PROVE  PatientInv'
<1>1. Present' = Present /\ Present \subseteq issued
  BY DEF Rescanned, PatientInv
<1>2. Scanned'
  <2>1. ASSUME NEW v \in Present, version'[v].state = "Finalized" \/ version'[v].scan = "clean"
        PROVE  version'[v].file \notin Infected
    BY <2>1 DEF Rescanned, PatientInv, Scanned
  <2>2. ASSUME NEW w \in Workers, work'[w].pc # "idle"
        PROVE  /\ work'[w].id \in issued
               /\ work'[w].id \in Present => work'[w].file = version'[work'[w].id].file
    BY <1>1, <2>2 DEF Rescanned, PatientInv, Scanned
  <2> QED
    BY <1>1, <2>1, <2>2 DEF Scanned
<1>3. Holds(s1)'
  <2>1. ~HasDraft => ~HasDraft'
    BY DEF Rescanned, HasDraft
  <2>2. Holds(s1)
    BY DEF PatientInv
  <2>3. sess[s1].pc = "replace" =>
            \A w \in Workers : work'[w].pc # "idle" => work'[w].id # sess[s1].id
    BY <2>2 DEF Holds
  <2> QED
    BY <1>1, <2>1, <2>2, <2>3 DEF Rescanned, Holds
<1>4. ReviewedIsComplete'
  BY DEF Rescanned, PatientInv, ReviewedIsComplete, HasDraft
<1> QED
  BY <1>1, <1>2, <1>3, <1>4 DEF PatientInv

LEMMA PatientTake ==
    ASSUME PatientInv, Inv', NEW w \in Workers, NEW v \in Ids, Take(w, v),
           sess'[s1].pc = "replace" => Unscanned(sess'[s1].id)
    PROVE  PatientInv'
<1>1. Rescanned /\ UNCHANGED <<asset, issued, sess, version>>
  BY ScanRows DEF PatientInv, Take
<1>2. sess[s1].pc # "replace" \/ v # sess[s1].id
  <2>1. queue[v] > 0 /\ queue[v] \in Nat
    BY DEF Take, PatientInv, Inv, TypeInv, TypeOK
  <2> QED
    BY <1>1, <2>1 DEF Unscanned
<1>3. CASE v \in Present /\ version[v].scan = "pending"
  <2>1. /\ work'[w].id = v /\ work'[w].file = version[v].file
        /\ \A u \in Workers \ {w} : work'[u] = work[u]
    BY <1>3 DEF Take, PatientInv, Inv, TypeInv, TypeOK
  <2> QED
    BY <1>1, <1>2, <1>3, <2>1, PatientScanned
<1>4. CASE UNCHANGED work
  BY <1>1, <1>4, PatientScanned
<1> QED
  BY <1>3, <1>4 DEF Take

LEMMA PatientScanStep ==
    ASSUME PatientInv, Inv', NEW w \in Workers, ScanStep(w)
    PROVE  PatientInv'
<1> DEFINE v == work[w].id
<1>1. Rescanned /\ UNCHANGED <<asset, issued, sess>>
  BY ScanRows DEF PatientInv
<1>2. /\ work[w].pc # "idle" /\ \A u \in Workers \ {w} : work'[u] = work[u]
      /\ \/ work'[w].pc = "idle"
         \/ work'[w].id = v /\ work'[w].file = work[w].file
  BY DEF ScanStep, StartScan, Report, ReportFails, Leave, NoScan, PatientInv, Inv, TypeInv,
         TypeOK, Scan
<1>3. \A u \in Present \ {v} : version'[u] = version[u]
  BY DEF ScanStep, StartScan, Report, ReportFails, PatientInv, Inv, TypeInv, TypeOK, Present
<1>4. v \in Present /\ version'[v].scan = "clean" =>
          version[v].scan = "clean" \/ version[v].file \notin Infected
  <2> SUFFICES ASSUME v \in Present, version'[v].scan = "clean"
               PROVE  version[v].scan = "clean" \/ version[v].file \notin Infected
    OBVIOUS
  <2>1. work[w].file = version[v].file
    BY <1>2 DEF PatientInv, Scanned
  <2>2. v \in Ids /\ version[v] \in Version
    BY DEF Present, PatientInv, Inv, TypeInv, TypeOK
  <2>3. CASE StartScan(w)
    BY <2>2, <2>3 DEF StartScan, PatientInv, Inv, TypeInv, TypeOK, Version
  <2>4. CASE Report(w)
    <3>1. PICK verdict \in Verdicts(work[w].file) :
              version' = [version EXCEPT ![v].scan = verdict]
      BY <2>4 DEF Report
    <3>2. version'[v].scan = verdict
      BY <2>2, <3>1 DEF PatientInv, Inv, TypeInv, TypeOK, Version
    <3> QED
      BY <2>1, <3>1, <3>2 DEF Verdicts
  <2>5. CASE ReportFails(w)
    BY <2>5 DEF ReportFails
  <2> QED
    BY <2>3, <2>4, <2>5 DEF ScanStep
<1> HIDE DEF v
<1> QED
  BY <1>1, <1>2, <1>3, <1>4, PatientScanned DEF v

LEMMA PatientInit == Init => PatientInv
<1> SUFFICES ASSUME Init PROVE PatientInv
  OBVIOUS
<1>1. /\ Present = {} /\ asset \in Editable /\ \A s \in Sessions : sess[s].pc = "idle"
      /\ \A w \in Workers : work[w].pc = "idle"
  BY DEF Init, Present, Editable, Idle, NoScan
<1> QED
  BY <1>1, InvInit, SettingConstants DEF PatientInv, Scanned, Holds, ReviewedIsComplete

LEMMA PatientStep == PatientInv /\ [PatientNext]_vars => PatientInv'
<1> SUFFICES ASSUME PatientInv, [PatientNext]_vars PROVE PatientInv'
  OBVIOUS
<1>1. Inv'
  <2>1. PatientNext => Next
    BY SettingConstants DEF PatientNext, Scans, Next
  <2> QED
    BY <2>1, InvStep DEF PatientInv
<1>2. CASE UNCHANGED vars
  <2>1. UNCHANGED <<asset, version, issued, work>> /\ \A t \in Sessions : sess'[t] = sess[t]
    BY <1>2 DEF vars
  <2>2. Holds(s1)'
    BY <1>2 DEF vars, PatientInv, Holds, Present, HasDraft
  <2> QED
    BY <1>1, <2>1, <2>2, PatientLooked
<1>3. CASE PatientNext
  <2>1. sess'[s1].pc = "replace" => Unscanned(sess'[s1].id)
    BY <1>3 DEF PatientNext
  <2>2. CASE Crash(s1)
    BY <1>1, <2>2, Finishes, ViewOne, PatientLooked DEF Crash, PatientInv, Inv
  <2>3. CASE Sweep
    <3>1. UNCHANGED <<asset, version, issued, sess, work>>
      BY <2>3 DEF Sweep
    <3>2. Rescanned
      BY <3>1 DEF Rescanned, Present
    <3> QED
      BY <1>1, <3>1, <3>2, PatientScanned
  <2>4. ASSUME NEW w \in Workers, Die(w) PROVE PatientInv'
    <3>1. /\ UNCHANGED <<asset, version, issued, sess>>
          /\ work'[w].pc = "idle" /\ \A u \in Workers \ {w} : work'[u] = work[u]
      BY <2>4 DEF Die, Leave, NoScan, PatientInv, Inv, TypeInv, TypeOK
    <3>2. Rescanned
      BY <3>1 DEF Rescanned, Present
    <3> QED
      BY <1>1, <3>1, <3>2, PatientScanned
  <2> QED
    BY <1>1, <1>3, <2>1, <2>2, <2>3, <2>4, PatientCall, PatientHandle, PatientTake,
       PatientScanStep DEF PatientNext, Scans
<1> QED
  BY <1>2, <1>3
-----------------------------------------------------------------------------
(* The settings of MC_Asset.                                               *)

LEMMA ModeStep ==
    ASSUME [ModeNext]_<<mode, vars>>
    PROVE  /\ mode' = mode
           /\ mode = "upload" => [UploadNext]_vars
           /\ mode = "patient" => [PatientNext]_vars
BY DEF ModeNext

(* Any number of uploads, edits and scans at any time, and publications    *)
(* one after another, never leave an asset two drafts, as long as nothing  *)
(* is replaced or deleted.                                                 *)
THEOREM UploadsLeaveOneDraft == ModeSpec => []UploadOneDraft
<1> DEFINE MInv == mode = "upload" => UploadInv
<1>1. ModeInit => MInv
  BY UploadInit DEF ModeInit
<1>2. MInv /\ [ModeNext]_<<mode, vars>> => MInv'
  BY ModeStep, UploadStepInv
<1>3. MInv => UploadOneDraft
  <2> SUFFICES ASSUME UploadInv PROVE OneDraft
    BY DEF UploadOneDraft
  <2>1. \A u \in Present : version[u].number \in Nat
    BY DEF UploadInv, Inv, TypeInv, TypeOK, Present, Version
  <2> QED
    BY <2>1 DEF UploadInv, Numbered, DraftIsLatest, Latest, OneDraft
<1> QED
  BY <1>1, <1>2, <1>3, PTL DEF ModeSpec

(* One view at a time, no file replaced under a scan: whatever the scans,  *)
(* the sweeps and the crashes do, a published version holds a file the     *)
(* scanner found clean ...                                                 *)
THEOREM PublishedFilesAreClean == ModeSpec => []PatientPublishedIsClean
<1> DEFINE MInv == mode = "patient" => PatientInv
<1>1. ModeInit => MInv
  BY PatientInit DEF ModeInit
<1>2. MInv /\ [ModeNext]_<<mode, vars>> => MInv'
  BY ModeStep, PatientStep
<1>3. MInv => PatientPublishedIsClean
  BY DEF PatientPublishedIsClean, PatientInv, Scanned, PublishedIsClean
<1> QED
  BY <1>1, <1>2, <1>3, PTL DEF ModeSpec

(* ... and an asset that was submitted has versions, all of them published. *)
THEOREM SubmittedAssetsAreComplete == ModeSpec => []PatientReviewedIsComplete
<1> DEFINE MInv == mode = "patient" => PatientInv
<1>1. ModeInit => MInv
  BY PatientInit DEF ModeInit
<1>2. MInv /\ [ModeNext]_<<mode, vars>> => MInv'
  BY ModeStep, PatientStep
<1>3. MInv => PatientReviewedIsComplete
  BY DEF PatientReviewedIsComplete, PatientInv
<1> QED
  BY <1>1, <1>2, <1>3, PTL DEF ModeSpec
=============================================================================
