------------------------- MODULE ChatDelivery_proofs -------------------------
(***************************************************************************)
(* For any number of recipients, tasks, sweeps, failures and crashes, a    *)
(* message is published to a recipient at most once, what was read stays   *)
(* read, and nobody is left with a row no task will look at.               *)
(***************************************************************************)
EXTENDS ChatDelivery, SetLemmas

(* A task holds the recipients it has moved to delivered and neither       *)
(* published to nor handed back yet; a socket holds one while it writes.   *)
Holds(j, u) ==
    \/ job[j].pc = "publishing" /\ u \in job[j].held
    \/ job[j].pc = "releasing" /\ u \in job[j].failed

Writes(u) == socket[u] = "writing"

Shapes ==
    /\ status \in [Users -> Statuses]
    /\ socket \in [Users -> SocketSteps]
    /\ published \in [Users -> Nat]
    /\ online \subseteq Users
    /\ job \in [Jobs -> Job]

(* A row still to be claimed has no holder, a row has at most one holder,  *)
(* and whoever holds it has not published yet.                             *)
OneHolder ==
    /\ \A u \in Users : status[u] \in {"none", "sent"} =>
           /\ published[u] = 0 /\ ~Writes(u)
           /\ \A j \in Jobs : ~Holds(j, u)
    /\ \A u \in Users, j \in Jobs : Holds(j, u) => published[u] = 0 /\ ~Writes(u)
    /\ \A u \in Users : \A j, k \in Jobs : Holds(j, u) /\ Holds(k, u) => j = k
    /\ \A u \in Users : Writes(u) => published[u] = 0
    /\ \A u \in Users : published[u] <= 1

Inv == Shapes /\ OneHolder

(* Steps that take no row and publish nothing: they may let go of rows,    *)
(* create them and mark them read.                                         *)
LEMMA QuietSteps ==
    ASSUME Inv, Shapes', UNCHANGED published,
           \A u \in Users : status'[u] \in {"none", "sent"} => status[u] \in {"none", "sent"},
           \A u \in Users, j \in Jobs : Holds(j, u)' => Holds(j, u),
           \A u \in Users : Writes(u)' => Writes(u)
    PROVE  Inv'
BY DEF Inv, OneHolder

LEMMA JobUpdate ==
    ASSUME Shapes, NEW j \in Jobs, NEW v \in Job, job' = [job EXCEPT ![j] = v]
    PROVE  /\ job' \in [Jobs -> Job]
           /\ job'[j] = v /\ \A k \in Jobs \ {j} : job'[k] = job[k]
BY DEF Shapes

LEMMA JobValues ==
    /\ NoJob \in Job /\ NoJob.pc = "free"
    /\ \A kind \in {"notify", "deliver"} : Queued(kind) \in Job /\ Queued(kind).pc = "queued"
    /\ \A kind \in {"notify", "deliver"}, n \in 0..MaxRetries :
           /\ [Queued(kind) EXCEPT !.tries = n] \in Job
           /\ [Queued(kind) EXCEPT !.tries = n].pc = "queued"
<1>1. 0 \in 0..MaxRetries
  BY DeliveryConstants
<1>2. NoJob \in Job /\ NoJob.pc = "free"
  BY <1>1 DEF NoJob, Job, JobSteps
<1>3. ASSUME NEW kind \in {"notify", "deliver"}
      PROVE  Queued(kind) \in Job /\ Queued(kind).pc = "queued"
  BY <1>2, <1>3 DEF Job, JobSteps, Queued
<1>4. ASSUME NEW kind \in {"notify", "deliver"}, NEW n \in 0..MaxRetries
      PROVE  /\ [Queued(kind) EXCEPT !.tries = n] \in Job
             /\ [Queued(kind) EXCEPT !.tries = n].pc = "queued"
  BY <1>3, <1>4 DEF Job
<1> QED
  BY <1>2, <1>3, <1>4

LEMMA RetryValues ==
    ASSUME Shapes, NEW j \in Jobs
    PROVE  Retried(j) \in Job /\ Retried(j).pc \in {"free", "queued"}
<1>1. job[j].tries \in 0..MaxRetries /\ job[j].kind \in {"notify", "deliver"}
  BY DEF Shapes, Job
<1>2. job[j].tries < MaxRetries => job[j].tries + 1 \in 0..MaxRetries
  BY <1>1, DeliveryConstants
<1> QED
  BY <1>1, <1>2, JobValues DEF Retried

(* A task that neither publishes nor releases afterwards holds nothing.    *)
LEMMA JobMoves ==
    ASSUME Inv, NEW j \in Jobs, NEW v \in Job, v.pc \notin {"publishing", "releasing"},
           job' = [job EXCEPT ![j] = v]
    PROVE  /\ job' \in [Jobs -> Job]
           /\ \A u \in Users, k \in Jobs : Holds(k, u)' => Holds(k, u)
BY JobUpdate DEF Holds, Inv

(* A task is started, ends, is retried or dies.                            *)
LEMMA JobsOnly ==
    ASSUME Inv, NEW j \in Jobs, NEW v \in Job, v.pc \notin {"publishing", "releasing"},
           job' = [job EXCEPT ![j] = v],
           UNCHANGED <<status, socket, online, published>>
    PROVE  Inv'
<1>1. Shapes'
  BY JobMoves DEF Inv, Shapes
<1> QED
  BY <1>1, JobMoves, QuietSteps DEF Writes

LEMMA CreateRowsStep ==
    ASSUME Inv, NEW j \in Jobs, CreateRows(j)
    PROVE  Inv'
<1> DEFINE v == [job[j] EXCEPT !.pc = "claiming"]
<1>1. job' = [job EXCEPT ![j] = v] /\ UNCHANGED <<socket, online, published>>
  BY DEF CreateRows
<1>2. v \in Job /\ v.pc = "claiming"
  BY DEF Inv, Shapes, Job, JobSteps
<1> HIDE DEF v
<1>3. /\ status' \in [Users -> Statuses]
      /\ \A u \in Users : status'[u] \in {"none", "sent"} => status[u] \in {"none", "sent"}
  BY DEF CreateRows, Inv, Shapes, Statuses
<1>4. Shapes'
  BY <1>1, <1>2, <1>3, JobMoves DEF Inv, Shapes
<1> QED
  BY <1>1, <1>2, <1>3, <1>4, JobMoves, QuietSteps DEF Writes

(* What Claim does to the rows: those it takes had no holder.              *)
LEMMA ClaimRows ==
    ASSUME Inv, NEW us, Claim(us)
    PROVE  /\ status' \in [Users -> Statuses]
           /\ \A u \in Users : u \in Claims(us) => status[u] = "sent" /\ status'[u] = "delivered"
           /\ \A u \in Users : u \notin Claims(us) => status'[u] = status[u]
BY DEF Claim, Claims, Inv, Shapes, Statuses

LEMMA ClaimOnlineStep ==
    ASSUME Inv, NEW j \in Jobs, ClaimOnline(j)
    PROVE  Inv'
<1>1. Claim(online) /\ UNCHANGED <<socket, online, published>> /\ job[j].pc = "claiming"
  BY DEF ClaimOnline
<1>2. CASE Claims(online) = {}
  <2>1. status' = status
    BY <1>1, <1>2, ClaimRows DEF Inv, Shapes
  <2>2. PICK v \in Job : /\ v.pc \notin {"publishing", "releasing"}
                         /\ job' = [job EXCEPT ![j] = v]
    <3>1. [job[j] EXCEPT !.pc = "finishing"] \in Job
      BY DEF Inv, Shapes, Job, JobSteps
    <3>2. [job[j] EXCEPT !.pc = "finishing"].pc = "finishing"
      BY DEF Inv, Shapes, Job
    <3> QED
      BY <1>2, <3>1, <3>2, JobValues DEF ClaimOnline
  <2> QED
    BY <1>1, <2>1, <2>2, JobsOnly
<1>3. CASE Claims(online) # {}
  <2> DEFINE v == [job[j] EXCEPT !.pc = "publishing", !.held = Claims(online)]
  <2>1. Claims(online) \subseteq Users /\ job' = [job EXCEPT ![j] = v]
    BY <1>3 DEF ClaimOnline, Claims, Inv, Shapes
  <2>2. v \in Job /\ v.pc = "publishing" /\ v.held = Claims(online)
    BY <2>1 DEF Inv, Shapes, Job, JobSteps
  <2> HIDE DEF v
  <2>3. /\ Shapes' /\ job'[j] = v
        /\ \A k \in Jobs \ {j} : job'[k] = job[k]
    BY <1>1, <2>1, <2>2, ClaimRows, JobUpdate DEF Inv, Shapes, Holds
  <2>4. \A u \in Users : \A k \in Jobs \ {j} : Holds(k, u)' = Holds(k, u)
    BY <2>3 DEF Holds
  <2>5. \A u \in Users : Holds(j, u)' <=> u \in Claims(online)
    BY <2>2, <2>3 DEF Holds
  <2>6. \A u \in Users : Writes(u)' = Writes(u) /\ published'[u] = published[u]
    BY <1>1 DEF Writes
  <2>7. \A u \in Users : u \in Claims(online) =>
            /\ status[u] = "sent" /\ status'[u] = "delivered"
            /\ published[u] = 0 /\ ~Writes(u) /\ \A k \in Jobs : ~Holds(k, u)
    BY <1>1, ClaimRows DEF Inv, OneHolder
  <2>8. \A u \in Users : u \notin Claims(online) => status'[u] = status[u]
    BY <1>1, ClaimRows
  <2>9. \A u \in Users : ~Holds(j, u) \/ u \notin Claims(online)
    BY <2>7
  <2>10. \A u \in Users : status'[u] \in {"none", "sent"} =>
             /\ published'[u] = 0 /\ ~Writes(u)'
             /\ \A k \in Jobs : ~Holds(k, u)'
    BY <2>4, <2>5, <2>6, <2>7, <2>8 DEF Inv, OneHolder
  <2>11. \A u \in Users, k \in Jobs : Holds(k, u)' => published'[u] = 0 /\ ~Writes(u)'
    BY <2>4, <2>5, <2>6, <2>7 DEF Inv, OneHolder
  <2>12. \A u \in Users : \A k, l \in Jobs : Holds(k, u)' /\ Holds(l, u)' => k = l
    BY <2>4, <2>5, <2>7 DEF Inv, OneHolder
  <2> QED
    BY <2>3, <2>6, <2>10, <2>11, <2>12 DEF Inv, OneHolder
<1> QED
  BY <1>2, <1>3

LEMMA PublishStep ==
    ASSUME Inv, NEW j \in Jobs, PublishTo(j)
    PROVE  Inv'
<1>1. PICK failed \in SUBSET job[j].held :
          /\ job[j].pc = "publishing"
          /\ published' = [u \in Users |->
                 IF u \in job[j].held \ failed THEN published[u] + 1 ELSE published[u]]
          /\ job' = [job EXCEPT ![j].pc = "releasing", ![j].failed = failed]
          /\ UNCHANGED <<status, socket, online>>
  BY DEF PublishTo
<1> DEFINE v == [job[j] EXCEPT !.pc = "releasing", !.failed = failed]
           done == job[j].held \ failed
<1>2. job[j].held \subseteq Users
  BY DEF Inv, Shapes, Job
<1>3. v \in Job /\ v.pc = "releasing" /\ v.failed = failed
  BY <1>1, <1>2 DEF Inv, Shapes, Job, JobSteps
<1>4. job' = [job EXCEPT ![j] = v]
  BY <1>1 DEF Inv, Shapes, Job
<1> HIDE DEF v
<1>5. Shapes' /\ job'[j] = v /\ \A k \in Jobs \ {j} : job'[k] = job[k]
  BY <1>1, <1>3, <1>4, JobUpdate DEF Inv, Shapes
<1>6. \A u \in Users : \A k \in Jobs \ {j} : Holds(k, u)' = Holds(k, u)
  BY <1>5 DEF Holds
<1>7. \A u \in Users : /\ Holds(j, u) <=> u \in job[j].held
                       /\ Holds(j, u)' <=> u \in failed
  BY <1>1, <1>3, <1>5 DEF Holds
<1>8. \A u \in Users : Writes(u)' = Writes(u) /\ status'[u] = status[u]
  BY <1>1 DEF Writes
<1>9. \A u \in Users : u \in done =>
          /\ published[u] = 0 /\ published'[u] = 1
          /\ ~Writes(u) /\ \A k \in Jobs : ~Holds(k, u)'
          /\ status[u] \notin {"none", "sent"}
  <2> SUFFICES ASSUME NEW u \in Users, u \in done
               PROVE  /\ published[u] = 0 /\ published'[u] = 1
                      /\ ~Writes(u) /\ \A k \in Jobs : ~Holds(k, u)'
                      /\ status[u] \notin {"none", "sent"}
    OBVIOUS
  <2>1. Holds(j, u) /\ ~Holds(j, u)'
    BY <1>7
  <2>2. published[u] = 0 /\ ~Writes(u) /\ status[u] \notin {"none", "sent"}
    BY <2>1 DEF Inv, OneHolder
  <2>3. \A k \in Jobs : ~Holds(k, u)'
    BY <1>6, <2>1 DEF Inv, OneHolder
  <2> QED
    BY <1>1, <2>2, <2>3
<1>10. \A u \in Users : u \notin done => published'[u] = published[u]
  BY <1>1
<1> HIDE DEF done
<1>11. \A u \in Users, k \in Jobs : Holds(k, u)' => Holds(k, u)
  BY <1>6, <1>7
<1>12. \A u \in Users : status'[u] \in {"none", "sent"} =>
           /\ published'[u] = 0 /\ ~Writes(u)'
           /\ \A k \in Jobs : ~Holds(k, u)'
  BY <1>8, <1>9, <1>10, <1>11 DEF Inv, OneHolder
<1>13. \A u \in Users, k \in Jobs : Holds(k, u)' => published'[u] = 0 /\ ~Writes(u)'
  BY <1>8, <1>9, <1>10, <1>11 DEF Inv, OneHolder
<1>14. \A u \in Users : \A k, l \in Jobs : Holds(k, u)' /\ Holds(l, u)' => k = l
  BY <1>11 DEF Inv, OneHolder
<1>15. \A u \in Users : Writes(u)' => published'[u] = 0
  BY <1>8, <1>9, <1>10 DEF Inv, OneHolder
<1>16. \A u \in Users : published'[u] <= 1
  BY <1>9, <1>10 DEF Inv, OneHolder
<1> QED
  BY <1>5, <1>12, <1>13, <1>14, <1>15, <1>16 DEF Inv, OneHolder

(* A row is only handed back by its holder, before it has published.       *)
LEMMA UnclaimRows ==
    ASSUME Inv, NEW us, Unclaim(us)
    PROVE  /\ status' \in [Users -> Statuses]
           /\ \A u \in Users : status'[u] # status[u] => u \in us
BY DEF Unclaim, Inv, Shapes, Statuses

LEMMA ReleaseStep ==
    ASSUME Inv, NEW j \in Jobs, Release(j)
    PROVE  Inv'
<1> DEFINE v == [job[j] EXCEPT !.pc = "finishing"]
<1>1. /\ job[j].pc = "releasing" /\ Unclaim(job[j].failed)
      /\ job' = [job EXCEPT ![j] = v] /\ UNCHANGED <<socket, online, published>>
  BY DEF Release
<1>2. v \in Job /\ v.pc = "finishing"
  BY DEF Inv, Shapes, Job, JobSteps
<1> HIDE DEF v
<1>3. Shapes'
  BY <1>1, <1>2, JobUpdate, UnclaimRows DEF Inv, Shapes
<1>4. job'[j] = v /\ \A k \in Jobs \ {j} : job'[k] = job[k]
  BY <1>1, <1>2, JobUpdate DEF Inv
<1>5. \A u \in Users : ~Holds(j, u)' /\ \A k \in Jobs \ {j} : Holds(k, u)' = Holds(k, u)
  BY <1>2, <1>4 DEF Holds
<1>6. \A u \in Users : Writes(u)' = Writes(u) /\ published'[u] = published[u]
  BY <1>1 DEF Writes
<1>7. \A u \in Users : status'[u] # status[u] => Holds(j, u)
  BY <1>1, UnclaimRows DEF Holds
<1>8. \A u \in Users : status'[u] # status[u] =>
          published[u] = 0 /\ ~Writes(u) /\ \A k \in Jobs \ {j} : ~Holds(k, u)
  BY <1>7 DEF Inv, OneHolder
<1>9. \A u \in Users : status'[u] \in {"none", "sent"} =>
          /\ published'[u] = 0 /\ ~Writes(u)'
          /\ \A k \in Jobs : ~Holds(k, u)'
  BY <1>5, <1>6, <1>8 DEF Inv, OneHolder
<1>10. \A u \in Users, k \in Jobs : Holds(k, u)' => Holds(k, u)
  BY <1>5
<1> QED
  BY <1>3, <1>6, <1>9, <1>10 DEF Inv, OneHolder

LEMMA JobEnds ==
    ASSUME Inv, NEW j \in Jobs, Finish(j) \/ JobRaises(j) \/ CrashJob(j)
    PROVE  Inv'
<1>1. PICK v \in Job : /\ v.pc \notin {"publishing", "releasing"}
                       /\ job' = [job EXCEPT ![j] = v]
  BY JobValues, RetryValues DEF Finish, JobRaises, CrashJob, Inv
<1>2. UNCHANGED <<status, socket, online, published>>
  BY DEF Finish, JobRaises, CrashJob
<1> QED
  BY <1>1, <1>2, JobsOnly
-----------------------------------------------------------------------------
(* A socket moves, not into writing; no row and no task does.              *)
LEMMA SocketMoves ==
    ASSUME Inv, NEW u \in Users, NEW step \in SocketSteps \ {"writing"}, Goto(u, step),
           online' \subseteq Users, UNCHANGED <<status, job, published>>
    PROVE  Inv'
<1>1. Shapes'
  BY DEF Inv, Shapes, Goto
<1>2. \A v \in Users : Writes(v)' => Writes(v)
  BY DEF Inv, Shapes, Goto, Writes
<1> QED
  BY <1>1, <1>2, QuietSteps DEF Holds

LEMMA ClaimQueuedStep ==
    ASSUME Inv, NEW u \in Users, ClaimQueued(u)
    PROVE  Inv'
<1>1. /\ Claim({u}) /\ UNCHANGED <<job, online, published>> /\ socket[u] = "draining"
      /\ Goto(u, IF Claims({u}) # {} THEN "writing" ELSE "replaying")
  BY DEF ClaimQueued
<1>2. CASE Claims({u}) = {}
  <2>1. status' = status
    BY <1>1, <1>2, ClaimRows DEF Inv, Shapes
  <2> QED
    BY <1>1, <1>2, <2>1, SocketMoves DEF SocketSteps, Inv, Shapes
<1>3. CASE Claims({u}) # {}
  <2>1. Claims({u}) = {u} /\ status[u] = "sent" /\ status'[u] = "delivered"
    BY <1>1, <1>3, ClaimRows DEF Claims
  <2>2. \A v \in Users \ {u} : status'[v] = status[v]
    BY <1>1, <2>1, ClaimRows
  <2>3. socket' = [socket EXCEPT ![u] = "writing"]
    BY <1>1, <1>3 DEF Goto
  <2>4. Shapes'
    BY <1>1, <2>3, ClaimRows DEF Inv, Shapes, SocketSteps
  <2>5. \A v \in Users, k \in Jobs : Holds(k, v)' = Holds(k, v)
    BY <1>1 DEF Holds
  <2>6. \A v \in Users \ {u} : Writes(v)' = Writes(v)
    BY <2>3 DEF Writes, Inv, Shapes
  <2>7. published[u] = 0 /\ ~Writes(u) /\ \A k \in Jobs : ~Holds(k, u)
    BY <2>1 DEF Inv, OneHolder
  <2>8. UNCHANGED published
    BY <1>1
  <2> QED
    BY <2>1, <2>2, <2>4, <2>5, <2>6, <2>7, <2>8 DEF Inv, OneHolder
<1> QED
  BY <1>2, <1>3

LEMMA WriteStep ==
    ASSUME Inv, NEW u \in Users, WriteQueued(u)
    PROVE  Inv'
<1>1. /\ socket[u] = "writing" /\ socket' = [socket EXCEPT ![u] = "replaying"]
      /\ published' = [published EXCEPT ![u] = @ + 1]
      /\ UNCHANGED <<status, job, online>>
  BY DEF WriteQueued, Goto
<1>2. Shapes'
  BY <1>1 DEF Inv, Shapes, SocketSteps
<1>3. \A v \in Users, k \in Jobs : Holds(k, v)' = Holds(k, v)
  BY <1>1 DEF Holds
<1>4. /\ Writes(u) /\ ~Writes(u)'
      /\ \A v \in Users \ {u} : Writes(v)' = Writes(v) /\ published'[v] = published[v]
  BY <1>1 DEF Writes, Inv, Shapes
<1>5. published[u] = 0 /\ published'[u] = 1
  BY <1>1, <1>4 DEF Inv, Shapes, OneHolder
<1>6. status[u] \notin {"none", "sent"} /\ \A k \in Jobs : ~Holds(k, u)
  BY <1>4 DEF Inv, OneHolder
<1>7. UNCHANGED status
  BY <1>1
<1> QED
  BY <1>2, <1>3, <1>4, <1>5, <1>6, <1>7 DEF Inv, OneHolder

LEMMA DisconnectStep ==
    ASSUME Inv, NEW u \in Users, Disconnect(u)
    PROVE  Inv'
<1>1. Goto(u, "off") /\ UNCHANGED <<job, online, published>>
  BY DEF Disconnect
<1>2. CASE socket[u] # "writing"
  BY <1>1, <1>2, SocketMoves DEF Disconnect, SocketSteps, Inv, Shapes
<1>3. CASE socket[u] = "writing"
  <2>1. Unclaim({u})
    BY <1>3 DEF Disconnect
  <2>2. \A v \in Users \ {u} : status'[v] = status[v]
    BY <2>1, UnclaimRows
  <2>3. Shapes'
    BY <1>1, <2>1, UnclaimRows DEF Inv, Shapes, Goto, SocketSteps
  <2>4. \A v \in Users, k \in Jobs : Holds(k, v)' = Holds(k, v)
    BY <1>1 DEF Holds
  <2>5. Writes(u) /\ ~Writes(u)' /\ \A v \in Users \ {u} : Writes(v)' = Writes(v)
    BY <1>1, <1>3 DEF Writes, Inv, Shapes, Goto
  <2>6. published[u] = 0 /\ \A k \in Jobs : ~Holds(k, u)
    BY <2>5 DEF Inv, OneHolder
  <2>7. UNCHANGED published
    BY <1>1
  <2> QED
    BY <2>2, <2>3, <2>4, <2>5, <2>6, <2>7 DEF Inv, OneHolder
<1> QED
  BY <1>2, <1>3

LEMMA SocketStep ==
    ASSUME Inv, NEW u \in Users,
           \/ Connect(u) \/ Initialise(u) \/ Disconnect(u) \/ CrashSocket(u)
           \/ GoOffline(u) \/ WindowPasses(u) \/ Read(u)
    PROVE  Inv'
<1>1. CASE Connect(u) \/ Register(u) \/ Replay(u) \/ CrashSocket(u)
  BY <1>1, SocketMoves DEF Connect, Register, Replay, CrashSocket, SocketSteps, Inv, Shapes
<1>2. CASE GoOffline(u) \/ WindowPasses(u)
  <2>1. UNCHANGED <<status, socket, job, published>> /\ online' \subseteq Users
    BY <1>2 DEF GoOffline, WindowPasses, Inv, Shapes
  <2> QED
    BY <2>1, QuietSteps DEF Inv, Shapes, Holds, Writes
<1>3. CASE Read(u)
  <2>1. UNCHANGED <<socket, job, online, published>>
    BY <1>3 DEF Read
  <2>2. status' = [status EXCEPT ![u] = "read"]
    BY <1>3 DEF Read
  <2>3. Shapes'
    BY <2>1, <2>2 DEF Inv, Shapes, Statuses
  <2>4. \A v \in Users : status'[v] \in {"none", "sent"} => status[v] \in {"none", "sent"}
    BY <2>2 DEF Inv, Shapes
  <2> QED
    BY <2>1, <2>3, <2>4, QuietSteps DEF Holds, Writes
<1> QED
  BY <1>1, <1>2, <1>3, ClaimQueuedStep, WriteStep, DisconnectStep DEF Initialise
-----------------------------------------------------------------------------
LEMMA DispatchStep ==
    ASSUME Inv, NEW d \in Sweeps, Dispatch(d)
    PROVE  Inv'
<1>1. UNCHANGED <<status, socket, online, published>>
  BY DEF Dispatch
<1>2. CASE UNCHANGED job
  BY <1>1, <1>2, QuietSteps DEF Inv, Shapes, Holds, Writes
<1>3. CASE ~UNCHANGED job
  <2>1. job' = [job EXCEPT ![Min(FreeJobs)] = Queued("notify")]
    BY <1>3 DEF Dispatch
  <2>2. Min(FreeJobs) \in Jobs
    <3> DEFINE slot == Min(FreeJobs)
    <3> SUFFICES ASSUME slot \notin Jobs PROVE job' = job
      BY <1>3
    <3>1. job \in [Jobs -> Job] /\ job' = [job EXCEPT ![slot] = Queued("notify")]
      BY <2>1 DEF Inv, Shapes
    <3> HIDE DEF slot
    <3> QED
      BY <3>1
  <2> QED
    BY <1>1, <2>1, <2>2, JobsOnly, JobValues
<1> QED
  BY <1>2, <1>3

LEMMA InvStep == Inv /\ [Next]_vars => Inv'
<1> SUFFICES ASSUME Inv, [Next]_vars PROVE Inv'
  OBVIOUS
<1>1. CASE UNCHANGED deliveryVars
  BY <1>1, QuietSteps DEF deliveryVars, Inv, Shapes, Holds, Writes
<1>2. ASSUME NEW d \in Sweeps, Dispatch(d)
      PROVE  Inv'
  BY <1>2, DispatchStep
<1>3. ASSUME NEW j \in Jobs, JobStep(j) \/ JobRaises(j) \/ CrashJob(j)
      PROVE  Inv'
  BY <1>3, CreateRowsStep, ClaimOnlineStep, PublishStep, ReleaseStep, JobEnds DEF JobStep
<1>4. ASSUME NEW u \in Users,
             \/ Connect(u) \/ Initialise(u) \/ Disconnect(u) \/ CrashSocket(u)
             \/ GoOffline(u) \/ WindowPasses(u) \/ Read(u)
      PROVE  Inv'
  BY <1>4, SocketStep
<1>5. UNCHANGED vars => UNCHANGED deliveryVars
  BY DEF vars, deliveryVars
<1> QED
  BY <1>1, <1>2, <1>3, <1>4, <1>5 DEF Next, SweepStep

LEMMA InvInit == Init => Inv
<1> SUFFICES ASSUME Init PROVE Inv
  OBVIOUS
<1>1. Shapes
  BY JobValues DEF Init, Shapes, Statuses, SocketSteps
<1>2. \A j \in Jobs : \A u : ~Holds(j, u)
  BY JobValues DEF Init, Holds
<1>3. \A u \in Users : ~Writes(u) /\ published[u] = 0
  BY DEF Init, Writes
<1> QED
  BY <1>1, <1>2, <1>3 DEF Inv, OneHolder

(* Whatever races, fails, is retried or dies: no recipient's message is    *)
(* published twice.                                                        *)
THEOREM OnePublisher == Spec => []PublishedOnce
<1>1. Inv => PublishedOnce
  BY DEF Inv, OneHolder, PublishedOnce
<1> QED
  BY <1>1, InvInit, InvStep, PTL DEF Spec

(* No claim, release or creation of rows touches a row that was read.      *)
LEMMA ReadKept ==
    ASSUME Inv, [Next]_vars, NEW u \in Users, status[u] = "read"
    PROVE  status'[u] = "read"
<1>1. CASE UNCHANGED status
  BY <1>1
<1>2. ASSUME NEW us, Claim(us)
      PROVE  status'[u] = "read"
  BY <1>2, ClaimRows DEF Claims
<1>3. ASSUME NEW us, Unclaim(us)
      PROVE  status'[u] = "read"
  BY <1>3 DEF Unclaim
<1>4. ASSUME NEW d \in Sweeps, SweepStep(d) \/ (CrashSweep(d) /\ UNCHANGED deliveryVars)
      PROVE  UNCHANGED status
  BY <1>4 DEF SweepStep, Dispatch, deliveryVars
<1>5. ASSUME NEW j \in Jobs, JobStep(j) \/ JobRaises(j) \/ CrashJob(j)
      PROVE  status'[u] = "read"
  <2>1. CASE CreateRows(j)
    BY <2>1 DEF CreateRows
  <2>2. CASE ~CreateRows(j)
    BY <1>2, <1>3, <1>5, <2>2 DEF JobStep, ClaimOnline, PublishTo, Release, Finish,
                                  JobRaises, CrashJob
  <2> QED
    BY <2>1, <2>2
<1>6. ASSUME NEW v \in Users,
             \/ Connect(v) \/ Initialise(v) \/ Disconnect(v) \/ CrashSocket(v)
             \/ GoOffline(v) \/ WindowPasses(v) \/ Read(v)
      PROVE  status'[u] = "read"
  <2>1. CASE Read(v)
    BY <2>1 DEF Read, Inv, Shapes
  <2>2. CASE ClaimQueued(v) \/ Disconnect(v)
    BY <1>2, <1>3, <2>2 DEF ClaimQueued, Disconnect
  <2>3. CASE ~Read(v) /\ ~ClaimQueued(v) /\ ~Disconnect(v)
    BY <1>1, <1>6, <2>3 DEF Connect, Initialise, Register, WriteQueued, Replay,
                            CrashSocket, GoOffline, WindowPasses
  <2> QED
    BY <2>1, <2>2, <2>3
<1> QED
  BY <1>1, <1>4, <1>5, <1>6 DEF Next, vars, deliveryVars

(* What a recipient has read stays read.                                   *)
THEOREM ReadStays == Spec => ReadIsFinal
<1>1. Inv /\ [Next]_vars => [\A u \in Users : status[u] = "read" => status'[u] = "read"]_vars
  BY ReadKept
<1> QED
  BY <1>1, InvInit, InvStep, PTL DEF Spec, ReadIsFinal
-----------------------------------------------------------------------------
(* The shapes of the outbox.  A sweep that is under way has a row in hand. *)
OutboxInv ==
    /\ OutboxTypeOK
    /\ \A d \in Sweeps : sweep[d].pc # "idle" => sweep[d].todo # {}

LEMMA AtAnEvent ==
    ASSUME OutboxInv, NEW d \in Sweeps, sweep[d].pc # "idle"
    PROVE  /\ Place(d) \in sweep[d].todo /\ Event(d) \in EventSet
           /\ Rest(d) \subseteq DOMAIN Events
<1>1. sweep[d].todo \in SUBSET DOMAIN Events /\ sweep[d].todo # {}
  BY DEF OutboxInv, OutboxTypeOK, Sweep
<1>2. PICK n \in Nat : DOMAIN Events = 1..n
  BY OutboxConstants
<1>3. Place(d) \in sweep[d].todo
  BY <1>1, <1>2, Least DEF Place
<1> QED
  BY <1>1, <1>3 DEF Event, EventSet, Rest, ToSet

(* A fault counts, and there are never more than MaxFaults.                *)
LEMMA FaultCounts ==
    ASSUME OutboxTypeOK, NEW kind, Fault(kind)
    PROVE  faults' \in 0..MaxFaults /\ faults' = faults + 1 /\ faults \in 0..MaxFaults
BY OutboxConstants DEF Fault, OutboxTypeOK

LEMMA SweepUpdate ==
    ASSUME OutboxInv, NEW d \in Sweeps, NEW v \in Sweep, v.pc # "idle" => v.todo # {},
           sweep' = [sweep EXCEPT ![d] = v],
           outbox' \in [EventSet -> Row], handed' \subseteq EventSet, faults' \in 0..MaxFaults
    PROVE  OutboxInv'
BY DEF OutboxInv, OutboxTypeOK

LEMMA Rows ==
    ASSUME OutboxTypeOK, NEW e \in EventSet
    PROVE  /\ [outbox EXCEPT ![e].claim = "stale"] \in [EventSet -> Row]
           /\ [outbox EXCEPT ![e].due = TRUE] \in [EventSet -> Row]
           /\ [outbox EXCEPT ![e].claim = "none", ![e].due = FALSE] \in [EventSet -> Row]
           /\ [outbox EXCEPT ![e].claim = "none", ![e].published = TRUE] \in [EventSet -> Row]
BY DEF OutboxTypeOK, Row

LEMMA RestingIs == Resting \in Sweep /\ Resting.pc = "idle"
BY DEF Resting, Sweep

LEMMA ClaimBatchTypes ==
    ASSUME OutboxInv, NEW d \in Sweeps, ClaimBatch(d)
    PROVE  OutboxInv'
<1> DEFINE batch == {i \in DOMAIN Events : Claimable(Events[i])}
           v == [pc |-> "publishing", todo |-> batch]
<1>1. v \in Sweep /\ v.todo # {}
  BY DEF ClaimBatch, Sweep
<1>2. outbox' \in [EventSet -> Row]
  BY DEF ClaimBatch, OutboxInv, OutboxTypeOK, Row
<1>3. sweep' = [sweep EXCEPT ![d] = v] /\ UNCHANGED <<handed, faults>>
  BY DEF ClaimBatch
<1> HIDE DEF v
<1> QED
  BY <1>1, <1>2, <1>3, SweepUpdate DEF OutboxInv, OutboxTypeOK

LEMMA PublishTypes ==
    ASSUME OutboxInv, NEW d \in Sweeps, Publish(d)
    PROVE  OutboxInv'
<1> DEFINE v == [sweep[d] EXCEPT !.pc = "marking"]
<1>1. /\ sweep[d].pc = "publishing" /\ sweep' = [sweep EXCEPT ![d] = v]
      /\ handed' = handed \cup {Event(d)} /\ UNCHANGED <<outbox, faults>>
  BY DEF Publish
<1>2. v \in Sweep /\ v.todo = sweep[d].todo
  BY DEF OutboxInv, OutboxTypeOK, Sweep
<1>3. sweep[d].todo # {} /\ Event(d) \in EventSet
  BY <1>1, AtAnEvent DEF OutboxInv
<1> HIDE DEF v
<1> QED
  BY <1>1, <1>2, <1>3, SweepUpdate DEF OutboxInv, OutboxTypeOK

LEMMA RestTypes ==
    ASSUME OutboxInv, NEW d \in Sweeps, sweep[d].pc # "idle",
           NEW step \in {"publishing", "releasing"}, outbox' \in [EventSet -> Row],
           sweep' = [sweep EXCEPT ![d] = IF Rest(d) = {} THEN Resting
                                         ELSE [pc |-> step, todo |-> Rest(d)]],
           UNCHANGED handed, faults' \in 0..MaxFaults
    PROVE  OutboxInv'
<1> DEFINE v == IF Rest(d) = {} THEN Resting ELSE [pc |-> step, todo |-> Rest(d)]
<1>1. v \in Sweep /\ (v.pc # "idle" => v.todo # {})
  BY AtAnEvent, RestingIs DEF Sweep
<1>2. sweep' = [sweep EXCEPT ![d] = v] /\ handed' \subseteq EventSet
  BY DEF OutboxInv, OutboxTypeOK
<1> HIDE DEF v
<1> QED
  BY <1>1, <1>2, SweepUpdate

LEMMA BreakOffTypes ==
    ASSUME OutboxInv, NEW d \in Sweeps, PublishFails(d) \/ Mark(d)
    PROVE  OutboxInv'
<1>1. sweep[d].pc # "idle"
  BY DEF PublishFails, Mark
<1>2. Event(d) \in EventSet
  BY <1>1, AtAnEvent
<1>3. outbox' \in [EventSet -> Row] /\ UNCHANGED handed
  <2>1. OutboxTypeOK /\ outbox \in [EventSet -> Row]
    BY DEF OutboxInv, OutboxTypeOK
  <2>2. CASE PublishFails(d)
    BY <1>2, <2>1, <2>2, Rows DEF PublishFails
  <2>3. CASE Mark(d)
    BY <1>2, <2>1, <2>3, Rows DEF Mark
  <2> QED
    BY <2>2, <2>3
<1>4. faults' \in 0..MaxFaults
  BY FaultCounts DEF PublishFails, Mark, OutboxInv, OutboxTypeOK
<1> QED
  BY <1>1, <1>3, <1>4, RestTypes DEF PublishFails, Mark

LEMMA LetGoTypes ==
    ASSUME OutboxInv, NEW d \in Sweeps, ReleaseRest(d) \/ CrashSweep(d)
    PROVE  OutboxInv'
<1>1. sweep' = [sweep EXCEPT ![d] = Resting] /\ UNCHANGED handed
  BY DEF ReleaseRest, CrashSweep
<1>2. outbox' \in [EventSet -> Row]
  BY DEF ReleaseRest, CrashSweep, OutboxInv, OutboxTypeOK, Row
<1>3. faults' \in 0..MaxFaults
  BY FaultCounts DEF ReleaseRest, CrashSweep, OutboxInv, OutboxTypeOK
<1> QED
  BY <1>1, <1>2, <1>3, RestingIs, SweepUpdate DEF OutboxInv, OutboxTypeOK

LEMMA TimeTypes ==
    ASSUME OutboxInv, NEW e \in EventSet, ClaimLapses(e) \/ FallsDue(e)
    PROVE  OutboxInv'
<1>1. outbox' \in [EventSet -> Row] /\ UNCHANGED <<sweep, handed, faults>>
  BY Rows DEF ClaimLapses, FallsDue, OutboxInv
<1> QED
  BY <1>1 DEF OutboxInv, OutboxTypeOK
-----------------------------------------------------------------------------
(* What was delivered within the window still says delivered.              *)
RecentInv ==
    /\ recent \subseteq {u \in Users : status[u] = "delivered"}
    /\ got \subseteq Users

LEMMA RecentMoves ==
    ASSUME Inv, RecentInv, NEW us \in SUBSET Users, Claim(us) \/ Unclaim(us)
    PROVE  recent' \subseteq {u \in Users : status'[u] = "delivered"}
BY DEF Claim, Claims, Unclaim, Inv, Shapes, RecentInv

LEMMA RecentJobs ==
    ASSUME Inv, RecentInv, NEW j \in Jobs, JobStep(j) \/ JobRaises(j) \/ CrashJob(j)
    PROVE  RecentInv'
<1>1. online \in SUBSET Users /\ job[j].held \in SUBSET Users /\ job[j].failed \in SUBSET Users
  BY DEF Inv, Shapes, Job
<1>2. CASE CreateRows(j)
  BY <1>2 DEF CreateRows, RecentInv, Inv, Shapes
<1>3. CASE ClaimOnline(j) \/ Release(j)
  BY <1>1, <1>3, RecentMoves DEF ClaimOnline, Release, RecentInv
<1>4. CASE PublishTo(j)
  BY <1>1, <1>4 DEF PublishTo, Delivered, Reachable, RecentInv
<1>5. CASE Finish(j) \/ JobRaises(j) \/ CrashJob(j)
  BY <1>5 DEF Finish, JobRaises, CrashJob, RecentInv
<1> QED
  BY <1>2, <1>3, <1>4, <1>5 DEF JobStep

LEMMA RecentSockets ==
    ASSUME Inv, RecentInv, NEW u \in Users,
           \/ Connect(u) \/ Initialise(u) \/ Disconnect(u) \/ CrashSocket(u)
           \/ GoOffline(u) \/ WindowPasses(u) \/ Read(u)
    PROVE  RecentInv'
<1>1. {u} \in SUBSET Users
  OBVIOUS
<1>2. CASE Connect(u) \/ Register(u) \/ WriteQueued(u) \/ CrashSocket(u) \/ GoOffline(u)
  BY <1>2 DEF Connect, Register, WriteQueued, CrashSocket, GoOffline, RecentInv
<1>3. CASE Replay(u) \/ WindowPasses(u)
  BY <1>3 DEF Replay, Replayed, WindowPasses, RecentInv
<1>4. CASE ClaimQueued(u) \/ Disconnect(u)
  BY <1>1, <1>4, RecentMoves DEF ClaimQueued, Disconnect, RecentInv
<1>5. CASE Read(u)
  BY <1>5 DEF Read, RecentInv, Inv, Shapes
<1> QED
  BY <1>2, <1>3, <1>4, <1>5 DEF Initialise

(* Tasks and sockets count their faults too.                               *)
LEMMA FaultsBounded ==
    ASSUME OutboxInv, UNCHANGED outboxVars,
           \/ \E j \in Jobs : JobStep(j) \/ JobRaises(j) \/ CrashJob(j)
           \/ \E u \in Users : \/ Connect(u) \/ Initialise(u) \/ Disconnect(u)
                               \/ CrashSocket(u) \/ GoOffline(u) \/ WindowPasses(u)
                               \/ Read(u)
    PROVE  OutboxInv'
<1>1. UNCHANGED faults \/ \E kind : Fault(kind)
  <2>1. ASSUME NEW j \in Jobs, PublishTo(j)
        PROVE  UNCHANGED faults \/ Fault("publish")
    BY <2>1 DEF PublishTo
  <2>2. ASSUME NEW j \in Jobs, JobStep(j) \/ JobRaises(j) \/ CrashJob(j)
        PROVE  UNCHANGED faults \/ \E kind : Fault(kind)
    BY <2>1, <2>2 DEF JobStep, CreateRows, ClaimOnline, Release, Finish, JobRaises, CrashJob
  <2>3. ASSUME NEW u \in Users,
               \/ Connect(u) \/ Initialise(u) \/ Disconnect(u) \/ CrashSocket(u)
               \/ GoOffline(u) \/ WindowPasses(u) \/ Read(u)
        PROVE  UNCHANGED faults \/ \E kind : Fault(kind)
    BY <2>3 DEF Connect, Initialise, Register, ClaimQueued, WriteQueued, Replay, Disconnect,
                CrashSocket, GoOffline, WindowPasses, Read
  <2> QED
    BY <2>2, <2>3
<1>2. faults' \in 0..MaxFaults
  BY <1>1, FaultCounts DEF OutboxInv, OutboxTypeOK
<1> QED
  BY <1>2 DEF OutboxInv, OutboxTypeOK, outboxVars

FullInv == Inv /\ OutboxInv /\ RecentInv

LEMMA FullStep == FullInv /\ [Next]_vars => FullInv'
<1> SUFFICES ASSUME FullInv, [Next]_vars PROVE OutboxInv' /\ RecentInv'
  BY InvStep DEF FullInv
<1> USE DEF FullInv
<1>1. ASSUME UNCHANGED deliveryVars PROVE RecentInv'
  BY <1>1 DEF deliveryVars, RecentInv
<1>2. ASSUME NEW d \in Sweeps, SweepStep(d) \/ (CrashSweep(d) /\ UNCHANGED deliveryVars)
      PROVE  OutboxInv' /\ RecentInv'
  <2>1. OutboxInv'
    BY <1>2, PublishTypes, ClaimBatchTypes, BreakOffTypes, LetGoTypes DEF SweepStep, Dispatch
  <2>2. UNCHANGED <<status, recent, got>>
    BY <1>2 DEF SweepStep, Dispatch, deliveryVars
  <2> QED
    BY <2>1, <2>2 DEF RecentInv
<1>3. ASSUME NEW e \in EventSet, (ClaimLapses(e) \/ FallsDue(e)) /\ UNCHANGED deliveryVars
      PROVE  OutboxInv' /\ RecentInv'
  BY <1>1, <1>3, TimeTypes
<1>4. ASSUME UNCHANGED outboxVars,
             \/ \E j \in Jobs : JobStep(j) \/ JobRaises(j) \/ CrashJob(j)
             \/ \E u \in Users : \/ Connect(u) \/ Initialise(u) \/ Disconnect(u)
                                 \/ CrashSocket(u) \/ GoOffline(u) \/ WindowPasses(u)
                                 \/ Read(u)
      PROVE  OutboxInv' /\ RecentInv'
  BY <1>4, FaultsBounded, RecentJobs, RecentSockets
<1>5. CASE UNCHANGED vars
  BY <1>5 DEF vars, OutboxInv, OutboxTypeOK, RecentInv
<1> QED
  BY <1>2, <1>3, <1>4, <1>5 DEF Next

LEMMA FullInit == Init => FullInv
<1> SUFFICES ASSUME Init PROVE OutboxInv /\ RecentInv
  BY InvInit DEF FullInv
<1>1. OutboxInv
  BY RestingIs, OutboxConstants DEF Init, OutboxInit, OutboxInv, OutboxTypeOK, Row
<1> QED
  BY <1>1 DEF Init, RecentInv

LEMMA ChatInvariant == Spec => []FullInv
BY FullInit, FullStep, PTL DEF Spec

(* Whatever is published, retried, released or lost: the outbox rows, the  *)
(* sweeps, the tasks and the sockets are what they are declared to be, and *)
(* only a row that says delivered is replayed to a socket.                 *)
THEOREM ChatTypeCorrect == Spec => []TypeOK
<1>1. FullInv => TypeOK
  BY DEF FullInv, Inv, Shapes, OutboxInv, RecentInv, TypeOK
<1> QED
  BY <1>1, ChatInvariant, PTL
-----------------------------------------------------------------------------
(* Nobody is stranded while no worker is killed and a task may be retried  *)
(* as often as a publish may fail.                                         *)
Awaiting(u) == status[u] = "sent" /\ socket[u] \in {"replaying", "ready"}
Serves(v, u) == v.pc \in {"queued", "claiming"} \/ (v.pc = "finishing" /\ u \in v.failed)
Tried(v) == v.tries + (IF v.failed = {} THEN 0 ELSE 1)

(* A socket that has registered is online; each retry of a task was paid   *)
(* for with a fault; and a recipient who looks no more for a row that says *)
(* sent is looked after by a task that has yet to claim, or to schedule    *)
(* its next attempt.                                                       *)
ServedInv ==
    /\ \A u \in Users : socket[u] \notin {"off", "joined"} => u \in online
    /\ \A j \in Jobs : Tried(job[j]) <= faults
    /\ \A u \in Users : Awaiting(u) => \E j \in Jobs : Serves(job[j], u)

LEMMA TriedInt ==
    ASSUME NEW v \in Job
    PROVE  Tried(v) \in Nat /\ v.tries \in 0..MaxRetries
BY DeliveryConstants DEF Tried, Job

LEMMA ServedJobsKept ==
    ASSUME FullInv, ServedInv, UNCHANGED job, faults' \in Nat, faults <= faults',
           \A u \in Users : socket'[u] \notin {"off", "joined"} => u \in online',
           \A u \in Users : Awaiting(u)' => Awaiting(u)
    PROVE  ServedInv'
<1>1. \A j \in Jobs : Tried(job[j]) \in Nat /\ faults \in Nat
  BY TriedInt, OutboxConstants DEF FullInv, Inv, Shapes, OutboxInv, OutboxTypeOK
<1>2. \A j \in Jobs : Tried(job'[j]) <= faults'
  BY <1>1 DEF ServedInv
<1> QED
  BY <1>2 DEF ServedInv

LEMMA ServedJobMoves ==
    ASSUME FullInv, ServedInv, NEW j \in Jobs, NEW v \in Job, job' = [job EXCEPT ![j] = v],
           UNCHANGED <<socket, online>>, faults' \in Nat, faults <= faults',
           Tried(v) <= faults',
           \A u \in Users : Awaiting(u)' =>
               Serves(v, u) \/ (Awaiting(u) /\ ~Serves(job[j], u))
    PROVE  ServedInv'
<1>1. job'[j] = v /\ \A k \in Jobs \ {j} : job'[k] = job[k]
  BY JobUpdate DEF FullInv, Inv
<1>2. \A k \in Jobs : Tried(job[k]) \in Nat /\ faults \in Nat
  BY TriedInt, OutboxConstants DEF FullInv, Inv, Shapes, OutboxInv, OutboxTypeOK
<1>3. \A k \in Jobs : Tried(job'[k]) <= faults'
  BY <1>1, <1>2 DEF ServedInv
<1>4. ASSUME NEW u \in Users, Awaiting(u)'
      PROVE  \E k \in Jobs : Serves(job'[k], u)
  <2>1. CASE Serves(v, u)
    BY <1>1, <2>1
  <2>2. CASE Awaiting(u) /\ ~Serves(job[j], u)
    BY <1>1, <2>2 DEF ServedInv
  <2> QED
    BY <1>4, <2>1, <2>2
<1> QED
  BY <1>3, <1>4 DEF ServedInv

LEMMA ServedJobMovesCalmly ==
    ASSUME FullInv, ServedInv, NEW j \in Jobs, NEW v \in Job, job' = [job EXCEPT ![j] = v],
           socket' = socket, online' = online, faults' = faults, Tried(v) <= faults,
           \A u \in Users : Awaiting(u)' =>
               Serves(v, u) \/ (Awaiting(u) /\ ~Serves(job[j], u))
    PROVE  ServedInv'
<1>1. faults' \in Nat /\ faults <= faults' /\ UNCHANGED <<socket, online>>
  BY OutboxConstants DEF FullInv, OutboxInv, OutboxTypeOK
<1>2. Tried(v) <= faults'
  OBVIOUS
<1> QED
  BY <1>1, <1>2, ServedJobMoves

LEMMA QueuedTried ==
    ASSUME NEW kind \in {"notify", "deliver"}
    PROVE  /\ Queued(kind) \in Job /\ Tried(Queued(kind)) = 0
           /\ \A u : Serves(Queued(kind), u)
           /\ NoJob \in Job /\ Tried(NoJob) = 0
<1>1. Queued(kind) \in Job /\ Queued(kind).pc = "queued" /\ NoJob \in Job
  BY JobValues
<1>2. Queued(kind).tries = 0 /\ Queued(kind).failed = {}
  BY DEF Queued, NoJob
<1>3. NoJob.tries = 0 /\ NoJob.failed = {}
  BY DEF NoJob
<1> QED
  BY <1>1, <1>2, <1>3 DEF Tried, Serves

LEMMA ServedCreate ==
    ASSUME FullInv, ServedInv, NEW j \in Jobs, CreateRows(j) \/ ClaimOnline(j)
    PROVE  ServedInv'
<1>1. /\ job[j] \in Job /\ Tried(job[j]) <= faults /\ faults \in Nat
      /\ UNCHANGED <<socket, online, faults>>
  BY OutboxConstants DEF FullInv, Inv, Shapes, OutboxInv, OutboxTypeOK, ServedInv,
                         CreateRows, ClaimOnline
<1>2. CASE CreateRows(j)
  <2> DEFINE v == [job[j] EXCEPT !.pc = "claiming"]
  <2>1. v \in Job /\ v.pc = "claiming" /\ v.tries = job[j].tries /\ v.failed = job[j].failed
    BY <1>1 DEF Job, JobSteps
  <2>2. job' = [job EXCEPT ![j] = v]
    BY <1>2 DEF CreateRows
  <2> HIDE DEF v
  <2>3. Tried(v) <= faults /\ \A u \in Users : Serves(v, u)
    BY <1>1, <2>1 DEF Tried, Serves
  <2> QED
    BY <1>1, <2>1, <2>2, <2>3, ServedJobMovesCalmly
<1>3. CASE ClaimOnline(j)
  <2>1. \A u \in Users : ~Awaiting(u)'
    BY <1>1, <1>3, ClaimRows DEF ClaimOnline, Claims, Awaiting, ServedInv, FullInv
  <2>2. PICK v \in Job : job' = [job EXCEPT ![j] = v] /\ Tried(v) <= faults
    <3> DEFINE claimed == [job[j] EXCEPT !.pc = "publishing", !.held = Claims(online)]
               done == [job[j] EXCEPT !.pc = "finishing"]
    <3>1. Claims(online) \subseteq Users
      BY DEF Claims, FullInv, Inv, Shapes
    <3>2. /\ claimed \in Job /\ claimed.tries = job[j].tries /\ claimed.failed = job[j].failed
          /\ done \in Job /\ done.tries = job[j].tries /\ done.failed = job[j].failed
      BY <1>1, <3>1 DEF Job, JobSteps
    <3>3. \/ job' = [job EXCEPT ![j] = claimed]
          \/ job' = [job EXCEPT ![j] = done]
          \/ job' = [job EXCEPT ![j] = NoJob]
      BY <1>3 DEF ClaimOnline
    <3> HIDE DEF claimed, done
    <3>4. Tried(claimed) <= faults /\ Tried(done) <= faults
      BY <1>1, <3>2 DEF Tried
    <3>5. NoJob \in Job /\ Tried(NoJob) <= faults
      BY <1>1, QueuedTried
    <3> QED
      BY <3>2, <3>3, <3>4, <3>5
  <2> QED
    BY <1>1, <2>1, <2>2, ServedJobMovesCalmly
<1> QED
  BY <1>2, <1>3

LEMMA ServedPublish ==
    ASSUME FullInv, ServedInv, NEW j \in Jobs, PublishTo(j)
    PROVE  ServedInv'
<1>1. PICK failed \in SUBSET job[j].held :
          /\ job[j].pc = "publishing"
          /\ IF failed = {} THEN UNCHANGED faults ELSE Fault("publish")
          /\ job' = [job EXCEPT ![j].pc = "releasing", ![j].failed = failed]
          /\ UNCHANGED <<status, socket, online>>
  BY DEF PublishTo
<1>2. /\ job \in [Jobs -> Job] /\ job[j] \in Job /\ Tried(job[j]) <= faults
      /\ faults \in Nat /\ OutboxTypeOK
  BY OutboxConstants DEF FullInv, Inv, Shapes, OutboxInv, OutboxTypeOK, ServedInv
<1> DEFINE v == [job[j] EXCEPT !.pc = "releasing", !.failed = failed]
<1>3. v \in Job /\ v.pc = "releasing" /\ v.failed = failed /\ v.tries = job[j].tries
  BY <1>2 DEF Job, JobSteps
<1>4. job' = [job EXCEPT ![j] = v]
  BY <1>1, <1>2 DEF Job
<1> HIDE DEF v
<1>5. faults' \in Nat /\ faults <= faults' /\ (failed # {} => faults' = faults + 1)
  <2>1. CASE failed = {}
    BY <1>1, <1>2, <2>1
  <2>2. CASE failed # {}
    BY <1>1, <1>2, <2>2 DEF Fault
  <2> QED
    BY <2>1, <2>2
<1>6. job[j].tries \in Nat /\ job[j].tries <= faults
  BY <1>2, TriedInt, DeliveryConstants DEF Tried
<1>7. Tried(v) <= faults'
  BY <1>2, <1>3, <1>5, <1>6 DEF Tried
<1>8. \A u \in Users : Awaiting(u)' => Awaiting(u) /\ ~Serves(job[j], u)
  BY <1>1 DEF Awaiting, Serves
<1> QED
  BY <1>1, <1>3, <1>4, <1>5, <1>7, <1>8, ServedJobMoves

LEMMA ServedRelease ==
    ASSUME FullInv, ServedInv, NEW j \in Jobs, Release(j)
    PROVE  ServedInv'
<1> DEFINE v == [job[j] EXCEPT !.pc = "finishing"]
<1>1. /\ job[j].pc = "releasing" /\ Unclaim(job[j].failed)
      /\ job' = [job EXCEPT ![j] = v] /\ UNCHANGED <<socket, online, faults>>
  BY DEF Release
<1>2. /\ job[j] \in Job /\ Tried(job[j]) <= faults /\ faults \in Nat
  BY OutboxConstants DEF FullInv, Inv, Shapes, OutboxInv, OutboxTypeOK, ServedInv
<1>3. /\ v \in Job /\ v.pc = "finishing" /\ v.failed = job[j].failed
      /\ v.tries = job[j].tries
  BY <1>2 DEF Job, JobSteps
<1> HIDE DEF v
<1>4. Tried(v) <= faults
  BY <1>1, <1>2, <1>3 DEF Tried
<1>5. \A u \in Users : status'[u] # status[u] => u \in v.failed
  BY <1>1, <1>3, UnclaimRows DEF FullInv
<1>6. \A u \in Users : Awaiting(u)' =>
          Serves(v, u) \/ (Awaiting(u) /\ ~Serves(job[j], u))
  BY <1>1, <1>3, <1>5 DEF Awaiting, Serves
<1> QED
  BY <1>1, <1>2, <1>3, <1>4, <1>6, ServedJobMovesCalmly

(* A delivery task with failures has a retry left: so far it was retried   *)
(* less often than publishes failed.                                       *)
LEMMA ServedFinish ==
    ASSUME MaxFaults <= MaxRetries, FullInv, ServedInv, NEW j \in Jobs, Finish(j)
    PROVE  ServedInv'
<1>1. /\ job[j] \in Job /\ Tried(job[j]) <= faults /\ faults \in Nat /\ faults <= MaxFaults
      /\ MaxFaults \in Nat /\ MaxRetries \in Nat
  BY OutboxConstants, DeliveryConstants
     DEF FullInv, Inv, Shapes, OutboxInv, OutboxTypeOK, ServedInv
<1>2. job[j].pc = "finishing" /\ UNCHANGED <<status, socket, online, faults>>
  BY DEF Finish
<1>3. job[j].kind \in {"notify", "deliver"} /\ job[j].failed \subseteq Users
  BY <1>1 DEF Job
<1>4. CASE job[j].kind = "notify" /\ Unserved(j) # {}
  <2>1. job' = [job EXCEPT ![j] = Queued("deliver")]
    BY <1>4 DEF Finish
  <2>2. /\ Queued("deliver") \in Job /\ Tried(Queued("deliver")) <= faults
        /\ \A u : Serves(Queued("deliver"), u)
    BY <1>1, QueuedTried
  <2> QED
    BY <1>2, <2>1, <2>2, ServedJobMovesCalmly
<1>5. CASE job[j].kind = "notify" /\ Unserved(j) = {}
  <2>1. job' = [job EXCEPT ![j] = NoJob] /\ job[j].failed = {}
    BY <1>3, <1>5 DEF Finish, Unserved
  <2>2. \A u \in Users : Awaiting(u)' => Awaiting(u) /\ ~Serves(job[j], u)
    BY <1>2, <2>1 DEF Awaiting, Serves
  <2>3. NoJob \in Job /\ Tried(NoJob) <= faults
    BY <1>1, QueuedTried
  <2> QED
    BY <1>1, <1>2, <2>1, <2>2, <2>3, ServedJobMovesCalmly
<1>6. CASE job[j].kind = "deliver" /\ job[j].failed = {}
  <2>1. job' = [job EXCEPT ![j] = NoJob]
    BY <1>6 DEF Finish
  <2>2. \A u \in Users : Awaiting(u)' => Awaiting(u) /\ ~Serves(job[j], u)
    BY <1>2, <1>6 DEF Awaiting, Serves
  <2>3. NoJob \in Job /\ Tried(NoJob) <= faults
    BY <1>1, QueuedTried
  <2> QED
    BY <1>1, <1>2, <2>1, <2>2, <2>3, ServedJobMovesCalmly
<1>7. CASE job[j].kind = "deliver" /\ job[j].failed # {}
  <2> DEFINE n == job[j].tries + 1
             v == [Queued("deliver") EXCEPT !.tries = n]
  <2>1. n \in 0..MaxRetries /\ n <= faults /\ job[j].tries < MaxRetries
    BY <1>1, <1>7, TriedInt DEF Tried
  <2>2. job' = [job EXCEPT ![j] = v]
    BY <1>7, <2>1 DEF Finish, Retried
  <2> HIDE DEF n
  <2>3. v \in Job /\ v.pc = "queued" /\ v.tries = n /\ v.failed = {}
    BY <2>1, JobValues DEF Queued, NoJob
  <2> HIDE DEF v
  <2>4. Tried(v) <= faults /\ \A u : Serves(v, u)
    BY <1>1, <2>1, <2>3 DEF Tried, Serves
  <2> QED
    BY <1>1, <1>2, <2>2, <2>3, <2>4, ServedJobMovesCalmly
<1> QED
  BY <1>3, <1>4, <1>5, <1>6, <1>7

LEMMA ServedSockets ==
    ASSUME FullInv, ServedInv, NEW u \in Users, UNCHANGED outboxVars,
           \/ Connect(u) \/ Initialise(u) \/ Disconnect(u) \/ CrashSocket(u)
           \/ GoOffline(u) \/ WindowPasses(u) \/ Read(u)
    PROVE  ServedInv'
<1>1. faults' \in Nat /\ faults <= faults'
  BY FaultCounts, OutboxConstants
     DEF FullInv, OutboxInv, OutboxTypeOK, Connect, Initialise, Register, ClaimQueued,
         WriteQueued, Replay, Disconnect, CrashSocket, GoOffline, WindowPasses, Read
<1>2. UNCHANGED job
  BY DEF Connect, Initialise, Register, ClaimQueued, WriteQueued, Replay, Disconnect,
         CrashSocket, GoOffline, WindowPasses, Read
<1>3. status \in [Users -> Statuses] /\ socket \in [Users -> SocketSteps]
  BY DEF FullInv, Inv, Shapes
<1>4. \A v \in Users : socket[v] \notin {"off", "joined"} => v \in online
  BY DEF ServedInv
<1>5. CASE Connect(u) \/ Register(u) \/ CrashSocket(u) \/ Replay(u)
  BY <1>1, <1>2, <1>3, <1>4, <1>5, ServedJobsKept
     DEF Connect, Register, CrashSocket, Replay, Goto, Awaiting
<1>6. CASE GoOffline(u) \/ WindowPasses(u) \/ Read(u)
  BY <1>1, <1>2, <1>3, <1>4, <1>6, ServedJobsKept DEF GoOffline, WindowPasses, Read, Awaiting
<1>7. CASE ClaimQueued(u)
  <2>1. /\ socket[u] = "draining" /\ Claim({u}) /\ UNCHANGED online
        /\ Goto(u, IF Claims({u}) # {} THEN "writing" ELSE "replaying")
    BY <1>7 DEF ClaimQueued
  <2>2. \A v \in Users : status'[v] = "sent" => status[v] = "sent" /\ v # u
    BY <2>1, <1>3 DEF Claim, Claims
  <2>3. \A v \in Users : v # u => socket'[v] = socket[v]
    BY <2>1, <1>3 DEF Goto
  <2> QED
    BY <1>1, <1>2, <1>3, <1>4, <2>1, <2>2, <2>3, ServedJobsKept DEF Awaiting
<1>8. CASE WriteQueued(u)
  <2>1. status[u] # "sent" /\ UNCHANGED <<status, online>>
    BY <1>8 DEF WriteQueued, FullInv, Inv, OneHolder, Writes
  <2> QED
    BY <1>1, <1>2, <1>3, <1>4, <1>8, <2>1, ServedJobsKept DEF WriteQueued, Goto, Awaiting
<1>9. CASE Disconnect(u)
  <2>1. Goto(u, "off") /\ UNCHANGED online /\ (Unclaim({u}) \/ UNCHANGED status)
    BY <1>9 DEF Disconnect
  <2>2. \A v \in Users : v # u => socket'[v] = socket[v] /\ status'[v] = status[v]
    BY <2>1, <1>3, UnclaimRows DEF Goto, FullInv
  <2>3. socket'[u] = "off"
    BY <2>1, <1>3 DEF Goto
  <2> QED
    BY <1>1, <1>2, <1>4, <2>1, <2>2, <2>3, ServedJobsKept DEF Awaiting
<1> QED
  BY <1>5, <1>6, <1>7, <1>8, <1>9 DEF Initialise

LEMMA ServedSweeps ==
    ASSUME FullInv, ServedInv, NEW d \in Sweeps,
           SweepStep(d) \/ (CrashSweep(d) /\ UNCHANGED deliveryVars)
    PROVE  ServedInv'
<1>1. faults' \in Nat /\ faults <= faults' /\ faults \in Nat
  BY FaultCounts, OutboxConstants
     DEF FullInv, OutboxInv, OutboxTypeOK, SweepStep, Dispatch, Publish, ClaimBatch,
         PublishFails, ReleaseRest, Mark, CrashSweep
<1>2. UNCHANGED <<status, socket, online>>
  BY DEF SweepStep, Dispatch, deliveryVars
<1>3. CASE UNCHANGED job
  BY <1>1, <1>2, <1>3, ServedJobsKept DEF Awaiting, ServedInv
<1>4. CASE ~UNCHANGED job
  <2>1. job' = [job EXCEPT ![Min(FreeJobs)] = Queued("notify")]
    BY <1>4 DEF SweepStep, Dispatch, deliveryVars
  <2> DEFINE slot == Min(FreeJobs)
  <2>2. slot \in Jobs
    <3> SUFFICES ASSUME slot \notin Jobs PROVE job' = job
      BY <1>4
    <3>1. job \in [Jobs -> Job] /\ job' = [job EXCEPT ![slot] = Queued("notify")]
      BY <2>1 DEF FullInv, Inv, Shapes
    <3> HIDE DEF slot
    <3> QED
      BY <3>1
  <2>3. job' = [job EXCEPT ![slot] = Queued("notify")]
    BY <2>1
  <2> HIDE DEF slot
  <2>4. /\ Queued("notify") \in Job /\ Tried(Queued("notify")) <= faults'
        /\ \A u : Serves(Queued("notify"), u)
    BY <1>1, QueuedTried
  <2> QED
    BY <1>1, <1>2, <2>2, <2>3, <2>4, ServedJobMoves
<1> QED
  BY <1>3, <1>4

LEMMA ServedStep ==
    ASSUME Ops \cap {"crash", "error"} = {}, MaxFaults <= MaxRetries,
           FullInv, ServedInv, [Next]_vars
    PROVE  ServedInv'
<1>1. CASE UNCHANGED deliveryVars /\ UNCHANGED faults
  BY <1>1 DEF deliveryVars, ServedInv, Awaiting
<1>2. ASSUME NEW d \in Sweeps, SweepStep(d) \/ (CrashSweep(d) /\ UNCHANGED deliveryVars)
      PROVE  ServedInv'
  BY <1>2, ServedSweeps
<1>3. ASSUME NEW e \in EventSet, (ClaimLapses(e) \/ FallsDue(e)) /\ UNCHANGED deliveryVars
      PROVE  ServedInv'
  BY <1>1, <1>3 DEF ClaimLapses, FallsDue
<1>4. ASSUME NEW j \in Jobs, JobStep(j) \/ JobRaises(j) \/ CrashJob(j)
      PROVE  ServedInv'
  <2>1. ~JobRaises(j) /\ ~CrashJob(j)
    BY DEF JobRaises, CrashJob, Fault
  <2> QED
    BY <1>4, <2>1, ServedCreate, ServedPublish, ServedRelease, ServedFinish DEF JobStep
<1>5. ASSUME NEW u \in Users, UNCHANGED outboxVars,
             \/ Connect(u) \/ Initialise(u) \/ Disconnect(u) \/ CrashSocket(u)
             \/ GoOffline(u) \/ WindowPasses(u) \/ Read(u)
      PROVE  ServedInv'
  BY <1>5, ServedSockets
<1>6. CASE UNCHANGED vars
  BY <1>1, <1>6 DEF vars, deliveryVars
<1> QED
  BY <1>2, <1>3, <1>4, <1>5, <1>6 DEF Next

LEMMA ServedInit == Init => ServedInv
<1> SUFFICES ASSUME Init PROVE ServedInv
  OBVIOUS
<1>1. \A j \in Jobs : Tried(job[j]) <= faults
  BY QueuedTried DEF Init, OutboxInit
<1>2. \A u \in Users : ~Awaiting(u)
  BY DEF Init, Awaiting
<1>3. \A u \in Users : socket[u] \notin {"off", "joined"} => u \in online
  BY DEF Init
<1> QED
  BY <1>1, <1>2, <1>3 DEF ServedInv

(* Where no worker is killed and no task raises for another reason, and a  *)
(* task may be retried as often as publishes fail: a recipient who is      *)
(* connected and done with recovery never sits on a row that says sent     *)
(* with no task left to look at it.                                        *)
THEOREM NobodyStranded ==
    ASSUME Ops \cap {"crash", "error"} = {}, MaxFaults <= MaxRetries
    PROVE  Spec => []NeverStranded
<1>1. ServedInv => NeverStranded
  BY DEF ServedInv, NeverStranded, Awaiting, Serves
<1>2. FullInv /\ ServedInv /\ [Next]_vars => ServedInv'
  BY ServedStep
<1> QED
  BY <1>1, <1>2, ServedInit, ChatInvariant, PTL DEF Spec
=============================================================================
