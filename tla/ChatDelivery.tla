----------------------------- MODULE ChatDelivery -----------------------------
(***************************************************************************)
(* The way of one chat message from its outbox rows to its recipients.     *)
(* Three paths may deliver it: the realtime fan-out and the delivery task, *)
(* both Celery tasks, and the recovery a socket starts after it connects.  *)
(* Each of them first moves a recipient's MessageStatus row from sent to   *)
(* delivered; who moves it publishes, and moves it back when the publish   *)
(* fails.                                                                  *)
(***************************************************************************)
EXTENDS ChatOutbox, FiniteSets, FiniteSetsExt

CONSTANTS
    Users,      \* recipients: active participants other than the sender
    Jobs,       \* bound: Celery tasks queued or running at once, numbered
    MaxRetries, \* of a Celery task
    Grouped     \* CHAT_CHANNEL_GROUPS_ENABLED: one publish for the whole chat

ASSUME DeliveryConstants ==
    /\ Jobs \subseteq Nat /\ MaxRetries \in Nat /\ Grouped \in BOOLEAN
    /\ Ops \subseteq {"broker", "publish", "sweep_crash", "crash", "error", "lost"}

VARIABLES
    status,   \* MessageStatus of each recipient, or "none" before it exists
    recent,   \* rows delivered within the replay window
    job,      \* the Celery tasks notify_new_message and deliver_message_task
    socket,   \* where each recipient's connection is
    online,   \* the presence key, kept for a while after a disconnect
    got,      \* recipients whose client has the message
    published \* how often a path has published the message to each recipient

deliveryVars == <<status, recent, job, socket, online, got, published>>
vars == <<outbox, sweep, handed, faults, status, recent, job, socket, online, got, published>>

Statuses == {"none", "sent", "delivered", "read"}
JobSteps == {"free", "queued", "claiming", "publishing", "releasing", "finishing"}
Job == [pc : JobSteps, kind : {"notify", "deliver"}, held : SUBSET Users,
        failed : SUBSET Users, tries : 0..MaxRetries]
NoJob == [pc |-> "free", kind |-> "notify", held |-> {}, failed |-> {}, tries |-> 0]
Queued(kind) == [NoJob EXCEPT !.pc = "queued", !.kind = kind]
SocketSteps == {"off", "joined", "draining", "writing", "replaying", "ready"}

TypeOK ==
    /\ OutboxTypeOK
    /\ status \in [Users -> Statuses]
    /\ recent \subseteq {u \in Users : status[u] = "delivered"}
    /\ job \in [Jobs -> Job]
    /\ socket \in [Users -> SocketSteps]
    /\ online \subseteq Users
    /\ got \subseteq Users
    /\ published \in [Users -> Nat]

Init ==
    /\ OutboxInit
    /\ status = [u \in Users |-> "none"]
    /\ recent = {}
    /\ job = [j \in Jobs |-> NoJob]
    /\ \E here \in SUBSET Users :
           /\ socket = [u \in Users |-> IF u \in here THEN "ready" ELSE "off"]
           /\ online = here
    /\ got = {}
    /\ published = [u \in Users |-> 0]
-----------------------------------------------------------------------------
(* Moving rows.                                                            *)

(* Mutant: any row of the users asked for.                                 *)
Claims_Any(us) == {u \in us : status[u] # "none"}

(* claim_recipients_for_delivery: winning the transition is the claim.     *)
Claims(us) == {u \in us : status[u] = "sent"}

Claim(us) ==
    /\ status' = [u \in Users |-> IF u \in Claims(us) THEN "delivered" ELSE status[u]]
    /\ recent' = recent \cup Claims(us)

(* Mutant: the filter on delivered is left out.                            *)
Unclaim_AnyStatus(us) ==
    /\ status' = [u \in Users |-> IF u \in us THEN "sent" ELSE status[u]]
    /\ recent' = recent \ us

(* Mutant: delivered_at is not reset.                                      *)
Unclaim_KeepsTime(us) ==
    /\ status' = [u \in Users |->
           IF u \in us /\ status[u] = "delivered" THEN "sent" ELSE status[u]]
    /\ UNCHANGED recent

(* release_unpublished_recipients                                          *)
Unclaim(us) ==
    LET back == {u \in us : status[u] = "delivered"} IN
    /\ status' = [u \in Users |-> IF u \in back THEN "sent" ELSE status[u]]
    /\ recent' = recent \ back

(* A new task takes the first free slot.                                   *)
FreeJobs == {j \in Jobs : job[j].pc = "free"}

Reachable == {u \in Users : socket[u] # "off"}
-----------------------------------------------------------------------------
(* The Celery tasks.                                                       *)

(* The rows of participants that have none are created as sent.            *)
CreateRows(j) ==
    /\ job[j].pc = "queued"
    /\ status' = [u \in Users |-> IF status[u] = "none" THEN "sent" ELSE status[u]]
    /\ job' = [job EXCEPT ![j].pc = "claiming"]
    /\ UNCHANGED <<recent, socket, online, got, published, faults>>

(* Presence is read and the rows of users it calls online are claimed: the *)
(* two reads commute with what a recipient's socket does between them.  A  *)
(* delivery task that has claimed nobody ends here.                        *)
ClaimOnline(j) ==
    /\ job[j].pc = "claiming"
    /\ Claim(online)
    /\ job' = [job EXCEPT ![j] =
           IF Claims(online) # {} THEN [@ EXCEPT !.pc = "publishing", !.held = Claims(online)]
           ELSE IF @.kind = "deliver" THEN NoJob
           ELSE [@ EXCEPT !.pc = "finishing"]]
    /\ UNCHANGED <<socket, online, got, published, faults>>

(* The fan-out publishes to the chat's group if there is one, the delivery *)
(* task to each recipient's.                                               *)
ToChat(j) == Grouped /\ job[j].kind = "notify"

(* Sockets that joined their groups get the event, claimed or not when it  *)
(* goes to the chat; nobody listens to the group of a user who left.       *)
Delivered(j, held) == IF ToChat(j) /\ held # {} THEN Reachable ELSE Reachable \cap held

PublishTo(j) ==
    LET held == job[j].held IN
    \E failed \in SUBSET held :
        /\ job[j].pc = "publishing"
        /\ IF failed = {} THEN UNCHANGED faults ELSE Fault("publish")
        /\ ToChat(j) => failed \in {{}, held}
        /\ \/ got' = got \cup Delivered(j, held \ failed) /\ UNCHANGED recent
           \/ "lost" \in Ops /\ UNCHANGED <<got, recent>>
        /\ published' = [u \in Users |->
               IF u \in held \ failed THEN published[u] + 1 ELSE published[u]]
        /\ job' = [job EXCEPT ![j].pc = "releasing", ![j].failed = failed]
        /\ UNCHANGED <<status, socket, online>>

Release(j) ==
    /\ job[j].pc = "releasing"
    /\ Unclaim(job[j].failed)
    /\ job' = [job EXCEPT ![j].pc = "finishing"]
    /\ UNCHANGED <<socket, online, got, published, faults>>

(* Mutant: recipients are counted as served once they are claimed.         *)
Unserved_Claimed(j) == Users \ job[j].held

Unserved(j) == Users \ (job[j].held \ job[j].failed)

(* self.retry, up to max_retries.                                          *)
Retried(j) == IF job[j].tries < MaxRetries
              THEN [Queued(job[j].kind) EXCEPT !.tries = job[j].tries + 1]
              ELSE NoJob

(* The fan-out leaves whom it did not serve to a delivery task, which here *)
(* takes over its slot; a delivery task with failures raises and is retried. *)
Finish(j) ==
    /\ job[j].pc = "finishing"
    /\ job' = [job EXCEPT ![j] =
           IF @.kind = "notify" /\ Unserved(j) # {} THEN Queued("deliver")
           ELSE IF @.kind = "deliver" /\ @.failed # {} THEN Retried(j)
           ELSE NoJob]
    /\ UNCHANGED <<status, recent, socket, online, got, published, faults>>

(* Any other exception is retried from the beginning.                      *)
JobRaises(j) ==
    /\ job[j].pc \notin {"free", "queued"} /\ Fault("error")
    /\ job' = [job EXCEPT ![j] = Retried(j)]
    /\ UNCHANGED <<status, recent, socket, online, got, published>>

(* The worker dies; the task was acknowledged when it was received.        *)
CrashJob(j) ==
    /\ job[j].pc # "free" /\ Fault("crash")
    /\ job' = [job EXCEPT ![j] = NoJob]
    /\ UNCHANGED <<status, recent, socket, online, got, published>>

JobStep(j) ==
    CreateRows(j) \/ ClaimOnline(j) \/ PublishTo(j) \/ Release(j) \/ Finish(j)
-----------------------------------------------------------------------------
(* A recipient's socket.                                                   *)

Goto(u, step) == socket' = [socket EXCEPT ![u] = step]

(* The groups are joined before the socket is accepted.                    *)
Connect(u) ==
    /\ socket[u] = "off" /\ Goto(u, "joined")
    /\ UNCHANGED <<status, recent, job, online, got, published, faults>>

Register(u) ==
    /\ socket[u] = "joined" /\ Goto(u, "draining")
    /\ online' = online \cup {u}
    /\ UNCHANGED <<status, recent, job, got, published, faults>>

ClaimQueued(u) ==
    /\ socket[u] = "draining"
    /\ Claim({u})
    /\ Goto(u, IF Claims({u}) # {} THEN "writing" ELSE "replaying")
    /\ UNCHANGED <<job, online, got, published, faults>>

WriteQueued(u) ==
    /\ socket[u] = "writing" /\ Goto(u, "replaying")
    /\ got' = got \cup {u}
    /\ published' = [published EXCEPT ![u] = @ + 1]
    /\ UNCHANGED <<status, recent, job, online, faults>>

(* Mutant: nothing is replayed.                                            *)
Replayed_None(u) == {}

(* replay_recently_delivered reads rows and claims nothing.                *)
Replayed(u) == {u} \cap recent

Replay(u) ==
    /\ socket[u] = "replaying" /\ Goto(u, "ready")
    /\ got' = got \cup Replayed(u)
    /\ UNCHANGED <<status, recent, job, online, published, faults>>

(* The socket closes or a write to it fails: what was claimed for it and   *)
(* not written is handed back.  The presence key outlives it.              *)
Disconnect(u) ==
    /\ socket[u] # "off" /\ Goto(u, "off")
    /\ IF socket[u] = "writing" THEN Unclaim({u}) ELSE UNCHANGED <<status, recent>>
    /\ UNCHANGED <<job, online, got, published, faults>>

(* The server process dies with the socket.                                *)
CrashSocket(u) ==
    /\ socket[u] # "off" /\ Fault("crash") /\ Goto(u, "off")
    /\ UNCHANGED <<status, recent, job, online, got, published>>

(* finalize_presence_offline after the grace period, or the key expires.   *)
GoOffline(u) ==
    /\ u \in online /\ socket[u] \in {"off", "joined"}
    /\ online' = online \ {u}
    /\ UNCHANGED <<status, recent, job, socket, got, published, faults>>

(* CHAT_RECONNECT_REPLAY_SECONDS pass.                                     *)
WindowPasses(u) ==
    /\ "lost" \in Ops /\ u \in recent
    /\ recent' = recent \ {u}
    /\ UNCHANGED <<status, job, socket, online, got, published, faults>>

(* mark_message_as_read, mark_chat_as_read: over REST or the socket.       *)
Read(u) ==
    /\ status[u] \in {"sent", "delivered"}
    /\ status' = [status EXCEPT ![u] = "read"]
    /\ recent' = recent \ {u}
    /\ got' = got \cup {u}
    /\ UNCHANGED <<job, socket, online, published, faults>>

Initialise(u) == Register(u) \/ ClaimQueued(u) \/ WriteQueued(u) \/ Replay(u)
-----------------------------------------------------------------------------
(* Publishing the realtime event queues notify_new_message.                *)
Dispatch(d) ==
    /\ Publish(d)
    /\ IF Event(d) = "message.realtime"
       THEN FreeJobs # {} /\ job' = [job EXCEPT ![Min(FreeJobs)] = Queued("notify")]
       ELSE UNCHANGED job
    /\ UNCHANGED <<status, recent, socket, online, got, published>>

SweepStep(d) ==
    \/ Dispatch(d)
    \/ /\ ClaimBatch(d) \/ PublishFails(d) \/ ReleaseRest(d) \/ Mark(d)
       /\ UNCHANGED deliveryVars

Next ==
    \/ \E d \in Sweeps : SweepStep(d) \/ (CrashSweep(d) /\ UNCHANGED deliveryVars)
    \/ \E e \in EventSet : (ClaimLapses(e) \/ FallsDue(e)) /\ UNCHANGED deliveryVars
    \/ /\ \/ \E j \in Jobs : JobStep(j) \/ JobRaises(j) \/ CrashJob(j)
          \/ \E u \in Users : \/ Connect(u) \/ Initialise(u) \/ Disconnect(u)
                              \/ CrashSocket(u) \/ GoOffline(u) \/ WindowPasses(u)
                              \/ Read(u)
       /\ UNCHANGED outboxVars

(* The sweep is fired every second, tasks run to their end, time passes,   *)
(* and an accepted socket is initialised.                                  *)
Fairness ==
    /\ \A d \in Sweeps : WF_vars(SweepStep(d))
    /\ \A e \in EventSet : WF_vars((ClaimLapses(e) \/ FallsDue(e)) /\ UNCHANGED deliveryVars)
    /\ \A j \in Jobs : WF_vars(JobStep(j) /\ UNCHANGED outboxVars)
    /\ \A u \in Users : WF_vars(Initialise(u) /\ UNCHANGED outboxVars)

Spec == Init /\ [][Next]_vars
FairSpec == Spec /\ Fairness
-----------------------------------------------------------------------------
(* Realtime fan-out, delivery task and reconnect recovery race for every   *)
(* recipient, tasks are queued twice, publishes fail, rows are handed back *)
(* and workers die: no two of them publish to the same recipient           *)
(* (claim_recipients_for_delivery: "whichever path moves the row           *)
(* publishes, and the others find nothing left to take").                  *)
PublishedOnce == \A u \in Users : published[u] <= 1

(* A recipient who is connected and done with recovery is never left with  *)
(* a row nobody will look at again: while it says sent some task is under  *)
(* way (notify_new_message and deliver_message_task release before they    *)
(* schedule or retry).                                                     *)
NeverStranded ==
    \A u \in Users :
        status[u] = "sent" /\ socket[u] = "ready" => \E j \in Jobs : job[j].pc # "free"

(* What a recipient has read never shows as unread or undelivered again,   *)
(* though claims, releases and creations of rows still under way were      *)
(* begun before (release_unpublished_recipients, _create_recipient_statuses).*)
ReadIsFinal == [][\A u \in Users : status[u] = "read" => status'[u] = "read"]_vars

(* "A broker outage cannot lose the hand-off: the public dispatcher will   *)
(* publish every still-pending row later", and neither can a sweep that    *)
(* dies (dispatch_pending_chat_outbox).                                    *)
HandedOver == \A e \in EventSet : <>(e \in handed)

(* A recipient who stays connected from some time on gets the message.     *)
Received == \A u \in Users : <>[](socket[u] # "off") => <>(u \in got)

(* The comment on deliver_message_task: "the outbox guarantees this        *)
(* idempotent recipient fan-out is eventually executed after commit".      *)
FanoutExecuted == \A u \in Users : <>(status[u] # "none")
=============================================================================
