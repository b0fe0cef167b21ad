------------------------------ MODULE ChatOutbox ------------------------------
(***************************************************************************)
(* The durable hand-off of a new chat message to Celery.  The transaction  *)
(* that creates the message also creates one outbox row per event; a sweep *)
(* fired every second claims the pending rows, publishes them one by one   *)
(* with no lock held, and marks each of them published.  Sweeps may        *)
(* overlap, and a claim left behind lapses after its time to live.         *)
(***************************************************************************)
EXTENDS Integers, Sequences, SequencesExt

CONSTANTS
    Sweeps,    \* dispatch_pending_chat_outbox tasks that may run at once
    Events,    \* the event types of the message, in the order of their rows
    MaxFaults, \* bound on crashes and failures of a behaviour
    Ops        \* the kinds of them exercised by a run

EventTypes == {"message.realtime", "message.notifications"}
EventSet == ToSet(Events)

ASSUME OutboxConstants == MaxFaults \in Nat /\ Events \in Seq(EventTypes)

VARIABLES
    outbox, \* a row per event: claimed_at, available_at and published_at
    sweep,  \* what each sweep still has to publish, and where it is
    handed, \* events some publish call has put on the broker
    faults  \* crashes and failures so far

outboxVars == <<outbox, sweep, handed>>

(* todo holds the places in Events of the rows a sweep has still in hand.  *)
Row == [published : BOOLEAN, claim : {"none", "fresh", "stale"}, due : BOOLEAN]
Sweep == [pc : {"idle", "publishing", "marking", "releasing"}, todo : SUBSET DOMAIN Events]
Resting == [pc |-> "idle", todo |-> {}]

OutboxTypeOK ==
    /\ outbox \in [EventSet -> Row]
    /\ sweep \in [Sweeps -> Sweep]
    /\ handed \subseteq EventSet
    /\ faults \in 0..MaxFaults

(* The message and its two rows have just been committed.                  *)
OutboxInit ==
    /\ outbox = [e \in EventSet |-> [published |-> FALSE, claim |-> "none", due |-> TRUE]]
    /\ sweep = [d \in Sweeps |-> Resting]
    /\ handed = {}
    /\ faults = 0
-----------------------------------------------------------------------------
Fault(kind) == kind \in Ops /\ faults < MaxFaults /\ faults' = faults + 1

(* The row it is at, and those that come after it.                         *)
Place(d) == Min(sweep[d].todo)
Event(d) == Events[Place(d)]
Rest(d) == sweep[d].todo \ {Place(d)}

(* Mutant: only rows nobody ever claimed.                                  *)
Claimable_Unclaimed(e) ==
    ~outbox[e].published /\ outbox[e].due /\ outbox[e].claim = "none"

Claimable(e) ==
    /\ ~outbox[e].published /\ outbox[e].due
    /\ outbox[e].claim \in {"none", "stale"}

(* One transaction, skip_locked: no two sweeps claim the same row at once. *)
ClaimBatch(d) ==
    LET batch == {i \in DOMAIN Events : Claimable(Events[i])} IN
    /\ sweep[d].pc = "idle" /\ batch # {}
    /\ outbox' = [e \in EventSet |->
           IF Claimable(e) THEN [outbox[e] EXCEPT !.claim = "fresh"] ELSE outbox[e]]
    /\ sweep' = [sweep EXCEPT ![d] = [pc |-> "publishing", todo |-> batch]]
    /\ UNCHANGED <<handed, faults>>

Publish(d) ==
    /\ sweep[d].pc = "publishing"
    /\ handed' = handed \cup {Event(d)}
    /\ sweep' = [sweep EXCEPT ![d].pc = "marking"]
    /\ UNCHANGED <<outbox, faults>>

(* The broker refuses: the row waits for its retry, the sweep breaks off.  *)
PublishFails(d) ==
    LET e == Event(d) IN
    /\ sweep[d].pc = "publishing" /\ Fault("broker")
    /\ outbox' = IF outbox[e].published THEN outbox
                 ELSE [outbox EXCEPT ![e].claim = "none", ![e].due = FALSE]
    /\ sweep' = [sweep EXCEPT ![d] = IF Rest(d) = {} THEN Resting
                                     ELSE [pc |-> "releasing", todo |-> Rest(d)]]
    /\ UNCHANGED handed

(* A second statement gives the unattempted rows back.                     *)
ReleaseRest(d) ==
    /\ sweep[d].pc = "releasing"
    /\ outbox' = [e \in EventSet |->
           IF ~outbox[e].published /\ \E i \in sweep[d].todo : Events[i] = e
           THEN [outbox[e] EXCEPT !.claim = "none"] ELSE outbox[e]]
    /\ sweep' = [sweep EXCEPT ![d] = Resting]
    /\ UNCHANGED <<handed, faults>>

Mark(d) ==
    LET e == Event(d) IN
    /\ sweep[d].pc = "marking"
    /\ outbox' = IF outbox[e].published THEN outbox
                 ELSE [outbox EXCEPT ![e].claim = "none", ![e].published = TRUE]
    /\ sweep' = [sweep EXCEPT ![d] = IF Rest(d) = {} THEN Resting
                                     ELSE [pc |-> "publishing", todo |-> Rest(d)]]
    /\ UNCHANGED <<handed, faults>>

CrashSweep(d) ==
    /\ sweep[d].pc # "idle" /\ Fault("sweep_crash")
    /\ sweep' = [sweep EXCEPT ![d] = Resting]
    /\ UNCHANGED <<outbox, handed>>

(* CHAT_OUTBOX_CLAIM_TTL_SECONDS pass; the claimer may merely be slow.     *)
ClaimLapses(e) ==
    /\ outbox[e].claim = "fresh"
    /\ outbox' = [outbox EXCEPT ![e].claim = "stale"]
    /\ UNCHANGED <<sweep, handed, faults>>

(* The retry delay is over.                                                *)
FallsDue(e) ==
    /\ ~outbox[e].due
    /\ outbox' = [outbox EXCEPT ![e].due = TRUE]
    /\ UNCHANGED <<sweep, handed, faults>>
=============================================================================
