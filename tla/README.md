# TLA+ models of the marketing-simplified backend

The repository is a marketing operations platform: a Django backend (one app per
directory under `src/backend`), a Next.js frontend, and a small TypeScript service
(`src/variations-studio-api`). State lives in Postgres. `backend/settings.py` does not set
`ATOMIC_REQUESTS`, so a view runs statement by statement in autocommit unless it opens
`transaction.atomic()`; isolation is READ COMMITTED. Background work runs in Celery workers.
Most of the hard behaviour of this code comes from that: a handler loads a row, tests what it
loaded, and later writes **every column** of the instance back (`Model.save()`), sometimes
after taking a row lock and reading again, sometimes not.

1. [Inventory](#inventory)
2. [Plan](#plan)
3. [The budget ledger](#the-budget-ledger)
4. [The approval chain](#the-approval-chain)
5. [Usage and overage](#usage-and-overage)
6. [Chat delivery](#chat-delivery)
7. [Asset versions and scans](#asset-versions-and-scans)
8. [Runs](#runs)
9. [What the code does otherwise than it says](#what-the-code-does-otherwise-than-it-says)
10. [Proofs](#proofs)
11. [Not modelled](#not-modelled)

`PROJECT.json` holds the same information for tools: components, runs, the source lines of every
definition, hazards, theorems, and for every property a plausible bug (a *mutant*, defined
next to the definition it replaces) under which TLC finds that property violated.

## Inventory

| part | state | operations | what is hard | what makes it correct |
|---|---|---|---|---|
| budget ledger (`budget_approval` models, services, views) | `budget_request.status/amount`, `budget_pool.used_amount` | create, submit, start_review, decide, lock (deduct), cancel (reverse), unlock, revise, PATCH, DELETE | row locks against stale snapshots; deductions computed from cached rows; unlock in two statements; a lock-order cycle between submit and cancel | deducted iff LOCKED; the tested balance is still there when it is spent; the status keeps to its state machine; handlers return |
| approval chain (`task` models and views, `budget_approval` services) | task status, step, approver, round; approval records; the linked request | submit, start_review, make_approval, forward, revise, cancel, lock, unlock, PATCH, bulk update, the request's decision endpoint, org-admin override | two state machines kept in step outside a transaction; errors swallowed; two ways to decide; counts over all rounds | steps in order, once, by their own approver; the request never ahead of the task and level with it at rest; no LOCKED task without its approvals |
| budget escalation | `is_escalated`, Celery queue | start_review, `trigger_escalation`, the manual trigger | message sent inside the transaction | an escalated request is announced |
| LLM usage and overage (`stripe_meta`, `agent/llm_client.py`) | `tokens_used/reserved`, `overage_tokens`, `overage_reported_tokens`, Stripe's meter | check, reserve, commit, release, settle | check then act; calls that span midnight or a change of plan; crash between reserve and commit; settlement against a remote service | each token beyond the quota counted once; no reservation lost to another call; nothing billed twice, nothing credited unbilled |
| chat delivery (`chat`) | outbox rows and claims, `MessageStatus`, presence, sockets | claim, publish, mark, release; fan-out, delivery task, reconnect recovery, read | claim expiry, crash between publish and mark, three paths that race for a recipient, publishes nobody hears | every event handed over; each recipient published to once and reached in the end; read stays read |
| asset versions (`asset`) | version status, scan status, file, scan queue, asset status | upload, replace, delete, publish, review, scan, sweep | whole rows saved from snapshots; a verdict for a replaced file; scans that die | a version that waits for a scan gets it; one draft; what is published is clean |
| external commits of the agent (`agent/approval_gate.py`) | pending rows, workflow run status | request, resolve | read, commit, mark without a lock | an action is committed once, and only if approved |
| task hierarchy (`task/services.py`) | parent-child edges | add, move, remove | check and insert under ordered row locks | one level, no cycle |
| meetings, spreadsheet, csm, decision, retrospective, campaign, notifications | see `PROJECT.json` | | mostly single rows and sequential code | not modelled, reasons there |
| integrations, CRUD apps, frontend, operations | see `PROJECT.json` | | mirrors of remote state or presentation | not modelled, reasons there |

How the modelled parts interact: the task app drives the budget app. A budget task's `lock` view
calls `lock_budget_request`, `cancel` calls `cancel_budget_request`, `make_approval` calls
`process_approval` after its own transaction, `unlock` writes pool and request itself; all of
them log and swallow the budget side's errors. In the other direction `process_approval` reads
the task's chain position, and writes it when an org-admin overrides.

The other three components stand alone: `llm_client` calls the usage services around each provider
call, and the settlement reads the rows the calls write; a chat message's transaction writes the
outbox rows from which its delivery starts; the asset views enqueue the scans that write the rows
they load.

## Plan

| | module | about | state |
|---|---|---|---|
| 1 | `RequestFSM`, `BudgetLedger` | the money; abstract: the request's declared state machine | done, proved in part |
| 2 | `ApprovalRound`, `BudgetTask` | the chain and its request; abstract: one round of decisions | done, proved in part |
| 3 | `UsageQuota`, `OverageSettlement` | reservations, commits, releases; settlement with Stripe, which extends them | done, proved in part |
| 4 | `ChatOutbox`, `ChatDelivery` | the outbox and its sweeps; the tasks and sockets that deliver, composed with it | done, proved in part |
| 5 | `AssetScan` | versions, reviews and scan workers | done, proved in part |
| 6 | `ApprovalGate`, `TaskHierarchy`, `Escalation` | see [Not modelled](#not-modelled) | left out |

Each component has its module, an `MC_` module with the values of its constants and, where several
settings share a run, their modes, and a `_proofs` module.

## The budget ledger

`BudgetLedger.tla` models the `budget_request` and `budget_pool` tables and the handlers that write
them. A *session* is one handler run on one database connection. One action is one statement, or
several that nobody can come between because the row they touch is locked.

| TLA+ | code |
|---|---|
| `req`, `used` | the two tables (`status` and `amount`; `used_amount`) |
| `reqLock`, `poolLock` | row locks taken by `select_for_update` or by an UPDATE inside a transaction |
| `sess[s]` | program counter, loaded request, the row as loaded (`row`), the pool's `used_amount` as read (`seen`) |
| `charged` | history variable: what was deducted for a request and not given back |
| `Load`, `Admits` | `get_object` and the status test of each view; a refused call changes nothing, so its test is the guard of `Load` |
| `Create`, `SubmitLockPool`, `SubmitSave` | `BudgetRequestViewSet.perform_create` and `submit_budget_request` (NOWAIT lock on the pool, failure swallowed) |
| `TaskSubmit` | `TaskViewSet.submit_task`: the linked draft is submitted without the pool test |
| `StartReview`, `Revise`, `Patch` | handlers that save the instance they loaded (`SaveSnapshot`) |
| `Decide` | `process_approval`: `select_for_update`, status read again; a forward ends back in UNDER_REVIEW |
| `LockRequest`, `ReadPool`, `LockPool`, `LockCommit` | `lock_budget_request` in its four statements: request NOWAIT, pool fetched without a lock, another instance of the pool NOWAIT and tested, `BudgetRequest.lock()` on the first instance |
| `CancelRequest`, `ReadPool`, `CancelCommit` | `cancel_budget_request` and `BudgetRequest.cancel()` |
| `ReadPool`, `UnlockPool`, `UnlockRequest` | `TaskViewSet.unlock`: two autocommitted UPDATEs |
| `Delete`, `PoolLoad`, `PoolPatch` | DELETE by a superuser; PATCH of a pool, which writes `used_amount` back as loaded |
| `WriteRequest`, `Released`, `DeadlockAbort`, `Crash` | Postgres: an UPDATE waits for the row lock; locks go at the end of a transaction; a cycle of waits is broken by aborting one; a worker dies |

`RequestFSM.tla` is the abstract side: the transitions `BudgetRequest` declares with django-fsm, plus
INSERT, DELETE and the UPDATE by which `unlock` goes from LOCKED to APPROVED.

## The approval chain

`BudgetTask.tla` models one task, the chain it walks, its approval records and the request linked to
it. A session is again one handler run: it loads the task (`Load`), writes it, and then, outside
the task's transaction, reads and writes the request.

| TLA+ | code |
|---|---|
| `task` | `status`, `current_approval_step` (0 when null; the chain is attached together with step 1 and never detached), `current_approver`, `revision_round` |
| `records` | `ApprovalRecord` rows: step, round, who, verdict; `(task, step, round)` is unique |
| `br` | `status` and `current_approver` of the request |
| `sess[s]` | operation, program counter, caller `u`, decision or target status `want`, approver named or in hand `next`, loaded task and request |
| `Opens`, `Load` | the first checks of each view, on the row it loads |
| `Submit`, `StartReview`, `Forward`, `Cancel`, `Revise`, `Lock`, `Unlock`, `Patch` | the views, up to their `task.save()`: the loaded instance, all columns |
| `LockCheck` | `lock`'s reading of the records (over all rounds) and of the request before it writes |
| `Bulk` | `bulk_update_tasks`: all checks on an unlocked read (in `Opens`), then the transition resolved again on the locked row |
| `MakeApproval`, `RefuseApproval` | the transaction of `make_approval` on the row `lock_for_transition` returns |
| `ReadRequest`, `FollowUp`, `Follow` | what a view does when it has the request in hand |
| `RequestSubmit` ... `RequestUnlock` | each view's write of the request |
| `RequestLock` | `lock_budget_request`; its inside is `BudgetLedger`, here the pool admits the request or not (`PoolAdmits`) |
| `LoadRequest` | the request's own endpoints: decision, start_review, PATCH |
| `ResolveNext`, `ProcessApproval`, `RefuseProcess` | `process_approval`: an override takes the next approver from the task's position, then everything is checked again under the request's row lock |
| `DeleteRecords` | the last statement of `cancel` |

Three details matter. `task.linked_object` is a generic foreign key, cached on the instance: when
`make_approval` consults the request inside the task's transaction (the caller is not the designated
approver), the same instance is what the synchronisation starts from; otherwise it is read after the
commit. `_resolve_next_from_approval_chain` reads the task as it is at that moment, after
`make_approval` has moved it. The signal handlers of a task's save lock its row and write nothing that
is modelled here.

`ApprovalRound.tla` is the abstract side: a round's steps are decided in order, each once, each by
the approver the chain names, until the last approves or any rejects.

`ReviewInit` and `ReviewedInit` start where the interesting races start. They are states the
handlers produce: create, submit, start_review.

## Usage and overage

`UsageQuota.tla` models the LLM calls of one organisation and its `UsageMonthly` rows;
`OverageSettlement.tla` extends it with the settlement of those rows with Stripe.

| TLA+ | code |
|---|---|
| `usage[m]` | the month's row: `tokens_used`, `tokens_reserved`, `overage_tokens` |
| `plan` | what the active subscription's plan says: quota or none, metered or blocking, cap per call |
| `holder` | the row lock `commit_quota` holds from its `select_for_update` to its save |
| `call[c]` | where `call_llm` is; estimate, provider's count, month of the reservation, quota and row as read |
| `Check`, `Reserve`, `Answer` | `check_quota_or_402`, `reserve_quota` (one UPDATE, in the month current by then), the provider's reply and the quota `commit_quota` reads |
| `CommitLock`, `CommitSave` | `commit_quota`'s transaction: the locked read, then the row with used, reserved and overage |
| `Log`, `LogFails`, `Fail`, `Release` | the cost row, inserted in the same `try`; the handler that releases the reservation |
| `Switch`, `NextMonth`, `CrashCall` | the subscription webhook, midnight on the last, a worker that dies (its transaction rolls back, its reservation stays) |
| `reported`, `meter`, `settler` | `overage_reported_tokens`; the events Stripe accepted; settlements under way |
| `Settle`, `Send`, `Mark` | `settle_overage_for_org`: load without a lock, `MeterEvent.create`, `_mark_reported` |
| `SameIdentifier`, `Accepted` | Stripe accepts an identifier once; it names organisation, month and the credit the settlement started from, not the amount |
| `SendFails`, `CrashSettler` | the request or its answer is lost and the exception logged; the task dies |
| `"batch"`, `"final"` in `Ops` | `report_overage_to_stripe` on the previous month; `settle_final_overage` on any month |

A meter event is a record of the tokens from which and up to which it charges, so "charged twice" is an
overlap of two events. `Closed` says the batch settles a month in which no call is still in flight: it runs
an hour after midnight. A call that took longer would commit to a month already settled.

## Chat delivery

`ChatOutbox.tla` models the outbox rows of one message and the sweeps that publish them;
`ChatDelivery.tla` extends it with the tasks the realtime event starts and the recipients' sockets.

| TLA+ | code |
|---|---|
| `outbox[e]` | a row per event: published, claimed (freshly or longer ago than the claim's time to live), due |
| `sweep[d]` | one `dispatch_pending_chat_outbox`: its batch and where it is |
| `ClaimBatch`, `Publish`, `Mark` | claim in one transaction with `skip_locked`; `delay` with no lock held; the row marked in a transaction of its own |
| `PublishFails`, `ReleaseRest` | the broker refuses: the row gets a retry time, the rest of the batch is given back by a second statement |
| `ClaimLapses`, `FallsDue` | time passes |
| `status[u]`, `recent` | `MessageStatus`; delivered within the replay window |
| `job[j]` | a queued or running `notify_new_message` or `deliver_message_task`: recipients claimed, recipients whose publish failed, retries |
| `CreateRows`, `ClaimOnline`, `PublishTo`, `Release`, `Finish`, `JobRaises` | both tasks: missing rows, `claim_recipients_for_delivery` over those presence calls online, publishes, `release_unpublished_recipients`, scheduling the delivery task or retrying |
| `socket[u]`, `online` | the consumer's `connect`: groups joined, registered, queue claimed and written, replay; the presence key, which outlives the socket for a while |
| `Connect`, `Register`, `ClaimQueued`, `WriteQueued`, `Replay`, `Disconnect`, `GoOffline` | its steps |
| `Read`, `WindowPasses` | `mark_message_as_read`, `mark_chat_as_read`; the end of the replay window |
| `Fault` | crash of a task or sweep, refusal by the broker, failed publish, any other exception: each bounded by `MaxFaults` |
| `got`, `published`, `handed` | history: who has the message, how often it was published to whom, which events reached the broker |

A Celery task that is retried or schedules its successor re-uses its slot in `job`. A publish to a group nobody
has joined disappears; that is the channel layer, and what the replay of the next connection is for.
With `Grouped` the fan-out is one publish for the whole chat (`CHAT_CHANNEL_GROUPS_ENABLED`); the delivery task publishes to each
recipient either way (`ToChat`).

## Asset versions and scans

`AssetScan.tla` models the versions of one asset, the asset's review, and the virus scans. A session is one
call of a view, a worker one run of `scan_asset_version`.

| TLA+ | code |
|---|---|
| `asset`, `version[v]` | `Asset.status`; number, `version_status`, `scan_status` and file of each `AssetVersion` |
| `sess[s]` | step, loaded row or status, number and file in hand |
| `queue[v]`, `work[w]` | messages for a version; a worker and the file it loaded |
| `lost` | history: versions whose message or scan a fault took, until a sweep's message or another file makes it good |
| `Upload`, `Validate`, `Insert`, `Enqueue` | `perform_create` and `create_new_version`: asset and latest number read, versions looked at again, insert under the unique key, `delay` |
| `Replace`, `ReplaceSave` | PUT of a file: the loaded row is saved with the new file and PENDING, then `delay` |
| `Delete`, `DeleteRow` | DELETE of a draft |
| `Publish`, `Finalize`, `PublishSave` | the publish view: `finalize` saves its column before django-fsm sets the target, so it writes Draft, and the view's save writes the whole row as Finalized |
| `Review`, `Resubmit`, `Edit`, `AssetSave` | submit (tested twice), the review actions, PUT of the asset: all write the status they loaded or the one it leads to |
| `Take`, `StartScan`, `Report` | `scan_version`: load and test, SCANNING, the verdict on the loaded file written to the row as it is by then |
| `ReportFails` | the announcement inside that transaction raises: the verdict is rolled back, the exception becomes the task's result, the row stays SCANNING |
| `Die`, `Crash`, `Sweep` | a worker or a server process dies, the broker refuses; `scan_all_pending_versions`, some of whose messages the broker may refuse |

`Model.save` of a row deleted meanwhile inserts it again; `update_fields` on one fails. Files are told apart
by their checksum, as the PUT view does. The number of a message's version is looked up by the worker;
which message a worker takes first is left open.

## Runs

States are distinct states found by TLC. Every run explores its state space completely.

A run whose name ends in `_modes` explores several settings at once. Its module adds a
variable `mode` that is chosen at the start and never changes, and restricts the component's next-state relation to the setting
(fewer operations, one handler at a time, one plan). A property that is claimed for one setting only
is defined next to them with the setting in front (`mode = "serial" => ...`), its comment naming the definition
of the component it repeats. `OthersIdle` in a setting makes its handlers run one after the other, each from call to return.

| run | settings | question | states |
|---|---|---|---|
| `ledger_modes` | `races`: 3 sessions, 3 requests, amounts 1 and 2, a pool of 3, the handlers that read again under the row lock, crashes; `serial`: one handler at a time from the creation of the requests | do the row locks alone keep requests deducted exactly while LOCKED, the tested balance valid, the status on its edges? Is `used_amount` the sum of the LOCKED amounts when handlers do not overlap? yes | 260016 |
| `ledger_all` | 2 sessions, 1 request, every operation | with stale snapshots, deletes and crashes, is what was tested still true at the deduction, and does every handler return? yes | 102386 |
| `ledger_overspend` | 2 sessions, 3 requests, a pool of 2 | are LOCKED amounts within the total? no | |
| `task_modes` | `linked`: 3 concurrent `make_approval` callers of a budget task, chain a-b-c; `alone`: the same of a task without a request, chain a-b-a; `override`: the decision endpoint with an admin; `serial`: one handler at a time from creation, chain a-b-c; `rounds`: the same over 2 revisions, forwards, PATCHes; `all`: every operation one at a time, killed anywhere | is the request never ahead, the awaited step always recordable, the position never taken back, the chain followed? Do overrides move both pointers together? At rest, is the request level with the task and each step decided by its own approver? Is a LOCKED task approved at every step? Does the request keep to its state machine? yes | 629758 |
| `task_behind` | 2 sessions, chain a-b | at rest, is the request level with the task? no, with two concurrent approvals | |
| `task_twotabs` | 2 sessions, chain a-b | was each step decided by its own approver? no, with two clicks | |
| `usage_modes` | `any`: 2 calls, three plans and switches between them, failures, crashes, settlements at any time; `free`: two plans that block and switches between them, estimates 1 and 2, over midnight; `monthly`: a metered plan settled by the batch | is each token of overage counted once, nothing charged twice? Do reservations cover the calls in flight, and is a blocking plan overrun by no more than its concurrent callers? Was all that is credited charged? yes | 606933 |
| `usage_double` | 1 call, 2 settlements of the current month at once | is nothing charged twice? no | |
| `chat_race` | 2 recipients, 2 task slots, a sweep whose claims may lapse, one fault of any kind, lost frames, the replay window | is each recipient published to at most once, and does read stay read? yes | 1050750 |
| `chat_live` | 1 recipient, both events, one publish per chat, 2 faults among broker, publish and sweep | does every event reach the broker, a recipient who stays connected the message, and is nobody stranded? yes | 305141 |
| `chat_fanout` | 1 recipient, one crash | is the fan-out executed in the end? no | |
| `asset_modes` | `crowd`: one version under 2 views (replace, delete, publish) and 2 workers whose announcements may fail; `upload`: 3 views that upload, publish and edit; `patient`: one view at a time, every operation, sweeps and crashes | is every version that waits attended to, and answered in the end unless a fault took its scan? Is there one draft? Is what is published clean, and an asset in review without drafts? yes | 422614 |

**Bounds.** Ledger and task: two sessions exhibit every race between two handlers; the third adds a bystander that
waits for a lock, overtakes, or repeats a winner's call. Two requests of one pool are what a lost
deduction needs, a third one makes the pool spend it. The amounts 1 and 2 against a total of 2 or 3
give a request that fits alone but not together with another one. `Ceiling` stands for the largest number a
`numeric(15, 2)` column holds; sums beyond it are refused as by Postgres, and the history `charged`
saturates there. Chains have two or three steps. The one of `alone` names the same person first and last, which is the case in which
a person is both too early and in time. `MaxRounds` bounds revisions (two, so that records of an older round exist while
another older round's were deleted), `MaxRecords` the records at the time of a decision: above the
chain's length in every setting but `all`, where it equals it, so it never stops a chain.

Usage: `LastMonth` 2 gives a midnight to be crossed; quotas 1 and 2 with `MaxUsed` 4 give calls below, across and beyond the
quota; `Overshoot` is how far the provider's count exceeds the estimate; `Unit` 2 makes rounding up to a unit visible.
`InBound` stops new calls in a month that is full, or whose reservations failed cost rows made negative.
One settlement at a time in `usage_modes`, because two are what `usage_double` is about.
Chat: `Jobs` bounds the tasks alive at once; two let a repeated publish of the outbox row run against the first one's tasks.
`MaxFaults` bounds faults; one sweep suffices for repeated publishes, because its claims may lapse and a crash starts it over.
Asset: three primary keys give a rejected or deleted predecessor and two racing uploads, one clean and one infected file a verdict that matters;
`MaxQueued` bounds the messages waiting for one version (a further one is under way in each worker).

**Restricted settings.** Several properties are stated over part of the operations because they are false over all of
them; [below](#what-the-code-does-otherwise-than-it-says) is which operation breaks them. `LockedHadEveryStep` is checked without crashes and bulk updates: two
cancellations that die before `DeleteRecords` leave two approvals of step 1 in different rounds, which `lock`
counts as two steps. In `upload` publications come one after another, in `patient` a file is replaced only when nobody scans its predecessor any more; `PatientIds` bounds
its versions to two, and no theorem needs the bound.

**Symmetry** is used only in runs without liveness, and only over identifiers no definition tells
apart: sessions and requests of the ledger, sessions of the task, calls, recipients.

**Deadlock** is checked in `ledger_all` and the chat runs. The other systems come to rest: a task decided and nobody left with a call that is
allowed, requests all LOCKED or CANCELLED, a month that is full, a version published.

**Fairness.**
- Ledger: `FairSpec` assumes strong fairness of each session's `Step`, for `SessionsFinish`. A worker that
  started a handler goes on with it. Weak fairness would not do: a session that waits for a row lock is
  disabled each time another one takes it, but Postgres grants a row lock to its waiters in the order
  they queued, so it is not overtaken for ever. None is assumed for starting a handler or crashing.
- Chat: the beat fires the sweep every second, a task that was taken runs, claims lapse and retries fall due with time, an accepted
  socket is initialised: weak fairness of each. None for connecting, disconnecting, going offline, reading, or any fault.
  `Received` is about a recipient who stays connected from some time on, without lost frames and crashes of tasks.
- Asset (`crowd`): weak fairness of requests and scans that have begun, strong fairness of a worker taking a version's message, because
  the broker's queue is first in, first out and other messages do not overtake it for ever. None for calls, crashes and which announcements fail:
  `CrowdAnswered` excepts a version while it is `lost`, which the next file ends.

## What the code does otherwise than it says

With a run that shows it:

- `ledger_overspend`: `lock_budget_request` locks and tests one instance of the pool and deducts on
  another, read before the lock (`services.py:374-387`). Two locks of two requests: one deduction
  is lost, and the pool then admits a request beyond its total.
- `task_behind`: two steps approved in quick succession synchronise in the other order; the last one's
  synchronisation is refused and swallowed. The task is APPROVED, its request stays UNDER_REVIEW, and
  `lock` refuses the task until somebody decides the request at its own endpoint.
- `task_twotabs`: between the task's commit and the request's synchronisation the request
  still names the approver of the step just decided. A second click passes the fallback check on the
  request (`task/views.py:1383`) and decides the next step.
- `usage_double`: two settlements of the current month overlap while a call commits more overage. The one with the smaller delta
  is told "already exists" for the other's event and writes its own smaller credit (`stripe_meta/tasks.py:62-65`); the next
  settlement charges the difference again.
- `chat_fanout`: the tasks are acknowledged before they run. A worker that dies with `notify_new_message` leaves
  recipients without a status row, though the outbox row says published and the comment at `chat/tasks.py:268-269` says the
  outbox guarantees the fan-out.

Met while modelling, each serial or a plain reading of the code, with no run of its own:

Budget and task
- An org-admin's override through `make_approval` resolves the next approver after the task has
  moved (`services.py:259` and `105-107`): request and task advance one step too far. `RequestNotAhead` is
  therefore checked without admins, `PointersTogether` over the decision endpoint.
- `revise` leaves the request without an approver (`budget_approval/models.py:205-206`), and
  `submit_task` submits it like that (`task/views.py:1725-1727`): only an admin can decide it.
- `lock` of a task swallows a pool that refuses (`task/views.py:1847-1860`): the task is LOCKED, the
  request APPROVED and nothing deducted. The setting `serial` lets the pool admit.
- Views other than `make_approval` save the whole task as loaded (for example `perform_update`,
  `task/views.py:971`): a PATCH that loaded the task before an approval takes the chain back to
  the decided step, whose record key is then taken. `lock_for_transition` (`task/models.py:306`) is there against that; only
  `make_approval` uses it.
- Two `start_review` calls of one request (`services.py:181-182`): the second writes UNDER_REVIEW over
  whatever the first one's review decided meanwhile, from a snapshot. `Lifecycle` is checked
  one handler at a time, `LifecycleSteps` concurrently over the row-locked handlers.
- The amount of a LOCKED request can be patched; cancelling then gives back the new amount
  (`budget_approval/models.py:222-226`).
- `forward` reopens a chained task at the step already recorded.
- `bulk_update_tasks` moves the task alone, without records and without its request (`task/services.py:202`): after it neither `InSync` nor
  `LockedHadEveryStep` need hold, so `serial` and `rounds` leave it out.
- `_raise_if_step_moved` (`services.py:218-221`) tells a late override by the approver of the step it was meant for. A chain that names one
  person twice lets it pass two steps later (see `OverrideTogether` under [Proofs](#proofs)).

Usage
- A cost row that cannot be inserted releases a reservation `commit_quota` already gave back (`agent/llm_client.py:99`):
  `tokens_reserved` falls below what is in flight, even below zero. `ReservedCoversCalls` is checked without it.
- An answer Stripe gave is lost, overage grows, and the settlement is repeated for a month that is still open: the same identifier now
  stands for a larger delta, which is credited although only the smaller one was charged. `CreditIsCharged` is
  checked for closed months.
- A batch that fails for a month is not repeated: the next one is a month later and about the next month.
- A worker that dies between reservation and commit leaves `tokens_reserved` raised until the month ends; no sweep lowers it.

Chat
- A recipient is claimed before the publish. A worker that dies in between, or a frame that is lost, leaves a row that
  says delivered; only a connection within `CHAT_RECONNECT_REPLAY_SECONDS` makes it good.
- `mark_as_delivered` and `update_message_status_task` are called by nothing.

Asset
- A verdict of the old file lands on the row of the new one (`asset/tasks.py:173`): a file replaced while its predecessor is scanned can be
  published unscanned, its own scan dropped because the row is no longer pending. `PublishedIsClean` is checked in `patient`.
- A verdict whose announcement fails is rolled back with it (`asset/tasks.py:94-131`), and the exception is swallowed (`182-185`): the retries the task
  declares do not happen, nor the ERROR its last one would write. The version stays SCANNING, which no sweep picks up, until its file is replaced.
  `broadcast_scan_started` guards against the same failure.
- Two reviews at once (approve and reject), or PUT of the asset, write the status from a snapshot: the later save wins.
- Replacing a file while another view publishes the version saves it as Draft again; deleting one while
  another view saves it inserts it again.
- `finalize` is called a second time by a concurrent publish: for a moment the published version is a draft.
- A version whose worker died stays SCANNING: the sweep takes PENDING and ERROR only, and hands over ERROR ones that
  `start_scan` then refuses. No schedule names the sweep.
- The retries `scan_asset_version` declares never happen: `scan_version` turns every exception into a result.
- `cleanup_failed_scans` filters on `updated_at`, which `AssetVersion` does not have; it always fails.

## Proofs

TLAPS checks the seven modules below and `SetLemmas`, which holds what they need to know of sums, least and greatest elements: tlapm cannot apply
induction over data here, so each fact is proved from a smallest set that would refute it (`Smallest`). Nothing is assumed beyond the named assumptions on the constants (`LedgerConstants`, `TaskConstants`,
`UsageConstants`, `SettlementConstants`, `OutboxConstants`, `DeliveryConstants`, `AssetConstants`, `NoneIsNoRow`, `SettingConstants`: their
types) and, where said, the operations or the organisation considered. All hold for
any number of sessions, requests, pools, users, calls, months, recipients, versions and workers, and any chain.
Where a theorem about `Spec` restricts the operations (`RowLockedOps`, `Approving`), it is to those of the setting that checks the same property (`races`; `linked` and `alone`).
A theorem about the `ModeSpec` of an `MC_` module speaks of the settings as the run has them, for any values of the constants.

**`BudgetLedger_proofs`.**

- `TypeCorrect`: `Spec => []TypeOK`. Needs `InHand` too: a session in a handler has a request and that
  request's pool in hand, else `used_amount` has no type after a deduction.
- `BalanceCheckedUnderLock`: `Spec => []CheckedBalanceHolds` over every operation. The statement
  is about one moment; it holds because of what a session owns from the moment it took a lock, which
  is `HeldInv`: while it owns a request's row the row is the one it read, while it owns a pool's row the room it found
  is still there. The proof is a frame argument: an own step establishes or keeps `Held` (`OwnHeld`), and a
  step of anybody else leaves alone the session's record and the rows it has locked
  (`Undisturbed`, one case per action).
- `RowLocksKeepDeductions`, `RowLocksKeepLifecycle`: from `ReviewedInit`, with the handlers that read again under the row lock,
  `[]DeductedIffLocked` and every step a step of `RequestFSM`. `LedgerInv` adds to `HeldInv` that no session is
  outside these handlers and that LOCKED amounts fit the column (so that the history does not
  saturate). Each step moves one row in one of four ways or none (`RowLockedMoves`); both theorems follow from
  the moves.

**`LedgerModes_proofs`**, about `ModeSpec` of `MC_LedgerModes`, for any constants.

- `SerialLedgerBalanced`: `ModeSpec => []SerialBalanced`. `SerialInv` adds three things to `HeldInv`. `Snapshot`: with nobody else at work the row
  and the `used_amount` a handler has loaded are the ones in the tables, in a status its step admits. `Accounts`: what stands deducted for a request is
  its amount while it is LOCKED and not half unlocked, and `used_amount` is the sum of that over the pool's requests. `LockedFits` as above. Every step of the
  handler at work has one of six effects on the tables (`StepEffect`), and each keeps the accounts: a deduction changes one term of one sum (`SumChange`), and the floor of
  the reversal is never reached because the other terms are not negative (`DeductionCovered`).
- `ModesKeepDeductions`, `ModesKeepLifecycle`: `[]DeductedIffLocked` and `LifecycleSteps` of both settings, `races` from the moves above, `serial` from the effects.

**`BudgetTask_proofs`.**

- `TaskTypeCorrect`: `Spec => []TypeOK` over every operation. The step number of an audit record is the
  maximum of the records' steps, so the invariant also says that the records are finite and
  have a last one, that running handlers have a caller, and deciding ones a verdict.
- `AwaitedStepRecordable`, `RequestFollowsTask`, `PositionNeverBack`, `ChainImplemented`: under `Approving` (concurrent
  `make_approval` calls and crashes, no admins, a chain that is not empty), from `ReviewInit`. The invariant
  `ApprovingInv` has three parts besides types. `ChainInv`: no record lies ahead of the chain's position, and the
  approver is the chain's; that is what makes the next record insertable and the next decision the chain's.
  `SyncInv`: whatever a pending synchronisation will write has already happened to the task; without it the
  order of two synchronisations could not be left open. `RequestInv`: the request's approver is one the task has reached, and
  the request is approved only after the task. `ChainImplemented` is the refinement of `ApprovalRound`, for a
  task without a request and whose first approver is the chain's; with a request it is false, as `task_twotabs` shows.

The others are about `ModeSpec` of `MC_TaskModes`, each with the invariant of its setting.

- `LinkedRequestNotAhead`, `LinkedStepRecordable`, `LinkedPositionKept`: the first three again, where admins exist and do not call. Only
  `Chain # <<>>` is assumed.
- `RoundsLocks`: `ModeSpec => []RoundsLockedHadEveryStep` if `Required >= Len(Chain)`; `effective_required_approvals` falls back to the number of
  steps. `lock` counts approvals of any step and any round, so `RoundsInv` has to say why a count is enough. `Marks`: approvals are of
  steps up to the chain's position, no two of one step, and one of the step the task waits for can only be of this very round (after a `forward`),
  where the record key blocks a second. `Cleared`: a cancelled task has lost its records, or its handler is about to delete them; this is where
  a crash would break it. `Handler`: what a view tested on the task it loaded still holds of the row. `EveryStep` is the pigeonhole
  principle: as many approvals as steps, no two of one step, are one of each.
- `SerialAgreement`: `ModeSpec => []SerialInSync`, `SerialDeciders`: `ModeSpec => []SerialByDesignated`. `SerialInv` describes a handler's course
  (`Underway`): before it writes the task, task and request agree (`Agreed`) and it has the task's row in hand; afterwards the request is
  where the operation began, and the handler knows what the task has become (`Passing`: for the approver the request still names).
  `Place` says whom the task waits for: whoever was named at the creation for the first step, the chain's approver for a later one. So `SerialDeciders`, and it alone, assumes that the
  task was created for the first of its chain; `start_review` does not see to that.
- `OverrideTogether`: `ModeSpec => []OverridePointersTogether` if nobody is to decide two steps (`Distinct`). An override reads the request, then the
  task, then checks and writes under the request's lock. `Late` is what it knows in between: the request was read at some step `j`, the task at `j` or later.
  The check compares approvers, so if it passes and approvers are distinct, `j` is the present step and so is what was read of the task. The
  hypothesis is needed: over the chain a-b-a TLC finds an override that read the request at step 1 and the task at step 2 and is accepted at
  step 3, where it records step 2 again.
- `HandlersKeepLifecycle`: `Init /\ [][Sole]_vars => RequestLifecycle`, where `Sole` is any step of a handler, or its death, while the others are idle:
  every operation, and callers who are admins or name an approver. `save` writes all columns of the row loaded earlier, so the step must be one from
  the status in the table as well as from the loaded one: `Edge` says that a handler about to save has the table's row in hand, in
  a status its edge starts from. Two handlers at once break it (the hazard at `services.py:182`).
- `SettingsKeepLifecycle`: `ModeSpec => RequestLifecycle` in the settings `linked`, `override`, `serial` and `rounds`. The first two are races, of decisions
  only: `RacingInv` says that nobody else is at work, and a decision tests the request under its lock.

**`OverageSettlement_proofs`.**

- `UsageTypeCorrect`: `Spec => []TypeOK`. That overage never becomes negative is `DeltaBounds`; the rest is what each
  call has in hand (`CallInv`): a transaction between its locked read and its save holds the row it read, and a quota in hand is one of the plans'.
- `OverageCounted`: `Spec => []OverageWithin`, over every plan switch, failure and crash. The bounds for the smallest and the
  largest quota are kept by `SaveStep`, because the row read under the lock is the row that is written.
- `NoDoubleCharge`: `Spec => []NeverOvercharged` if settlements do not overlap (`Alone`). `SettleInv` says that what a settlement has in hand
  starts from the credit in the row and bills whole units that begin within the overage, and that an event is credited already or is what the
  next credit starts with (`Placed`); the arithmetic is `RoundedUp` and `RoundedMonotone`.
  `usage_double` shows that the hypothesis is needed.
- `MonthlyCreditsCharged`: `Spec => []CreditIsCharged` when only closed months are settled (`"final" \notin Ops`), by any number of settlements at once. No call can add
  to such a month's overage any more (`Still`), so equal identifiers mean equal events.

**`UsageModes_proofs`**, about `ModeSpec` of `MC_Usage`, for any numbers of calls and months, any estimates and plans.

- `FreeReservations`: `ModeSpec => []FreeReservedCovers`. The reservations are compared with a sum over all calls (`Held`) of which a step
  changes one term; where the cost row can be written, what a call gives back is what that term loses.
- `FreeOverrun`: `ModeSpec => []FreeOverrunBounded`. The bound is not inductive for the tokens used: a call that was checked may still come.
  `FreeInv` therefore bounds used and `Pending` together, where a call counts with its estimate and overshoot from its check to its commit. A check is then the only
  step that adds to it (`Admitted`): what it admits fits on top of the reservations, which cover the calls that have reserved, so that only those checked and not yet reserved, and
  the overshoots, come on top. Midnight moves the checked calls into an empty month, where one of them fits the quota by itself (`Midnight`). The bound for the month
  needs `FreeReservations`, and fails where a failing cost row releases a reservation twice.
- `MonthlyCredits`: `ModeSpec => []MonthlyCreditIsCharged`, from the same step as `MonthlyCreditsCharged`.

**`ChatDelivery_proofs`.**

- `OnePublisher`: `Spec => []PublishedOnce`, over all three paths and every fault. Inductive is
  `OneHolder`: a row still to be claimed has no holder, a row has at most one, and who holds it has not published.
  A holder is a task between claim and publish or between a failed publish and its release, or a socket that writes.
- `ReadStays`: `Spec => ReadIsFinal`.
- `ChatTypeCorrect`: `Spec => []TypeOK`. A sweep that works has a row in hand (`OutboxInv`), else the event it publishes is not
  defined; the first row of a batch is the least of its places (`Least`).
- `NobodyStranded`: `Spec => []NeverStranded` where no worker dies and no task raises for another reason, and a task may be retried as often as publishes
  fail (`chat_live` checks two failures and two retries). `ServedInv` says more than the property does: for each recipient who is still without the message there is
  a task that will get to that recipient, one whose fan-out has yet to release the row among them, and a task has been retried at most as often as something failed, so
  that none gives up while it is needed.

**`AssetScan_proofs`.**

- `AssetTypeCorrect`: `Spec => []TypeOK`, with `InHand`: what a view or worker has in hand at each step.
- `EveryVersionAttended`: `Spec => []Attended`, over every operation, replaced and deleted files, crashes, failed announcements and sweeps. `TypeInv /\ Attended` is inductive; the delicate
  steps are the whole-row saves of `Replace` and `Publish`, which bring back a scan status loaded before, and `Report` on a row another worker is scanning. A publisher
  loaded a clean row, which waits for nothing, and a replacement enqueues the scan its save asks for.
- `UploadsLeaveOneDraft`: `ModeSpec => []UploadOneDraft`, for any number of views. One draft is not inductive, for the test for drafts and the insert are two
  statements. `UploadInv` adds that numbers are distinct and have no gap, also below a number somebody is about to insert; that a draft has the largest; and that
  a view at its insert saw no draft, or its number has been taken since. So of several uploads that all saw none, the unique key lets one in. The publisher's row is still the draft it loaded.
- `PublishedFilesAreClean`, `SubmittedAssetsAreComplete`: `ModeSpec => []PatientPublishedIsClean` and `[]PatientReviewedIsComplete`, for any number of
  workers and versions, with sweeps and crashes between any two statements. `PatientInv` relates three copies of a row: the row, what the view loaded (`Holds`) and the file
  the worker loaded (`Scanned`). They agree because no other view writes, and because nobody scans a version whose file is about to be replaced; without that a verdict
  about the old file reaches the new one.

**Only model-checked**: `SessionsFinish`, `HandedOver`, `Received`, `CrowdAnswered` (liveness and fairness are outside TLAPS's reach here);
`AloneFollowsChain`, and `RequestLifecycle` in the settings `alone` and `all`, as `MC_TaskModes` instantiates them with constants of their own, because lemmas do
not carry over to an instance here. What the two say is proved for any constants, by `ChainImplemented` and `HandlersKeepLifecycle`.

## Not modelled

Whole components, each with its reason in `PROJECT.json`. Three of them have one hard point:

- `agent/approval_gate.py`: `resolve_pending` tests the pending row without a lock, commits, and marks it last. Two
  answers, or a crash and a second answer, commit the same action twice. A model would show that one interleaving and nothing more.
- Budget escalation: the message is sent inside the transaction that sets the flag, so a fast worker may find it unset and drop it.
- The task hierarchy: both rows are locked in key order before the test, so writes that share a task are serial.

Of the modelled components:

- Budget: setting `used_amount` or a pool's total by hand, moving a request to another pool; the escalation flag.
- Task: deleting tasks, chains or users; editing a chain while a task walks it; superusers in approvals. Rejection-history flags, comments,
  notifications and activity logs the handlers also write: no modelled handler reads them back. The Celery task
  `process_bulk_action`, which nothing enqueues.
- Amounts are small integers; currencies and escalation thresholds are not distinguished.
- Usage: subscriptions, checkout and seats (a plan change is one event), daily rows, cost aggregation and alerts, a missing Stripe customer.
  Stripe's deduplication is taken to last for ever.
- Chat: several messages of one chat and their sequence numbers, edits, deletions, reactions, membership changes, typing, scheduled
  messages, link previews; the content of the notification task; publishes that fail after having been heard; presence
  keys that expire under a live connection.
- Asset: deletion of assets, versions without a file, comments, assignments, history rows, the broadcasts other than a verdict's (they follow the last write of their view). Queries of one test are taken
  together, and of the two loads of PUT and DELETE only the second is kept.
- Everything marked `not_modelled` in `PROJECT.json`.
