# Temperature monitor: formal model

TLA+ models of the temperature monitor's core, TLC configurations that check
them on small instances, and TLAPS proofs of the properties that should hold
for every instance. Paths below are relative to the repository root; in
`PROJECT.json` they start with `src/`. `PROJECT.json` also maps every
definition that stands for code to the lines it stands for, and lists the
components, runs, hazards, findings, theorems and mutants.

## 1. The system

A sample reaches the process over HTTP (Home Assistant) or from the Modbus
poller. It is stored in SQLite, projected to a Feishu table, and handed to the
alarm runtime, which evaluates it against a standard, runs an alarm state
machine, keeps a local event for each alarm cycle, binds that cycle to a row
of a second Feishu table, and notifies people. Everything that must survive a
restart is a row of `automation_tasks` that one scheduler thread drains.

Threads: the HTTP server's pool, the Modbus poller, one scheduler thread, and
helpers. Shared state: one SQLite file behind one process-wide write lock, one
execution lock in the runtime (samples and scheduler ticks exclude each other),
and the remote tables, which people edit as well.

| component | state | operations | hard behaviours | what makes it correct |
|---|---|---|---|---|
| task queue (`repositories/automation_tasks.py`, `scheduler/worker.py`) | `automation_tasks`, runtime context | create, re-arm, claim, finish, fail, reschedule, cancel, recover stale, quarantine, purge | leases that expire under a handler, two workers, key renaming, mode and epoch changes, crashes | one live task per piece of work, outcomes fenced by the claimant, no effect outside its epoch, everything settles |
| alarm lifecycle (`domain/alarm_state_machine.py`, `application/monitor_service.py`) | `alarm_states`, `environment_events`, verification tasks, latest sample | sample, verification, timers, remote deletion | a sample against a claimed timer, stale or silent devices, repeated handlers | an alarm only after an uninterrupted violation, an event exactly while in alarm, a task for every open window |
| remote event binding (`integrations/feishu_writers.py`, `repositories/environment_events.py`) | payload of the event (binding, create state, pending flags), effect markers, remote rows | create, look up, reuse, bind, update, recover, reconcile | lost and late POSTs, crashes between a call and its record, two cycles and one row, people in the table | one row per cycle, one owner per row, a recovery is neither lost nor written to a newer cycle |
| ingestion and projection (`routes/temperature.py`, `services/projection.py`, `services/devices.py`, `services/db.py`) | `device_samples`, `sample_projection_state`, projection task | store, note, project, dispatch, retry, scan, requeue | unlocked read-then-write of the status, inserts that fail, crashes, timeouts | the newest sample is projected, then dispatched, in order, at least once |
| heartbeat outbox (same files) | presence, `heartbeat_dispatch_outbox` | accept, fetch, deliver, acknowledge | failed acknowledgement, refused device, fetch limit | nothing is lost or overtakes |
| notifications and pre-warning (`integrations/feishu_notifications.py`, `application/monitor_service.py`, `application/action_executor.py`) | notification tasks, effect markers, warning episode, gates | prepare, execute inline, deliver, retry, cancel; open, withdraw and drop an episode | results matched to tasks by position, lost answers, a row that is not bound yet, incidents that arise or reopen while advice waits | repeats only where the process could not know, no advice during an incident, no withdrawn episode shown again, everything settles |
| standards (`repositories/standard_resolver.py`, `domain/standard_resolver.py`, `application/standard_sync.py`) | immutable versions, snapshots, active pointer, readiness | fetch, validate, activate, resolve | half-failed syncs, edits in place, overlapping intervals, spellings | what is active is what was last read and valid, no ambiguity, the gate moves by a sync only |
| operations (`application/operation_sync.py`, `runtime/shadow_runner.py`) | current operation of a device, reminder status and number, its task | sync, apply, refresh, arm and send reminders | registrations out of order, half-failed syncs, a task adopted for another operation, deaths around a send | the newest registration wins, reminders count and are about the operation that goes on |
| device status projection (`services/device_status_projection.py`) | desired row, status, one task per content | request, compare, PUT, retry, restart | content that changes while its task waits, people on the board, settings that change with a restart | SUCCEEDED means shown, no old content overwrites a newer one, the board settles |
| SQLite unit of work (`repositories/sqlite.py`) | nested frames | begin, commit, roll back, retry | retry inside a nested frame | all or nothing |
| shadow comparison, history, Modbus poller, runtime settings, HTTP pages, Feishu client, tools | see `PROJECT.json` | | | |

Interactions. The HTTP thread writes samples and heartbeats; the scheduler
delivers both to the runtime, which applies a sample in one unit of work
(alarm state, event, verification tasks) and then executes its actions; failed
actions become tasks; the scheduler claims tasks and calls the handlers of the
other components. So the queue is what all components meet in, and it is
modelled first and for itself; the others take from it the part they need.

## 2. Modules and plan

| | module | stands for | state |
|---|---|---|---|
| 1 | `TaskQueue`, `TaskQueueProofs` | the queue, its workers, the start of the process | checked, proved |
| 2 | `AlarmPromise`, `AlarmLifecycle`, `AlarmLifecycleProofs` | what operators are promised; the lifecycle of one device | checked, refinement proved |
| 3 | `BindingPromise`, `EventBinding`, `EventBindingProofs` | what binding promises; the writer and its reconciliation | checked, refinement proved |
| 4 | `Projection`, `IngestionProofs` | a device's samples from HTTP to the runtime | checked, safety proved |
| 5 | `HeartbeatRelay`, `HeartbeatOutbox`, `IngestionProofs` | an ordered relay; the outbox | checked, refinement proved |
| 6 | `Notification`, `NotificationProofs` | warnings and notices of one device with inline execution, the executor's gates, retries and cancellation | checked, safety proved |
| 7 | `StandardSelection`, `Standards`, `StandardsProofs` | selection and validation as operators; the sync of the table | checked, proved |
| 8 | `Operations`, `OperationsProofs` | a device's operation and its reminders | checked, safety proved |
| 9 | `DeviceStatus`, `DeviceStatusProofs` | a device's row on the status board | checked, safety proved |
| 10 | `UnitOfWork`, `History`, `Poller` | nested frames and retry; one capture per bucket; worker lifecycle | planned |

Each `MC…` module only adds the sets, functions and symmetry TLC needs; the other
runs give a component's constants their values in the configuration itself.
Symmetry is declared for interchangeable rows, tasks and threads, and only in
runs without liveness properties. `AlarmPromise`, `BindingPromise` and `HeartbeatRelay` are abstract
specifications; their components instantiate them with a refinement mapping and
check (`Keeps…`) that they implement them. Names follow the code.
`IngestionProofs` holds the proofs of both ways into the runtime, samples and
heartbeats; the names of `HeartbeatOutbox` therefore differ from those of
`Projection` (`OutboxInit`, `FetchBeats`, `DeliverBeat`, …).

## 3. What each module models

### TaskQueue
One action is one SQLite transaction (BEGIN IMMEDIATE under the write lock).
`tasks` is the table. Instants are relative to now (`due` is `due_at - now`,
`lease` is `lease_until - now`), so the table is finite without bounding a
clock: `Tick` ages every row, and `due` saturates at `-MaxOverdue`.
`ctx`, `epochs`, `phase` are the runtime context and the start of the process
(`SetRuntimeContext`, `StartupQuarantine`, `RecoverStaleTasks`). A worker is
`idle`, `claiming` (quarantine and claim are two transactions), `handling`, or
about to record an outcome.

`SameIdentity` is the lookup of `create_or_get_unfinished`: the business cycle
for reconciliations, the key for status projections, the entity for every
other type. `Adopt` is the re-arming of an existing row: it takes the new key,
moves a key held by history out of the way (`Archived`), and keeps a backoff;
duplicates are cancelled. `ClaimsBefore` is the ORDER BY of the claim. A lease
may run out under a running handler (`MaxLate` of them); the outcome is then
fenced by `worker_id` and `lease_until`.

One process is assumed to run at a time, as the repository's deployment does;
the execution lock is left out here, which only adds interleavings.
`MaxAttempts` bounds retries: remote outages end.

### AlarmLifecycle and AlarmPromise
`alarm` is the row of `alarm_states` with its two windows as elapsed times,
`tasks` the verification tasks, `events` the local events, `latest` the age and
availability of the last sample. `Sample` is the unit of work of one
observation: state machine (`OpensWindow`, `ClearsWindow`, `Raises`,
`StartsRecovery`, `Relapses`, `Recovers`, `Keeps`), event and tasks in one step.
`Claim`, `Verify` or `VerifyFails`, and `Finish` are the three transactions in
which the scheduler runs a verification, and a crash may come between any two.
A sample waits while a tick runs: both take the execution lock.

The thresholds are abstracted: any verdict may come for a fresh reading, since
standards and operations change at any time; a stale one is UNKNOWN
(`_fresh_sample_or_offline`). `AlarmPromise` knows neither timers nor tasks:
an alarm is raised only by a violation no normal reading interrupted for
`VerifyAfter`, and withdrawn only by a normal condition no violation
interrupted for `RecoveryAfter`. `violated` and `normal` are history variables.

### EventBinding and BindingPromise
`cycle[e]` is the durable payload of event `e`: binding, CREATE state, the
lease of an inline create, and the pending flags. `effects` are the SUCCEEDED markers of `external_effects`,
`task` the armed reconciliation. `rows` is the remote table, `wire` the POSTs
the server applies after the client gave up. `pc` is the one handler that holds
the execution lock; its labels are the places between two transactions or
calls, and each is an action (`Resolve`, `Lookup`, `Reuse`, `Reserve`, `Posted`,
`PostFails`, `LookupAgain`, `RecordOutcome`, `Bind`, `Patch`, `Put`,
`MarkMissing`, `Prove`, `Clear`, `Finish`). `OpenCycle`, `StillViolating` and
`RecoverCycle` are the local units of work that start such a handler; `Scan`
and `Reconcile` are the scheduler's. `PersonEdits` resolves, reopens or deletes
a row by hand.

Abstracted: snapshots, owner and area; the Active-mode gates except the one
that decides whether the local transaction owes the row anything (`Gates`);
UPDATE effect keys (a hash of the content) to who armed the task. A PUT that
times out is applied at once or never.

### Projection
One device; HTTP threads `Requests` and the `Scheduler` share its row of
`sample_projection_state` without a lock. Every helper of `services/db.py` is
a transaction, so a handler is a sequence of labels (`store`, `note`, `gate`,
`queue`, `put`, `project`, `succeeded`, `failed`, `gone`, `write`, …). Statuses
are changed by a read (which computes the verdict kept in `proc`) and a later
write. `inline` is `FEISHU_PROJECTION_INLINE_ENABLED`, fixed at the start to one
of `InlineModes`: off, as in production, only the scheduler writes to Feishu. `heard` and `shown` are histories. A
sample is its millisecond stamp, taken before the store's lock, so samples may
be inserted out of order. Whether content repeats and whether a backoff has
passed are free choices. The retry count of the row is not bounded by
`MaxRetries` (section 6, item 10). A crash includes the requeueing done at start-up.

### HeartbeatOutbox and HeartbeatRelay
`Post` is the transaction that stores presence and outbox row; `FetchBeats`,
`DeliverBeat`, `RefuseBeat`, `Skip`, `Acknowledge` and `AcknowledgeFails` are the
steps of one tick, which visits the rows of `batch` by id. A runtime that raises after
its transaction leaves the row as a failed acknowledgement does
(`AcknowledgeFails`); `LoseTick` is a crash of the process. `Limit` is the fetch limit (100 in the code). `AcceptedInTheEnd`
is an assumption of the liveness properties: which devices the runtime does not
refuse for ever.

### Notification
`notices` has, per durable identity, the task, the effect marker and the
messages sent. `Sample` is the local unit of work: the move of the formal state
(only which moves are possible; `AlarmLifecycle` has the windows), the warning
episode (`WarningAfter`, `Advice`) and the tasks it arms (`Arm`); `todo` is what
the same thread then executes inline (`WriteInline`, then the notices). A move of
the formal state builds a state without a warning; only one that is shown at
that moment is copied into it, hidden (`Interrupted`). So a warning that a
pending violation interrupts keeps its identity if the next reading is near the
limit again, and loses it when the next reading is clear or the violation
becomes an alarm. A
delivery is a `job` with the steps of one execution: gates and lookup
(`Checking`, `Refused`, `DismissNotice`, `DismissAdvice`, `ClosureUnknown`), the
recipient, the ATTEMPTED marker (`PrepareNotice`, `PrepareAdvice`), the message
(`Send`), the record, the end of the task (`Settle`, which cancels, retries or
fails it). `Reconcile` is the scheduler's write of an event that the sample
could not write. `row` is what the table shows, `bound` what the events know of
it: a POST that failed may have left its row all the same (`Miss`). People close
a row and reopen it (`CloseRow`, `ReopenRow`), between any two steps of a
delivery too; `surfaced` is the history of what they reopened since the send in
progress was checked. `gate` distinguishes what `Permitted` refuses. Left out: who
is told, what the text says, and delays.

### StandardSelection and Standards
`StandardSelection` is pure: `Winners` and `BrokenChain` translate
`select_standard` with its precedence, `Valid` the strict validation.
`Standards` is the sync: `Fetch` reads `table`; `Reject`, `ActivationFails` and
`Apply` are its ends. `versions` is keyed by `Identity` (standard and
revision) and never overwritten; `Changed` is the refusal of an edit in place,
`Matches` the comparison that skips an unchanged table. `Ready` is the readiness
gate. `last_known_good_snapshot_id` is written together with the active pointer
wherever it is written, so one variable stands for both. `Legacy` are versions an older release left.

### Operations
`rows` is the table as people keep it; `Observations` what a sync reads of it.
`Apply` is one transaction per registration: `Accept` for a newer one,
`Refresh` for more about the current one. `reminder` is the status and number
kept with the operation, `ripe` that its deadline or interval has passed.
`Scan` arms the task (`Armed`: the identity is the device, a waiting task takes
the new key and keeps its payload `of`), and `Check`, `Send`, `Told`, `Done` are the
handler between its transactions. `sent` and `doubts` are histories.

### DeviceStatus
`Request`, `Decide` and `MarkQueued` are the three transactions of a request,
which a sample or a restart makes; `Claim`, `Read`, `Put`, `Succeed` and
`Finish` an execution, with `Dismiss`, `Compare`, `Refuse` and `OutOfScope` as
its other ends. `tasks` has one entry per content, since the key holds the
content's hash. `Patched` writes the fields that differed when the row was
read, so what people changed in between stays. `setting` is what the process
was started with; `Restart` draws it anew. Where it is not Active, `Quarantine`,
which precedes every claim, puts the tasks aside before one can be claimed.

## 4. Runs

Every passing run checks deadlock except where the system may stop because its
bounded inputs are used up.

| run | asks | bounds |
|---|---|---|
| `task_claims` | With two workers, leases that expire under a handler and mode changes: is an outcome recorded by its claimant only, does a handler ever run another epoch's effect, and does every queued task settle? | 2 tasks, 2 workers, 1 restart, 1 late handler |
| `task_identity` | Does any interleaving of re-arming, renaming, cancelling and purging leave two live tasks for one piece of work, a duplicate key, a wiped backoff or a postponed task? | 3 tasks, 1 worker, requests for comparisons, reminders and cycles of one device |
| `alarm_lifecycle` | Do state, event and timers stay together, is `AlarmPromise` implemented, does silence never alarm, and is every window of an observed device decided even if its verification failed? | windows 3 and 2, staleness 2, delays 0 and 1, 3 task and 2 event ids (reused) |
| `event_binding` | One row per cycle, one owner per row, evidence before a request, no older recovery written where a newer cycle is bound; is `BindingPromise` implemented? | 2 cycles, 3 rows, 1 crash, 2 failed calls |
| `binding_settles` | Is a row that was stored without our knowing found and bound, and is an owed recovery written? | 2 cycles, 2 rows, 1 crash, 1 failed call |
| `projection` | With and without inline writes: does the runtime hear, in order, only what it should; does the row never go back; is a device given up after the cap and not before; is a projected sample dispatched and a pending one projected or given up? | 2 HTTP threads, 2 samples, cap 2, 2 faults, 1 crash |
| `heartbeat_outbox` | Nothing lost, `HeartbeatRelay` implemented, and every heartbeat heard when no device is refused for ever | 2 devices, 5 heartbeats, limit 3, 1 crash, 1 fault |
| `notification` | Is every message accounted for, is a withdrawn warning over, does no advice go out while the device is in alarm or while a row is open that was open when the delivery checked, and does every notice settle? | 1 limit, 1 alarm cycle, 2 warning episodes, 2 attempts, 2 troubles (a reopened row is one) |
| `standards` | Are decisions made by the last valid table that was read, is the active set unambiguous but for spellings, does only a sync move the gate, and is a table that stays valid adopted? | the rows of `MCStandards`, one of them for a device that is not configured, so that a sync closes the gate as well as opening it; 3 edits, 1 trouble |
| `operations` | Do reminders count, are they about the operation that goes on, is the newest registration followed, and is an overdue operation settled? | 3 registrations (2 that open), numbers 0 and 1, 3 edits, 1 trouble |
| `device_status` | Does SUCCEEDED mean shown, does a PUT carry what is wanted, is nothing pending for ever, and does the board settle? | 2 contents, 2 attempts, 2 changes, 2 interventions, 2 troubles |
| `projection_lost` | ends in a violation; see section 6 | 1 HTTP thread, 2 samples, no faults |

Invariants that belong together are one conjunction of named parts:
`TimersMatchWindow` is `WindowIsArmed` and `NoOrphanVerification`;
`RowsAreAccountedFor` is the type invariant, `OneRowPerCycle`,
`SharedRowHasOneOwner` and `EvidenceComesFirst`; `HearingIsAccountedFor` is the
type invariant, `AcknowledgedWasHeard`, `HeardInOrder` and `HeardWasShown`;
`NoticesAreAccountedFor` is the type invariant and `RepeatsAreDoubts`.

Why the bounds are enough. Two workers, two HTTP threads or two cycles are what
an interleaving needs; a third cycle would meet the same rows, since only the
newest and one older can differ in whom they are bound to. One crash falls into
every place it can. Retry caps, windows, reminder numbers and the fetch limit
are small, but are reached and passed in every run that depends on them. Three
registrations are an operation, its end and the next one, in any order of
arrival; three edits make, correct and withdraw. Two contents are the wanted
and the outdated one. Ids are reused once nothing refers to them, so a run is
not cut short by their number. Where a bound is coarsest, in `notification` (one
alarm cycle) and `operations` (one trouble), the steps a second cycle or a
second trouble would add act on other identities or repeat a path already
taken; for `operations` the proofs hold without the bounds.

### Fairness
- `TaskQueue`: weak for each worker's loop (it polls for ever), for the start of
  the process, and for time. Nothing is assumed of the application.
- `AlarmLifecycle`: weak for time and for the scheduler's steps.
- `EventBinding`: weak for the handler that runs and for the scanner of each
  cycle (the scheduler runs it at every tick), for a POST under way; strong for
  reconciliation and the lapse of an inline lease, which samples disable for
  a moment again and again but do not hold off for ever. Failed calls are
  finite: an outage ends.
- `Projection`: weak for the scheduler's tick and its own remote calls, and for
  a backoff to pass; strong for `Deliver`: the runtime does not refuse for ever.
- `HeartbeatOutbox`: weak for the tick, strong for the delivery of the devices
  in `AcceptedInTheEnd`.

- `Notification`: weak for the execution that runs, strong for the scheduler's
  claim, which inline executions keep disabling. Failed lookups, writes and
  sends, deaths, turns of the gate and reopened rows are finite.
- `Standards`: weak for the sync, which is a periodic task.
- `Operations`: weak for the handler or sync that runs; strong for the begin of
  a sync, the scan and the claim. The one scheduler thread claims urgent classes
  first (notifications, verifications, reconciliation and the standards sync,
  `repositories/automation_tasks.py:1206`) and by due time within a class. The
  urgent ones come once, with a period or after a backoff, so the queue of a
  device runs out of those that are due and the others get their turn.
- `DeviceStatus`: a device that is observed keeps reporting and every report
  makes a request, hence strong fairness of `Request`; strong for each claim for
  the reason above; weak for the steps of what runs.

That urgent classes do not starve the others is an assumption here, not a
result: no run has so many of them that some are always due.

No fairness is assumed of people, crashes or other requests.

## 5. Proofs

TLAPS checks them for all values of the constants that satisfy the named
assumptions (`ConstantsAssumption`, `LifecycleAssumption`, `LimitAssumption`,
`SchedulerAssumption`, `RetriesAssumption`, `BoundsAssumption`,
`BeatBoundsAssumption`, `OperationsAssumption`, `DeviceStatusAssumption`,
`NotificationAssumption` and those of `EventBinding` and `StandardSelection`), so in particular for any number of tasks, workers,
events, HTTP threads, samples, devices, registrations, standards, notices and
faults.

`TaskQueueProofs`
- `TypeCorrect`. `TypeOK` alone is not inductive: a handler refers to a row, so
  `TypeInv` adds that what a busy worker holds exists (`BusyHolds`) and that
  nothing runs before the process has started (`Booted`).
- `IdentitySafe`, `KeysSafe`. `WorkInv` adds `KeyOfType` and
  `ProjectionKeyKept`: a live status projection still carries the key of its
  work. Without it, one could be adopted away from its own identity. All
  actions but creation only let rows end (`KeepsWork`), and one lemma covers
  them; insertion, adoption and the reconciliation's adoption have one each.
- `EpochSafe`. `EpochInv`: after the quarantine of the start, every live
  external effect is of the current mode and epoch, and workers run only then.
- `SuccessSafe`: only the recording of an outcome makes a row SUCCEEDED, and its
  fence says that the worker still owns the row; no other worker can own it
  too. `RearmSafe`: every action that moves the due time of a waiting row is
  named (`WhatMovesARow`); of those, adoption takes the earlier time and leaves
  the backoff of a reconciliation alone.

`AlarmLifecycleProofs`
- `TypeCorrect`, then `EventSafe`: an event is open exactly while the device is
  in alarm.
- `TimersSafe` from `WindowInv`, which adds that the task
  being handled is RUNNING: the timer's task either waits for the window it was
  armed for or is the one being handled.
- `SilenceSafe`: only a violation raises an alarm (`RaisedByViolation`), and a
  verification finds a violation only in a fresh, available sample.
- `PromiseKept`: `Spec => Promise!Spec`. The elapsed windows of the state and
  the history clocks differ (a window restarts where the clock does not); the
  invariant relates them, and each transition maps to `Observe`, each tick to
  `Pass`, everything else stutters.

`EventBindingProofs`
- `BindingSafe` proves `BindingInv`, from which `TypeCorrect` and `RowsSafe`
  follow. One row per cycle is not inductive: whether a POST may leave was
  decided several transactions and calls ago. `RowsKnown` says what the database
  has recorded of the table and of the POSTs under way: a row, or a POST that
  may still arrive, has a CREATE state from which nothing is posted again.
  `HandlerKnows` says what the running handler may still rely on at each of its
  labels: its cycle is unbound until it binds, and before its POST and after a
  refused one no row of the cycle exists or can arrive (`Unmade`).
  `OpenedInOrder` gives the newest cycle its meaning: nothing later has opened,
  so a row is only ever taken over by a later cycle.
- `NoOlderRecoverySafe`: only a PUT of a cycle that is bound to the row and not
  superseded writes a recovery (`RecoveryWriters`), and of two cycles bound to
  one row the older is superseded.
- `BindingPromiseKept`: `Spec => KeepsBindingPromise`. Each step either stores
  the one row of a cycle (`Make`), hands a row to a later cycle (`Own`), or
  leaves both as they are. The owner of a row is the one cycle bound to it that
  is not superseded, and there is at most one (`SharedRowHasOneOwner`). That the
  newest candidate the writer looks for exists rests on the least element of a
  set of naturals (`HasMin`).

`NotificationProofs`
- `NoticeSafe` proves `NoticeInv`, from which `TypeCorrect`, `NoticesSafe` and
  `WithdrawnSafe` follow. That repeats are doubts is not inductive: the marker
  is written a step after the message was accepted. `SentInv` says that the one
  acceptance that is no doubt is known by the marker or still has to be
  recorded by the delivery in progress (`Arriving`); `JobInv` that what is sent
  or recorded carries the marker ATTEMPTED, so nothing delivered is sent again;
  `WithdrawnInv` adds that a withdrawn episode is one of the past, so a fresh
  identity differs from it, and an interrupted one is either shown again under
  its own identity or forgotten, not withdrawn; `StateInv` that an alarm has an event and a shown
  warning an identity.
- `AdviceSafe`: only `Send` delivers (`OnlySendSends`), and the part of `JobInv`
  about warnings says that since the suppression was checked no alarm has been
  raised, because samples wait for the delivery, nor has a row appeared or opened
  other than by people reopening it, because writes and reconciliations wait as
  well. What people reopened is what `surfaced` holds.

`IngestionProofs`, on `Projection`
- `ProjectionSafe` proves `ProjectionInv`, from which `TypeCorrect` and
  `HearingSafe` follow. What the runtime hears is not inductive by itself: a
  delivery was chosen from a row that HTTP threads went on writing. `Stamps` says
  that every watermark is a sample that was shown and that a report's stamp is
  its own until it is stored; `Threads` that what a thread carries was handed
  out and, before it calls it projected, shown. `Hearing` says that what is
  offered lies above the dispatched watermark, not above the projected one and
  not below what was heard last, so the order of time survives whatever is
  projected meanwhile; what is about to be marked is what was heard last, unless
  it was never stored. `Repeats` counts: a repetition is paid for by a crash or
  a failure, and one is owed (`Owed`) while a delivery is not yet marked. Actions
  that deliver nothing share one lemma (`QuietStep`); `Deliver`, `Mark`, `Store`
  and `Crash` have their own.
- `ScheduledSafe` proves `ScheduledInv`, what holds while only the scheduler
  writes to Feishu: HTTP threads at most write the requeueing verdict
  (`Deferring`), so a verdict the scheduler computed before its write still
  tells how many attempts failed (`OnCourse`), although the row changes in
  between. From it follow the action properties: `RemoteSafe`, because the
  sample about to be put is stored and not older than the one shown, and
  `GivesUpSafe`, because giving up needs a count that attempts paid for.

`IngestionProofs`, on `HeartbeatOutbox`
- `OutboxSafe` proves `OutboxInv`, from which `OutboxTypeCorrect` and
  `NeverLost` follow. It adds to `NothingLost` that ids are unique and given out in order
  (`Numbered`), that whatever follows the last heartbeat heard is still queued
  and nothing older is (`Waiting`), that a tick holds the oldest rows of every
  device it has not blocked (`InOrder`), and that the row to be acknowledged is
  the last one heard (`Taken`). `InOrder` is where the fetch limit matters: the
  rows left out are younger than those fetched (`OldestFirst`).
- `RelayKept`: `OutboxSpec => KeepsRelay`. A delivery maps to `Hear`, a report to
  `Accept`, everything else stutters.

`StandardsProofs`
- `ValidatedIsUnambiguous`: for every set of rows that passes the validation and
  every context, the resolver finds no broken revision chain, and two winners
  differ in how they spell the device. Two rows in effect at one instant overlap
  (`EffectiveOverlap`), and two that tie agree in what the validation compares
  (`TieMeansSameRank`).
- `TypeCorrect`, `ActiveSafe`, `UnambiguousActive`, `GateSafe` from
  `StandardInv`, whose extra part is that an identity has one content
  (`OneContent`): without it a snapshot could change behind its members.

`OperationsProofs`
- `TypeCorrect`, then `Counts` proves `CountInv`, from which `CountSafe` and
  `CurrentSafe` follow. That reminders count is not inductive: the number comes
  from the reminder, the message from the task, and the operation from the
  sync. `FreshInv` says that a registration that was not yet taken for the
  operation was never told of (only a newer one replaces another, so none comes
  back); `ToldInv` that the numbers before the next one were told and those
  after it were not, and that the next one was told only where a doubt or the
  handler accounts for it; `NamedInv` that a reminder without a name is the
  first; `TaskInv` that the task of the current operation is about the next
  number or about the one just told; `JobInv` what the handler may rely on.

`DeviceStatusProofs`
- `TypeCorrect`, then `ShownSafe` and `PutsSafe`: an execution that has passed
  its check is about the desired content until it ends, because requests and
  executions exclude each other.

Every invariant, action property and refinement that a passing run checks is
stated by one of these theorems. Left to TLC: the liveness properties, one or
two per component (fairness and ENABLED are beyond the prover). What a
recursion or a fold computes on every input is a matter of induction over data,
which the installed provers cannot instantiate; such statements stay bounded. No
module to be proved about declares a RECURSIVE operator.

## 6. Findings

`projection_lost` ends in a violation of what the repository says:
`mark_projection_success` reads the row and writes the status in two
transactions (`services/projection.py:255`, `:261`). A sample that arrives in
between is left unprojected with status `ok`.

The following behaviours were met while modelling. The models contain them;
no run states the sentence they disagree with.

1. The marker of a recovery and the clearing of its pending flag are two
   transactions (`integrations/feishu_writers.py:1438`, `:1444`). After a crash
   in between, every later attempt returns before the flag is cleared, and
   reconciliation is armed again without end, although recovery after a restart
   is described as idempotent (`README.md:83`). No liveness property covers the
   flag: `RecoveryLands` ends with the marker.
2. Reconciling an older cycle that never reached its POST reuses the newest open
   row (`integrations/feishu_writers.py:864`) and clears the recovery time
   recorded there before the bind is refused; `docs/feishu-mapping.md:451`
   reads an empty recovery time as "not recorded as recovered yet". If the newer cycle's POST lost its
   response, the older cycle binds the newer row (`:856`) until the newer takes
   it over.
3. `fetch_pending_heartbeats` returns the oldest rows of all devices
   (`services/db.py:1127`); one device that stays refused fills the limit and no
   other device is heard, although a delay of one scheduling cycle is promised
   (`README.md:386`). `EveryBeatIsHeard` therefore assumes
   `AcceptedInTheEnd` of every device.
4. A recovery is told when it starts and, under another key, when a
   reconciliation completes it (`application/monitor_service.py:926`, `:1719`),
   where `tools/real_feishu_notification_e2e.py:424` expects exactly one.
5. A warning whose incident lookup fails has no effect marker yet, so the
   failure cannot be recorded and the task ends instead of being retried
   (`integrations/feishu_notifications.py:389`, `:831`). A notice whose row is
   not bound is given up after its attempts and not armed again when the row
   arrives.
6. A device spelled in two cases passes the validation of standards
   (`application/standard_sync.py:127`) and conflicts when it is resolved; the
   monitor catches only the error of no standard
   (`application/monitor_service.py:215`). `AmbiguityIsSpelling` says this is the
   only ambiguity. And one row for a device that is not configured closes the
   readiness gate for all, since the sets must be equal.
7. A registration that was accepted stays the operation after it is withdrawn
   from the table; only a newer one replaces it. A reminder that is queued is
   sent although the gate has closed, because only the scan asks for it.
8. A task of the device status projection that meets a closed gate says that it
   "remains pending", but becomes FAILED after its attempts, until the next
   sample asks anew. A row deleted between the read and the PUT is taken for
   deleted for good until a restart.
9. The route notes a sample whose insert failed (`routes/temperature.py:95`):
   the watermark then names a sample nobody stored, and older projections stay
   pending until the next report.
10. With inline projection, a synchronous failure that read `failed` may write it
   back after a newer report made the device pending again and the scheduler's
   retry is under way; that retry then counts on from the old number, so
   `retry_count` passes `FEISHU_PROJECTION_MAX_RETRIES`
   (`services/projection.py:307`, `:387`) and the newer report is given up after
   fewer attempts. `GivesUpOnlyAfterCap` is therefore stated for deferred
   projection.
11. A warning is checked against open incidents again before it is delivered,
   "an alarm may have appeared since" (`integrations/feishu_notifications.py:404`),
   but the check (`:406`) and the send (`:478`) are separated by the lookup of the
   recipient and the write of the marker. A row that people reopen in between
   does not stop the message. `NoAdviceDuringIncident` says that nothing else
   gets past the check.

## 7. Not modelled

- In `Notification`, a POST that is applied only after a later step, and rows
  people make by hand; `EventBinding` has the late POSTs.
- Two processes on one database. The queue's `create_or_get` and the claim are
  safe against each other through an in-process lock only.
- Late PUTs, and the presence row's order of two concurrent heartbeats: nothing
  in the code tells the two orders apart.
- The order of the execution lock and the SQLite lock (`runtime/shadow_runner.py:341`):
  one is only ever taken inside the other, which is a rule about the program's
  text. A configured `SHADOW_WORKER_ID` (`runtime/bootstrap.py:860`) shared by two
  processes is excluded with the two processes.
- What the code leaves to a person: a cycle whose bind is refused because
  another one holds the row (`repositories/environment_events.py:387`), and a
  recovery that nobody owes because the gate was closed
  (`application/monitor_service.py:1595`). The models contain both states; no
  promise is made about them.
- Shadow comparison and audits: they read and record, and nothing of the alarm
  path reads them back.
- HTTP pages and queries, CSV and table writing, Modbus framing, the Feishu
  client's field conversion, tools and packaging: I/O and formatting without
  state of their own. The client's outcomes (applied, refused, unknown,
  deleted) are inputs of `EventBinding` and `Projection`.
- Nested units of work and their retry (`repositories/sqlite.py`): every module
  takes a unit of work to be atomic. Shutdown is a crash at any step.
- Who receives a message, the margins that make a reading near a limit, and the
  wording of anything.
- The components section 2 marks as planned, history snapshots and the Modbus
  worker.
