----------------------------- MODULE TaskQueue -----------------------------
(***************************************************************************)
(* The durable task queue: the table automation_tasks, every operation of  *)
(* its repository (repositories/automation_tasks.py), the scheduler loop   *)
(* that drains it (scheduler/worker.py), and the start of the process that *)
(* re-admits what a previous process left behind (runtime/bootstrap.py).   *)
(*                                                                         *)
(* One action is one SQLite transaction, which is what BEGIN IMMEDIATE and *)
(* the process-wide write lock make atomic; everything between two         *)
(* transactions may interleave with another worker, with the sample path   *)
(* that creates and cancels tasks, and with a crash.                       *)
(*                                                                         *)
(* Instants are kept relative to now: due is due_at - now and lease is     *)
(* lease_until - now, so the table is finite without bounding the clock.   *)
(***************************************************************************)
EXTENDS Integers, FiniteSets

CONSTANTS
  TaskIds,      \* row ids (uuid4): an id is reused only after its row is gone
  Workers,      \* scheduler loops, each with its own worker_id
  Modes,        \* runtime modes a process may start in
  Requests,     \* what the application asks for: [type, entity, key, unfinished]
  NoWorker,     \* worker_id IS NULL
  NoTask,       \* a worker that holds no task
  Archived,     \* a dedupe_key renamed to <key>:HISTORY:<id>
  Delays,       \* due_at - now of a new or rescheduled task
  LeaseFor,     \* lease_for of claim_due
  StaleAfter,   \* stale_after of recover_stale_tasks
  AgeAfter,     \* the 60 s after which a comparison stops yielding to others
  NotifyLimit,  \* attempts after which a notification is not retried
  PurgeEnabled, \* AUTOMATION_RUN_RETENTION_DAYS > 0
  MaxOverdue,   \* bound: due saturates at -MaxOverdue
  MaxAttempts,  \* bound: attempt_count saturates here; a remote outage ends
  MaxRestarts,  \* bound: crashes of the process
  MaxLate       \* bound: handlers that outlive their lease

ExternalEffectTypes ==
  {"RECONCILE_ALARM_EVENT", "NOTIFY_ALARM", "NOTIFY_RECOVERY",
   "NOTIFY_PREWARNING", "NOTIFY_PREWARNING_RECOVERY",
   "NOTIFY_OPERATION_OVERDUE", "PROJECT_DEVICE_STATUS"}

NotificationTypes ==
  {"NOTIFY_ALARM", "NOTIFY_RECOVERY", "NOTIFY_PREWARNING",
   "NOTIFY_PREWARNING_RECOVERY", "NOTIFY_OPERATION_OVERDUE"}

UrgentTypes ==
  NotificationTypes \cup {"VERIFY_ALARM", "VERIFY_RECOVERY",
                          "RECONCILE_ALARM_EVENT", "SYNC_STANDARD"}

TaskTypes ==
  ExternalEffectTypes \cup UrgentTypes \cup
  {"SHADOW_COMPARE", "SYNC_OPERATIONS", "FEISHU_PROJECTION"}

\* Handlers of these types put their own task back with reschedule_running.
RetriedTypes == NotificationTypes \cup {"RECONCILE_ALARM_EVENT", "PROJECT_DEVICE_STATUS"}

Entities == {q.entity : q \in Requests}
Keys     == {q.key : q \in Requests}

ASSUME ConstantsAssumption ==
  /\ \A q \in Requests : q.type \in TaskTypes /\ q.unfinished \in BOOLEAN
  /\ \A q, r \in Requests : q.key = r.key => q.type = r.type  \* keys are prefixed
  /\ Modes \subseteq {"disabled", "shadow", "active"}
  /\ NoWorker \notin Workers /\ NoTask \notin TaskIds /\ Archived \notin Keys
  /\ LeaseFor \in Nat \ {0} /\ StaleAfter \in Nat \ {0} /\ AgeAfter \in Nat
  /\ Delays \subseteq Nat /\ MaxOverdue \in Nat
  /\ NotifyLimit \in Nat /\ MaxAttempts \in Nat \ {0}
  /\ MaxRestarts \in Nat /\ MaxLate \in Nat
  /\ PurgeEnabled \in BOOLEAN

VARIABLES
  tasks,     \* the table: id -> row, EmptyRow when there is none
  ctx,       \* automation_runtime_state: mode and epoch (0 is NULL)
  epochs,    \* epochs opened so far: a new one is always fresh
  phase,     \* of the process: down, context, quarantined, up
  pc,        \* of each worker: idle, claiming, handling, succeeded, failed
  held,      \* the task each worker is executing
  restarts,  \* crashes so far
  late       \* leases that ran out under a handler so far

vars == <<tasks, ctx, epochs, phase, pc, held, restarts, late>>

-----------------------------------------------------------------------------
(* Rows.                                                                   *)

EmptyRow == [status |-> "ABSENT"]

Terminal   == {"SUCCEEDED", "FAILED", "CANCELLED"}
Unfinished == {"PENDING", "RUNNING"}

\* What create_or_get and create_or_get_unfinished insert: base is the
\* business cycle the payload names, fresh is created_at >= active_cutover_at.
NewRow(q, d, fresh) ==
  [type |-> q.type, entity |-> q.entity, base |-> q.key, key |-> q.key,
   status |-> "PENDING", due |-> d, lease |-> 0, worker |-> NoWorker,
   attempts |-> 0, mode |-> ctx.mode, epoch |-> ctx.epoch, fresh |-> fresh]

Live(r) == r.status \in Unfinished

FreeIds == {i \in TaskIds : tasks[i] = EmptyRow /\ \A w \in Workers : held[w] # i}

\* Faulty: an unfinished row is looked up by its dedupe_key alone.
SameIdentityByKey(r, q) == r.type = q.type /\ r.key = q.key

\* The rows create_or_get_unfinished looks at before it inserts.
SameIdentity(r, q) ==
  /\ r.type = q.type
  /\ CASE q.type = "RECONCILE_ALARM_EVENT" -> r.base = q.key
       [] q.type = "PROJECT_DEVICE_STATUS" -> r.key = q.key
       [] OTHER                            -> r.entity = q.entity

\* ORDER BY CASE status WHEN 'RUNNING' THEN 0 ELSE 1 END, due_at, id (a uuid).
WinsOver(r, s) ==
  \/ r.status = "RUNNING" /\ s.status = "PENDING"
  \/ r.status = s.status /\ r.due <= s.due

\* Faulty: the key is taken without renaming its old owner's.
KeyNotReleased(i, k) == tasks

\* _release_dedupe_key_from_other_row: id i is to own key k.
KeyReleased(i, k) ==
  [j \in TaskIds |-> IF j # i /\ tasks[j] # EmptyRow /\ tasks[j].key = k
                     THEN [tasks[j] EXCEPT !.key = Archived]
                     ELSE tasks[j]]

\* Back to PENDING: no lease, no worker.
Requeued(r, d) ==
  [r EXCEPT !.status = "PENDING", !.due = d, !.lease = 0, !.worker = NoWorker]

\* A final status: the other columns are audit data no operation reads again.
Closed(r, status) == [status |-> status, key |-> r.key]

-----------------------------------------------------------------------------
(* The runtime boundary.                                                   *)

\* Faulty: a leased row of the process that died is trusted.
QuarantinablePendingOnly(r) ==
  /\ r.status = "PENDING"
  /\ r.type \in ExternalEffectTypes
  /\ ctx.mode # "active" \/ r.mode # "active" \/ r.epoch # ctx.epoch \/ ~r.fresh

\* The rows quarantine_legacy_external_tasks moves to LEGACY_PENDING.
Quarantinable(r) ==
  /\ Live(r)
  /\ r.type \in ExternalEffectTypes
  /\ \/ ctx.mode # "active"
     \/ r.mode # "active"
     \/ r.epoch # ctx.epoch
     \/ ~r.fresh

Quarantine ==
  tasks' = [i \in TaskIds |->
              IF ctx.mode # "unknown" /\ Quarantinable(tasks[i])
              THEN Closed(tasks[i], "LEGACY_PENDING")
              ELSE tasks[i]]

\* set_runtime_context: a restart that stays active keeps the epoch.
SetRuntimeContext(m) ==
  /\ phase = "down"
  /\ phase' = "context"
  /\ IF m # "active"
     THEN ctx' = [mode |-> m, epoch |-> 0] /\ UNCHANGED epochs
     ELSE IF ctx.mode = "active"
     THEN UNCHANGED <<ctx, epochs>>
     ELSE /\ epochs' = epochs + 1
          /\ ctx' = [mode |-> m, epoch |-> epochs + 1]
  /\ UNCHANGED <<tasks, pc, held, restarts, late>>

StartupQuarantine ==
  /\ phase = "context"
  /\ phase' = "quarantined"
  /\ Quarantine
  /\ UNCHANGED <<ctx, epochs, pc, held, restarts, late>>

\* recover_stale_tasks, the last step before the scheduler and the pollers start.
RecoverStaleTasks ==
  /\ phase = "quarantined"
  /\ phase' = "up"
  /\ tasks' = [i \in TaskIds |->
                 LET r == tasks[i] IN
                 IF \/ r.status = "RUNNING" /\ r.lease = 0
                    \/ r.status = "PENDING" /\ r.due <= -StaleAfter
                 THEN Requeued(r, 0)
                 ELSE r]
  /\ UNCHANGED <<ctx, epochs, pc, held, restarts, late>>

\* The process dies between any two transactions; the table survives.
Crash ==
  /\ phase # "down"
  /\ restarts < MaxRestarts
  /\ restarts' = restarts + 1
  /\ phase' = "down"
  /\ pc' = [w \in Workers |-> "idle"]
  /\ held' = [w \in Workers |-> NoTask]
  /\ UNCHANGED <<tasks, ctx, epochs, late>>

-----------------------------------------------------------------------------
(* Creating and cancelling: the sample path, the scheduler's own           *)
(* maintenance phases, and handlers that queue follow-up work.             *)

\* create_or_get: ON CONFLICT(dedupe_key) DO NOTHING, whatever the owner's status.
CreateOrGet(q, d, fresh) ==
  /\ phase = "up"
  /\ ~q.unfinished
  /\ \A i \in TaskIds : tasks[i] # EmptyRow => tasks[i].key # q.key
  /\ \E i \in FreeIds : tasks' = [tasks EXCEPT ![i] = NewRow(q, d, fresh)]
  /\ UNCHANGED <<ctx, epochs, phase, pc, held, restarts, late>>

\* Faulty: a waiting reconciliation is re-armed like any other task.
AdoptAnyType(i, q, d) ==
  [KeyReleased(i, q.key) EXCEPT
     ![i].key = q.key,
     ![i].due = IF tasks[i].status = "PENDING" /\ d < @ THEN d ELSE @]

\* The winner among the unfinished rows of the identity takes the key and the
\* earlier due_at; a reconciliation keeps its backoff, a RUNNING row its slot.
Adopt(i, q, d) ==
  IF q.type = "RECONCILE_ALARM_EVENT"
  THEN tasks
  ELSE [KeyReleased(i, q.key) EXCEPT
          ![i].key = q.key,
          ![i].due = IF tasks[i].status = "PENDING" /\ d < @ THEN d ELSE @]

\* Other PENDING rows of the identity are cancelled.
DuplicatesCancelled(T, dups) ==
  [j \in TaskIds |-> IF j \in dups THEN Closed(T[j], "CANCELLED") ELSE T[j]]

CreateOrGetUnfinished(q, d, fresh) ==
  /\ phase = "up"
  /\ q.unfinished
  /\ LET active == {i \in TaskIds : Live(tasks[i]) /\ SameIdentity(tasks[i], q)}
     IN \/ /\ active = {}
           /\ \E i \in FreeIds :
                tasks' = [KeyReleased(i, q.key) EXCEPT ![i] = NewRow(q, d, fresh)]
        \/ \E i \in active :
             /\ \A j \in active : WinsOver(tasks[i], tasks[j])
             /\ tasks' = DuplicatesCancelled(
                           Adopt(i, q, d),
                           {j \in active \ {i} : tasks[j].status = "PENDING"})
  /\ UNCHANGED <<ctx, epochs, phase, pc, held, restarts, late>>

\* cancel: an inline execution succeeded, or the alarm left the waiting state.
Cancel(i) ==
  /\ phase = "up"
  /\ Live(tasks[i])
  /\ tasks' = [tasks EXCEPT ![i] = Closed(@, "CANCELLED")]
  /\ UNCHANGED <<ctx, epochs, phase, pc, held, restarts, late>>

\* purge_finished_automation_tasks: one batch of rows finished long ago.
Purge(ids) ==
  /\ phase = "up"
  /\ PurgeEnabled
  /\ ids # {} /\ \A i \in ids : tasks[i].status \in Terminal
  /\ tasks' = [i \in TaskIds |-> IF i \in ids THEN EmptyRow ELSE tasks[i]]
  /\ UNCHANGED <<ctx, epochs, phase, pc, held, restarts, late>>

-----------------------------------------------------------------------------
(* The scheduler loop (run_once with limit=1, as every tick calls it).     *)

\* Faulty: nothing takes over a lease that ran out.
ClaimablePendingOnly(r) == r.status = "PENDING" /\ r.due <= 0

Claimable(r) ==
  \/ r.status = "PENDING" /\ r.due <= 0
  \/ r.status = "RUNNING" /\ r.lease = 0

Class(r) ==
  CASE r.type \in UrgentTypes                            -> 0
    [] r.type = "SHADOW_COMPARE" /\ r.due > -AgeAfter -> 2
    [] OTHER                                          -> 1

ClaimsBefore(r, s) ==
  \/ Class(r) < Class(s)
  \/ Class(r) = Class(s) /\ r.due <= s.due

OneMore(n) == IF n < MaxAttempts THEN n + 1 ELSE n

\* claim_due, first transaction.
ClaimQuarantine(w) ==
  /\ phase = "up"
  /\ pc[w] = "idle"
  /\ pc' = [pc EXCEPT ![w] = "claiming"]
  /\ Quarantine
  /\ UNCHANGED <<ctx, epochs, phase, held, restarts, late>>

ClaimedBy(r, w) ==
  [r EXCEPT !.status = "RUNNING", !.lease = LeaseFor, !.worker = w,
            !.attempts = OneMore(@)]

\* claim_due, second transaction.
Claim(w) ==
  LET due == {i \in TaskIds : Claimable(tasks[i])} IN
  /\ pc[w] = "claiming"
  /\ IF due = {}
     THEN /\ pc' = [pc EXCEPT ![w] = "idle"]
          /\ UNCHANGED <<tasks, held>>
     ELSE \E i \in due :
            /\ \A j \in due : ClaimsBefore(tasks[i], tasks[j])
            /\ tasks' = [tasks EXCEPT ![i] = ClaimedBy(@, w)]
            /\ held' = [held EXCEPT ![w] = i]
            /\ pc' = [pc EXCEPT ![w] = "handling"]
  /\ UNCHANGED <<ctx, epochs, phase, restarts, late>>

\* The handler returns, or raises without having touched its task.
HandlerEnds(w, outcome) ==
  /\ pc[w] = "handling"
  /\ pc' = [pc EXCEPT ![w] = outcome]
  /\ UNCHANGED <<tasks, ctx, epochs, phase, held, restarts, late>>

OwnedBy(i, w) == tasks[i].status = "RUNNING" /\ tasks[i].worker = w

\* reschedule_running, then the handler raises; if the row is no longer the
\* worker's own, TaskStateError is what it raises.
HandlerReschedules(w, d) ==
  LET i == held[w] IN
  /\ pc[w] = "handling"
  /\ IF OwnedBy(i, w)
     THEN /\ tasks[i].type \in RetriedTypes
          /\ tasks[i].type \in NotificationTypes => tasks[i].attempts < NotifyLimit
          /\ tasks[i].attempts < MaxAttempts
          /\ tasks' = [tasks EXCEPT ![i] = Requeued(@, d)]
     ELSE UNCHANGED tasks
  /\ pc' = [pc EXCEPT ![w] = "failed"]
  /\ UNCHANGED <<ctx, epochs, phase, held, restarts, late>>

\* Faulty: the lease is checked, whose it is is not.
FinishableByAnyone(i, w) == tasks[i].status = "RUNNING" /\ tasks[i].lease > 0

\* _finish accepts the outcome only of the live lease's own worker.
Finishable(i, w) == OwnedBy(i, w) /\ tasks[i].lease > 0

\* mark_succeeded or mark_failed; a TaskStateError leaves the row as it is. A
\* failed handler that finds its row PENDING leaves it to the retry.
Finish(w) ==
  LET i == held[w] IN
  /\ pc[w] \in {"succeeded", "failed"}
  /\ IF Finishable(i, w)
     THEN tasks' = [tasks EXCEPT ![i] =
            Closed(@, IF pc[w] = "succeeded" THEN "SUCCEEDED" ELSE "FAILED")]
     ELSE UNCHANGED tasks
  /\ pc' = [pc EXCEPT ![w] = "idle"]
  /\ held' = [held EXCEPT ![w] = NoTask]
  /\ UNCHANGED <<ctx, epochs, phase, restarts, late>>

-----------------------------------------------------------------------------
(* Time.                                                                   *)

Aged(r) ==
  IF ~Live(r) THEN r
  ELSE [r EXCEPT !.due   = IF @ > -MaxOverdue THEN @ - 1 ELSE @,
                 !.lease = IF @ > 0 THEN @ - 1 ELSE @]

\* The workers whose lease runs out in the next unit of time.
Overtaken == {w \in Workers : /\ held[w] # NoTask
                              /\ OwnedBy(held[w], w)
                              /\ tasks[held[w]].lease = 1}

Tick ==
  /\ tasks' = [i \in TaskIds |-> Aged(tasks[i])]
  /\ tasks' # tasks
  /\ IF Overtaken = {} THEN UNCHANGED late
     ELSE late < MaxLate /\ late' = late + 1
  /\ UNCHANGED <<ctx, epochs, phase, pc, held, restarts>>

-----------------------------------------------------------------------------
Init ==
  /\ tasks = [i \in TaskIds |-> EmptyRow]
  /\ ctx = [mode |-> "unknown", epoch |-> 0]
  /\ epochs = 0
  /\ phase = "down"
  /\ pc = [w \in Workers |-> "idle"]
  /\ held = [w \in Workers |-> NoTask]
  /\ restarts = 0
  /\ late = 0

Startup == \/ \E m \in Modes : SetRuntimeContext(m)
           \/ StartupQuarantine
           \/ RecoverStaleTasks

Application ==
  \/ \E q \in Requests, d \in Delays, fresh \in BOOLEAN :
       /\ q.type \notin ExternalEffectTypes => fresh
       /\ CreateOrGet(q, d, fresh) \/ CreateOrGetUnfinished(q, d, fresh)
  \/ \E i \in TaskIds : Cancel(i)
  \/ \E ids \in SUBSET TaskIds : Purge(ids)

RunOnce(w) ==
  \/ ClaimQuarantine(w)
  \/ Claim(w)
  \/ \E outcome \in {"succeeded", "failed"} : HandlerEnds(w, outcome)
  \/ \E d \in Delays : HandlerReschedules(w, d)
  \/ Finish(w)

Next ==
  \/ Startup
  \/ Application
  \/ \E w \in Workers : RunOnce(w)
  \/ Tick
  \/ Crash

Spec == Init /\ [][Next]_vars

\* The scheduler loop never exits (run_forever, _run_scheduler contain every
\* error), a supervisor restarts the process, and time passes. Nothing obliges
\* the application to create or cancel, nor the process to crash.
Fairness ==
  /\ \A w \in Workers : WF_vars(RunOnce(w))
  /\ WF_vars(Startup)
  /\ WF_vars(Tick)

FairSpec == Spec /\ Fairness

-----------------------------------------------------------------------------
(* Invariants.                                                             *)

ClosedRow == [status : Terminal \cup {"LEGACY_PENDING"}, key : Keys \cup {Archived}]

LiveRow == [type : TaskTypes, entity : Entities, base : Keys, key : Keys \cup {Archived},
            status : Unfinished, due : Int, lease : Nat, worker : Workers \cup {NoWorker},
            attempts : Nat, mode : Modes, epoch : Nat, fresh : BOOLEAN]

AnyRow == LiveRow \cup ClosedRow \cup {EmptyRow}

\* Every variable has the type the schema gives its column.
TypeOK ==
  /\ tasks \in [TaskIds -> AnyRow]
  /\ ctx \in [mode : Modes \cup {"unknown"}, epoch : Nat]
  /\ epochs \in Nat
  /\ phase \in {"down", "context", "quarantined", "up"}
  /\ pc \in [Workers -> {"idle", "claiming", "handling", "succeeded", "failed"}]
  /\ held \in [Workers -> TaskIds \cup {NoTask}]
  /\ restarts \in Nat
  /\ late \in Nat

\* Renaming the winner's key and archiving the old owner's never trips the
\* UNIQUE constraint on dedupe_key.
KeysUnique ==
  \A i, j \in TaskIds :
    /\ i # j
    /\ tasks[i] # EmptyRow /\ tasks[j] # EmptyRow
    /\ tasks[i].key # Archived
    => tasks[i].key # tasks[j].key

\* The types only create_or_get_unfinished creates. SHADOW_COMPARE is not one:
\* the retry of a failed comparison is inserted with create_or_get.
SingleSlotTypes == {q.type : q \in Requests} \ {q.type : q \in {r \in Requests : ~r.unfinished}}

SameWork(r, s) ==
  /\ r.type = s.type
  /\ IF r.type \in {"RECONCILE_ALARM_EVENT", "PROJECT_DEVICE_STATUS"}
     THEN r.base = s.base
     ELSE r.entity = s.entity

\* At most one unfinished task per business identity: one reconciliation per
\* alarm cycle, one projection per desired state, one of the rest per entity,
\* through retries, expired leases, crashes and key renames.
OneUnfinishedPerIdentity ==
  \A i, j \in TaskIds :
    /\ Live(tasks[i]) /\ Live(tasks[j])
    /\ tasks[i].type \in SingleSlotTypes
    /\ SameWork(tasks[i], tasks[j])
    => i = j

\* No handler ever runs an external-effect task of another mode or epoch: what
\* a shadow process or an earlier activation left behind, RUNNING rows with a
\* lease that outlived their process included, is quarantined before a claim.
\* (A task inserted between the two transactions of claim_due, by a caller that
\* does not share the scheduler's execution lock, has the current ones.)
HandledInOwnEpoch ==
  \A w \in Workers :
    LET r == tasks[held[w]] IN
    /\ pc[w] = "handling"
    /\ OwnedBy(held[w], w)
    /\ r.type \in ExternalEffectTypes
    => r.mode = ctx.mode /\ r.epoch = ctx.epoch

-----------------------------------------------------------------------------
(* What no step may do.                                                    *)

\* A row becomes SUCCEEDED only through the worker whose handler returned, and
\* never under another worker that has meanwhile reclaimed it.
SuccessIsTheClaimants ==
  [][\A i \in TaskIds :
       tasks[i].status # "SUCCEEDED" /\ tasks'[i].status = "SUCCEEDED" =>
         \E w \in Workers :
           /\ held[w] = i /\ pc[w] = "succeeded"
           /\ \A v \in Workers \ {w} : ~(held[v] = i /\ OwnedBy(i, v))]_vars

\* Asking again for work that is already queued never moves it later, however
\* often it is asked for; and the scanner that re-arms an alarm cycle on every
\* tick never shortens the backoff of the cycle's waiting reconciliation.
RearmKeepsTime ==
  [][\A i \in TaskIds :
       tasks[i].status = "PENDING" /\ tasks'[i].status = "PENDING" =>
         /\ RecoverStaleTasks \/ tasks'[i].due <= tasks[i].due
         /\ Tick \/ tasks[i].type # "RECONCILE_ALARM_EVENT" \/ tasks'[i].due >= tasks[i].due]_vars

-----------------------------------------------------------------------------
(* Liveness.                                                               *)

\* No task is stranded: every unfinished task reaches a final status, whatever
\* process or worker died while it was queued or leased.
EveryTaskSettles ==
  \A i \in TaskIds : Live(tasks[i]) ~> ~Live(tasks[i])
=============================================================================
