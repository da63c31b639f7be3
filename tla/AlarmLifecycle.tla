--------------------------- MODULE AlarmLifecycle ---------------------------
(***************************************************************************)
(* The alarm lifecycle of one device: the state machine                    *)
(* (domain/alarm_state_machine.py), the local unit of work in which the    *)
(* service applies one sample (application/monitor_service.py), the delayed*)
(* verification tasks that drive it when the device is silent and their    *)
(* handler (runtime/shadow_runner.py), and the local event of the cycle    *)
(* (repositories/environment_events.py).  Devices share no lifecycle state.*)
(*                                                                         *)
(* The runtime's execution lock makes a sample and a scheduler tick        *)
(* exclude each other, so a sample arrives only while no task is being     *)
(* handled; a crash may come between any two transactions of a tick.  What *)
(* the evaluator says of a fresh reading is any verdict: the standard and  *)
(* the operation state it consults change at any time.                     *)
(***************************************************************************)
EXTENDS Integers, FiniteSets

CONSTANTS
  TaskIds,        \* rows of automation_tasks; an id is reused once finished
  EventIds,       \* rows of environment_events; likewise
  NoTask,         \* pending_task_id IS NULL
  NoEvent,        \* active_alarm_id IS NULL
  VerifyAfter,    \* AlarmStateMachine.verify_after
  RecoveryAfter,  \* AlarmStateMachine.recovery_after
  StaleAfter,     \* DEVICE_MODEL_STALE_SECONDS
  Delays          \* how old an observation may be when it is delivered

ASSUME LifecycleAssumption ==
  /\ VerifyAfter \in Nat /\ RecoveryAfter \in Nat /\ StaleAfter \in Nat
  /\ NoTask \notin TaskIds /\ NoEvent \notin EventIds
  /\ Delays \subseteq 0..StaleAfter

VARIABLES
  alarm,    \* alarm_states: state, elapsed windows, event and task
  tasks,    \* verification tasks: kind, status and time until due
  events,   \* environment_events: ABSENT, OPEN, CLOSED or MISSING remotely
  latest,   \* latest_monitor_samples: age, and whether it reports offline
  busy,     \* the verification the scheduler is handling
  handled,  \* its handler has returned
  violated, \* history: time since an uninterrupted violation began
  normal    \* history: time since the condition is uninterruptedly normal

vars == <<alarm, tasks, events, latest, busy, handled, violated, normal>>

None     == -1
Verdicts == {"VIOLATION", "NORMAL", "UNKNOWN"}

Raised == alarm.state \in {"ALARM", "RECOVERY"}

\* What the operators are promised, in terms of this module's state.
Promise == INSTANCE AlarmPromise WITH raised <- Raised

-----------------------------------------------------------------------------
(* Rows.  A verification stays RUNNING from its claim until it is finished: *)
(* a lease that ran out and the requeueing at a restart leave it so here.  *)

NormalState == [state |-> "NORMAL", waited |-> 0, confirmed |-> 0,
                event |-> NoEvent, task |-> NoTask]

NoRow    == [kind |-> "NONE", status |-> "DONE", due |-> 0]
Armed(kind, d) == [kind |-> kind, status |-> "PENDING", due |-> d]

Unfinished(i) == tasks[i].status \in {"PENDING", "RUNNING"}
FreeTasks     == {i \in TaskIds : ~Unfinished(i) /\ i # alarm.task /\ i # busy}

Open       == {e \in EventIds : events[e] = "OPEN"}
FreeEvents == {e \in EventIds : events[e] # "OPEN" /\ e # alarm.event}

\* _finish_or_skip_task: the scheduler finishes its own task itself, and a task
\* that is no longer unfinished is left alone.
Finished(i, own) ==
  IF i # NoTask /\ i # own /\ Unfinished(i)
  THEN [tasks EXCEPT ![i].status = "DONE"]
  ELSE tasks

-----------------------------------------------------------------------------
(* The transitions of the state machine, each with what the service        *)
(* projects into the task and event tables in the same unit of work.       *)

OpensWindow(v) ==
  /\ alarm.state = "NORMAL" /\ v = "VIOLATION"
  /\ \E i \in FreeTasks :
       /\ tasks' = [tasks EXCEPT ![i] = Armed("VERIFY_ALARM", VerifyAfter)]
       /\ alarm' = [NormalState EXCEPT !.state = "PENDING", !.task = i]
  /\ UNCHANGED events

ClearsWindow(v, own) ==
  /\ alarm.state = "PENDING" /\ v = "NORMAL"
  /\ tasks' = Finished(alarm.task, own)
  /\ alarm' = NormalState
  /\ UNCHANGED events

\* Faulty: the window is closed one step of the clock early.
RaisesEarly(v, own) ==
  /\ alarm.state = "PENDING" /\ v = "VIOLATION" /\ alarm.waited + 1 >= VerifyAfter
  /\ tasks' = Finished(alarm.task, own)
  /\ \E e \in IF Open = {} THEN FreeEvents ELSE Open :
       /\ events' = [events EXCEPT ![e] = "OPEN"]
       /\ alarm' = [NormalState EXCEPT !.state = "ALARM", !.event = e]

\* CREATE_ALARM_EVENT: create_or_get_active returns the device's active event
\* if it has one.
Raises(v, own) ==
  /\ alarm.state = "PENDING" /\ v = "VIOLATION" /\ alarm.waited >= VerifyAfter
  /\ tasks' = Finished(alarm.task, own)
  /\ \E e \in IF Open = {} THEN FreeEvents ELSE Open :
       /\ events' = [events EXCEPT ![e] = "OPEN"]
       /\ alarm' = [NormalState EXCEPT !.state = "ALARM", !.event = e]

StartsRecovery(v) ==
  /\ alarm.state = "ALARM" /\ v = "NORMAL" /\ RecoveryAfter > 0
  /\ \E i \in FreeTasks :
       /\ tasks' = [tasks EXCEPT ![i] = Armed("VERIFY_RECOVERY", RecoveryAfter)]
       /\ alarm' = [alarm EXCEPT !.state = "RECOVERY", !.confirmed = 0, !.task = i]
  /\ UNCHANGED events

\* Faulty: leaving RECOVERY forgets the task that waits for its end.
RelapsesForgettingTask(v, own) ==
  /\ alarm.state = "RECOVERY" /\ v = "VIOLATION"
  /\ alarm' = [alarm EXCEPT !.state = "ALARM", !.confirmed = 0, !.task = NoTask]
  /\ UNCHANGED <<tasks, events>>

Relapses(v, own) ==
  /\ alarm.state = "RECOVERY" /\ v = "VIOLATION"
  /\ tasks' = Finished(alarm.task, own)
  /\ alarm' = [alarm EXCEPT !.state = "ALARM", !.confirmed = 0, !.task = NoTask]
  /\ UNCHANGED events

\* recovery_after = 0 skips the confirmation window.
RecoveryConfirmed ==
  IF alarm.state = "ALARM" THEN RecoveryAfter = 0
                           ELSE alarm.confirmed >= RecoveryAfter

\* Faulty: the local event is left to the remote projection.
RecoversKeepingEvent(v, own) ==
  /\ Raised /\ v = "NORMAL" /\ RecoveryConfirmed
  /\ tasks' = Finished(alarm.task, own)
  /\ alarm' = NormalState
  /\ UNCHANGED events

\* MARK_ALARM_RECOVERED: the cycle is over, whatever its remote record is.
Recovers(v, own) ==
  /\ Raised /\ v = "NORMAL" /\ RecoveryConfirmed
  /\ tasks' = Finished(alarm.task, own)
  /\ events' = [e \in EventIds |-> IF e = alarm.event /\ e \in Open
                                   THEN "CLOSED" ELSE events[e]]
  /\ alarm' = NormalState

\* Faulty: every violation of the open window starts it anew.
KeepsRestarting(v) ==
  /\ \/ alarm.state = "NORMAL" /\ v # "VIOLATION"
     \/ alarm.state = "PENDING" /\ v # "NORMAL"
     \/ alarm.state = "ALARM" /\ v # "NORMAL"
     \/ alarm.state = "RECOVERY" /\ v # "VIOLATION" /\ alarm.confirmed < RecoveryAfter
  /\ alarm' = IF alarm.state = "PENDING" /\ v = "VIOLATION"
              THEN [alarm EXCEPT !.waited = 0] ELSE alarm
  /\ UNCHANGED <<tasks, events>>

\* Every other verdict leaves the state; in ALARM it only patches the event.
Keeps(v) ==
  /\ CASE alarm.state = "NORMAL"   -> v # "VIOLATION"
       [] alarm.state = "PENDING"  -> v = "UNKNOWN" \/ (v = "VIOLATION" /\ alarm.waited < VerifyAfter)
       [] alarm.state = "ALARM"    -> v # "NORMAL"
       [] alarm.state = "RECOVERY" -> v = "UNKNOWN" \/ (v = "NORMAL" /\ alarm.confirmed < RecoveryAfter)
  /\ UNCHANGED <<alarm, tasks, events>>

Apply(v, own) ==
  /\ \/ OpensWindow(v) \/ ClearsWindow(v, own) \/ Raises(v, own)
     \/ StartsRecovery(v) \/ Relapses(v, own) \/ Recovers(v, own) \/ Keeps(v)
  /\ violated' = Promise!Violated(v)
  /\ normal' = Promise!Normal(v)

-----------------------------------------------------------------------------
(* The sample path.                                                        *)

\* An observation older than the latest one is ignored.
Sample(v, age, offline) ==
  /\ busy = NoTask
  /\ age <= latest.age
  /\ offline => v = "UNKNOWN"
  /\ latest' = [age |-> age, offline |-> offline]
  /\ Apply(v, NoTask)
  /\ UNCHANGED <<busy, handled>>

-----------------------------------------------------------------------------
(* The scheduler tick, as far as verification tasks go.                    *)

\* A due task, or one whose lease a dead process let expire.
Claim(i) ==
  /\ busy = NoTask
  /\ \/ tasks[i].status = "PENDING" /\ tasks[i].due = 0
     \/ tasks[i].status = "RUNNING"
  /\ tasks' = [tasks EXCEPT ![i].status = "RUNNING"]
  /\ busy' = i
  /\ handled' = FALSE
  /\ UNCHANGED <<alarm, events, latest, violated, normal>>

\* Faulty: the age of the reading is not looked at.
FreshByAvailability == ~latest.offline

\* _fresh_sample_or_offline
Fresh == ~latest.offline /\ latest.age <= StaleAfter

\* _handle_verification_task re-evaluates the latest sample; one that is not
\* fresh is replaced by an offline heartbeat of now.
Verify(v) ==
  /\ busy # NoTask /\ ~handled
  /\ IF Fresh THEN UNCHANGED latest
     ELSE v = "UNKNOWN" /\ latest' = [age |-> 0, offline |-> TRUE]
  /\ Apply(v, busy)
  /\ handled' = TRUE
  /\ UNCHANGED busy

\* It raises before the unit of work commits: an operation state or a standard
\* that cannot be read, a database that stays locked.
VerifyFails ==
  /\ busy # NoTask /\ ~handled
  /\ handled' = TRUE
  /\ UNCHANGED <<alarm, tasks, events, latest, busy, violated, normal>>

\* mark_succeeded or mark_failed; neither is retried. A handler that outlived
\* its lease leaves the row RUNNING.
Finish ==
  /\ busy # NoTask /\ handled
  /\ \/ tasks' = [tasks EXCEPT ![busy].status = "DONE"]
     \/ UNCHANGED tasks
  /\ busy' = NoTask
  /\ handled' = FALSE
  /\ UNCHANGED <<alarm, events, latest, violated, normal>>

\* The process dies between two transactions of the tick.
Crash ==
  /\ busy # NoTask
  /\ busy' = NoTask
  /\ handled' = FALSE
  /\ UNCHANGED <<alarm, tasks, events, latest, violated, normal>>

-----------------------------------------------------------------------------
(* The environment.                                                        *)

\* An update finds that the linked remote record was deleted:
\* mark_external_record_missing closes the local event, not the alarm.
RecordDeleted(e) ==
  /\ e \in Open
  /\ events' = [events EXCEPT ![e] = "MISSING"]
  /\ UNCHANGED <<alarm, tasks, latest, busy, handled, violated, normal>>

Later(t, limit) == IF t < limit THEN t + 1 ELSE t

Tick ==
  /\ alarm' = [alarm EXCEPT
                 !.waited = IF alarm.state = "PENDING" THEN Later(@, VerifyAfter) ELSE @,
                 !.confirmed = IF alarm.state = "RECOVERY" THEN Later(@, RecoveryAfter) ELSE @]
  /\ tasks' = [i \in TaskIds |-> [tasks[i] EXCEPT !.due = IF @ > 0 THEN @ - 1 ELSE 0]]
  /\ latest' = [latest EXCEPT !.age = Later(@, StaleAfter + 1)]
  /\ violated' = Promise!Later(violated, VerifyAfter)
  /\ normal' = Promise!Later(normal, RecoveryAfter)
  /\ UNCHANGED <<events, busy, handled>>

Init ==
  /\ alarm = NormalState
  /\ tasks = [i \in TaskIds |-> NoRow]
  /\ events = [e \in EventIds |-> "ABSENT"]
  /\ latest = [age |-> StaleAfter + 1, offline |-> FALSE]
  /\ busy = NoTask
  /\ handled = FALSE
  /\ violated = None
  /\ normal = None

Samples == \E v \in Verdicts, age \in Delays, offline \in BOOLEAN : Sample(v, age, offline)

Scheduler ==
  \/ \E i \in TaskIds : Claim(i)
  \/ \E v \in Verdicts : Verify(v)
  \/ VerifyFails
  \/ Finish

Next ==
  \/ Samples
  \/ Scheduler
  \/ \E e \in EventIds : RecordDeleted(e)
  \/ Crash
  \/ Tick

Spec == Init /\ [][Next]_vars

\* Time passes and the scheduler thread never exits; no sample is promised.
Fairness == WF_vars(Tick) /\ WF_vars(Scheduler)

FairSpec == Spec /\ Fairness

-----------------------------------------------------------------------------
(* Invariants.                                                             *)

TypeOK ==
  /\ alarm \in [state : {"NORMAL", "PENDING", "ALARM", "RECOVERY"},
                waited : 0..VerifyAfter, confirmed : 0..RecoveryAfter,
                event : EventIds \cup {NoEvent}, task : TaskIds \cup {NoTask}]
  /\ tasks \in [TaskIds -> [kind : {"NONE", "VERIFY_ALARM", "VERIFY_RECOVERY"},
                            status : {"PENDING", "RUNNING", "DONE"}, due : Nat]]
  /\ events \in [EventIds -> {"ABSENT", "OPEN", "CLOSED", "MISSING"}]
  /\ latest \in [age : 0..(StaleAfter + 1), offline : BOOLEAN]
  /\ busy \in TaskIds \cup {NoTask}
  /\ handled \in BOOLEAN
  /\ violated \in {None} \cup 0..VerifyAfter
  /\ normal \in {None} \cup 0..RecoveryAfter

\* The device has an open event exactly while it is in alarm, and it is the one
\* the state names; a cycle whose remote record was deleted has none.
EventMatchesState ==
  /\ Raised <=> alarm.event # NoEvent
  /\ Open \subseteq {alarm.event}
  /\ Raised => events[alarm.event] \in {"OPEN", "MISSING"}

\* A window that waits was armed with a task of its own kind, and as long as
\* that task is queued it comes due exactly when the window closes.
WindowIsArmed ==
  /\ alarm.state \in {"PENDING", "RECOVERY"} => alarm.task # NoTask
  /\ alarm.task # NoTask =>
       LET t == tasks[alarm.task] IN
       CASE alarm.state = "PENDING" ->
              /\ t.kind = "VERIFY_ALARM"
              /\ t.status = "PENDING" => t.due = VerifyAfter - alarm.waited
         [] alarm.state = "RECOVERY" ->
              /\ t.kind = "VERIFY_RECOVERY"
              /\ t.status = "PENDING" => t.due = RecoveryAfter - alarm.confirmed
         [] OTHER -> FALSE

\* A verification never survives the window it was armed for: whatever is
\* queued belongs to the window the device is waiting in.
NoOrphanVerification ==
  \A i \in TaskIds : tasks[i].status = "PENDING" => i = alarm.task

\* State and timers stay together through crashes, failed verifications and
\* samples that change the state while a verification of it is being handled:
\* a window that waits has its timer, and a timer has its window.
TimersMatchWindow == WindowIsArmed /\ NoOrphanVerification

-----------------------------------------------------------------------------
(* What no step may do.                                                    *)

\* The lifecycle keeps the promise of AlarmPromise.
KeepsPromise == Promise!Spec

\* A timer alone never raises an alarm from a reading that is no longer fresh.
SilenceNeverAlarms ==
  [][busy # NoTask /\ ~Raised /\ Raised' =>
       ~latest.offline /\ latest.age <= StaleAfter]_vars

-----------------------------------------------------------------------------
(* Liveness.                                                               *)

Observed == \E v \in {"VIOLATION", "NORMAL"}, age \in Delays : Sample(v, age, FALSE)

\* If the device keeps being observed, an alarm window does not stay open,
\* whether its verification ran, failed, or died with the process.
ViolationIsDecided ==
  []<><<Observed>>_vars => (alarm.state = "PENDING" ~> alarm.state # "PENDING")
=============================================================================
