---------------------------- MODULE DeviceStatus ----------------------------
(***************************************************************************)
(* The row of one device on the Feishu status board, and its asynchronous  *)
(* projection: services/device_status_projection.py with                   *)
(* SQLiteDeviceStatusProjectionRepository and FeishuDeviceStatusWriter.    *)
(*                                                                         *)
(* A request stores what the row should show and queues one task per       *)
(* device and content; the scheduler executes the task: it reads the row,  *)
(* writes what differs and marks the projection.  Requests and executions  *)
(* exclude each other by the execution lock; each of their writes is a     *)
(* transaction of its own, people work on the board meanwhile, and the     *)
(* process may die between any two steps and start with other settings.    *)
(* Back-off times are left out: what waits may be due.  A PUT takes effect *)
(* before its answer is given up, or not at all.                           *)
(***************************************************************************)
EXTENDS Integers

CONSTANTS
  Contents,    \* what a row can be made to show
  Other,       \* a row that people changed
  Gone,        \* there is no row
  None,
  MaxAttempts, \* FEISHU_DEVICE_STATUS_MAX_RETRIES
  MaxMeddles,  \* bound: what people do on the board
  MaxChanges,  \* bound: changes of the device's context
  MaxTroubles  \* bound: failed calls, deaths, turns of the standards gate

ASSUME DeviceStatusAssumption ==
  /\ {Other, Gone, None} \cap Contents = {}
  /\ Other # Gone /\ None \notin {Other, Gone}
  /\ MaxAttempts \in Nat \ {0}
  /\ {MaxMeddles, MaxChanges, MaxTroubles} \subseteq Nat

VARIABLES
  context,  \* what the sample, operation, standard and alarm amount to now
  local,    \* device_status_projection: desired content and status
  tasks,    \* per content: the unfinished task and its attempts
  job,      \* the request or execution in progress
  board,    \* what the row shows, and which row it is
  touched,  \* history: people changed the board since a write last found it as read
  setting,  \* the settings the process was started with
  ready,    \* standards_ready
  meddles, changes, troubles

vars == <<context, local, tasks, job, board, touched, setting, ready, meddles, changes, troubles>>

Idle   == [step |-> "IDLE"]
NoTask == [status |-> "NONE", attempt |-> 0]

\* Whether the runtime is Active, with this device in its scope, and
\* FEISHU_DEVICE_STATUS_PROJECTION_ENABLED.
Settings == [mode : {"ACTIVE", "ELSEWHERE", "SHADOW"}, enabled : BOOLEAN]

Active(s) == s.mode \in {"ACTIVE", "ELSEWHERE"}

Writing == setting = [mode |-> "ACTIVE", enabled |-> TRUE]

Fault == troubles < MaxTroubles /\ troubles' = troubles + 1

World == <<context, setting, ready, meddles, changes>>

-----------------------------------------------------------------------------
(* request.                                                                *)

\* Faulty: another content leaves the status as it is.
StatusKept(c) == IF local.status = "NONE" THEN "PENDING" ELSE local.status

\* save_desired: another content is pending, whatever became of the last one.
StatusFor(c) ==
  IF local.status # "DELETED" /\ local.desired # c THEN "PENDING" ELSE local.status

\* The content and the status are read before they are overwritten.
Begin(force) ==
  /\ local' = [desired |-> context, status |-> StatusFor(context)]
  /\ job' = [step |-> "SAVED", content |-> context, force |-> force,
             same |-> local.desired = context, before |-> local.status]

Request ==
  /\ job = Idle
  /\ Begin(FALSE)
  /\ UNCHANGED <<World, tasks, board, touched, troubles>>

\* Faulty: what is gated or on its way is not asked for again.
SettledIfGated(j) == j.same /\ j.before \in {"SUCCEEDED", "SHADOW_ONLY"}

\* Faulty: what is pending is taken for queued.
SettledIfPending(j) ==
  j.same /\ (j.before \in {"SUCCEEDED", "PENDING"} \/ (j.before = "SHADOW_ONLY" /\ ~Writing))

\* Nothing is left to do for the same content.
SettledBefore(j) ==
  j.same /\ (j.before = "SUCCEEDED" \/ (j.before = "SHADOW_ONLY" /\ ~Writing))

Mark(status) == local' = [local EXCEPT !.status = status]

Decide ==
  /\ job.step = "SAVED"
  /\ CASE job.before = "DELETED" /\ ~job.force ->
            job' = Idle /\ UNCHANGED <<local, tasks>>
       [] setting.mode = "ELSEWHERE" /\ (job.before # "DELETED" \/ job.force) ->
            job' = Idle /\ Mark("SHADOW_ONLY") /\ UNCHANGED tasks
       [] OTHER ->
            /\ UNCHANGED local
            /\ IF ~job.force /\ SettledBefore(job)
               THEN job' = Idle /\ UNCHANGED tasks
               ELSE \* create_or_get_unfinished keeps the task of this content
                    /\ job' = [step |-> "QUEUED"]
                    /\ tasks' = [tasks EXCEPT ![job.content] =
                                   IF @ = NoTask THEN [@ EXCEPT !.status = "WAITING"] ELSE @]
  /\ UNCHANGED <<World, board, touched, troubles>>

MarkQueued ==
  /\ job.step = "QUEUED"
  /\ Mark(IF setting.mode = "ACTIVE" THEN "PENDING" ELSE "SHADOW_ONLY")
  /\ job' = Idle
  /\ UNCHANGED <<World, tasks, board, touched, troubles>>

\* A failed write ends the request; what asked for it goes on.
RequestFails ==
  /\ job.step \in {"SAVED", "QUEUED"} /\ Fault
  /\ job' = Idle
  /\ UNCHANGED <<World, local, tasks, board, touched>>

-----------------------------------------------------------------------------
(* execute_task and handle_task.                                           *)

Execution(step, c) == [step |-> step, content |-> c]

\* quarantine_legacy_external_tasks: a claim of a runtime that is not Active
\* puts the tasks aside instead.
Quarantine ==
  /\ job = Idle /\ ~Active(setting)
  /\ \E c \in Contents : tasks[c] # NoTask
  /\ tasks' = [c \in Contents |-> NoTask]
  /\ UNCHANGED <<World, local, job, board, touched, troubles>>

\* A task that a process died over is claimed again.
Claim(c) ==
  /\ job = Idle /\ Active(setting)
  /\ tasks[c] # NoTask
  /\ tasks' = [tasks EXCEPT ![c].status = "RUNNING"]
  /\ job' = Execution("CHECK", c)
  /\ UNCHANGED <<World, local, board, touched, troubles>>

\* The row of the task once the handler has come to its end.
Settle(task) == job' = [step |-> "SETTLE", content |-> job.content, task |-> task]

\* mark_failure, and reschedule_running until the attempts are used up.
Fail ==
  LET attempt == tasks[job.content].attempt + 1 IN
  IF attempt >= MaxAttempts
  THEN Mark("FAILED") /\ Settle(NoTask)
  ELSE Mark("PENDING") /\ Settle([status |-> "WAITING", attempt |-> attempt])

\* Faulty: a task writes although another content is wanted by now.
NeverSuperseded(c) == FALSE

Superseded(c) == local.desired # c

Calm == job.step = "CHECK" /\ UNCHANGED <<World, tasks, board, troubles>>

\* The content is not wanted any more, or the row was deleted.
Dismiss ==
  /\ Calm
  /\ Superseded(job.content) \/ local.status = "DELETED"
  /\ Settle(NoTask)
  /\ UNCHANGED <<local, touched>>

Wanted == ~Superseded(job.content) /\ local.status # "DELETED"

\* The projection is switched off: the row is read and compared, nothing more.
Compare ==
  /\ Calm /\ Wanted /\ ~setting.enabled
  /\ IF board.shows = Gone THEN Fail ELSE Mark("SHADOW_ONLY") /\ Settle(NoTask)
  /\ UNCHANGED touched

\* The standards are not ready.
Refuse ==
  /\ Calm /\ Wanted /\ Writing /\ ~ready
  /\ Fail
  /\ UNCHANGED touched

OutOfScope ==
  /\ Calm /\ Wanted /\ setting = [mode |-> "ELSEWHERE", enabled |-> TRUE]
  /\ Mark("SHADOW_ONLY")
  /\ Settle(NoTask)
  /\ UNCHANGED touched

\* read_device_record; a row that is not there is an error to be retried.
Read ==
  /\ Calm /\ Wanted /\ Writing /\ ready
  /\ UNCHANGED touched
  /\ IF board.shows = Gone THEN Fail
     ELSE /\ job' = [step |-> "READ", content |-> job.content, seen |-> board]
          /\ UNCHANGED local

\* The fields that differed are written; what people changed since stays.
Patched(shown) ==
  IF board = job.seen THEN {job.content} ELSE {job.content, Other}

Put ==
  /\ job.step = "READ"
  /\ IF job.seen.shows = job.content
     THEN job' = Execution("PUT", job.content) /\ UNCHANGED <<board, local>>
     ELSE IF board.row # job.seen.row \/ board.shows = Gone
     THEN \* 1254043: the row was deleted after it was read
          Mark("DELETED") /\ Settle(NoTask) /\ UNCHANGED board
     ELSE \E shown \in Patched(board) :
            /\ board' = [board EXCEPT !.shows = shown]
            /\ job' = Execution("PUT", job.content)
            /\ UNCHANGED local
  /\ touched' = (touched /\ board # job.seen)
  /\ UNCHANGED <<World, tasks, troubles>>

\* The read or the write fails, or its answer is lost.
CallFails ==
  /\ job.step \in {"CHECK", "READ"} /\ Fault
  /\ job.step = "CHECK" => Wanted /\ (~setting.enabled \/ (Writing /\ ready))
  /\ \/ UNCHANGED board
     \/ /\ job.step = "READ" /\ job.seen.shows # job.content
        /\ board.row = job.seen.row /\ board.shows # Gone
        /\ \E shown \in Patched(board) : board' = [board EXCEPT !.shows = shown]
  /\ Fail
  /\ UNCHANGED <<World, tasks, touched>>

Succeed ==
  /\ job.step = "PUT"
  /\ Mark("SUCCEEDED")
  /\ Settle(NoTask)
  /\ UNCHANGED <<World, tasks, board, touched, troubles>>

Finish ==
  /\ job.step = "SETTLE"
  /\ tasks' = [tasks EXCEPT ![job.content] = job.task]
  /\ job' = Idle
  /\ UNCHANGED <<World, local, board, touched, troubles>>

-----------------------------------------------------------------------------
(* The surroundings.                                                       *)

\* Leaving or entering Active quarantines the tasks of the time before; every
\* start asks for the projection by force.
Restart ==
  /\ Fault
  /\ \E s \in Settings :
       /\ setting' = s
       /\ tasks' = IF Active(s) /\ Active(setting) THEN tasks ELSE [c \in Contents |-> NoTask]
  /\ Begin(TRUE)
  /\ UNCHANGED <<context, ready, meddles, changes, board, touched>>

Change ==
  /\ changes < MaxChanges /\ changes' = changes + 1
  /\ \E c \in Contents \ {context} : context' = c
  /\ UNCHANGED <<local, tasks, job, board, touched, setting, ready, meddles, troubles>>

TurnReady ==
  /\ Fault
  /\ ready' = ~ready
  /\ UNCHANGED <<context, local, tasks, job, board, touched, setting, meddles, changes>>

\* People overwrite the row, delete it or make a new one.
Meddle ==
  /\ meddles < MaxMeddles /\ meddles' = meddles + 1
  /\ touched' = TRUE
  /\ board' \in IF board.shows = Gone
                THEN {[shows |-> Other, row |-> board.row + 1]}
                ELSE {[board EXCEPT !.shows = Other], [board EXCEPT !.shows = Gone]}
  /\ UNCHANGED <<context, local, tasks, job, setting, ready, changes, troubles>>

Init ==
  /\ context \in Contents
  /\ local = [desired |-> None, status |-> "NONE"]
  /\ tasks = [c \in Contents |-> NoTask]
  /\ job = Idle
  /\ board = [shows |-> Other, row |-> 0]
  /\ touched = FALSE
  /\ setting \in Settings /\ ready \in BOOLEAN
  /\ meddles = 0 /\ changes = 0 /\ troubles = 0

Asks  == Request \/ Decide \/ MarkQueued
Steps == Dismiss \/ Compare \/ Refuse \/ OutOfScope \/ Read \/ Put \/ Succeed \/ Finish

Next ==
  \/ Asks \/ RequestFails
  \/ Quarantine \/ \E c \in Contents : Claim(c)
  \/ Steps \/ CallFails
  \/ Restart \/ Change \/ TurnReady \/ Meddle

Spec == Init /\ [][Next]_vars

\* A device keeps reporting, and every report asks.  The scheduler claims urgent
\* kinds of tasks first; those come with a period or back off, so that in between
\* the others are claimed, in the order of their due times.
Fairness ==
  /\ SF_vars(Request) /\ WF_vars(Decide \/ MarkQueued)
  /\ \A c \in Contents : SF_vars(Claim(c))
  /\ WF_vars(Steps)

FairSpec == Spec /\ Fairness

-----------------------------------------------------------------------------
(* Invariants.                                                             *)

Statuses == {"NONE", "PENDING", "FAILED", "SUCCEEDED", "SHADOW_ONLY", "DELETED"}
Tasks    == [status : {"NONE", "WAITING", "RUNNING"}, attempt : Nat]
Boards   == [shows : Contents \cup {Other, Gone}, row : Nat]

Jobs ==
  {Idle, [step |-> "QUEUED"]}
    \cup [step : {"SAVED"}, content : Contents, force : BOOLEAN, same : BOOLEAN,
          before : Statuses]
    \cup [step : {"CHECK", "PUT"}, content : Contents]
    \cup [step : {"READ"}, content : Contents, seen : Boards]
    \cup [step : {"SETTLE"}, content : Contents, task : Tasks]

TypeOK ==
  /\ context \in Contents
  /\ local \in [desired : Contents \cup {None}, status : Statuses]
  /\ tasks \in [Contents -> Tasks]
  /\ job \in Jobs
  /\ board \in Boards
  /\ touched \in BOOLEAN
  /\ setting \in Settings /\ ready \in BOOLEAN
  /\ meddles \in Nat /\ changes \in Nat /\ troubles \in Nat

\* The status page says SUCCEEDED only if the row shows what is wanted, unless
\* people worked on the board since the row was read for it.
SucceededIsShown ==
  local.status = "SUCCEEDED" /\ ~touched => board.shows = local.desired

-----------------------------------------------------------------------------
(* What no step may do.                                                    *)

\* No task of an older content overwrites the board: what is written is what is
\* wanted at that moment, by an Active process.
PutsWhatIsDesired ==
  [][board'.shows \in Contents /\ board'.shows # board.shows
       => board'.shows = local.desired /\ Writing]_vars

-----------------------------------------------------------------------------
(* Liveness.                                                               *)

\* A projection does not stay pending for ever, whatever failed half-way.
NothingStaysPending == local.status = "PENDING" ~> local.status # "PENDING"

Serene == Writing /\ ready /\ board.shows # Gone

\* While the process may write, there is a row and nothing changes, the projection
\* comes to succeed for the context, or has found its row deleted.
BoardSettles ==
  <>[]Serene => <>[](\/ local = [desired |-> context, status |-> "SUCCEEDED"]
                     \/ local.status = "DELETED")

=============================================================================
