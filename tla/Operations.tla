----------------------------- MODULE Operations -----------------------------
(***************************************************************************)
(* The operation that goes on at one device, read from the registrations   *)
(* in Feishu, and the reminders of an operation that nobody ends:          *)
(* application/operation_sync.py, SQLiteOperationRepository, and           *)
(* handle_operation_sync, _ensure_operation_overdue_tasks and              *)
(* handle_operation_overdue_notification of runtime/shadow_runner.py.      *)
(*                                                                         *)
(* Syncs, scans and reminders run one after another under the execution    *)
(* lock; every application of a registration and every update of the       *)
(* reminder is a transaction of its own, and the process may die after     *)
(* each.  People register, correct and withdraw at any time.  Delays are   *)
(* left out: what waits may be due.                                        *)
(***************************************************************************)
EXTENDS Integers, FiniteSets

CONSTANTS
  Records,    \* the registrations there can be, identified by record id
  Opening,    \* those that start an operation or switch to it; the others end it
  CreatedAt,  \* when Feishu created each
  None,
  MaxNumber,  \* bound: the number of an operation's last reminder
  MaxEdits,   \* bound: what people do in the table
  MaxTroubles \* bound: failures, deaths and changes of the gate, together

ASSUME OperationsAssumption ==
  /\ Opening \subseteq Records
  /\ CreatedAt \in [Records -> Nat]
  /\ None \notin Records
  /\ {MaxNumber, MaxEdits, MaxTroubles} \subseteq Nat

VARIABLES
  rows,     \* the table: per record whether it is valid, names its creator
            \* and has a number or a note; None while there is none
  current,  \* operation_observations_current, and the initiator known
  reminder, \* overdue_notification_status and _sequence
  ripe,     \* the deadline, or since a reminder the interval, has passed
  task,     \* the unfinished NOTIFY_OPERATION_OVERDUE task of the device
  job,      \* what runs under the execution lock
  gate,     \* writing is enabled and the standards are ready
  edits, troubles,
  sent,     \* history: the messages of each reminder
  doubts    \* history: and how many of those the process may not know of

vars == <<rows, current, reminder, ripe, task, job, gate, edits, troubles, sent, doubts>>

Numbers == 0..MaxNumber

Quiet    == [status |-> "NONE", number |-> 0]
NoTask   == [status |-> "NONE", key |-> <<None, 0>>, of |-> <<None, 0>>]
Idle     == [step |-> "IDLE", batch |-> {}]
Nothing  == [id |-> None, initiator |-> FALSE]

Tables ==
  [Records -> [valid : BOOLEAN, initiator : BOOLEAN, remark : BOOLEAN] \cup {None}]

\* list_active_operations
Open(r) == current.id = r /\ r \in Opening

Fault == troubles < MaxTroubles /\ troubles' = troubles + 1

-----------------------------------------------------------------------------
(* The sync.                                                               *)

\* fetch_observations: the valid rows, each rejected or read by itself.
Observations ==
  {[id |-> r, initiator |-> rows[r].initiator, remark |-> rows[r].remark] :
     r \in {x \in Records : rows[x] # None /\ rows[x].valid}}

SyncBegins ==
  /\ job = Idle
  /\ job' = IF Observations = {} THEN Idle ELSE [step |-> "SYNC", batch |-> Observations]
  /\ UNCHANGED <<rows, current, reminder, ripe, task, gate, edits, troubles, sent, doubts>>

\* Faulty: the first registration stays.
NewerIfNone(o) == current = Nothing

\* is_newer_operation
Newer(o) == current = Nothing \/ CreatedAt[o.id] > CreatedAt[current.id]

\* save_current: an operation that starts has not been reminded of, and may
\* have begun long ago; the end of one keeps what was told.
Accept(o) ==
  /\ current' = [id |-> o.id, initiator |-> o.initiator]
  /\ IF o.id \in Opening
     THEN reminder' = Quiet /\ ripe' \in BOOLEAN
     ELSE UNCHANGED <<reminder, ripe>>

\* refresh_initiator: whatever the row tells now lets a skipped reminder be
\* tried again.
Refresh(o) ==
  /\ current' = [current EXCEPT !.initiator = @ \/ o.initiator]
  /\ reminder' = IF Open(o.id) /\ reminder.status = "SKIPPED"
                 THEN [reminder EXCEPT !.status = "NONE"] ELSE reminder
  /\ UNCHANGED ripe

\* OperationObservationService.apply, and record_stale for what is not newer.
Apply(o) ==
  /\ job.step = "SYNC"
  /\ o \in job.batch
  /\ job' = IF job.batch = {o} THEN Idle ELSE [job EXCEPT !.batch = @ \ {o}]
  /\ IF Newer(o) THEN Accept(o)
     ELSE IF o.id = current.id /\ (o.initiator \/ o.remark) THEN Refresh(o)
     ELSE UNCHANGED <<current, reminder, ripe>>
  /\ UNCHANGED <<rows, task, gate, edits, troubles, sent, doubts>>

\* The read or one of the writes fails: what was applied stays.
SyncFails ==
  /\ job.step = "SYNC"
  /\ Fault
  /\ job' = Idle
  /\ UNCHANGED <<rows, current, reminder, ripe, task, gate, edits, sent, doubts>>

-----------------------------------------------------------------------------
(* The scan that arms reminders.                                           *)

\* Faulty: a reminder that was sent is armed again.
NextNumberStuck == reminder.number

NextNumber ==
  CASE reminder.status = "PENDING" -> reminder.number
    [] reminder.status = "SENT"    -> reminder.number + 1
    [] OTHER                       -> 0

\* create_or_get_unfinished, whose identity is the device: a waiting task takes
\* the new key and keeps what it is about; a running one is left alone.
Armed(k) ==
  CASE task.status = "NONE"    -> [status |-> "WAITING", key |-> k, of |-> k]
    [] task.status = "WAITING" -> [task EXCEPT !.key = k]
    [] OTHER                   -> task

\* Faulty: a reminder that is on its way needs no task.
ReadyUnlessPending(r) == ripe /\ reminder.status \in {"NONE", "SENT"}

\* A reminder that is on its way gets its task again if that was lost.
Ready(r) ==
  CASE reminder.status \in {"SKIPPED", "FAILED"} -> FALSE
    [] reminder.status = "PENDING" -> task.key # <<r, NextNumber>>
    [] OTHER -> ripe

Scan(r) ==
  /\ job = Idle /\ gate
  /\ Open(r) /\ Ready(r)
  /\ NextNumber \in Numbers
  /\ task' = Armed(<<r, NextNumber>>)
  /\ task' # task
  /\ UNCHANGED <<rows, current, reminder, ripe, job, gate, edits, troubles, sent, doubts>>

-----------------------------------------------------------------------------
(* handle_operation_overdue_notification.                                  *)

Record == task.of[1]
Number == task.of[2]

At(step) == job.step = step /\ UNCHANGED <<rows, current, gate, edits>>

Go(step) == job' = [Idle EXCEPT !.step = step]

Finish == job' = Idle /\ task' = NoTask

\* update_overdue_notification
Update(status) == reminder' = [status |-> status, number |-> Number]

\* A task that a process died over is claimed again once its lease is over.
Claim ==
  /\ At("IDLE")
  /\ task.status # "NONE"
  /\ task' = [task EXCEPT !.status = "RUNNING"]
  /\ Go("CHECK")
  /\ UNCHANGED <<reminder, ripe, troubles, sent, doubts>>

\* Faulty: the operation that goes on is taken for the task's.
SameOperationOfDevice == current.id \in Opening

\* The operation may have ended or changed since the task was armed.
SameOperation == Open(Record)

Check ==
  /\ At("CHECK")
  /\ \/ /\ ~SameOperation
        /\ Finish
        /\ UNCHANGED reminder
     \/ /\ SameOperation /\ ~current.initiator
        /\ Update("SKIPPED")
        /\ Finish
     \/ /\ SameOperation /\ current.initiator
        /\ Update("PENDING")
        /\ Go("SEND") /\ UNCHANGED task
  /\ UNCHANGED <<ripe, troubles, sent, doubts>>

Delivered == sent' = [sent EXCEPT ![task.of] = @ + 1]
Doubt     == doubts' = [doubts EXCEPT ![task.of] = @ + 1]

Send ==
  /\ At("SEND")
  /\ Delivered
  /\ Go("RECORD")
  /\ UNCHANGED <<reminder, ripe, task, troubles, doubts>>

\* reschedule_running: the same task waits, with a longer delay each time.
Rescheduled == [task EXCEPT !.status = "WAITING"]

\* The send fails, or the answer to one that was accepted is lost or names no
\* message.
SendFails ==
  /\ At("SEND") /\ Fault
  /\ \/ Delivered /\ Doubt
     \/ UNCHANGED <<sent, doubts>>
  /\ job' = Idle /\ task' = Rescheduled
  /\ UNCHANGED <<reminder, ripe>>

Refused ==
  /\ At("SEND") /\ Fault
  /\ Update("FAILED")
  /\ Finish
  /\ UNCHANGED <<ripe, sent, doubts>>

Told ==
  /\ At("RECORD")
  /\ Update("SENT")
  /\ ripe' = FALSE
  /\ Go("DONE")
  /\ UNCHANGED <<task, troubles, sent, doubts>>

Done ==
  /\ At("DONE")
  /\ Finish
  /\ UNCHANGED <<reminder, ripe, troubles, sent, doubts>>

\* A local write fails: the worker marks the task FAILED.
Breaks ==
  /\ job.step \in {"CHECK", "RECORD"} /\ At(job.step) /\ Fault
  /\ IF job.step = "RECORD" THEN Doubt ELSE UNCHANGED doubts
  /\ Finish
  /\ UNCHANGED <<reminder, ripe, sent>>

Crash ==
  /\ job # Idle /\ At(job.step) /\ Fault
  /\ IF job.step \in {"RECORD", "DONE"} THEN Doubt ELSE UNCHANGED doubts
  /\ job' = Idle
  /\ UNCHANGED <<reminder, ripe, task, sent>>

-----------------------------------------------------------------------------
(* The surroundings.                                                       *)

Edit(r, row) ==
  /\ edits < MaxEdits
  /\ edits' = edits + 1
  /\ rows' = [rows EXCEPT ![r] = row]
  /\ UNCHANGED <<current, reminder, ripe, task, job, gate, troubles, sent, doubts>>

Ripen ==
  /\ ~ripe
  /\ ripe' = TRUE
  /\ UNCHANGED <<rows, current, reminder, task, job, gate, edits, troubles, sent, doubts>>

Turn ==
  /\ Fault
  /\ gate' = ~gate
  /\ UNCHANGED <<rows, current, reminder, ripe, task, job, edits, sent, doubts>>

Init ==
  /\ rows = [r \in Records |-> None]
  /\ current = Nothing /\ reminder = Quiet /\ ripe = FALSE
  /\ task = NoTask /\ job = Idle /\ gate = TRUE
  /\ edits = 0 /\ troubles = 0
  /\ sent = [k \in Records \X Numbers |-> 0]
  /\ doubts = [k \in Records \X Numbers |-> 0]

Applies == \E o \in job.batch : Apply(o)
Sync    == SyncBegins \/ Applies
Remind  == Check \/ Send \/ Told \/ Done
Scans   == \E r \in Opening : Scan(r)

Next ==
  \/ Sync \/ SyncFails
  \/ Scans \/ Claim \/ Remind \/ SendFails \/ Refused \/ Breaks
  \/ Crash \/ Ripen \/ Turn
  \/ \E r \in Records, row \in [valid : BOOLEAN, initiator : BOOLEAN, remark : BOOLEAN] :
       rows[r] # row /\ Edit(r, row)

Spec == Init /\ [][Next]_vars

\* Each round of the scheduler scans and claims: what is urgent first, a reminder
\* among it, then in the order of due times.  What is urgent comes with a period
\* or backs off, so neither a sync nor a reminder waits for ever for the other.
Fairness ==
  /\ SF_vars(SyncBegins) /\ WF_vars(Applies)
  /\ SF_vars(Scans) /\ SF_vars(Claim) /\ WF_vars(Remind)

FairSpec == Spec /\ Fairness

-----------------------------------------------------------------------------
(* Invariants.                                                             *)

Keys == (Records \X Numbers) \cup {<<None, 0>>}

TypeOK ==
  /\ rows \in Tables
  /\ current \in [id : Records \cup {None}, initiator : BOOLEAN]
  /\ reminder \in [status : {"NONE", "PENDING", "SENT", "SKIPPED", "FAILED"}, number : Numbers]
  /\ ripe \in BOOLEAN /\ gate \in BOOLEAN
  /\ task \in [status : {"NONE", "WAITING", "RUNNING"}, key : Keys, of : Keys]
  /\ job \in [step : {"IDLE", "SYNC", "CHECK", "SEND", "RECORD", "DONE"},
              batch : SUBSET [id : Records, initiator : BOOLEAN, remark : BOOLEAN]]
  /\ edits \in 0..MaxEdits /\ troubles \in 0..MaxTroubles
  /\ sent \in [Records \X Numbers -> Nat] /\ doubts \in [Records \X Numbers -> Nat]

\* The reminders of an operation count: each number is told once, unless a send
\* or a death left a doubt whether it was, and none is told before the one
\* before it.
RemindersCount ==
  \A r \in Records, n \in Numbers :
    /\ sent[<<r, n>>] <= 1 + doubts[<<r, n>>]
    /\ n > 0 /\ sent[<<r, n>>] > 0 => sent[<<r, n - 1>>] > 0

-----------------------------------------------------------------------------
(* What no step may do.                                                    *)

\* Nobody is reminded of an operation that has ended, was switched or gave its
\* task to another one, as far as the registrations read can tell.
RemindersAreCurrent ==
  [][\A r \in Records, n \in Numbers :
       sent'[<<r, n>>] # sent[<<r, n>>] => Open(r) /\ current.initiator]_vars

-----------------------------------------------------------------------------
(* Liveness.                                                               *)

Followed ==
  \A r \in Records :
    rows[r] # None /\ rows[r].valid
      => current.id # None /\ CreatedAt[r] <= CreatedAt[current.id]

\* Once people leave the table alone, no valid registration stays unread that is
\* newer than what is taken for the operation, whatever failed half-way before.
RegistrationsAreFollowed == <>[][FALSE]_rows => <>[]Followed

Owed(r) ==
  /\ Open(r) /\ gate
  /\ reminder.status = "PENDING" \/ (reminder.status = "NONE" /\ ripe)

\* An operation that is overdue is told of, is found to name nobody, or is
\* refused for good, unless it ends or the gate closes.
OverdueIsSettled == \A r \in Opening : Owed(r) ~> ~Owed(r)

=============================================================================
