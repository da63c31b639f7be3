---------------------------- MODULE Notification ----------------------------
(***************************************************************************)
(* The messages one device gives rise to: near-limit warnings and their    *)
(* withdrawal, and the alarm and recovery notices of its events.           *)
(*                                                                         *)
(* A sample decides in one local unit of work what has to be told and arms *)
(* one durable task for it (application/monitor_service.py); then the same *)
(* thread executes the actions inline, and a notice it delivered has its   *)
(* task cancelled.  Whatever is left is executed by the scheduler, which   *)
(* retries with a bounded number of attempts.  Every execution passes the  *)
(* gates of application/action_executor.py and the effect markers of       *)
(* integrations/feishu_notifications.py.                                   *)
(*                                                                         *)
(* The execution lock makes a sample with its inline actions, a delivery   *)
(* and a reconciliation exclude each other; a crash comes between any two  *)
(* of the steps below, and people and the standards gate act at any time.  *)
(* Of the formal alarm state only its moves are kept (AlarmLifecycle has   *)
(* the windows), of the event's row only whether it is in the table, open  *)
(* or closed by people, and whether the event is bound to it (EventBinding *)
(* has the binding).                                                       *)
(***************************************************************************)
EXTENDS Integers, Sequences

CONSTANTS
  Directions,   \* what a warning is about: standard, revision and limits
  Clear,        \* a reading that is near no limit
  MaxAttempts,  \* FEISHU_NOTIFY_MAX_RETRIES
  MaxEvents,    \* bound: alarm cycles
  MaxEpisodes,  \* bound: warning episodes
  MaxTroubles   \* bound: failed lookups, writes and sends, deaths of the
                \* process, changes of the standards gate and rows that are
                \* reopened, together

ASSUME NotificationAssumption ==
  /\ MaxAttempts \in Nat \ {0}
  /\ {MaxEvents, MaxEpisodes, MaxTroubles} \subseteq Nat
  /\ Clear \notin Directions

VARIABLES
  state,    \* alarm_states.state
  cycle,    \* the events opened so far; the last one is the device's event
  row,      \* per event, in the table: NONE, OPEN, or CLOSED by people
  bound,    \* the events that know their row: record_id
  owed,     \* events whose feishu_recovery_pending is set
  warning,  \* alarm_states.prewarning_*: active, episode and direction
  episodes, \* the episode identities drawn so far
  notices,  \* per identity: its task, its effect marker, accepted sends
  todo,     \* the actions the sample's thread has still to execute inline
  job,      \* the delivery in progress
  gate,     \* OPEN; SILENT: the notify switches are off; CLOSED: standards not ready
  troubles, \* how many of them there were
  doubts,   \* history: per identity, acceptances the process cannot know of
  surfaced  \* history: rows reopened since the send in progress was checked

vars == <<state, cycle, row, bound, owed, warning, episodes, notices, todo, job,
          gate, troubles, doubts, surfaced>>

Events == 1..MaxEvents

\* The durable identities: event and cycle, or episode and direction.  The
\* recovery of one event has two: the start of the recovery names it in the
\* sample path, its end in a reconciliation.
Keys ==
  [kind : {"ALARM"}, of : Events, about : {Clear}] \cup
  [kind : {"RECOVERY"}, of : Events, about : {"STARTED", "ENDED"}] \cup
  [kind : {"PREWARNING", "PREWARNING_RECOVERY"}, of : 1..MaxEpisodes, about : Directions]

Key(kind, of, about) == [kind |-> kind, of |-> of, about |-> about]

Formal     == {"ALARM", "RECOVERY"}
Advisories == {"PREWARNING", "PREWARNING_RECOVERY"}

Advisory(k) == k.kind \in Advisories

NoJob   == [key |-> Key("NONE", 0, Clear), by |-> "NONE", step |-> "IDLE", result |-> "NONE"]
NoNotice == [task |-> "NONE", attempt |-> 0, marker |-> "NONE", sent |-> 0]
NoWarning == [active |-> FALSE, episode |-> 0, direction |-> Clear]

Raised == state \in {"ALARM", "RECOVERY"}

Idle == job = NoJob /\ todo = <<>>

\* has_unclosed_event: a local active event, else any row that is not closed.
OpenRows == {e \in Events : row[e] = "OPEN"}
Unclosed == Raised \/ OpenRows # {}

\* The gates of the executor that change while the process runs.  What they
\* refuse is PLANNED or SKIPPED: nothing is written, and it is no success.
Permitted(act) == gate = "OPEN" \/ (gate = "SILENT" /\ act # "NOTIFY")

-----------------------------------------------------------------------------
(* The sample: the formal state, the warning episode and the tasks.        *)

\* Where a verdict may lead; the windows decide whether it does.
Moves(verdict) ==
  CASE verdict = "VIOLATION" ->
         (CASE state = "NORMAL"  -> {"PENDING"}
            [] state = "PENDING" -> {"PENDING", "ALARM"}
            [] OTHER             -> {"ALARM"})
    [] verdict = "NORMAL" ->
         (CASE Raised -> {"RECOVERY"} \cup (IF state = "RECOVERY" THEN {"NORMAL"} ELSE {})
            [] OTHER  -> {"NORMAL"})
    [] OTHER -> {state}

\* What the evaluation of a reading says: only a reading within its limits can
\* be near one of them.
Readings ==
  [verdict : {"NORMAL"}, near : Directions \cup {Clear}] \cup
  [verdict : {"VIOLATION", "UNKNOWN", "NOT_APPLICABLE"}, near : {Clear}]

Opens(next)    == state = "PENDING" /\ next = "ALARM"
Recovered(next) == Raised /\ next = "NORMAL"

\* A move of the formal state builds a state without a warning; only that of
\* a warning which is shown is copied into it, hidden.
Interrupted(next) ==
  IF next = state \/ warning.active THEN [warning EXCEPT !.active = FALSE] ELSE NoWarning

\* Faulty: a warning that is over keeps its identity.
WarningAfterKeepingEpisode(verdict, near, next, blocked) ==
  IF verdict = "VIOLATION" \/ next # "NORMAL"
  THEN Interrupted(next)
  ELSE IF verdict = "NOT_APPLICABLE" /\ warning.active
  THEN [warning EXCEPT !.active = FALSE, !.direction = Clear]
  ELSE IF verdict # "NORMAL"
  THEN warning
  ELSE IF (near # Clear \/ warning.active) /\ blocked
  THEN NoWarning
  ELSE IF near # Clear
  THEN [active |-> TRUE, direction |-> near,
        episode |-> IF warning.episode # 0 THEN warning.episode ELSE episodes + 1]
  ELSE [warning EXCEPT !.active = FALSE]

\* The episode the warning state shows next.  blocked: an incident is not
\* closed, or whether it is could not be found out.
WarningAfter(verdict, near, next, blocked) ==
  IF verdict = "VIOLATION" \/ next # "NORMAL"
  THEN Interrupted(next)
  ELSE IF verdict = "NOT_APPLICABLE" /\ warning.active
  THEN [warning EXCEPT !.active = FALSE, !.direction = Clear]
  ELSE IF verdict # "NORMAL"
  THEN warning
  ELSE IF (near # Clear \/ warning.active) /\ blocked
  THEN NoWarning
  ELSE IF near # Clear
  THEN [active |-> TRUE, direction |-> near,
        episode |-> IF warning.episode # 0 THEN warning.episode ELSE episodes + 1]
  ELSE IF warning.active \/ next # state THEN NoWarning ELSE warning

\* What the sample has to tell about the episode.
Advice(verdict, near, next, blocked) ==
  IF verdict # "NORMAL" \/ next # "NORMAL" \/ blocked THEN <<>>
  ELSE IF near # Clear /\ ~warning.active
       THEN << Key("PREWARNING", WarningAfter(verdict, near, next, blocked).episode, near) >>
  ELSE IF near = Clear /\ warning.active
       THEN << Key("PREWARNING_RECOVERY", warning.episode, warning.direction) >>
  ELSE <<>>

\* create_or_get: an identity that was armed before keeps its task as it is.
Arm(ks) ==
  [k \in Keys |-> IF k \in ks /\ Permitted("NOTIFY") /\ notices[k].task = "NONE"
                  THEN [notices[k] EXCEPT !.task = "PENDING"] ELSE notices[k]]

\* The actions in the order they are executed: an event write is followed by
\* its notice, advice comes last.
Actions(next, advice) ==
  LET notice(k) == [act |-> "NOTIFY", key |-> k]
      about == IF Opens(next) THEN Key("ALARM", cycle + 1, Clear)
               ELSE Key("RECOVERY", cycle, "STARTED")
  IN (IF Opens(next) THEN << [act |-> "CREATE", key |-> about], notice(about) >>
      ELSE IF Recovered(next) THEN << [act |-> "RECOVER", key |-> about], notice(about) >>
      ELSE <<>>) \o [i \in 1..Len(advice) |-> notice(advice[i])]

Told(actions) == {actions[i].key : i \in {j \in 1..Len(actions) : actions[j].act = "NOTIFY"}}

\* unsure: whether an incident is closed could not be looked up.
Sample(reading, next, unsure) ==
  LET blocked == Unclosed \/ unsure
      advice  == Advice(reading.verdict, reading.near, next, blocked)
      shown   == WarningAfter(reading.verdict, reading.near, next, blocked)
  IN
  /\ Idle
  /\ next \in Moves(reading.verdict)
  /\ Opens(next) => cycle < MaxEvents
  /\ shown.episode <= MaxEpisodes
  /\ unsure => /\ ~Raised /\ reading.verdict = "NORMAL" /\ troubles < MaxTroubles
               /\ reading.near # Clear \/ warning.active
  /\ troubles' = IF unsure THEN troubles + 1 ELSE troubles
  /\ warning' = shown
  /\ episodes' = IF shown.episode > episodes THEN shown.episode ELSE episodes
  /\ state' = next
  /\ cycle' = IF Opens(next) THEN cycle + 1 ELSE cycle
  /\ owed' = IF Recovered(next) /\ Permitted("RECOVER") THEN owed \cup {cycle} ELSE owed
  /\ notices' = Arm(Told(Actions(next, advice)))
  /\ todo' = Actions(next, advice)
  /\ UNCHANGED <<row, bound, job, gate, doubts, surfaced>>

-----------------------------------------------------------------------------
(* The event's row: the inline write and the reconciliation.               *)

Posted(e) == [row EXCEPT ![e] = IF @ = "NONE" THEN "OPEN" ELSE @]

\* A POST that is answered, or a lookup that finds the row of an earlier one.
Bind(e) == row' = Posted(e) /\ bound' = bound \cup {e}

\* A POST that fails, or whose answer is lost.
Miss(e) == row' \in {row, Posted(e)} /\ UNCHANGED bound

Write(act, e, ok) ==
  IF act = "CREATE"
  THEN /\ UNCHANGED owed
       /\ IF ok THEN Bind(e)
          ELSE IF Permitted(act) THEN Miss(e)
          ELSE UNCHANGED <<row, bound>>
  ELSE owed' = (IF ok /\ e \in bound THEN owed \ {e} ELSE owed) /\ UNCHANGED <<row, bound>>

\* The row of an event is written inline, when the gate lets it.
WriteInline(ok) ==
  /\ todo # <<>> /\ job = NoJob /\ Head(todo).act # "NOTIFY"
  /\ ok => Permitted(Head(todo).act)
  /\ ~ok /\ Permitted(Head(todo).act) => troubles < MaxTroubles
  /\ Write(Head(todo).act, Head(todo).key.of, ok)
  /\ troubles' = IF ~ok /\ Permitted(Head(todo).act) THEN troubles + 1 ELSE troubles
  /\ todo' = Tail(todo)
  /\ UNCHANGED <<state, cycle, warning, episodes, notices, job, gate, doubts, surfaced>>

\* The notices a reconciliation arms, whether or not its write then succeeds.
\* Its context has the end of the recovery, not the start.
Reconciled(e) ==
  (IF e \notin bound THEN {Key("ALARM", e, Clear)} ELSE {}) \cup
  (IF e \in owed THEN {Key("RECOVERY", e, "ENDED")} ELSE {})

\* _reconcile_alarm_event_task: an unbound event is looked up and created, a
\* recovery that is owed is written after it.
Reconcile(e, ok) ==
  /\ Idle /\ Permitted("CREATE")
  /\ e <= cycle
  /\ e \notin bound \/ e \in owed
  /\ ok \/ troubles < MaxTroubles
  /\ notices' = Arm(Reconciled(e))
  /\ IF ok THEN Bind(e) ELSE Miss(e)
  /\ owed' = IF ok THEN owed \ {e} ELSE owed
  /\ troubles' = IF ok THEN troubles ELSE troubles + 1
  /\ UNCHANGED <<state, cycle, warning, episodes, todo, job, gate, doubts, surfaced>>

-----------------------------------------------------------------------------
(* One execution of one notice.                                            *)

Unfinished(k) == notices[k].task \in {"PENDING", "RUNNING"}

\* claim_due; a RUNNING task is one whose lease a dead process let expire.
Claim(k) ==
  /\ Idle /\ Unfinished(k)
  /\ notices' = [notices EXCEPT ![k].task = "RUNNING"]
  /\ job' = [key |-> k, by |-> "TASK", step |-> "CHECK", result |-> "NONE"]
  /\ UNCHANGED <<state, cycle, row, bound, owed, warning, episodes, todo, gate, troubles,
                 doubts, surfaced>>

\* What is being executed: a claimed task, or the next notice of the sample.
Current ==
  IF job = NoJob /\ todo # <<>> /\ Head(todo).act = "NOTIFY"
  THEN [key |-> Head(todo).key, by |-> "INLINE", step |-> "CHECK", result |-> "NONE"]
  ELSE job

Conclude(result) == job' = [Current EXCEPT !.step = "SETTLE", !.result = result]

\* PENDING, FAILED and UNKNOWN mean the same to the next attempt: ATTEMPTED.
\* The marker of a notice is kept in its event; a delivered one is final.
Mark(k, m) ==
  notices' = [notices EXCEPT ![k].marker = IF @ = "SUCCEEDED" THEN @ ELSE m]

\* That of a warning has a row of its own, and is overwritten.
MarkAdvice(k, m) == notices' = [notices EXCEPT ![k].marker = m]

\* Faulty: the check at delivery time looks at the local events only.
SuppressedLocally(k) == Advisory(k) /\ Raised

\* A warning is not delivered while an incident is not closed.
Suppressed(k) == Advisory(k) /\ Unclosed

AlreadySent(k) == notices[k].marker = "SUCCEEDED"

\* The event has no row yet: the CREATE did not land.
Unbound(k) == ~Advisory(k) /\ k.of \notin bound

Checking(kinds) == Current.step = "CHECK" /\ Current.key.kind \in kinds

\* What ends an execution before anything is looked up or sent.
Refused ==
  /\ Checking(Formal \cup Advisories) /\ ~Permitted("NOTIFY")
  /\ Conclude("FAIL")
  /\ UNCHANGED <<state, cycle, row, bound, owed, warning, episodes, notices, todo, gate,
                 troubles, doubts, surfaced>>

DismissNotice ==
  /\ Checking(Formal) /\ Permitted("NOTIFY")
  /\ \/ Unbound(Current.key) /\ Conclude("RETRY")
     \/ ~Unbound(Current.key) /\ AlreadySent(Current.key) /\ Conclude("OK")
  /\ UNCHANGED <<state, cycle, row, bound, owed, warning, episodes, notices, todo, gate,
                 troubles, doubts, surfaced>>

DismissAdvice ==
  /\ Checking(Advisories) /\ Permitted("NOTIFY")
  /\ Suppressed(Current.key) \/ AlreadySent(Current.key)
  /\ Conclude("OK")
  /\ UNCHANGED <<state, cycle, row, bound, owed, warning, episodes, notices, todo, gate,
                 troubles, doubts, surfaced>>

\* Whether an incident is closed could not be found out: has_unclosed_event
\* raises, and the context says nothing of a retry.
ClosureUnknown ==
  /\ Checking(Advisories) /\ Permitted("NOTIFY") /\ troubles < MaxTroubles
  /\ ~Raised
  /\ Conclude("FAIL")
  /\ troubles' = troubles + 1
  /\ UNCHANGED <<state, cycle, row, bound, owed, warning, episodes, notices, todo, gate,
                 doubts, surfaced>>

MayGo(k) == Permitted("NOTIFY") /\ ~Suppressed(k) /\ ~Unbound(k) /\ ~AlreadySent(k)

\* No recipient: the lookup failed, which is retried, or there is nobody.
NoRecipient == {"RETRY", "FAIL"}

NoticeRecipientFails(why) ==
  /\ Checking(Formal) /\ MayGo(Current.key) /\ troubles < MaxTroubles
  /\ Mark(Current.key, "ATTEMPTED")
  /\ Conclude(why)
  /\ troubles' = troubles + 1
  /\ UNCHANGED <<state, cycle, row, bound, owed, warning, episodes, todo, gate, doubts, surfaced>>

\* A warning has a marker only after its first send was prepared, and marking
\* a missing one as failed raises an error that is not retried.
AdviceRecipientFails(why) ==
  /\ Checking(Advisories) /\ MayGo(Current.key) /\ troubles < MaxTroubles
  /\ IF notices[Current.key].marker = "NONE"
     THEN Conclude("FAIL") /\ UNCHANGED notices
     ELSE Conclude(why) /\ MarkAdvice(Current.key, "ATTEMPTED")
  /\ troubles' = troubles + 1
  /\ UNCHANGED <<state, cycle, row, bound, owed, warning, episodes, todo, gate, doubts, surfaced>>

PrepareNotice ==
  /\ Checking(Formal) /\ MayGo(Current.key)
  /\ Mark(Current.key, "ATTEMPTED")
  /\ job' = [Current EXCEPT !.step = "SEND"]
  /\ UNCHANGED <<state, cycle, row, bound, owed, warning, episodes, todo, gate, troubles,
                 doubts, surfaced>>

PrepareAdvice ==
  /\ Checking(Advisories) /\ MayGo(Current.key)
  /\ MarkAdvice(Current.key, "ATTEMPTED")
  /\ job' = [Current EXCEPT !.step = "SEND"]
  /\ UNCHANGED <<state, cycle, row, bound, owed, warning, episodes, todo, gate, troubles,
                 doubts, surfaced>>

\* FeishuIMClient.send_text: accepted; accepted with its answer lost, or without
\* a message id; refused for now, or for good.
Send(accepted, result) ==
  /\ job.step = "SEND"
  /\ accepted \/ result # "OK"
  /\ result # "OK" => troubles < MaxTroubles
  /\ notices' = IF accepted THEN [notices EXCEPT ![job.key].sent = @ + 1] ELSE notices
  /\ job' = [job EXCEPT !.step = "RECORD", !.result = result]
  /\ troubles' = IF result = "OK" THEN troubles ELSE troubles + 1
  /\ doubts' = IF accepted /\ result # "OK" THEN [doubts EXCEPT ![job.key] = @ + 1] ELSE doubts
  /\ surfaced' = {}
  /\ UNCHANGED <<state, cycle, row, bound, owed, warning, episodes, todo, gate>>

\* Faulty: the outcome of a notice is recorded in its task only.
RecordNothing ==
  /\ job.step = "RECORD" /\ ~Advisory(job.key)
  /\ job' = [job EXCEPT !.step = "SETTLE"]
  /\ UNCHANGED <<state, cycle, row, bound, owed, warning, episodes, notices, todo, gate,
                 troubles, doubts, surfaced>>

RecordNotice ==
  /\ job.step = "RECORD" /\ ~Advisory(job.key)
  /\ Mark(job.key, IF job.result = "OK" THEN "SUCCEEDED" ELSE "ATTEMPTED")
  /\ job' = [job EXCEPT !.step = "SETTLE"]
  /\ UNCHANGED <<state, cycle, row, bound, owed, warning, episodes, todo, gate, troubles,
                 doubts, surfaced>>

RecordAdvice ==
  /\ job.step = "RECORD" /\ Advisory(job.key)
  /\ MarkAdvice(job.key, IF job.result = "OK" THEN "SUCCEEDED" ELSE "ATTEMPTED")
  /\ job' = [job EXCEPT !.step = "SETTLE"]
  /\ UNCHANGED <<state, cycle, row, bound, owed, warning, episodes, todo, gate, troubles,
                 doubts, surfaced>>

\* Faulty: a retry does not count the attempt.
SettledUncounted(n) ==
  CASE job.result = "OK"    -> [n EXCEPT !.task = "SUCCEEDED"]
    [] job.result = "RETRY" -> [n EXCEPT !.task = "PENDING"]
    [] OTHER                -> [n EXCEPT !.task = "FAILED"]

\* The task after its execution: execute_notification_task and run_once.
Settled(n) ==
  CASE job.result = "OK" -> [n EXCEPT !.task = "SUCCEEDED"]
    [] job.result = "RETRY" /\ n.attempt + 1 < MaxAttempts ->
         [n EXCEPT !.task = "PENDING", !.attempt = @ + 1]
    [] OTHER -> [n EXCEPT !.task = "FAILED"]

\* _finish_successful_tasks: a notice delivered inline needs its task no more.
Cancelled(n) ==
  IF job.result = "OK" /\ n.task = "PENDING" THEN [n EXCEPT !.task = "CANCELLED"] ELSE n

Settle ==
  /\ job.step = "SETTLE"
  /\ notices' = [notices EXCEPT ![job.key] = IF job.by = "TASK" THEN Settled(@) ELSE Cancelled(@)]
  /\ todo' = IF job.by = "INLINE" THEN Tail(todo) ELSE todo
  /\ job' = NoJob
  /\ UNCHANGED <<state, cycle, row, bound, owed, warning, episodes, gate, troubles, doubts,
                 surfaced>>

-----------------------------------------------------------------------------
(* The environment.                                                        *)

\* The process dies: what was to be executed inline is gone.
Crash ==
  /\ ~Idle /\ troubles < MaxTroubles
  /\ troubles' = troubles + 1
  /\ doubts' = IF job.step = "RECORD" /\ job.result = "OK"
               THEN [doubts EXCEPT ![job.key] = @ + 1] ELSE doubts
  /\ job' = NoJob
  /\ todo' = <<>>
  /\ surfaced' = {}
  /\ UNCHANGED <<state, cycle, row, bound, owed, warning, episodes, notices, gate>>

\* People close the incident in its row.
CloseRow(e) ==
  /\ row[e] = "OPEN"
  /\ row' = [row EXCEPT ![e] = "CLOSED"]
  /\ UNCHANGED <<state, cycle, bound, owed, warning, episodes, notices, todo, job, gate,
                 troubles, doubts, surfaced>>

\* People reopen it, even between the check of a send and the send.
ReopenRow(e) ==
  /\ row[e] = "CLOSED" /\ troubles < MaxTroubles
  /\ row' = [row EXCEPT ![e] = "OPEN"]
  /\ surfaced' = IF job.step = "SEND" THEN surfaced \cup {e} ELSE surfaced
  /\ troubles' = troubles + 1
  /\ UNCHANGED <<state, cycle, bound, owed, warning, episodes, notices, todo, job, gate, doubts>>

\* A standards sync closes or opens the gate, the console turns the switches.
Turn(g) ==
  /\ troubles < MaxTroubles
  /\ troubles' = troubles + 1
  /\ gate' = g
  /\ UNCHANGED <<state, cycle, row, bound, owed, warning, episodes, notices, todo, job, doubts,
                 surfaced>>

Init ==
  /\ state = "NORMAL" /\ cycle = 0
  /\ row = [e \in Events |-> "NONE"] /\ bound = {} /\ owed = {}
  /\ warning = NoWarning /\ episodes = 0
  /\ notices = [k \in Keys |-> NoNotice]
  /\ todo = <<>> /\ job = NoJob /\ gate = "OPEN"
  /\ troubles = 0
  /\ doubts = [k \in Keys |-> 0] /\ surfaced = {}

Samples ==
  \E reading \in Readings, next \in {"NORMAL", "PENDING", "ALARM", "RECOVERY"}, unsure \in BOOLEAN :
    Sample(reading, next, unsure)

\* The steps of a delivery that has begun.
Deliver ==
  \/ Refused \/ DismissNotice \/ DismissAdvice \/ ClosureUnknown
  \/ \E why \in NoRecipient : NoticeRecipientFails(why) \/ AdviceRecipientFails(why)
  \/ PrepareNotice \/ PrepareAdvice
  \/ \E accepted \in BOOLEAN, result \in {"OK", "RETRY", "FAIL"} : Send(accepted, result)
  \/ RecordNotice \/ RecordAdvice \/ Settle

Inline == \E ok \in BOOLEAN : WriteInline(ok)

Worker == \E k \in Keys : Claim(k)

Next ==
  \/ Samples \/ Inline \/ Worker \/ Deliver
  \/ \E e \in Events, ok \in BOOLEAN : Reconcile(e, ok)
  \/ \E e \in Events : CloseRow(e) \/ ReopenRow(e)
  \/ \E g \in {"OPEN", "SILENT", "CLOSED"} \ {gate} : Turn(g)
  \/ Crash

Spec == Init /\ [][Next]_vars

\* A thread that began a delivery or a sample goes on with it, and the
\* scheduler thread claims what is due ahead of any further sample.
Fairness == WF_vars(Deliver \/ Inline) /\ SF_vars(Worker)

FairSpec == Spec /\ Fairness

-----------------------------------------------------------------------------
(* Invariants.                                                             *)

TypeOK ==
  /\ state \in {"NORMAL", "PENDING", "ALARM", "RECOVERY"}
  /\ cycle \in 0..MaxEvents /\ episodes \in 0..MaxEpisodes
  /\ row \in [Events -> {"NONE", "OPEN", "CLOSED"}]
  /\ bound \subseteq Events /\ owed \subseteq 1..cycle
  /\ warning \in [active : BOOLEAN, episode : 0..episodes, direction : Directions \cup {Clear}]
  /\ notices \in [Keys -> [task : {"NONE", "PENDING", "RUNNING", "SUCCEEDED", "FAILED", "CANCELLED"},
                           attempt : 0..(MaxAttempts - 1),
                           marker : {"NONE", "ATTEMPTED", "SUCCEEDED"}, sent : Nat]]
  /\ job = NoJob \/ job.key \in Keys
  /\ doubts \in [Keys -> 0..MaxTroubles] /\ surfaced \subseteq Events

\* A notice reaches its recipient a second time only when the process could not
\* know that it had arrived: an answer lost on the way, or a death before the
\* marker was written.
RepeatsAreDoubts == \A k \in Keys : notices[k].sent <= 1 + doubts[k]

\* The tables agree with each other, and every message is accounted for.
NoticesAreAccountedFor == TypeOK /\ RepeatsAreDoubts

\* A withdrawn warning is over: its identity is never shown again, so a later
\* warning is not taken for one that was delivered already.
WithdrawnIsOver ==
  \A k \in Keys : k.kind = "PREWARNING_RECOVERY" /\ notices[k].task # "NONE"
                   => warning.episode # k.of

-----------------------------------------------------------------------------
(* What no step may do.                                                    *)

Sent(k) == notices'[k].sent > notices[k].sent

\* No warning, however long its task waited, is delivered while the device is
\* in alarm, or while a row is open that was open when the delivery checked.
\* What escapes the check is only a row that people reopen after it, before
\* the send.
NoAdviceDuringIncident ==
  [][\A k \in Keys : Advisory(k) /\ Sent(k) => ~Raised /\ OpenRows \subseteq surfaced]_vars

-----------------------------------------------------------------------------
(* Liveness.                                                               *)

\* Again and again no notice is left waiting: each one that was armed comes to
\* an end, be it delivered, suppressed, cancelled for its inline delivery or
\* given up after its attempts.
NoticesSettle == []<>(\A k \in Keys : ~Unfinished(k))

=============================================================================
