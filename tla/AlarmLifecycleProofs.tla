------------------------ MODULE AlarmLifecycleProofs ------------------------
(***************************************************************************)
(* Safety of AlarmLifecycle for every verification and recovery window,    *)
(* every staleness bound and any number of task and event rows, and its    *)
(* implementation of AlarmPromise.                                         *)
(***************************************************************************)
EXTENDS AlarmLifecycle, TLAPS

Row == [kind : {"NONE", "VERIFY_ALARM", "VERIFY_RECOVERY"},
        status : {"PENDING", "RUNNING", "DONE"}, due : Nat]

AlarmRow == [state : {"NORMAL", "PENDING", "ALARM", "RECOVERY"},
             waited : 0..VerifyAfter, confirmed : 0..RecoveryAfter,
             event : EventIds \cup {NoEvent}, task : TaskIds \cup {NoTask}]

-----------------------------------------------------------------------------
(* Type correctness.                                                       *)

LEMMA NormalStateType == NormalState \in AlarmRow
  BY LifecycleAssumption DEF NormalState, AlarmRow

\* Replacing three columns of a row by values of their types, whatever those are.
LEMMA UpdateInType ==
  ASSUME NEW S, NEW W, NEW C, NEW E, NEW T, NEW a,
         a \in [state : S, waited : W, confirmed : C, event : E, task : T],
         NEW s \in S, NEW c \in C, NEW i \in T
  PROVE  [a EXCEPT !.state = s, !.confirmed = c, !.task = i]
           \in [state : S, waited : W, confirmed : C, event : E, task : T]
  BY Zenon

LEMMA AlarmRowUpdate ==
  ASSUME alarm \in AlarmRow,
         NEW s \in {"NORMAL", "PENDING", "ALARM", "RECOVERY"},
         NEW i \in TaskIds \cup {NoTask}
  PROVE  [alarm EXCEPT !.state = s, !.confirmed = 0, !.task = i] \in AlarmRow
<1>1. 0 \in 0..RecoveryAfter
  BY LifecycleAssumption
<1> QED
  BY <1>1, UpdateInType, Zenon DEF AlarmRow

LEMMA ArmedType ==
  /\ Armed("VERIFY_ALARM", VerifyAfter) \in Row
  /\ Armed("VERIFY_RECOVERY", RecoveryAfter) \in Row
  BY LifecycleAssumption DEF Armed, Row

LEMMA FinishedType ==
  ASSUME tasks \in [TaskIds -> Row], NEW i, NEW own, i # NoTask => i \in TaskIds
  PROVE  Finished(i, own) \in [TaskIds -> Row]
  BY DEF Finished, Row, Unfinished

LEMMA ClockTypes ==
  ASSUME TypeOK, NEW v \in Verdicts
  PROVE  /\ Promise!Violated(v) \in {None} \cup 0..VerifyAfter
         /\ Promise!Normal(v) \in {None} \cup 0..RecoveryAfter
  BY LifecycleAssumption
  DEF TypeOK, Promise!Violated, Promise!Normal, Promise!None, None

LEMMA ApplyType ==
  ASSUME TypeOK, NEW v \in Verdicts, NEW own \in TaskIds \cup {NoTask}, Apply(v, own)
  PROVE  /\ alarm' \in AlarmRow
         /\ tasks' \in [TaskIds -> Row]
         /\ events' \in [EventIds -> {"ABSENT", "OPEN", "CLOSED", "MISSING"}]
         /\ violated' \in {None} \cup 0..VerifyAfter
         /\ normal' \in {None} \cup 0..RecoveryAfter
<1>1. /\ alarm \in AlarmRow /\ tasks \in [TaskIds -> Row]
      /\ events \in [EventIds -> {"ABSENT", "OPEN", "CLOSED", "MISSING"}]
  BY DEF TypeOK, AlarmRow, Row
<1>2. Finished(alarm.task, own) \in [TaskIds -> Row]
  BY <1>1, FinishedType DEF AlarmRow
<1>3. violated' \in {None} \cup 0..VerifyAfter /\ normal' \in {None} \cup 0..RecoveryAfter
  BY ClockTypes DEF Apply
<1> USE <1>1, <1>3, NormalStateType, LifecycleAssumption
<1>4. CASE OpensWindow(v)
  <2>1. PICK i \in TaskIds :
          /\ tasks' = [tasks EXCEPT ![i] = Armed("VERIFY_ALARM", VerifyAfter)]
          /\ alarm' = [NormalState EXCEPT !.state = "PENDING", !.task = i]
    BY <1>4 DEF OpensWindow, FreeTasks
  <2>2. alarm' \in AlarmRow
    BY <2>1 DEF AlarmRow
  <2> QED
    BY <1>4, <2>1, <2>2, ArmedType DEF OpensWindow
<1>5. CASE ClearsWindow(v, own)
  BY <1>2, <1>5 DEF ClearsWindow
<1>6. CASE Raises(v, own)
  <2>1. PICK e \in EventIds :
          /\ events' = [events EXCEPT ![e] = "OPEN"]
          /\ alarm' = [NormalState EXCEPT !.state = "ALARM", !.event = e]
    BY <1>6 DEF Raises, FreeEvents, Open
  <2>2. alarm' \in AlarmRow
    BY <2>1 DEF AlarmRow
  <2> QED
    BY <1>2, <1>6, <2>1, <2>2 DEF Raises
<1>7. CASE StartsRecovery(v)
  <2>1. PICK i \in TaskIds :
          /\ tasks' = [tasks EXCEPT ![i] = Armed("VERIFY_RECOVERY", RecoveryAfter)]
          /\ alarm' = [alarm EXCEPT !.state = "RECOVERY", !.confirmed = 0, !.task = i]
    BY <1>7 DEF StartsRecovery, FreeTasks
  <2>2. alarm' \in AlarmRow
    BY <2>1, AlarmRowUpdate
  <2> QED
    BY <1>7, <2>1, <2>2, ArmedType DEF StartsRecovery
<1>8. CASE Relapses(v, own)
  <2>1. alarm' \in AlarmRow
    <3>1. alarm' = [alarm EXCEPT !.state = "ALARM", !.confirmed = 0, !.task = NoTask]
      BY <1>8 DEF Relapses
    <3> QED
      BY <3>1, AlarmRowUpdate
  <2> QED
    BY <1>2, <1>8, <2>1 DEF Relapses
<1>9. CASE Recovers(v, own)
  BY <1>2, <1>9 DEF Recovers
<1>10. CASE Keeps(v)
  BY <1>10 DEF Keeps
<1> QED
  BY <1>4, <1>5, <1>6, <1>7, <1>8, <1>9, <1>10 DEF Apply

LEMMA TickType ==
  ASSUME TypeOK, Tick
  PROVE  TypeOK'
<1>1. alarm' \in AlarmRow
  <2> DEFINE w == IF alarm.state = "PENDING" THEN Later(alarm.waited, VerifyAfter)
                                             ELSE alarm.waited
             c == IF alarm.state = "RECOVERY" THEN Later(alarm.confirmed, RecoveryAfter)
                                              ELSE alarm.confirmed
  <2>1. w \in 0..VerifyAfter /\ c \in 0..RecoveryAfter
    BY LifecycleAssumption DEF TypeOK, Later
  <2>2. alarm' = [alarm EXCEPT !.waited = w, !.confirmed = c]
    BY DEF Tick
  <2> HIDE DEF w, c
  <2>3. alarm' = [state |-> alarm.state, waited |-> w, confirmed |-> c,
                  event |-> alarm.event, task |-> alarm.task]
    BY <2>2 DEF TypeOK
  <2> QED
    BY <2>1, <2>3 DEF TypeOK, AlarmRow
<1>2. tasks' \in [TaskIds -> Row]
  BY DEF TypeOK, Tick, Row
<1>3. latest' \in [age : 0..(StaleAfter + 1), offline : BOOLEAN]
  BY LifecycleAssumption DEF TypeOK, Tick, Later
<1>4. violated' \in {None} \cup 0..VerifyAfter /\ normal' \in {None} \cup 0..RecoveryAfter
  BY LifecycleAssumption DEF TypeOK, Tick, Promise!Later, Promise!None, None
<1> QED
  BY <1>1, <1>2, <1>3, <1>4 DEF TypeOK, Tick, AlarmRow, Row

LEMMA TypeInit == Init => TypeOK
<1>1. NoRow \in Row
  BY DEF NoRow, Row
<1>2. [age |-> StaleAfter + 1, offline |-> FALSE] \in [age : 0..(StaleAfter + 1), offline : BOOLEAN]
  BY LifecycleAssumption
<1>3. Init => tasks \in [TaskIds -> Row]
  BY <1>1 DEF Init
<1>4. Init => alarm \in AlarmRow
  BY NormalStateType DEF Init
<1>5. Init => events \in [EventIds -> {"ABSENT", "OPEN", "CLOSED", "MISSING"}]
  BY DEF Init
<1> QED
  BY <1>2, <1>3, <1>4, <1>5, Zenon DEF Init, TypeOK, AlarmRow, Row

LEMMA TypeNext == TypeOK /\ [Next]_vars => TypeOK'
<1> SUFFICES ASSUME TypeOK, [Next]_vars PROVE TypeOK'
  OBVIOUS
<1>1. ASSUME NEW v \in Verdicts, NEW age \in Delays, NEW offline \in BOOLEAN, Sample(v, age, offline)
      PROVE  TypeOK'
  <2>1. latest' \in [age : 0..(StaleAfter + 1), offline : BOOLEAN]
    BY <1>1, LifecycleAssumption DEF Sample
  <2> QED
    BY <1>1, <2>1, ApplyType DEF Sample, TypeOK, AlarmRow, Row
<1>2. ASSUME NEW i \in TaskIds, Claim(i) PROVE TypeOK'
  <2>1. tasks' \in [TaskIds -> Row]
    BY <1>2 DEF Claim, TypeOK, Row
  <2> QED
    BY <1>2, <2>1 DEF Claim, TypeOK, Row
<1>3. ASSUME NEW v \in Verdicts, Verify(v) PROVE TypeOK'
  <2>1. latest' \in [age : 0..(StaleAfter + 1), offline : BOOLEAN]
    <3>1. CASE Fresh
      BY <1>3, <3>1 DEF Verify, TypeOK
    <3>2. CASE ~Fresh
      <4>1. latest' = [age |-> 0, offline |-> TRUE]
        BY <1>3, <3>2 DEF Verify
      <4> QED
        BY <4>1, LifecycleAssumption
    <3> QED
      BY <3>1, <3>2
  <2> QED
    BY <1>3, <2>1, ApplyType DEF Verify, TypeOK, AlarmRow, Row
<1>4. CASE VerifyFails
  BY <1>4 DEF VerifyFails, TypeOK
<1>5. CASE Finish
  <2>1. tasks' \in [TaskIds -> Row]
    BY <1>5 DEF Finish, TypeOK, Row
  <2> QED
    BY <1>5, <2>1 DEF Finish, TypeOK, Row
<1>6. CASE Crash
  BY <1>6 DEF Crash, TypeOK
<1>7. ASSUME NEW e \in EventIds, RecordDeleted(e) PROVE TypeOK'
  BY <1>7 DEF RecordDeleted, TypeOK
<1>8. CASE UNCHANGED vars
  BY <1>8 DEF vars, TypeOK
<1> QED
  BY <1>1, <1>2, <1>3, <1>4, <1>5, <1>6, <1>7, <1>8, TickType DEF Next, Samples, Scheduler

\* Every column keeps its type, for any windows and any number of rows.
THEOREM TypeCorrect == Spec => []TypeOK
  BY TypeInit, TypeNext, PTL DEF Spec

-----------------------------------------------------------------------------
(* The event of the cycle.                                                 *)

LEMMA ApplyKeepsEvent ==
  ASSUME TypeOK, EventMatchesState, NEW v \in Verdicts,
         NEW own \in TaskIds \cup {NoTask}, Apply(v, own)
  PROVE  EventMatchesState'
<1> USE LifecycleAssumption
<1>1. CASE OpensWindow(v)
  BY <1>1 DEF OpensWindow, EventMatchesState, Raised, Open, NormalState
<1>2. CASE ClearsWindow(v, own)
  BY <1>2 DEF ClearsWindow, EventMatchesState, Raised, Open, NormalState
<1>3. CASE Raises(v, own)
  <2>1. Open = {}
    BY <1>3 DEF Raises, EventMatchesState, Raised, Open
  <2>2. PICK e \in FreeEvents :
          /\ events' = [events EXCEPT ![e] = "OPEN"]
          /\ alarm' = [NormalState EXCEPT !.state = "ALARM", !.event = e]
    BY <1>3, <2>1 DEF Raises
  <2>3. e \in EventIds /\ alarm'.state = "ALARM" /\ alarm'.event = e
    BY <2>2 DEF FreeEvents, NormalState
  <2> QED
    BY <2>1, <2>2, <2>3 DEF EventMatchesState, Raised, Open, TypeOK
<1>4. CASE StartsRecovery(v)
  <2>1. alarm'.state = "RECOVERY" /\ alarm'.event = alarm.event /\ events' = events
    BY <1>4 DEF StartsRecovery, TypeOK
  <2> QED
    BY <1>4, <2>1 DEF StartsRecovery, EventMatchesState, Raised, Open
<1>5. CASE Relapses(v, own)
  <2>1. alarm'.state = "ALARM" /\ alarm'.event = alarm.event /\ events' = events
    BY <1>5 DEF Relapses, TypeOK
  <2> QED
    BY <1>5, <2>1 DEF Relapses, EventMatchesState, Raised, Open
<1>6. CASE Recovers(v, own)
  <2>1. Open' = {}
    BY <1>6 DEF Recovers, EventMatchesState, Open
  <2> QED
    BY <1>6, <2>1 DEF Recovers, EventMatchesState, Raised, NormalState
<1>7. CASE Keeps(v)
  BY <1>7 DEF Keeps, EventMatchesState, Raised, Open
<1> QED
  BY <1>1, <1>2, <1>3, <1>4, <1>5, <1>6, <1>7 DEF Apply

LEMMA EventNext == TypeOK /\ EventMatchesState /\ [Next]_vars => EventMatchesState'
<1> SUFFICES ASSUME TypeOK, EventMatchesState, [Next]_vars PROVE EventMatchesState'
  OBVIOUS
<1>1. ASSUME UNCHANGED <<alarm, events>> PROVE EventMatchesState'
  BY <1>1 DEF EventMatchesState, Raised, Open
<1>2. ASSUME NEW v \in Verdicts, NEW age \in Delays, NEW offline \in BOOLEAN, Sample(v, age, offline)
      PROVE  EventMatchesState'
  BY <1>2, ApplyKeepsEvent DEF Sample
<1>3. ASSUME NEW v \in Verdicts, Verify(v) PROVE EventMatchesState'
  BY <1>3, ApplyKeepsEvent DEF Verify, TypeOK
<1>4. ASSUME NEW e \in EventIds, RecordDeleted(e) PROVE EventMatchesState'
  BY <1>4 DEF RecordDeleted, EventMatchesState, Raised, Open, TypeOK
<1>5. CASE Tick
  <2>1. alarm'.state = alarm.state /\ alarm'.event = alarm.event /\ events' = events
    BY <1>5 DEF Tick, TypeOK
  <2> QED
    BY <2>1 DEF EventMatchesState, Raised, Open
<1>6. CASE VerifyFails \/ Finish \/ Crash \/ UNCHANGED vars
  BY <1>1, <1>6 DEF VerifyFails, Finish, Crash, vars
<1>7. ASSUME NEW i \in TaskIds, Claim(i) PROVE EventMatchesState'
  BY <1>1, <1>7 DEF Claim
<1> QED
  BY <1>2, <1>3, <1>4, <1>5, <1>6, <1>7 DEF Next, Samples, Scheduler

\* The device has an open event exactly while it is in alarm, whatever crashes,
\* repeated verifications and remote deletions come between.
THEOREM EventSafe == Spec => []EventMatchesState
<1>1. Init => EventMatchesState
  BY DEF Init, EventMatchesState, Raised, Open, NormalState
<1> QED
  BY <1>1, EventNext, TypeInit, TypeNext, PTL DEF Spec

-----------------------------------------------------------------------------
(* The verification tasks.  While one is handled its row is RUNNING, so a   *)
(* window that closes leaves nothing queued: its task is the handled one,   *)
(* or is finished with it.                                                  *)

BusyIsRunning == busy # NoTask => tasks[busy].status = "RUNNING"

WindowInv == WindowIsArmed /\ NoOrphanVerification /\ BusyIsRunning

\* What finishing the window's task leaves queued.
LEMMA FinishedQueue ==
  ASSUME TypeOK, WindowInv
  PROVE  \A i \in TaskIds : LET t == Finished(alarm.task, busy) IN
           /\ t[i].status # "PENDING"
           /\ i = busy => t[i].status = "RUNNING"
<1> SUFFICES ASSUME NEW i \in TaskIds
             PROVE  LET t == Finished(alarm.task, busy) IN
                      /\ t[i].status # "PENDING"
                      /\ i = busy => t[i].status = "RUNNING"
  OBVIOUS
<1>1. tasks[i].status = "PENDING" => i = alarm.task
  BY DEF WindowInv, NoOrphanVerification
<1>2. i = busy => tasks[i].status = "RUNNING"
  BY LifecycleAssumption DEF WindowInv, BusyIsRunning
<1>3. tasks \in [TaskIds -> Row]
  BY DEF TypeOK, Row
<1>4. CASE alarm.task # NoTask /\ alarm.task # busy /\ Unfinished(alarm.task)
  <2>1. Finished(alarm.task, busy) = [tasks EXCEPT ![alarm.task].status = "DONE"]
    BY <1>4 DEF Finished
  <2>2. alarm.task \in TaskIds
    BY <1>4 DEF TypeOK
  <2> QED
    BY <1>1, <1>2, <1>3, <1>4, <2>1, <2>2 DEF Row
<1>5. CASE ~(alarm.task # NoTask /\ alarm.task # busy /\ Unfinished(alarm.task))
  <2>1. Finished(alarm.task, busy) = tasks
    BY <1>5 DEF Finished
  <2> QED
    BY <1>1, <1>2, <1>5, <2>1, LifecycleAssumption DEF Unfinished
<1> QED
  BY <1>4, <1>5

LEMMA NothingQueued ==
  ASSUME TypeOK, WindowInv, alarm.state \in {"NORMAL", "ALARM"}
  PROVE  alarm.task = NoTask /\ \A i \in TaskIds : tasks[i].status # "PENDING"
<1>1. alarm.task = NoTask
  BY DEF WindowInv, WindowIsArmed
<1> QED
  BY <1>1, LifecycleAssumption DEF WindowInv, NoOrphanVerification

LEMMA ApplyKeepsWindow ==
  ASSUME TypeOK, WindowInv, NEW v \in Verdicts, Apply(v, busy), UNCHANGED busy
  PROVE  WindowInv'
<1> USE LifecycleAssumption
<1>1. tasks \in [TaskIds -> Row]
  BY DEF TypeOK, Row
<1>2. CASE OpensWindow(v)
  <2>1. PICK i \in FreeTasks :
          /\ tasks' = [tasks EXCEPT ![i] = Armed("VERIFY_ALARM", VerifyAfter)]
          /\ alarm' = [NormalState EXCEPT !.state = "PENDING", !.task = i]
    BY <1>2 DEF OpensWindow
  <2>2. /\ i \in TaskIds /\ i # busy /\ i # NoTask
        /\ alarm'.state = "PENDING" /\ alarm'.task = i /\ alarm'.waited = 0
        /\ tasks'[i] = Armed("VERIFY_ALARM", VerifyAfter)
        /\ \A j \in TaskIds \ {i} : tasks'[j] = tasks[j]
    BY <1>1, <2>1 DEF FreeTasks, NormalState
  <2>3. \A j \in TaskIds : tasks[j].status # "PENDING"
    BY <1>2, NothingQueued DEF OpensWindow
  <2>4. WindowIsArmed'
    BY <2>2 DEF WindowIsArmed, Armed
  <2>5. NoOrphanVerification'
    BY <2>2, <2>3 DEF NoOrphanVerification
  <2>6. BusyIsRunning'
    BY <2>2 DEF WindowInv, BusyIsRunning, TypeOK
  <2> QED
    BY <2>4, <2>5, <2>6 DEF WindowInv
<1>3. CASE ClearsWindow(v, busy) \/ Raises(v, busy) \/ Relapses(v, busy) \/ Recovers(v, busy)
  <2>1. alarm'.state \in {"NORMAL", "ALARM"} /\ alarm'.task = NoTask
    <3>1. CASE ClearsWindow(v, busy) \/ Recovers(v, busy)
      BY <3>1 DEF ClearsWindow, Recovers, NormalState
    <3>2. CASE Raises(v, busy)
      BY <3>2 DEF Raises, NormalState
    <3>3. CASE Relapses(v, busy)
      BY <3>3 DEF Relapses, TypeOK
    <3> QED
      BY <1>3, <3>1, <3>2, <3>3
  <2>2. tasks' = Finished(alarm.task, busy)
    BY <1>3 DEF ClearsWindow, Raises, Relapses, Recovers
  <2>3. \A i \in TaskIds : /\ tasks'[i].status # "PENDING"
                           /\ i = busy => tasks'[i].status = "RUNNING"
    BY <2>2, FinishedQueue
  <2>4. WindowIsArmed'
    BY <2>1 DEF WindowIsArmed
  <2>5. NoOrphanVerification'
    BY <2>3 DEF NoOrphanVerification
  <2>6. BusyIsRunning'
    BY <2>3 DEF BusyIsRunning, TypeOK
  <2> QED
    BY <2>4, <2>5, <2>6 DEF WindowInv
<1>4. CASE StartsRecovery(v)
  <2>1. PICK i \in FreeTasks :
          /\ tasks' = [tasks EXCEPT ![i] = Armed("VERIFY_RECOVERY", RecoveryAfter)]
          /\ alarm' = [alarm EXCEPT !.state = "RECOVERY", !.confirmed = 0, !.task = i]
    BY <1>4 DEF StartsRecovery
  <2>2. /\ i \in TaskIds /\ i # busy /\ i # NoTask
        /\ tasks'[i] = Armed("VERIFY_RECOVERY", RecoveryAfter)
        /\ \A j \in TaskIds \ {i} : tasks'[j] = tasks[j]
    BY <1>1, <2>1 DEF FreeTasks
  <2>3. alarm'.state = "RECOVERY" /\ alarm'.task = i /\ alarm'.confirmed = 0
    BY <2>1 DEF TypeOK
  <2>4. \A j \in TaskIds : tasks[j].status # "PENDING"
    BY <1>4, NothingQueued DEF StartsRecovery
  <2>5. WindowIsArmed'
    BY <2>2, <2>3 DEF WindowIsArmed, Armed
  <2>6. NoOrphanVerification'
    BY <2>2, <2>3, <2>4 DEF NoOrphanVerification
  <2>7. BusyIsRunning'
    BY <2>2 DEF WindowInv, BusyIsRunning, TypeOK
  <2> QED
    BY <2>5, <2>6, <2>7 DEF WindowInv
<1>5. CASE Keeps(v)
  BY <1>5 DEF Keeps, WindowInv, WindowIsArmed, NoOrphanVerification, BusyIsRunning
<1> QED
  BY <1>2, <1>3, <1>4, <1>5 DEF Apply

LEMMA TickKeepsWindow ==
  ASSUME TypeOK, WindowInv, Tick
  PROVE  WindowInv'
<1> USE LifecycleAssumption
<1>1. \A i \in TaskIds : /\ tasks'[i].status = tasks[i].status
                         /\ tasks'[i].kind = tasks[i].kind
                         /\ tasks'[i].due = IF tasks[i].due > 0 THEN tasks[i].due - 1 ELSE 0
  BY DEF Tick, TypeOK
<1>2. /\ alarm'.state = alarm.state /\ alarm'.task = alarm.task /\ busy' = busy
      /\ alarm.state = "PENDING" => alarm'.waited = Later(alarm.waited, VerifyAfter)
      /\ alarm.state = "RECOVERY" => alarm'.confirmed = Later(alarm.confirmed, RecoveryAfter)
  BY DEF Tick, TypeOK
<1>3. /\ alarm.waited \in 0..VerifyAfter /\ alarm.confirmed \in 0..RecoveryAfter
      /\ alarm.task \in TaskIds \cup {NoTask} /\ busy \in TaskIds \cup {NoTask}
  BY DEF TypeOK
<1>4. WindowIsArmed'
  BY <1>1, <1>2, <1>3 DEF WindowInv, WindowIsArmed, Later
<1>5. NoOrphanVerification'
  BY <1>1, <1>2 DEF WindowInv, NoOrphanVerification
<1>6. BusyIsRunning'
  BY <1>1, <1>2, <1>3 DEF WindowInv, BusyIsRunning
<1> QED
  BY <1>4, <1>5, <1>6 DEF WindowInv

LEMMA WindowNext == TypeOK /\ WindowInv /\ [Next]_vars => WindowInv'
<1> SUFFICES ASSUME TypeOK, WindowInv, [Next]_vars PROVE WindowInv'
  OBVIOUS
<1> USE LifecycleAssumption
<1>1. tasks \in [TaskIds -> Row] /\ busy \in TaskIds \cup {NoTask}
  BY DEF TypeOK, Row
<1>2. ASSUME NEW v \in Verdicts, NEW age \in Delays, NEW offline \in BOOLEAN, Sample(v, age, offline)
      PROVE  WindowInv'
  BY <1>2, ApplyKeepsWindow DEF Sample
<1>3. ASSUME NEW v \in Verdicts, Verify(v) PROVE WindowInv'
  BY <1>3, ApplyKeepsWindow DEF Verify
<1>4. ASSUME NEW i \in TaskIds, Claim(i) PROVE WindowInv'
  <2>1. /\ tasks'[i].status = "RUNNING" /\ tasks'[i].kind = tasks[i].kind
        /\ \A j \in TaskIds \ {i} : tasks'[j] = tasks[j]
        /\ alarm' = alarm /\ busy' = i
    BY <1>1, <1>4 DEF Claim, Row
  <2>2. alarm.task \in TaskIds \cup {NoTask}
    BY DEF TypeOK
  <2> QED
    BY <2>1, <2>2 DEF WindowInv, WindowIsArmed, NoOrphanVerification, BusyIsRunning
<1>5. CASE Finish
  <2>1. busy \in TaskIds /\ alarm' = alarm /\ busy' = NoTask
    BY <1>1, <1>5 DEF Finish
  <2>2. CASE tasks' = tasks
    BY <2>1, <2>2 DEF WindowInv, WindowIsArmed, NoOrphanVerification, BusyIsRunning
  <2>3. CASE tasks' = [tasks EXCEPT ![busy].status = "DONE"]
    <3>1. /\ tasks'[busy].status = "DONE" /\ tasks'[busy].kind = tasks[busy].kind
          /\ \A j \in TaskIds \ {busy} : tasks'[j] = tasks[j]
      BY <1>1, <2>1, <2>3 DEF Row
    <3>2. alarm.task \in TaskIds \cup {NoTask}
      BY DEF TypeOK
    <3> QED
      BY <2>1, <3>1, <3>2 DEF WindowInv, WindowIsArmed, NoOrphanVerification, BusyIsRunning
  <2> QED
    BY <1>5, <2>2, <2>3 DEF Finish
<1>6. CASE Crash
  BY <1>6 DEF Crash, WindowInv, WindowIsArmed, NoOrphanVerification, BusyIsRunning
<1>7. ASSUME UNCHANGED <<alarm, tasks, busy>> PROVE WindowInv'
  BY <1>7 DEF WindowInv, WindowIsArmed, NoOrphanVerification, BusyIsRunning
<1>8. CASE VerifyFails \/ UNCHANGED vars
  BY <1>7, <1>8 DEF VerifyFails, vars
<1>9. ASSUME NEW e \in EventIds, RecordDeleted(e) PROVE WindowInv'
  BY <1>7, <1>9 DEF RecordDeleted
<1> QED
  BY <1>2, <1>3, <1>4, <1>5, <1>6, <1>8, <1>9, TickKeepsWindow DEF Next, Samples, Scheduler

LEMMA WindowSafe == Spec => []WindowInv
<1>1. Init => WindowInv
  BY LifecycleAssumption DEF Init, WindowInv, WindowIsArmed, NoOrphanVerification,
                             BusyIsRunning, NormalState, NoRow
<1> QED
  BY <1>1, WindowNext, TypeInit, TypeNext, PTL DEF Spec

\* A window that waits is armed, its queued task comes due when it closes, and
\* no verification stays queued beyond it, whatever crashes and failed
\* verifications come between.
THEOREM TimersSafe == Spec => []TimersMatchWindow
<1>1. WindowInv => TimersMatchWindow
  BY DEF WindowInv, TimersMatchWindow
<1> QED
  BY <1>1, WindowSafe, PTL

-----------------------------------------------------------------------------
(* The promise.  The timers of the state machine never run ahead of the    *)
(* clocks of AlarmPromise.                                                 *)

ClocksAgree ==
  /\ alarm.state = "PENDING" => violated # None /\ violated >= alarm.waited
  /\ alarm.state = "RECOVERY" => normal # None /\ normal >= alarm.confirmed

LEMMA ApplyKeepsClocks ==
  ASSUME TypeOK, ClocksAgree, NEW v \in Verdicts,
         NEW own \in TaskIds \cup {NoTask}, Apply(v, own)
  PROVE  ClocksAgree'
<1>1. /\ violated' = Promise!Violated(v) /\ normal' = Promise!Normal(v)
  BY DEF Apply
<1> USE LifecycleAssumption DEF Promise!Violated, Promise!Normal, Promise!None, None
<1>2. CASE OpensWindow(v)
  <2>1. alarm'.state = "PENDING" /\ alarm'.waited = 0 /\ v = "VIOLATION"
    BY <1>2 DEF OpensWindow, NormalState
  <2> QED
    BY <1>1, <2>1 DEF ClocksAgree, TypeOK
<1>3. CASE ClearsWindow(v, own) \/ Raises(v, own) \/ Relapses(v, own) \/ Recovers(v, own)
  <2>1. alarm'.state \in {"NORMAL", "ALARM"}
    <3>1. CASE ClearsWindow(v, own) \/ Recovers(v, own)
      BY <3>1 DEF ClearsWindow, Recovers, NormalState
    <3>2. CASE Raises(v, own)
      BY <3>2 DEF Raises, NormalState
    <3>3. CASE Relapses(v, own)
      BY <3>3 DEF Relapses, TypeOK
    <3> QED
      BY <1>3, <3>1, <3>2, <3>3
  <2> QED
    BY <2>1 DEF ClocksAgree
<1>4. CASE StartsRecovery(v)
  <2>1. alarm'.state = "RECOVERY" /\ alarm'.confirmed = 0 /\ v = "NORMAL"
    BY <1>4 DEF StartsRecovery, TypeOK
  <2> QED
    BY <1>1, <2>1 DEF ClocksAgree, TypeOK
<1>5. CASE Keeps(v)
  BY <1>1, <1>5 DEF Keeps, ClocksAgree, TypeOK
<1> QED
  BY <1>2, <1>3, <1>4, <1>5 DEF Apply

LEMMA TickKeepsClocks ==
  ASSUME TypeOK, ClocksAgree, Tick
  PROVE  ClocksAgree'
<1>1. alarm'.state = alarm.state
  BY DEF Tick, TypeOK
<1>2. alarm.state = "PENDING" => alarm'.waited = Later(alarm.waited, VerifyAfter)
  BY DEF Tick, TypeOK
<1>3. alarm.state = "RECOVERY" => alarm'.confirmed = Later(alarm.confirmed, RecoveryAfter)
  BY DEF Tick, TypeOK
<1>4. /\ violated' = Promise!Later(violated, VerifyAfter)
      /\ normal' = Promise!Later(normal, RecoveryAfter)
  BY DEF Tick
<1>5. /\ alarm.waited \in 0..VerifyAfter /\ alarm.confirmed \in 0..RecoveryAfter
      /\ violated \in {None} \cup 0..VerifyAfter /\ normal \in {None} \cup 0..RecoveryAfter
  BY DEF TypeOK
<1> QED
  BY <1>1, <1>2, <1>3, <1>4, <1>5, LifecycleAssumption
  DEF ClocksAgree, Later, Promise!Later, Promise!None, None

LEMMA ClocksNext == TypeOK /\ ClocksAgree /\ [Next]_vars => ClocksAgree'
<1> SUFFICES ASSUME TypeOK, ClocksAgree, [Next]_vars PROVE ClocksAgree'
  OBVIOUS
<1>1. ASSUME UNCHANGED <<alarm, violated, normal>> PROVE ClocksAgree'
  BY <1>1 DEF ClocksAgree
<1>2. ASSUME NEW v \in Verdicts, NEW age \in Delays, NEW offline \in BOOLEAN, Sample(v, age, offline)
      PROVE  ClocksAgree'
  BY <1>2, ApplyKeepsClocks DEF Sample
<1>3. ASSUME NEW v \in Verdicts, Verify(v) PROVE ClocksAgree'
  BY <1>3, ApplyKeepsClocks DEF Verify, TypeOK
<1>4. CASE VerifyFails \/ Finish \/ Crash \/ UNCHANGED vars
  BY <1>1, <1>4 DEF VerifyFails, Finish, Crash, vars
<1>5. ASSUME NEW i \in TaskIds, Claim(i) PROVE ClocksAgree'
  BY <1>1, <1>5 DEF Claim
<1>6. ASSUME NEW e \in EventIds, RecordDeleted(e) PROVE ClocksAgree'
  BY <1>1, <1>6 DEF RecordDeleted
<1> QED
  BY <1>2, <1>3, <1>4, <1>5, <1>6, TickKeepsClocks DEF Next, Samples, Scheduler

\* What one evaluation does to the alarm is what AlarmPromise lets it do.
LEMMA ApplyIsObserve ==
  ASSUME TypeOK, ClocksAgree, NEW v \in Verdicts,
         NEW own \in TaskIds \cup {NoTask}, Apply(v, own)
  PROVE  Promise!Observe(v)
<1>1. violated' = Promise!Violated(v) /\ normal' = Promise!Normal(v)
  BY DEF Apply
<1>2. CASE OpensWindow(v) \/ ClearsWindow(v, own)
  <2>1. ~Raised /\ ~Raised'
    <3>1. CASE OpensWindow(v)
      BY <3>1 DEF OpensWindow, Raised, NormalState
    <3>2. CASE ClearsWindow(v, own)
      BY <3>2 DEF ClearsWindow, Raised, NormalState
    <3> QED
      BY <1>2, <3>1, <3>2
  <2> QED
    BY <1>1, <2>1 DEF Promise!Observe, Raised
<1>3. CASE StartsRecovery(v) \/ Relapses(v, own)
  <2>1. Raised /\ Raised'
    BY <1>3 DEF StartsRecovery, Relapses, Raised, TypeOK
  <2> QED
    BY <1>1, <2>1 DEF Promise!Observe
<1>4. CASE Keeps(v)
  BY <1>1, <1>4 DEF Keeps, Raised, Promise!Observe
<1>5. CASE Raises(v, own)
  <2>1. ~Raised /\ Raised' /\ v = "VIOLATION"
    BY <1>5 DEF Raises, Raised, NormalState
  <2>2. violated' >= VerifyAfter
    BY <1>1, <1>5, LifecycleAssumption
    DEF Raises, ClocksAgree, TypeOK, Promise!Violated, Promise!None, None
  <2> QED
    BY <1>1, <2>1, <2>2 DEF Promise!Observe
<1>6. CASE Recovers(v, own)
  <2>1. Raised /\ ~Raised' /\ v = "NORMAL"
    BY <1>6 DEF Recovers, Raised, NormalState
  <2>2. normal' >= RecoveryAfter
    BY <1>1, <1>6, LifecycleAssumption
    DEF Recovers, RecoveryConfirmed, Raised, ClocksAgree, TypeOK,
        Promise!Normal, Promise!None, None
  <2> QED
    BY <1>1, <2>1, <2>2 DEF Promise!Observe, Raised
<1> QED
  BY <1>2, <1>3, <1>4, <1>5, <1>6 DEF Apply

LEMMA NextRefines ==
  TypeOK /\ ClocksAgree /\ [Next]_vars => [Promise!Next]_(Promise!vars)
<1> SUFFICES ASSUME TypeOK, ClocksAgree, [Next]_vars
             PROVE  Promise!Next \/ UNCHANGED Promise!vars
  OBVIOUS
<1>1. ASSUME NEW v \in Verdicts, NEW own \in TaskIds \cup {NoTask}, Apply(v, own)
      PROVE  Promise!Next
  BY <1>1, ApplyIsObserve DEF Promise!Next, Promise!Verdicts, Verdicts
<1>2. ASSUME UNCHANGED <<alarm, violated, normal>> PROVE UNCHANGED Promise!vars
  BY <1>2 DEF Promise!vars, Raised
<1>3. ASSUME NEW v \in Verdicts, NEW age \in Delays, NEW offline \in BOOLEAN, Sample(v, age, offline)
      PROVE  Promise!Next
  BY <1>1, <1>3 DEF Sample
<1>4. ASSUME NEW v \in Verdicts, Verify(v) PROVE Promise!Next
  BY <1>1, <1>4 DEF Verify, TypeOK
<1>5. CASE Tick
  <2>1. Raised' = Raised
    BY <1>5 DEF Tick, Raised, TypeOK
  <2> QED
    BY <1>5, <2>1 DEF Tick, Promise!Next, Promise!Pass
<1>6. CASE VerifyFails \/ Finish \/ Crash \/ UNCHANGED vars
  BY <1>2, <1>6 DEF VerifyFails, Finish, Crash, vars
<1>7. ASSUME NEW i \in TaskIds, Claim(i) PROVE UNCHANGED Promise!vars
  BY <1>2, <1>7 DEF Claim
<1>8. ASSUME NEW e \in EventIds, RecordDeleted(e) PROVE UNCHANGED Promise!vars
  BY <1>2, <1>8 DEF RecordDeleted
<1> QED
  BY <1>3, <1>4, <1>5, <1>6, <1>7, <1>8 DEF Next, Samples, Scheduler

\* For every verification and recovery window, an alarm is raised only by a
\* violation that no normal reading interrupted, and withdrawn only by a normal
\* condition that no violation interrupted, that long.
THEOREM PromiseKept == Spec => KeepsPromise
<1>1. Init => Promise!Init
  BY DEF Init, Promise!Init, Raised, NormalState, None, Promise!None
<1>2. Init => ClocksAgree
  BY DEF Init, ClocksAgree, NormalState
<1> QED
  BY <1>1, <1>2, TypeInit, TypeNext, ClocksNext, NextRefines, PTL
  DEF Spec, KeepsPromise, Promise!Spec

-----------------------------------------------------------------------------
(* What a timer alone may do.                                              *)

\* An evaluation raises an alarm only from a violation.
LEMMA RaisedByViolation ==
  ASSUME TypeOK, NEW v \in Verdicts, NEW own, Apply(v, own), ~Raised, Raised'
  PROVE  v = "VIOLATION"
<1>1. ~(StartsRecovery(v) \/ Relapses(v, own) \/ Recovers(v, own) \/ Keeps(v))
  BY DEF StartsRecovery, Relapses, Recovers, Keeps, Raised
<1>2. ~ClearsWindow(v, own)
  BY DEF ClearsWindow, Raised, NormalState
<1> QED
  BY <1>1, <1>2 DEF Apply, OpensWindow, Raises

\* A verification task that comes due evaluates the latest sample, and one
\* that _fresh_sample_or_offline finds stale or offline is replaced by an
\* offline heartbeat: whatever the windows, the timer then raises nothing.
THEOREM SilenceSafe == Spec => SilenceNeverAlarms
<1> DEFINE Silent == busy # NoTask /\ ~Raised /\ Raised'
                       => ~latest.offline /\ latest.age <= StaleAfter
<1>1. TypeOK /\ [Next]_vars => [Silent]_vars
  <2> SUFFICES ASSUME TypeOK, Next, busy # NoTask, ~Raised, Raised' PROVE Fresh
    BY DEF Fresh
  <2>1. ASSUME NEW v \in Verdicts, Verify(v) PROVE Fresh
    <3>1. v = "VIOLATION"
      BY <2>1, RaisedByViolation DEF Verify
    <3> QED
      BY <2>1, <3>1 DEF Verify
  <2>2. alarm'.state # alarm.state
    BY DEF Raised
  <2>3. ~Tick
    BY <2>2 DEF Tick, TypeOK
  <2>4. ~(VerifyFails \/ Finish \/ Crash \/ \E e \in EventIds : RecordDeleted(e))
    BY <2>2 DEF VerifyFails, Finish, Crash, RecordDeleted
  <2>5. ~(Samples \/ \E i \in TaskIds : Claim(i))
    BY <2>2 DEF Samples, Sample, Claim
  <2> QED
    BY <2>1, <2>3, <2>4, <2>5 DEF Next, Scheduler
<1> QED
  BY <1>1, TypeCorrect, PTL DEF Spec, SilenceNeverAlarms
=============================================================================
