-------------------------- MODULE OperationsProofs --------------------------
(***************************************************************************)
(* The operation of one device, for any registrations, creation times,     *)
(* faults and number of reminders: its reminders count, and are about it.  *)
(***************************************************************************)
EXTENDS Operations, TLAPS

-----------------------------------------------------------------------------
(* Type correctness.                                                       *)

LEMMA NumbersType == 0 \in Numbers /\ Numbers \subseteq Nat /\ <<None, 0>> \in Keys
  BY OperationsAssumption DEF Numbers, Keys

\* The parts of a key.
LEMMA KeyParts ==
  ASSUME NEW k \in Keys
  PROVE  /\ k[1] \in Records \cup {None} /\ k[2] \in Numbers
         /\ k = <<k[1], k[2]>>
         /\ k[1] \in Records => k \in Records \X Numbers
  BY NumbersType, OperationsAssumption DEF Keys

LEMMA TypeInit == Init => TypeOK
<1> SUFFICES ASSUME Init PROVE TypeOK
  OBVIOUS
<1>1. rows \in Tables
  BY DEF Init, Tables
<1>2. task \in [status : {"NONE", "WAITING", "RUNNING"}, key : Keys, of : Keys]
  BY NumbersType DEF Init, NoTask
<1>3. reminder \in [status : {"NONE", "PENDING", "SENT", "SKIPPED", "FAILED"}, number : Numbers]
  BY NumbersType DEF Init, Quiet
<1>4. edits \in 0..MaxEdits /\ troubles \in 0..MaxTroubles
  BY OperationsAssumption DEF Init
<1> QED
  BY <1>1, <1>2, <1>3, <1>4 DEF Init, TypeOK, Nothing, Idle

LEMMA ObservationsType ==
  ASSUME TypeOK
  PROVE  Observations \subseteq [id : Records, initiator : BOOLEAN, remark : BOOLEAN]
  BY DEF TypeOK, Tables, Observations

LEMMA AcceptType ==
  ASSUME TypeOK, NEW o \in [id : Records, initiator : BOOLEAN, remark : BOOLEAN], Accept(o)
  PROVE  /\ current' \in [id : Records \cup {None}, initiator : BOOLEAN]
         /\ reminder' \in [status : {"NONE", "PENDING", "SENT", "SKIPPED", "FAILED"}, number : Numbers]
         /\ ripe' \in BOOLEAN
  BY NumbersType DEF TypeOK, Accept, Quiet

LEMMA RefreshType ==
  ASSUME TypeOK, NEW o \in [id : Records, initiator : BOOLEAN, remark : BOOLEAN], Refresh(o)
  PROVE  /\ current' \in [id : Records \cup {None}, initiator : BOOLEAN]
         /\ current'.id = current.id /\ current'.initiator = (current.initiator \/ o.initiator)
         /\ reminder' \in [status : {"NONE", "PENDING", "SENT", "SKIPPED", "FAILED"}, number : Numbers]
         /\ reminder'.number = reminder.number
         /\ reminder'.status = reminder.status
              \/ (reminder.status = "SKIPPED" /\ reminder'.status = "NONE")
         /\ ripe' \in BOOLEAN
  BY DEF TypeOK, Refresh

LEMMA SyncType == TypeOK /\ (Sync \/ SyncFails) => TypeOK'
<1>1. ASSUME TypeOK, SyncBegins PROVE TypeOK'
  BY <1>1, ObservationsType DEF TypeOK, SyncBegins, Idle
<1>2. ASSUME TypeOK, NEW o \in job.batch, Apply(o) PROVE TypeOK'
  <2>1. o \in [id : Records, initiator : BOOLEAN, remark : BOOLEAN]
    BY <1>2 DEF TypeOK
  <2>2. Accept(o) \/ Refresh(o) \/ UNCHANGED <<current, reminder, ripe>>
    BY <1>2 DEF Apply
  <2>3. /\ current' \in [id : Records \cup {None}, initiator : BOOLEAN]
        /\ reminder' \in [status : {"NONE", "PENDING", "SENT", "SKIPPED", "FAILED"}, number : Numbers]
        /\ ripe' \in BOOLEAN
    BY <1>2, <2>1, <2>2, AcceptType, RefreshType DEF TypeOK
  <2>4. job' \in [step : {"IDLE", "SYNC", "CHECK", "SEND", "RECORD", "DONE"},
                  batch : SUBSET [id : Records, initiator : BOOLEAN, remark : BOOLEAN]]
    BY <1>2 DEF TypeOK, Apply, Idle
  <2>5. UNCHANGED <<rows, task, gate, edits, troubles, sent, doubts>>
    BY <1>2 DEF Apply
  <2> QED
    BY <1>2, <2>3, <2>4, <2>5 DEF TypeOK
<1>3. ASSUME TypeOK, SyncFails PROVE TypeOK'
  BY <1>3, OperationsAssumption DEF TypeOK, SyncFails, Fault, Idle
<1> QED
  BY <1>1, <1>2, <1>3 DEF Sync, Applies

LEMMA ScanType == ASSUME TypeOK, NEW r \in Opening, Scan(r) PROVE TypeOK'
<1>1. <<r, NextNumber>> \in Keys
  BY OperationsAssumption DEF Scan, Keys
<1>2. task' \in [status : {"NONE", "WAITING", "RUNNING"}, key : Keys, of : Keys]
  BY <1>1 DEF Scan, Armed, TypeOK
<1> QED
  BY <1>2 DEF Scan, TypeOK

\* What the handler leaves in the task and in the reminder.
LEMMA HandlerType ==
  ASSUME TypeOK
  PROVE  /\ Number \in Numbers
         /\ NoTask \in [status : {"NONE", "WAITING", "RUNNING"}, key : Keys, of : Keys]
         /\ [task EXCEPT !.status = "RUNNING"]
              \in [status : {"NONE", "WAITING", "RUNNING"}, key : Keys, of : Keys]
         /\ Rescheduled \in [status : {"NONE", "WAITING", "RUNNING"}, key : Keys, of : Keys]
         /\ \A step \in {"CHECK", "SEND", "RECORD", "DONE"} : [Idle EXCEPT !.step = step]
              = [step |-> step, batch |-> {}]
<1>1. task \in [status : {"NONE", "WAITING", "RUNNING"}, key : Keys, of : Keys]
  BY DEF TypeOK
<1>2. Number \in Numbers
  BY <1>1, KeyParts DEF Number
<1>3. NoTask \in [status : {"NONE", "WAITING", "RUNNING"}, key : Keys, of : Keys]
  BY NumbersType DEF NoTask
<1>4. \A step \in {"CHECK", "SEND", "RECORD", "DONE"} : [Idle EXCEPT !.step = step]
        = [step |-> step, batch |-> {}]
  BY DEF Idle
<1> QED
  BY <1>1, <1>2, <1>3, <1>4 DEF Rescheduled

LEMMA CountType ==
  ASSUME TypeOK
  PROVE  [sent EXCEPT ![task.of] = @ + 1] \in [Records \X Numbers -> Nat]
         /\ [doubts EXCEPT ![task.of] = @ + 1] \in [Records \X Numbers -> Nat]
<1>1. ASSUME NEW f \in [Records \X Numbers -> Nat], NEW k
      PROVE  [f EXCEPT ![k] = @ + 1] \in [Records \X Numbers -> Nat]
  <2>1. \A x \in Records \X Numbers : f[x] \in Nat /\ f[x] + 1 \in Nat
    OBVIOUS
  <2> QED
    BY <2>1
<1> QED
  BY <1>1 DEF TypeOK

LEMMA RemindType ==
  TypeOK /\ (Claim \/ Remind \/ SendFails \/ Refused \/ Breaks \/ Crash) => TypeOK'
<1> SUFFICES ASSUME TypeOK, Claim \/ Remind \/ SendFails \/ Refused \/ Breaks \/ Crash
             PROVE  TypeOK'
  OBVIOUS
<1>1. UNCHANGED <<rows, current, gate, edits>>
  BY DEF At, Claim, Remind, Check, Send, Told, Done, SendFails, Refused, Breaks, Crash
<1>2. troubles' \in 0..MaxTroubles
  <2>1. UNCHANGED troubles \/ Fault
    BY DEF Claim, Remind, Check, Send, Told, Done, SendFails, Refused, Breaks, Crash
  <2> QED
    BY <2>1, OperationsAssumption DEF TypeOK, Fault
<1>3. ripe' \in BOOLEAN
  BY DEF TypeOK, Claim, Remind, Check, Send, Told, Done, SendFails, Refused, Breaks, Crash
<1>4. UNCHANGED sent \/ Delivered
  BY DEF Claim, Remind, Check, Send, Told, Done, SendFails, Refused, Breaks, Crash
<1>5. UNCHANGED doubts \/ Doubt
  BY DEF Claim, Remind, Check, Send, Told, Done, SendFails, Refused, Breaks, Crash
<1>6. \/ UNCHANGED task
      \/ task' \in {NoTask, Rescheduled, [task EXCEPT !.status = "RUNNING"]}
  BY DEF Claim, Remind, Check, Send, Told, Done, SendFails, Refused, Breaks, Crash, Finish
<1>7. \/ UNCHANGED reminder
      \/ \E status \in {"SKIPPED", "PENDING", "FAILED", "SENT"} : Update(status)
  BY DEF Claim, Remind, Check, Send, Told, Done, SendFails, Refused, Breaks, Crash
<1>8. job' = Idle \/ \E step \in {"CHECK", "SEND", "RECORD", "DONE"} : Go(step)
  BY DEF Claim, Remind, Check, Send, Told, Done, SendFails, Refused, Breaks, Crash, Finish
<1>9. job' \in [step : {"IDLE", "SYNC", "CHECK", "SEND", "RECORD", "DONE"},
                batch : SUBSET [id : Records, initiator : BOOLEAN, remark : BOOLEAN]]
  BY <1>8, HandlerType DEF Go, Idle
<1>10. reminder' \in [status : {"NONE", "PENDING", "SENT", "SKIPPED", "FAILED"}, number : Numbers]
  BY <1>7, HandlerType DEF Update, TypeOK
<1>11. task' \in [status : {"NONE", "WAITING", "RUNNING"}, key : Keys, of : Keys]
  BY <1>6, HandlerType DEF TypeOK
<1>12. sent' \in [Records \X Numbers -> Nat] /\ doubts' \in [Records \X Numbers -> Nat]
  BY <1>4, <1>5, CountType DEF Delivered, Doubt, TypeOK
<1> QED
  BY <1>1, <1>2, <1>3, <1>9, <1>10, <1>11, <1>12 DEF TypeOK

LEMMA OthersType ==
  ASSUME TypeOK,
         \/ Ripen \/ Turn
         \/ \E r \in Records, row \in [valid : BOOLEAN, initiator : BOOLEAN, remark : BOOLEAN] :
              Edit(r, row)
  PROVE  TypeOK'
<1>1. CASE Ripen
  BY <1>1 DEF Ripen, TypeOK
<1>2. CASE Turn
  BY <1>2, OperationsAssumption DEF Turn, Fault, TypeOK
<1>3. ASSUME NEW r \in Records, NEW row \in [valid : BOOLEAN, initiator : BOOLEAN, remark : BOOLEAN],
             Edit(r, row)
      PROVE  TypeOK'
  <2>1. rows' \in Tables
    BY <1>3 DEF Edit, TypeOK, Tables
  <2> QED
    BY <1>3, <2>1, OperationsAssumption DEF Edit, TypeOK
<1> QED
  BY <1>1, <1>2, <1>3

LEMMA TypeNext == TypeOK /\ [Next]_vars => TypeOK'
<1> SUFFICES ASSUME TypeOK, [Next]_vars PROVE TypeOK'
  OBVIOUS
<1>1. CASE UNCHANGED vars
  BY <1>1 DEF vars, TypeOK
<1> QED
  BY <1>1, SyncType, ScanType, RemindType, OthersType DEF Next, Scans

\* Every variable of the sync, the scan and the reminders keeps its type
\* (application/operation_sync.py, runtime/shadow_runner.py).
THEOREM TypeCorrect == Spec => []TypeOK
  BY TypeInit, TypeNext, PTL DEF Spec

-----------------------------------------------------------------------------
(* Counting.  A record is taken for the operation at most once, because    *)
(* only a newer one replaces another; while it goes on, the reminders      *)
(* before the next number were told and those after it were not.           *)

NextToTell == IF reminder.status = "SENT" THEN reminder.number + 1 ELSE reminder.number

\* Not taken for the operation so far.
Unread(r) == r # current.id /\ (current.id = None \/ CreatedAt[r] >= CreatedAt[current.id])

FreshInv ==
  /\ current.id = None => current = Nothing
  /\ \A r \in Records : Unread(r) => \A n \in Numbers : sent[<<r, n>>] = 0
  /\ task.status # "NONE" => Record \in Opening /\ ~Unread(Record)

ToldInv ==
  current.id \in Opening =>
    \A n \in Numbers :
      /\ n < NextToTell => sent[<<current.id, n>>] > 0
      /\ n = NextToTell => \/ sent[<<current.id, n>>] <= doubts[<<current.id, n>>]
                           \/ job.step = "RECORD"
      /\ n = NextToTell /\ reminder.status = "SENT" => sent[<<current.id, n>>] = 0
      /\ n > NextToTell => sent[<<current.id, n>>] = 0

\* A reminder that names nobody is the first one.
NamedInv ==
  /\ reminder.status \in {"NONE", "SKIPPED"} => reminder.number = 0
  /\ current.id \in Opening /\ ~current.initiator => reminder.status \in {"NONE", "SKIPPED"}

\* The task of the operation that goes on is about the next number, or about the
\* one just told.
TaskInv ==
  task.status # "NONE" /\ Open(Record) =>
    \/ Number = NextToTell
    \/ /\ reminder.status = "SENT" /\ Number = reminder.number
       /\ job.step = "DONE" \/ sent[task.of] <= doubts[task.of]

JobInv ==
  /\ job.step \in {"CHECK", "SEND", "RECORD", "DONE"} => task.status # "NONE"
  /\ job.step \in {"SEND", "RECORD", "DONE"} => Open(Record) /\ current.initiator
  /\ job.step \in {"SEND", "RECORD"} => reminder = [status |-> "PENDING", number |-> Number]
  /\ job.step = "RECORD" => sent[task.of] > 0
  /\ job.step = "DONE" => reminder = [status |-> "SENT", number |-> Number]

CountInv == FreshInv /\ ToldInv /\ NamedInv /\ TaskInv /\ JobInv /\ RemindersCount

LEMMA CountInit == Init => CountInv
<1> SUFFICES ASSUME Init PROVE CountInv
  OBVIOUS
<1>1. \A r \in Records, n \in Numbers : sent[<<r, n>>] = 0 /\ doubts[<<r, n>>] = 0
  BY DEF Init
<1>2. current.id = None /\ None \notin Opening /\ job.step = "IDLE" /\ task.status = "NONE"
      /\ reminder.number = 0 /\ current = Nothing /\ reminder.status = "NONE"
  BY OperationsAssumption DEF Init, Nothing, Idle, NoTask, Quiet
<1> QED
  BY <1>1, <1>2 DEF CountInv, FreshInv, ToldInv, NamedInv, TaskInv, JobInv, RemindersCount, Open

\* A counter of one key goes up.
LEMMA Counting ==
  ASSUME NEW f \in [Records \X Numbers -> Nat], NEW g, NEW k \in Records \X Numbers,
         g = [f EXCEPT ![k] = @ + 1]
  PROVE  /\ g[k] = f[k] + 1
         /\ \A x \in Records \X Numbers : (x # k => g[x] = f[x]) /\ g[x] >= f[x]
  OBVIOUS

\* Types of what the invariant counts.
LEMMA CountTypes ==
  ASSUME TypeOK
  PROVE  /\ NextToTell \in Nat /\ reminder.number \in Nat /\ Number \in Numbers /\ Numbers \subseteq Nat
         /\ \A r \in Records, n \in Numbers : sent[<<r, n>>] \in Nat /\ doubts[<<r, n>>] \in Nat
         /\ \A r \in Records : CreatedAt[r] \in Nat
         /\ Opening \subseteq Records /\ None \notin Records
         /\ current.id \in Records \cup {None}
<1>1. Number \in Numbers
  BY KeyParts DEF TypeOK, Number
<1>2. reminder.number \in Nat /\ NextToTell \in Nat
  <2>1. reminder.number \in Numbers
    BY DEF TypeOK
  <2>2. reminder.number \in Nat
    BY <2>1, NumbersType
  <2> QED
    BY <2>2 DEF NextToTell
<1>3. \A r \in Records, n \in Numbers : sent[<<r, n>>] \in Nat /\ doubts[<<r, n>>] \in Nat
  BY DEF TypeOK
<1>4. current.id \in Records \cup {None}
  BY DEF TypeOK
<1> QED
  BY <1>1, <1>2, <1>3, <1>4, NumbersType, OperationsAssumption

\* The key of the task of the operation that goes on.
LEMMA OpenKey ==
  ASSUME TypeOK, Open(Record)
  PROVE  /\ task.of = <<current.id, Number>> /\ task.of \in Records \X Numbers
         /\ current.id \in Records /\ current.id \in Opening /\ Record = current.id
<1>1. task.of \in Keys
  BY DEF TypeOK
<1>2. task.of = <<Record, Number>> /\ (Record \in Records => task.of \in Records \X Numbers)
  BY <1>1, KeyParts DEF Record, Number
<1> QED
  BY <1>2, OperationsAssumption DEF Open

\* Nothing that is counted changes.
LEMMA SameCounts ==
  ASSUME CountInv, UNCHANGED <<current, reminder, task, sent, doubts>>,
         UNCHANGED job \/ {job.step, job'.step} \subseteq {"IDLE", "SYNC"}
  PROVE  CountInv'
<1>1. FreshInv'
  BY DEF CountInv, FreshInv, Unread, Record
<1>2. ToldInv'
  BY DEF CountInv, ToldInv, NextToTell
<1>3. NamedInv' /\ RemindersCount'
  BY DEF CountInv, NamedInv, RemindersCount
<1>4. TaskInv'
  BY DEF CountInv, TaskInv, Open, Record, Number, NextToTell
<1>5. JobInv'
  BY DEF CountInv, JobInv, Open, Record, Number
<1> QED
  BY <1>1, <1>2, <1>3, <1>4, <1>5 DEF CountInv

LEMMA AcceptCounts ==
  ASSUME TypeOK, CountInv, NEW o \in job.batch, Apply(o), Newer(o)
  PROVE  CountInv'
<1>1. o.id \in Records /\ o.initiator \in BOOLEAN
  BY DEF TypeOK
<1>2. UNCHANGED <<task, sent, doubts>> /\ job.step = "SYNC" /\ job'.step \in {"IDLE", "SYNC"}
      /\ Accept(o)
  BY DEF Apply, Idle, TypeOK
<1>3. current'.id = o.id /\ current'.initiator = o.initiator
      /\ (o.id \in Opening => reminder'.status = "NONE" /\ reminder'.number = 0)
      /\ (o.id \notin Opening => reminder' = reminder)
  BY <1>2 DEF Accept, Quiet
<1>4. o.id # None
  BY <1>1, OperationsAssumption
<1>5. Unread(o.id)
  BY <1>1, CountTypes DEF Newer, Unread, Nothing
<1>6. \A r \in Records : Unread(r)' => Unread(r)
  <2> SUFFICES ASSUME NEW r \in Records, Unread(r)' PROVE Unread(r)
    OBVIOUS
  <2>1. r # o.id /\ CreatedAt[r] >= CreatedAt[o.id]
    BY <1>3, <1>4 DEF Unread
  <2>2. current.id # None => CreatedAt[o.id] > CreatedAt[current.id] /\ current.id \in Records
    BY CountTypes DEF Newer, Nothing
  <2> QED
    BY <1>1, CountTypes, <2>1, <2>2 DEF Unread
<1>7. \A n \in Numbers : sent[<<o.id, n>>] = 0
  BY <1>1, <1>5 DEF CountInv, FreshInv
<1>8. FreshInv'
  <2>1. current'.id # None
    BY <1>3, <1>4
  <2>2. \A r \in Records : Unread(r)' => \A n \in Numbers : sent'[<<r, n>>] = 0
    BY <1>2, <1>6 DEF CountInv, FreshInv
  <2>3. task'.status # "NONE" => Record' \in Opening /\ ~Unread(Record)'
    BY <1>2, <1>6, OperationsAssumption DEF CountInv, FreshInv, Record
  <2> QED
    BY <2>1, <2>2, <2>3 DEF FreshInv
<1>9. ToldInv'
  <2> SUFFICES ASSUME current'.id \in Opening, NEW n \in Numbers
               PROVE  /\ n < NextToTell' => sent'[<<current'.id, n>>] > 0
                      /\ sent'[<<current'.id, n>>] = 0
                      /\ sent'[<<current'.id, n>>] <= doubts'[<<current'.id, n>>]
    BY DEF ToldInv
  <2>1. NextToTell' = 0 /\ n \in Nat
    BY <1>3, CountTypes DEF NextToTell
  <2>2. sent'[<<o.id, n>>] = 0 /\ doubts'[<<o.id, n>>] \in Nat
    BY <1>1, <1>2, <1>7, CountTypes
  <2> QED
    BY <1>3, <2>1, <2>2
<1>10. NamedInv' /\ RemindersCount'
  BY <1>2, <1>3 DEF CountInv, NamedInv, RemindersCount
<1>11. TaskInv'
  <2>1. task.status # "NONE" => Record # o.id
    BY <1>5 DEF CountInv, FreshInv
  <2> QED
    BY <1>2, <1>3, <2>1 DEF TaskInv, Open, Record
<1>12. JobInv'
  BY <1>2 DEF CountInv, JobInv
<1> QED
  BY <1>8, <1>9, <1>10, <1>11, <1>12 DEF CountInv

LEMMA RefreshCounts ==
  ASSUME TypeOK, CountInv, NEW o \in job.batch, Apply(o), ~Newer(o), Refresh(o)
  PROVE  CountInv'
<1>1. o \in [id : Records, initiator : BOOLEAN, remark : BOOLEAN]
  BY DEF TypeOK
<1>2. UNCHANGED <<task, sent, doubts>> /\ job.step = "SYNC" /\ job'.step \in {"IDLE", "SYNC"}
  BY DEF Apply, Idle, TypeOK
<1>3. /\ current'.id = current.id /\ current'.initiator = (current.initiator \/ o.initiator)
      /\ reminder'.number = reminder.number
      /\ \/ reminder'.status = reminder.status
         \/ reminder.status = "SKIPPED" /\ reminder'.status = "NONE"
  BY <1>1, RefreshType
<1>4. NextToTell' = NextToTell /\ (reminder'.status = "SENT" <=> reminder.status = "SENT")
  BY <1>3 DEF NextToTell
<1>5. current.id # None
  BY DEF CountInv, FreshInv, Newer
<1>6. FreshInv'
  BY <1>2, <1>3, <1>5 DEF CountInv, FreshInv, Unread, Record
<1>7. ToldInv'
  BY <1>2, <1>3, <1>4 DEF CountInv, ToldInv
<1>8. NamedInv' /\ RemindersCount'
  BY <1>2, <1>3 DEF CountInv, NamedInv, RemindersCount
<1>9. TaskInv'
  BY <1>2, <1>3, <1>4 DEF CountInv, TaskInv, Open, Record, Number
<1>10. JobInv'
  BY <1>2 DEF CountInv, JobInv
<1> QED
  BY <1>6, <1>7, <1>8, <1>9, <1>10 DEF CountInv

LEMMA SyncCounts == ASSUME TypeOK, CountInv, Sync \/ SyncFails PROVE CountInv'
<1>1. CASE SyncBegins
  BY <1>1, SameCounts DEF SyncBegins, Idle
<1>2. ASSUME NEW o \in job.batch, Apply(o) PROVE CountInv'
  <2>1. CASE Newer(o)
    BY <1>2, <2>1, AcceptCounts
  <2>2. CASE ~Newer(o) /\ Refresh(o)
    BY <1>2, <2>2, RefreshCounts
  <2>3. CASE UNCHANGED <<current, reminder, ripe>>
    <3>1. UNCHANGED <<current, reminder, task, sent, doubts>>
          /\ {job.step, job'.step} \subseteq {"IDLE", "SYNC"}
      BY <1>2, <2>3 DEF Apply, Idle, TypeOK
    <3> QED
      BY <3>1, SameCounts
  <2> QED
    BY <1>2, <2>1, <2>2, <2>3 DEF Apply
<1>3. CASE SyncFails
  BY <1>3, SameCounts DEF SyncFails, Idle
<1> QED
  BY <1>1, <1>2, <1>3 DEF Sync, Applies

\* Arming: the waiting task keeps what it is about.
LEMMA ScanCounts == ASSUME TypeOK, CountInv, NEW r \in Opening, Scan(r) PROVE CountInv'
<1>1. UNCHANGED <<current, reminder, sent, doubts, job>> /\ current.id = r /\ job.step = "IDLE"
  BY DEF Scan, Open, Idle
<1>2. \/ /\ task.status = "NONE" /\ task'.status # "NONE" /\ task'.of = <<r, NextNumber>>
      \/ task.status # "NONE" /\ task'.of = task.of /\ task'.status = task.status
  BY DEF Scan, Armed, TypeOK
<1>3. NextNumber = NextToTell
  BY CountTypes DEF Scan, Ready, NextNumber, NextToTell, CountInv, NamedInv, TypeOK
<1>4. Record' = r \/ (task.status # "NONE" /\ Record' = Record)
  BY <1>2 DEF Record
<1>5. FreshInv'
  BY <1>1, <1>4 DEF CountInv, FreshInv, Unread
<1>6. ToldInv' /\ NamedInv' /\ RemindersCount'
  BY <1>1 DEF CountInv, ToldInv, NextToTell, NamedInv, RemindersCount
<1>7. TaskInv'
  BY <1>1, <1>2, <1>3 DEF CountInv, TaskInv, Open, Record, Number, NextToTell
<1>8. JobInv'
  BY <1>1 DEF CountInv, JobInv
<1> QED
  BY <1>5, <1>6, <1>7, <1>8 DEF CountInv

\* What the invariant says of a reminder that is being sent.
LEMMA OnItsWay ==
  ASSUME TypeOK, CountInv, job.step \in {"SEND", "RECORD", "DONE"}
  PROVE  /\ task.status # "NONE" /\ current.initiator /\ current.id \in Opening /\ current.id \in Records
         /\ Record = current.id /\ task.of = <<current.id, Number>> /\ task.of \in Records \X Numbers
         /\ Number \in Numbers
         /\ job.step # "DONE" => reminder.status = "PENDING" /\ reminder.number = Number
         /\ job.step = "DONE" => reminder.status = "SENT" /\ reminder.number = Number
         /\ job.step = "RECORD" => sent[task.of] > 0
  BY OpenKey, CountTypes DEF CountInv, JobInv

LEMMA ClaimCounts == ASSUME TypeOK, CountInv, Claim PROVE CountInv'
<1>1. UNCHANGED <<current, reminder, sent, doubts>> /\ job.step = "IDLE" /\ job'.step = "CHECK"
      /\ task.status # "NONE" /\ task'.status # "NONE" /\ task'.of = task.of
  BY HandlerType DEF Claim, At, Go, TypeOK
<1>2. FreshInv'
  BY <1>1 DEF CountInv, FreshInv, Unread, Record
<1>3. ToldInv' /\ NamedInv' /\ RemindersCount'
  BY <1>1 DEF CountInv, ToldInv, NextToTell, NamedInv, RemindersCount
<1>4. TaskInv'
  BY <1>1 DEF CountInv, TaskInv, Open, Record, Number, NextToTell
<1>5. JobInv'
  BY <1>1 DEF CountInv, JobInv
<1> QED
  BY <1>2, <1>3, <1>4, <1>5 DEF CountInv

\* The task is over.
LEMMA Over ==
  ASSUME CountInv, UNCHANGED <<current, sent>>, job'.step = "IDLE", task'.status = "NONE",
         ToldInv', NamedInv', RemindersCount'
  PROVE  CountInv'
<1>1. FreshInv'
  BY DEF CountInv, FreshInv, Unread
<1>2. TaskInv' /\ JobInv'
  BY DEF TaskInv, JobInv
<1> QED
  BY <1>1, <1>2 DEF CountInv

LEMMA FinishIs == Finish => job'.step = "IDLE" /\ task'.status = "NONE"
  BY DEF Finish, Idle, NoTask

\* A status the handler writes.
LEMMA UpdateIs ==
  ASSUME NEW status, Update(status)
  PROVE  reminder'.status = status /\ reminder'.number = Number /\ reminder' = [status |-> status, number |-> Number]
  BY DEF Update

LEMMA CheckCounts == ASSUME TypeOK, CountInv, Check PROVE CountInv'
<1>1. UNCHANGED <<current, sent, doubts>> /\ job.step = "CHECK" /\ task.status # "NONE"
  BY DEF Check, At, CountInv, JobInv
<1>2. CASE ~SameOperation /\ Finish /\ UNCHANGED reminder
  <2>1. ToldInv' /\ NamedInv' /\ RemindersCount'
    BY <1>1, <1>2, FinishIs DEF CountInv, ToldInv, NextToTell, NamedInv, RemindersCount
  <2> QED
    BY <1>1, <1>2, <2>1, FinishIs, Over
<1>3. ASSUME SameOperation
      PROVE  /\ Number \in Numbers /\ task.of = <<current.id, Number>> /\ current.id \in Records
             /\ current.id \in Opening /\ task.of \in Records \X Numbers
             /\ \/ Number = NextToTell
                \/ /\ reminder.status = "SENT" /\ Number = reminder.number
                   /\ sent[task.of] <= doubts[task.of]
  BY <1>1, <1>3, OpenKey, CountTypes DEF SameOperation, CountInv, TaskInv
<1>4. CASE SameOperation /\ ~current.initiator /\ Update("SKIPPED") /\ Finish
  <2>1. reminder.status # "SENT" /\ reminder.number = 0 /\ Number = 0 /\ reminder'.number = 0
        /\ reminder'.status = "SKIPPED"
    BY <1>3, <1>4, UpdateIs DEF CountInv, NamedInv, NextToTell
  <2>2. NextToTell' = NextToTell
    BY <2>1 DEF NextToTell
  <2>3. ToldInv'
    BY <1>1, <1>4, <2>1, <2>2, FinishIs DEF CountInv, ToldInv
  <2>4. NamedInv' /\ RemindersCount'
    BY <1>1, <2>1 DEF CountInv, NamedInv, RemindersCount
  <2> QED
    BY <1>1, <1>4, <2>3, <2>4, FinishIs, Over
<1>5. CASE SameOperation /\ current.initiator /\ Update("PENDING") /\ Go("SEND") /\ UNCHANGED task
  <2>1. job'.step = "SEND" /\ reminder' = [status |-> "PENDING", number |-> Number]
        /\ Number' = Number /\ Record' = Record /\ NextToTell' = Number
    BY <1>5, HandlerType, UpdateIs DEF Go, Number, Record, NextToTell
  <2>2. FreshInv' /\ NamedInv' /\ RemindersCount'
    BY <1>1, <1>5, <2>1 DEF CountInv, FreshInv, Unread, NamedInv, RemindersCount
  <2>3. TaskInv' /\ JobInv'
    BY <1>1, <1>5, <2>1 DEF TaskInv, JobInv, Open, SameOperation
  <2>4. ToldInv'
    <3> SUFFICES ASSUME NEW n \in Numbers
                 PROVE  /\ n < Number => sent[<<current.id, n>>] > 0
                        /\ n = Number => sent[<<current.id, n>>] <= doubts[<<current.id, n>>]
                        /\ n > Number => sent[<<current.id, n>>] = 0
      BY <1>1, <2>1 DEF ToldInv
    <3>1. n \in Nat /\ Number \in Nat /\ NextToTell \in Nat /\ reminder.number \in Nat
      BY <1>3, <1>5, CountTypes
    <3>2. /\ n < NextToTell => sent[<<current.id, n>>] > 0
          /\ n = NextToTell => sent[<<current.id, n>>] <= doubts[<<current.id, n>>]
          /\ n = NextToTell /\ reminder.status = "SENT" => sent[<<current.id, n>>] = 0
          /\ n > NextToTell => sent[<<current.id, n>>] = 0
      BY <1>1, <1>3, <1>5 DEF CountInv, ToldInv
    <3>3. CASE Number = NextToTell
      BY <3>1, <3>2, <3>3
    <3>4. CASE reminder.status = "SENT" /\ Number = reminder.number /\ sent[task.of] <= doubts[task.of]
      <4>1. NextToTell = Number + 1
        BY <3>4 DEF NextToTell
      <4>2. n < Number => n < NextToTell
        BY <3>1, <4>1
      <4>3. n > Number => n = NextToTell \/ n > NextToTell
        BY <3>1, <4>1
      <4>4. n = Number => sent[<<current.id, n>>] <= doubts[<<current.id, n>>]
        BY <1>3, <1>5, <3>4
      <4> QED
        BY <3>2, <3>4, <4>2, <4>3, <4>4
    <3> QED
      BY <1>3, <1>5, <3>3, <3>4
  <2> QED
    BY <2>2, <2>3, <2>4 DEF CountInv
<1> QED
  BY <1>2, <1>4, <1>5 DEF Check

\* What a message, and what a doubt, does to the counts.
LEMMA DeliveredIs ==
  ASSUME TypeOK, task.of \in Records \X Numbers, Delivered
  PROVE  /\ sent'[task.of] = sent[task.of] + 1
         /\ \A r \in Records, n \in Numbers :
              /\ <<r, n>> # task.of => sent'[<<r, n>>] = sent[<<r, n>>]
              /\ sent'[<<r, n>>] >= sent[<<r, n>>]
<1>1. sent \in [Records \X Numbers -> Nat] /\ sent' = [sent EXCEPT ![task.of] = @ + 1]
  BY DEF TypeOK, Delivered
<1> QED
  BY <1>1, Counting

LEMMA DoubtIs ==
  ASSUME TypeOK, task.of \in Records \X Numbers, Doubt
  PROVE  /\ doubts'[task.of] = doubts[task.of] + 1
         /\ \A r \in Records, n \in Numbers : doubts'[<<r, n>>] >= doubts[<<r, n>>]
<1>1. doubts \in [Records \X Numbers -> Nat] /\ doubts' = [doubts EXCEPT ![task.of] = @ + 1]
  BY DEF TypeOK, Doubt
<1> QED
  BY <1>1, Counting

\* A message of the next number, of which the process may know or not.
LEMMA SendCounts ==
  ASSUME TypeOK, CountInv, job.step = "SEND", Delivered,
         UNCHANGED <<current, reminder>>, task'.of = task.of, task'.status # "NONE",
         \/ job'.step = "RECORD" /\ UNCHANGED doubts
         \/ job'.step = "IDLE" /\ Doubt
  PROVE  CountInv'
<1>1. /\ task.status # "NONE" /\ current.initiator /\ current.id \in Opening /\ current.id \in Records
      /\ Record = current.id /\ task.of = <<current.id, Number>> /\ task.of \in Records \X Numbers
      /\ Number \in Numbers /\ Number \in Nat
      /\ reminder.status = "PENDING" /\ reminder.number = Number /\ NextToTell = Number
  BY OnItsWay, CountTypes DEF NextToTell
<1>2. Record' = Record /\ Number' = Number /\ NextToTell' = Number
  BY <1>1 DEF Record, Number, NextToTell
<1>3. /\ sent'[task.of] = sent[task.of] + 1
      /\ \A r \in Records, n \in Numbers :
           /\ <<r, n>> # task.of => sent'[<<r, n>>] = sent[<<r, n>>]
           /\ sent'[<<r, n>>] >= sent[<<r, n>>]
  BY <1>1, DeliveredIs
<1>4. /\ \A r \in Records, n \in Numbers : doubts'[<<r, n>>] >= doubts[<<r, n>>] /\ doubts'[<<r, n>>] \in Nat
      /\ job'.step # "RECORD" => doubts'[task.of] = doubts[task.of] + 1
  <2>1. CASE UNCHANGED doubts /\ job'.step = "RECORD"
    BY <2>1, CountTypes
  <2>2. CASE Doubt /\ job'.step = "IDLE"
    <3>1. /\ doubts'[task.of] = doubts[task.of] + 1
          /\ \A r \in Records, n \in Numbers : doubts'[<<r, n>>] >= doubts[<<r, n>>]
      BY <1>1, <2>2, DoubtIs
    <3>2. doubts' \in [Records \X Numbers -> Nat]
      BY <2>2, CountType DEF Doubt
    <3> QED
      BY <2>2, <3>1, <3>2
  <2> QED
    BY <2>1, <2>2
<1>5. sent[task.of] <= doubts[task.of] /\ sent[task.of] \in Nat /\ doubts[task.of] \in Nat
  BY <1>1, CountTypes DEF CountInv, ToldInv
<1>6. FreshInv'
  <2>1. \A r \in Records : Unread(r)' => Unread(r) /\ r # current.id
    BY DEF Unread
  <2>2. ASSUME NEW r \in Records, NEW n \in Numbers, Unread(r)' PROVE sent'[<<r, n>>] = 0
    <3>1. Unread(r) /\ <<r, n>> # task.of
      BY <1>1, <2>1, <2>2
    <3>2. sent[<<r, n>>] = 0
      BY <3>1 DEF CountInv, FreshInv
    <3> QED
      BY <1>3, <3>1, <3>2
  <2> QED
    BY <1>1, <1>2, <2>2 DEF CountInv, FreshInv, Unread
<1>7. ToldInv'
  <2> SUFFICES ASSUME NEW n \in Numbers
               PROVE  /\ n < Number => sent'[<<current.id, n>>] > 0
                      /\ n = Number => \/ sent'[<<current.id, n>>] <= doubts'[<<current.id, n>>]
                                       \/ job'.step = "RECORD"
                      /\ n > Number => sent'[<<current.id, n>>] = 0
    BY <1>1, <1>2 DEF ToldInv
  <2>1. n \in Nat /\ sent[<<current.id, n>>] \in Nat /\ doubts[<<current.id, n>>] \in Nat
    BY <1>1, CountTypes
  <2>2. n < Number => sent[<<current.id, n>>] > 0 /\ <<current.id, n>> # task.of
    BY <1>1, <2>1 DEF CountInv, ToldInv
  <2>3. n > Number => sent[<<current.id, n>>] = 0 /\ <<current.id, n>> # task.of
    BY <1>1, <2>1 DEF CountInv, ToldInv
  <2>4. n = Number => \/ sent'[<<current.id, n>>] <= doubts'[<<current.id, n>>]
                      \/ job'.step = "RECORD"
    BY <1>1, <1>3, <1>4, <1>5
  <2> QED
    BY <1>1, <1>3, <2>2, <2>3, <2>4
<1>8. NamedInv' /\ TaskInv'
  BY <1>1, <1>2 DEF CountInv, NamedInv, TaskInv
<1>9. JobInv'
  <2>1. sent'[task'.of] > 0
    BY <1>3, <1>5
  <2>2. reminder' = [status |-> "PENDING", number |-> Number]
    BY DEF CountInv, JobInv
  <2> QED
    BY <1>1, <1>2, <2>1, <2>2 DEF JobInv, Open
<1>10. RemindersCount'
  <2> SUFFICES ASSUME NEW r \in Records, NEW n \in Numbers
               PROVE  /\ sent'[<<r, n>>] <= 1 + doubts'[<<r, n>>]
                      /\ n > 0 /\ sent'[<<r, n>>] > 0 => sent'[<<r, n - 1>>] > 0
    BY DEF RemindersCount
  <2>1. /\ n \in Nat /\ (n > 0 => n - 1 \in Numbers /\ n - 1 \in Nat)
        /\ \A m \in Numbers : sent[<<r, m>>] \in Nat /\ doubts[<<r, m>>] \in Nat
    BY CountTypes, OperationsAssumption DEF Numbers
  <2>2. sent[<<r, n>>] <= 1 + doubts[<<r, n>>] /\ (n > 0 /\ sent[<<r, n>>] > 0 => sent[<<r, n - 1>>] > 0)
    BY DEF CountInv, RemindersCount
  <2>3. n > 0 => sent'[<<r, n - 1>>] >= sent[<<r, n - 1>>] /\ sent'[<<r, n - 1>>] \in Int
    <3>1. sent' \in [Records \X Numbers -> Nat]
      BY CountType DEF Delivered
    <3> QED
      BY <1>3, <2>1, <3>1
  <2>4. CASE <<r, n>> # task.of
    <3>1. sent'[<<r, n>>] = sent[<<r, n>>] /\ doubts'[<<r, n>>] >= doubts[<<r, n>>] /\ doubts'[<<r, n>>] \in Nat
      BY <1>3, <1>4, <2>4
    <3>2. sent'[<<r, n>>] <= 1 + doubts'[<<r, n>>]
      BY <2>1, <2>2, <3>1
    <3>3. n > 0 /\ sent'[<<r, n>>] > 0 => sent'[<<r, n - 1>>] > 0
      BY <2>1, <2>2, <2>3, <3>1
    <3> QED
      BY <3>2, <3>3
  <2>5. CASE <<r, n>> = task.of
    <3>1. r = current.id /\ n = Number
      BY <1>1, <2>5
    <3>2. sent'[<<r, n>>] <= 1 + doubts'[<<r, n>>]
      <4>1. sent'[<<r, n>>] = sent[<<r, n>>] + 1 /\ sent[<<r, n>>] <= doubts[<<r, n>>]
        BY <1>3, <1>5, <2>5
      <4>2. doubts'[<<r, n>>] >= doubts[<<r, n>>] /\ doubts'[<<r, n>>] \in Nat
        BY <1>4
      <4> QED
        BY <2>1, <4>1, <4>2
    <3>3. n > 0 => sent[<<r, n - 1>>] > 0
      BY <1>1, <2>1, <3>1 DEF CountInv, ToldInv
    <3> QED
      BY <2>1, <2>3, <3>2, <3>3
  <2> QED
    BY <2>4, <2>5
<1> QED
  BY <1>6, <1>7, <1>8, <1>9, <1>10 DEF CountInv

\* Only the doubts change, or the step: what was told of the next number is known
\* or doubted.
LEMMA DoubtsOnly ==
  ASSUME TypeOK, CountInv, UNCHANGED <<current, reminder, sent>>,
         \A r \in Records, n \in Numbers :
           doubts'[<<r, n>>] \in Nat /\ doubts'[<<r, n>>] >= doubts[<<r, n>>],
         \/ job.step # "RECORD"
         \/ doubts'[task.of] = doubts[task.of] + 1
  PROVE  ToldInv' /\ NamedInv' /\ RemindersCount'
<1>1. NamedInv' /\ NextToTell' = NextToTell
  BY DEF CountInv, NamedInv, NextToTell
<1>2. RemindersCount'
  <2> SUFFICES ASSUME NEW r \in Records, NEW n \in Numbers
               PROVE  /\ sent[<<r, n>>] <= 1 + doubts'[<<r, n>>]
                      /\ n > 0 /\ sent[<<r, n>>] > 0 => sent[<<r, n - 1>>] > 0
    BY DEF RemindersCount
  <2> QED
    BY CountTypes DEF CountInv, RemindersCount
<1>3. ToldInv'
  <2> SUFFICES ASSUME current.id \in Opening, NEW n \in Numbers, n = NextToTell
               PROVE  sent[<<current.id, n>>] <= doubts'[<<current.id, n>>]
    BY <1>1 DEF CountInv, ToldInv
  <2>1. current.id \in Records
    BY CountTypes
  <2>2. CASE job.step = "RECORD"
    <3>1. task.of = <<current.id, Number>> /\ n = Number
      BY <2>2, OnItsWay DEF NextToTell
    <3>2. sent[<<current.id, n>>] <= 1 + doubts[<<current.id, n>>]
      BY <2>1 DEF CountInv, RemindersCount
    <3> QED
      BY <2>1, <2>2, <3>1, <3>2, CountTypes
  <2>3. CASE job.step # "RECORD"
    <3>1. sent[<<current.id, n>>] <= doubts[<<current.id, n>>]
      BY <2>3 DEF CountInv, ToldInv
    <3> QED
      BY <2>1, <3>1, CountTypes
  <2> QED
    BY <2>2, <2>3
<1> QED
  BY <1>1, <1>2, <1>3

\* A doubt about the reminder on its way.
LEMMA DoubtMoves ==
  ASSUME TypeOK, CountInv, job.step \in {"RECORD", "DONE"}, Doubt
  PROVE  /\ \A r \in Records, n \in Numbers :
              doubts'[<<r, n>>] \in Nat /\ doubts'[<<r, n>>] >= doubts[<<r, n>>]
         /\ doubts'[task.of] = doubts[task.of] + 1
<1>1. task.of \in Records \X Numbers
  BY OnItsWay
<1>2. doubts' \in [Records \X Numbers -> Nat]
  BY CountType DEF Doubt
<1> QED
  BY <1>1, <1>2, DoubtIs

LEMMA SendFailsCounts == ASSUME TypeOK, CountInv, SendFails PROVE CountInv'
<1>1. UNCHANGED <<current, reminder>> /\ job.step = "SEND" /\ job'.step = "IDLE"
      /\ task'.of = task.of /\ task'.status = "WAITING"
  BY DEF SendFails, At, Idle, Rescheduled, TypeOK
<1>2. CASE Delivered /\ Doubt
  BY <1>1, <1>2, SendCounts
<1>3. CASE UNCHANGED <<sent, doubts>>
  <2>1. ToldInv' /\ NamedInv' /\ RemindersCount'
    BY <1>1, <1>3, CountTypes, DoubtsOnly
  <2>2. FreshInv'
    BY <1>1, <1>3, OnItsWay DEF CountInv, FreshInv, Unread, Record
  <2>3. TaskInv' /\ JobInv'
    BY <1>1, <1>3, OnItsWay DEF CountInv, TaskInv, JobInv, Open, Record, Number, NextToTell
  <2> QED
    BY <2>1, <2>2, <2>3 DEF CountInv
<1> QED
  BY <1>2, <1>3 DEF SendFails

LEMMA RefusedCounts == ASSUME TypeOK, CountInv, Refused PROVE CountInv'
<1>1. UNCHANGED <<current, sent, doubts>> /\ job.step = "SEND" /\ Update("FAILED") /\ Finish
  BY DEF Refused, At
<1>2. reminder'.status = "FAILED" /\ NextToTell' = NextToTell /\ job'.step = "IDLE"
      /\ current.initiator /\ reminder.status # "SENT"
  BY <1>1, UpdateIs, OnItsWay, FinishIs DEF NextToTell
<1>3. ToldInv'
  BY <1>1, <1>2 DEF CountInv, ToldInv
<1>4. NamedInv' /\ RemindersCount'
  BY <1>1, <1>2 DEF CountInv, NamedInv, RemindersCount
<1> QED
  BY <1>1, <1>2, <1>3, <1>4, FinishIs, Over

\* The next number is the one after the number just told.
LEMMA ToldCounts == ASSUME TypeOK, CountInv, Told PROVE CountInv'
<1>1. UNCHANGED <<current, sent, doubts, task>> /\ job.step = "RECORD" /\ Update("SENT")
      /\ job'.step = "DONE"
  BY HandlerType DEF Told, At, Go
<1>2. /\ task.status # "NONE" /\ current.initiator /\ current.id \in Opening /\ current.id \in Records
      /\ Record = current.id /\ task.of = <<current.id, Number>>
      /\ Number \in Nat /\ NextToTell = Number /\ sent[task.of] > 0 /\ reminder.status = "PENDING"
  BY <1>1, OnItsWay, CountTypes DEF NextToTell
<1>3. reminder' = [status |-> "SENT", number |-> Number] /\ Record' = Record /\ Number' = Number
      /\ NextToTell' = Number + 1
  BY <1>1, UpdateIs DEF Record, Number, NextToTell
<1>4. ToldInv'
  <2> SUFFICES ASSUME NEW n \in Numbers
               PROVE  /\ n < Number + 1 => sent[<<current.id, n>>] > 0
                      /\ n >= Number + 1 => sent[<<current.id, n>>] = 0
                      /\ 0 <= doubts[<<current.id, n>>]
    <3>1. \A n \in Numbers : n \in Nat
      BY CountTypes
    <3> QED
      BY <1>1, <1>2, <1>3, <3>1 DEF ToldInv
  <2>1. n \in Nat /\ doubts[<<current.id, n>>] \in Nat
    BY <1>2, CountTypes
  <2>2. /\ n < Number => sent[<<current.id, n>>] > 0
        /\ n > Number => sent[<<current.id, n>>] = 0
    BY <1>2 DEF CountInv, ToldInv
  <2> QED
    BY <1>2, <2>1, <2>2
<1>5. FreshInv' /\ NamedInv' /\ RemindersCount'
  BY <1>1, <1>2, <1>3 DEF CountInv, FreshInv, Unread, NamedInv, RemindersCount
<1>6. TaskInv' /\ JobInv'
  BY <1>1, <1>2, <1>3 DEF TaskInv, JobInv, Open
<1> QED
  BY <1>4, <1>5, <1>6 DEF CountInv

LEMMA DoneCounts == ASSUME TypeOK, CountInv, Done PROVE CountInv'
<1>1. UNCHANGED <<current, reminder, sent, doubts>> /\ job.step = "DONE" /\ Finish
  BY DEF Done, At
<1>2. ToldInv' /\ NamedInv' /\ RemindersCount'
  BY <1>1, CountTypes, DoubtsOnly
<1> QED
  BY <1>1, <1>2, FinishIs, Over

LEMMA BreaksCounts == ASSUME TypeOK, CountInv, Breaks PROVE CountInv'
<1>1. UNCHANGED <<current, reminder, sent>> /\ Finish
      /\ \/ job.step = "RECORD" /\ Doubt
         \/ job.step = "CHECK" /\ UNCHANGED doubts
  BY DEF Breaks, At
<1>2. ToldInv' /\ NamedInv' /\ RemindersCount'
  <2>1. CASE job.step = "RECORD" /\ Doubt
    BY <1>1, <2>1, DoubtMoves, DoubtsOnly
  <2>2. CASE job.step = "CHECK" /\ UNCHANGED doubts
    BY <1>1, <2>2, CountTypes, DoubtsOnly
  <2> QED
    BY <1>1, <2>1, <2>2
<1> QED
  BY <1>1, <1>2, FinishIs, Over

LEMMA CrashCounts == ASSUME TypeOK, CountInv, Crash PROVE CountInv'
<1>1. UNCHANGED <<current, reminder, sent, task>> /\ job'.step = "IDLE"
      /\ \/ job.step \in {"RECORD", "DONE"} /\ Doubt
         \/ job.step \notin {"RECORD", "DONE"} /\ UNCHANGED doubts
  BY DEF Crash, At, Idle
<1>2. ToldInv' /\ NamedInv' /\ RemindersCount'
  <2>1. CASE job.step \in {"RECORD", "DONE"} /\ Doubt
    BY <1>1, <2>1, DoubtMoves, DoubtsOnly
  <2>2. CASE job.step \notin {"RECORD", "DONE"} /\ UNCHANGED doubts
    BY <1>1, <2>2, CountTypes, DoubtsOnly
  <2> QED
    BY <1>1, <2>1, <2>2
<1>3. FreshInv' /\ JobInv'
  <2>1. FreshInv'
    BY <1>1 DEF CountInv, FreshInv, Unread, Record
  <2>2. JobInv'
    BY <1>1 DEF JobInv
  <2> QED
    BY <2>1, <2>2
<1>4. TaskInv'
  <2>1. CASE job.step = "RECORD"
    BY <1>1, <2>1, OnItsWay DEF TaskInv, Record, Number, NextToTell
  <2>2. CASE job.step = "DONE" /\ Doubt
    <3>1. sent[task.of] <= doubts'[task.of]
      <4>1. task.of = <<current.id, Number>> /\ Number \in Numbers /\ current.id \in Records
        BY <2>2, OnItsWay
      <4>2. sent[task.of] <= 1 + doubts[task.of] /\ sent[task.of] \in Nat /\ doubts[task.of] \in Nat
        BY <4>1, CountTypes DEF CountInv, RemindersCount
      <4> QED
        BY <2>2, <4>2, DoubtMoves
    <3> QED
      BY <1>1, <2>2, <3>1, OnItsWay DEF TaskInv, Record, Number, NextToTell
  <2>3. CASE job.step \notin {"RECORD", "DONE"} /\ UNCHANGED doubts
    BY <1>1, <2>3 DEF CountInv, TaskInv, Open, Record, Number, NextToTell
  <2> QED
    BY <1>1, <2>1, <2>2, <2>3
<1> QED
  BY <1>2, <1>3, <1>4 DEF CountInv

LEMMA CountNext == TypeOK /\ CountInv /\ [Next]_vars => CountInv'
<1> SUFFICES ASSUME TypeOK, CountInv, [Next]_vars PROVE CountInv'
  OBVIOUS
<1>1. CASE UNCHANGED vars
  BY <1>1, SameCounts DEF vars
<1>2. CASE Sync \/ SyncFails
  BY <1>2, SyncCounts
<1>3. CASE Scans
  BY <1>3, ScanCounts DEF Scans
<1>4. CASE Send
  <2>1. UNCHANGED <<current, reminder, task, doubts>> /\ job.step = "SEND" /\ job'.step = "RECORD"
        /\ Delivered
    BY <1>4, HandlerType DEF Send, At, Go
  <2> QED
    BY <2>1, OnItsWay, SendCounts
<1>5. CASE Ripen \/ Turn
           \/ \E r \in Records, row \in [valid : BOOLEAN, initiator : BOOLEAN, remark : BOOLEAN] : Edit(r, row)
  BY <1>5, SameCounts DEF Ripen, Turn, Edit
<1> QED
  BY <1>1, <1>2, <1>3, <1>4, <1>5, ClaimCounts, CheckCounts, SendFailsCounts, RefusedCounts, ToldCounts,
     DoneCounts, BreaksCounts, CrashCounts
     DEF Next, Remind

\* The counting invariant holds of every state.
THEOREM Counts == Spec => []CountInv
  BY CountInit, CountNext, TypeCorrect, PTL DEF Spec

\* The reminders of an operation count, however many registrations, numbers and
\* faults there are.
THEOREM CountSafe == Spec => []RemindersCount
  BY Counts, PTL DEF CountInv

\* Every reminder is about the operation that goes on and names somebody.
THEOREM CurrentSafe == Spec => RemindersAreCurrent
<1>1. ASSUME TypeOK, CountInv, [Next]_vars
      PROVE  [\A r \in Records, n \in Numbers :
                sent'[<<r, n>>] # sent[<<r, n>>] => Open(r) /\ current.initiator]_vars
  <2> SUFFICES ASSUME Next, NEW r \in Records, NEW n \in Numbers, sent'[<<r, n>>] # sent[<<r, n>>]
               PROVE  Open(r) /\ current.initiator
    BY <1>1
  <2>1. job.step = "SEND" /\ Delivered
    <3>1. UNCHANGED sent \/ (job.step = "SEND" /\ Delivered)
      BY DEF Next, Sync, SyncBegins, Applies, Apply, SyncFails, Scans, Scan, Claim, Remind, Check, Send,
             Told, Done, SendFails, Refused, Breaks, Crash, Ripen, Turn, Edit, At
    <3> QED
      BY <3>1
  <2>2. <<r, n>> = task.of /\ task.of = <<current.id, Number>> /\ current.id \in Opening
        /\ current.initiator
    BY <1>1, <2>1, OnItsWay, DeliveredIs
  <2> QED
    BY <2>2 DEF Open
<1> QED
  BY <1>1, TypeCorrect, Counts, PTL DEF Spec, RemindersAreCurrent

=============================================================================
