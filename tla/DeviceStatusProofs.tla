------------------------- MODULE DeviceStatusProofs -------------------------
(***************************************************************************)
(* The status board of one device, for any contents, settings and faults:  *)
(* what is reported as shown is shown, and only what is wanted is written. *)
(***************************************************************************)
EXTENDS DeviceStatus, TLAPS

-----------------------------------------------------------------------------
(* Type correctness.                                                       *)

\* What each step of a request or of an execution knows.
LEMMA JobKinds ==
  ASSUME job \in Jobs
  PROVE  /\ job.step = "SAVED" =>
              /\ job.content \in Contents /\ job.before \in Statuses
              /\ job.force \in BOOLEAN /\ job.same \in BOOLEAN
         /\ job.step \in {"CHECK", "PUT", "READ", "SETTLE"} => job.content \in Contents
         /\ job.step = "READ" => job.seen \in Boards
         /\ job.step = "SETTLE" => job.task \in Tasks
  BY DEF Jobs, Idle

LEMMA BeginType ==
  ASSUME TypeOK, NEW force \in BOOLEAN, Begin(force)
  PROVE  local' \in [desired : Contents \cup {None}, status : Statuses] /\ job' \in Jobs
<1>1. StatusFor(context) \in Statuses
  BY DEF TypeOK, StatusFor, Statuses
<1>2. local.status \in Statuses /\ (local.desired = context) \in BOOLEAN
  BY DEF TypeOK
<1> QED
  BY <1>1, <1>2 DEF TypeOK, Begin, Jobs

LEMMA MarkType ==
  ASSUME TypeOK, NEW s \in Statuses, Mark(s)
  PROVE  /\ local' \in [desired : Contents \cup {None}, status : Statuses]
         /\ local'.status = s /\ local'.desired = local.desired
  BY DEF TypeOK, Mark

LEMMA SettleType ==
  ASSUME NEW t \in Tasks, job.content \in Contents, Settle(t)
  PROVE  job' \in Jobs /\ job'.step = "SETTLE"
  BY DEF Settle, Jobs

LEMMA NoTaskType == NoTask \in Tasks
  BY DEF NoTask, Tasks

LEMMA FailType ==
  ASSUME TypeOK, job.content \in Contents, Fail
  PROVE  /\ local' \in [desired : Contents \cup {None}, status : Statuses]
         /\ local'.status \in {"FAILED", "PENDING"} /\ local'.desired = local.desired
         /\ job' \in Jobs /\ job'.step = "SETTLE"
<1> DEFINE attempt == tasks[job.content].attempt + 1
<1>1. [status |-> "WAITING", attempt |-> attempt] \in Tasks
  BY DEF TypeOK, Tasks
<1>2. CASE attempt >= MaxAttempts
  <2>1. Mark("FAILED") /\ Settle(NoTask)
    BY <1>2 DEF Fail
  <2>2. "FAILED" \in Statuses
    BY DEF Statuses
  <2> QED
    BY <2>1, <2>2, NoTaskType, MarkType, SettleType
<1>3. CASE ~(attempt >= MaxAttempts)
  <2>1. Mark("PENDING") /\ Settle([status |-> "WAITING", attempt |-> attempt])
    BY <1>3 DEF Fail
  <2>2. "PENDING" \in Statuses
    BY DEF Statuses
  <2> QED
    BY <1>1, <2>1, <2>2, MarkType, SettleType
<1> QED
  BY <1>2, <1>3

\* What the request does.
LEMMA AsksType == TypeOK /\ (Asks \/ RequestFails) => TypeOK'
<1> SUFFICES ASSUME TypeOK, Asks \/ RequestFails PROVE TypeOK'
  OBVIOUS
<1>1. UNCHANGED <<World, board, touched>>
  BY Zenon DEF Asks, Request, Decide, MarkQueued, RequestFails
<1>0. troubles' \in Nat
  <2>1. UNCHANGED troubles \/ Fault
    BY Zenon DEF Asks, Request, Decide, MarkQueued, RequestFails
  <2> QED
    BY <2>1 DEF Fault, TypeOK
<1>2. CASE Request
  <2>1. Begin(FALSE) /\ UNCHANGED tasks
    BY <1>2 DEF Request
  <2> QED
    BY <1>0, <1>1, <2>1, BeginType DEF World, TypeOK
<1>3. CASE Decide
  <2>1. Idle \in Jobs /\ [step |-> "QUEUED"] \in Jobs /\ "SHADOW_ONLY" \in Statuses
    BY DEF Jobs, Statuses
  <2>2. job' \in Jobs
    BY <1>3, <2>1 DEF Decide
  <2>3. UNCHANGED local \/ Mark("SHADOW_ONLY")
    BY <1>3 DEF Decide
  <2>4. local' \in [desired : Contents \cup {None}, status : Statuses]
    BY <2>1, <2>3, MarkType DEF TypeOK
  <2>5. \A c \in Contents : [tasks[c] EXCEPT !.status = "WAITING"] \in Tasks
    BY DEF TypeOK, Tasks
  <2>6. UNCHANGED tasks \/ tasks' = [tasks EXCEPT ![job.content] =
                                       IF @ = NoTask THEN [@ EXCEPT !.status = "WAITING"] ELSE @]
    BY <1>3 DEF Decide
  <2>7. tasks' \in [Contents -> Tasks]
    BY <2>5, <2>6 DEF TypeOK
  <2> QED
    BY <1>0, <1>1, <2>2, <2>4, <2>7 DEF World, TypeOK
<1>4. CASE MarkQueued
  <2>1. "PENDING" \in Statuses /\ "SHADOW_ONLY" \in Statuses /\ Idle \in Jobs
    BY DEF Statuses, Jobs
  <2>2. (Mark("PENDING") \/ Mark("SHADOW_ONLY")) /\ job' = Idle /\ UNCHANGED tasks
    BY <1>4 DEF MarkQueued
  <2>3. local' \in [desired : Contents \cup {None}, status : Statuses]
    BY <2>1, <2>2, MarkType
  <2> QED
    BY <1>0, <1>1, <2>1, <2>2, <2>3 DEF World, TypeOK
<1>5. CASE RequestFails
  BY <1>0, <1>1, <1>5 DEF World, RequestFails, TypeOK, Jobs
<1> QED
  BY <1>2, <1>3, <1>4, <1>5 DEF Asks

\* What the execution does before it writes.
LEMMA ChecksType ==
  TypeOK /\ (Dismiss \/ Compare \/ Refuse \/ OutOfScope \/ Read) => TypeOK'
<1> SUFFICES ASSUME TypeOK, Dismiss \/ Compare \/ Refuse \/ OutOfScope \/ Read PROVE TypeOK'
  OBVIOUS
<1>1. Calm /\ UNCHANGED touched
  BY DEF Dismiss, Compare, Refuse, OutOfScope, Read
<1>2. job.content \in Contents
  BY <1>1, JobKinds DEF Calm, TypeOK
<1>3. "SHADOW_ONLY" \in Statuses
  BY DEF Statuses
<1>4. \/ Settle(NoTask) /\ UNCHANGED local
      \/ Settle(NoTask) /\ Mark("SHADOW_ONLY")
      \/ Fail
      \/ job' = [step |-> "READ", content |-> job.content, seen |-> board] /\ UNCHANGED local
  BY DEF Dismiss, Compare, Refuse, OutOfScope, Read
<1>5. local' \in [desired : Contents \cup {None}, status : Statuses]
  BY <1>2, <1>3, <1>4, MarkType, FailType DEF TypeOK
<1>6. [step |-> "READ", content |-> job.content, seen |-> board] \in Jobs
  BY <1>2 DEF TypeOK, Jobs
<1>7. job' \in Jobs
  BY <1>2, <1>4, <1>6, NoTaskType, SettleType, FailType
<1> QED
  BY <1>1, <1>5, <1>7 DEF Calm, World, TypeOK

\* What a PUT may leave on the board.
LEMMA PatchedType ==
  ASSUME TypeOK, job.content \in Contents, NEW shown \in Patched(board)
  PROVE  [board EXCEPT !.shows = shown] \in Boards
<1>1. shown \in Contents \cup {Other, Gone}
  BY DEF Patched
<1> QED
  BY <1>1 DEF TypeOK, Boards

LEMMA WritesType == TypeOK /\ (Put \/ CallFails \/ Succeed \/ Finish) => TypeOK'
<1> SUFFICES ASSUME TypeOK, Put \/ CallFails \/ Succeed \/ Finish PROVE TypeOK'
  OBVIOUS
<1>1. job.step \in {"CHECK", "PUT", "READ", "SETTLE"}
  BY DEF Put, CallFails, Succeed, Finish
<1>2. job.content \in Contents
  BY <1>1, JobKinds DEF TypeOK
<1>3. CASE Put
  <2>1. "DELETED" \in Statuses /\ Execution("PUT", job.content) \in Jobs
    BY <1>2 DEF Statuses, Jobs, Execution
  <2>2. \/ job' = Execution("PUT", job.content) /\ UNCHANGED local
        \/ Mark("DELETED") /\ Settle(NoTask)
    BY <1>3 DEF Put
  <2>3. local' \in [desired : Contents \cup {None}, status : Statuses] /\ job' \in Jobs
    BY <1>2, <2>1, <2>2, MarkType, NoTaskType, SettleType DEF TypeOK
  <2>4. UNCHANGED board \/ \E shown \in Patched(board) : board' = [board EXCEPT !.shows = shown]
    BY <1>3 DEF Put
  <2>5. board' \in Boards
    BY <1>2, <2>4, PatchedType DEF TypeOK
  <2>6. UNCHANGED <<World, tasks, troubles>> /\ touched' \in BOOLEAN
    BY <1>3 DEF Put
  <2> QED
    BY <2>3, <2>5, <2>6 DEF TypeOK, World
<1>4. CASE CallFails
  <2>1. UNCHANGED board \/ \E shown \in Patched(board) : board' = [board EXCEPT !.shows = shown]
    BY <1>4 DEF CallFails
  <2>2. board' \in Boards
    BY <1>2, <2>1, PatchedType DEF TypeOK
  <2>3. Fail /\ UNCHANGED <<World, tasks, touched>> /\ troubles' \in Nat
    BY <1>4 DEF CallFails, Fault, TypeOK
  <2> QED
    BY <1>2, <2>2, <2>3, FailType DEF TypeOK, World
<1>5. CASE Succeed
  <2>1. "SUCCEEDED" \in Statuses
    BY DEF Statuses
  <2> QED
    BY <1>2, <1>5, <2>1, MarkType, NoTaskType, SettleType DEF Succeed, TypeOK, World
<1>6. CASE Finish
  <2>1. job.task \in Tasks /\ Idle \in Jobs
    BY <1>6, JobKinds DEF Finish, TypeOK, Jobs
  <2> QED
    BY <1>2, <1>6, <2>1 DEF Finish, TypeOK, World
<1> QED
  BY <1>3, <1>4, <1>5, <1>6

LEMMA ClaimType == ASSUME TypeOK, NEW c \in Contents, Claim(c) PROVE TypeOK'
<1>1. [tasks[c] EXCEPT !.status = "RUNNING"] \in Tasks
  BY DEF TypeOK, Tasks
<1>2. tasks' \in [Contents -> Tasks]
  BY <1>1 DEF Claim, TypeOK
<1>3. job' \in Jobs
  BY DEF Claim, Execution, Jobs
<1> QED
  BY <1>2, <1>3 DEF Claim, World, TypeOK

LEMMA QuarantineType == ASSUME TypeOK, Quarantine PROVE TypeOK'
  BY NoTaskType DEF Quarantine, World, TypeOK

LEMMA SurroundingsType == TypeOK /\ (Restart \/ Change \/ TurnReady \/ Meddle) => TypeOK'
<1> SUFFICES ASSUME TypeOK, Restart \/ Change \/ TurnReady \/ Meddle PROVE TypeOK'
  OBVIOUS
<1>1. CASE Restart
  <2>1. Begin(TRUE) /\ UNCHANGED <<context, ready, meddles, changes, board, touched>>
        /\ setting' \in Settings
    BY <1>1, Zenon DEF Restart
  <2>0. troubles' \in Nat
    BY <1>1 DEF Restart, Fault, TypeOK
  <2>2. UNCHANGED tasks \/ tasks' = [c \in Contents |-> NoTask]
    BY <1>1 DEF Restart
  <2>3. tasks' \in [Contents -> Tasks]
    BY <2>2, NoTaskType DEF TypeOK
  <2> QED
    BY <2>0, <2>1, <2>3, BeginType DEF TypeOK
<1>2. CASE Change
  BY <1>2 DEF Change, TypeOK
<1>3. CASE TurnReady
  BY <1>3 DEF TurnReady, Fault, TypeOK
<1>4. CASE Meddle
  <2>1. board' \in Boards
    BY <1>4 DEF Meddle, TypeOK, Boards
  <2> QED
    BY <1>4, <2>1 DEF Meddle, TypeOK
<1> QED
  BY <1>1, <1>2, <1>3, <1>4

LEMMA TypeInit == Init => TypeOK
<1> SUFFICES ASSUME Init PROVE TypeOK
  OBVIOUS
<1>1. local \in [desired : Contents \cup {None}, status : Statuses]
  BY DEF Init, Statuses
<1>2. board \in Boards
  BY DEF Init, Boards
<1>3. job \in Jobs
  BY DEF Init, Jobs
<1> QED
  BY <1>1, <1>2, <1>3, NoTaskType DEF Init, TypeOK

LEMMA TypeNext == TypeOK /\ [Next]_vars => TypeOK'
<1> SUFFICES ASSUME TypeOK, [Next]_vars PROVE TypeOK'
  OBVIOUS
<1>1. CASE UNCHANGED vars
  BY <1>1 DEF vars, TypeOK
<1> QED
  BY <1>1, AsksType, ChecksType, WritesType, QuarantineType, ClaimType,
     SurroundingsType DEF Next, Steps

\* Every variable keeps its type, in particular what each step of a request or
\* an execution carries over to the next.
THEOREM TypeCorrect == Spec => []TypeOK
  BY TypeInit, TypeNext, PTL DEF Spec

-----------------------------------------------------------------------------
(* What a step writes, and what is reported of it.  The execution lock     *)
(* keeps the wanted content as it was when the task was compared with it.  *)

\* A task that has read the row or written it is about what is wanted, in an
\* Active process; a row that changed since it was read was touched.
WriteInv ==
  /\ job.step = "READ" => /\ job.content = local.desired /\ Writing
                          /\ board # job.seen => touched
  /\ job.step = "PUT"  => /\ job.content = local.desired
                          /\ ~touched => board.shows = job.content

BoardInv == WriteInv /\ SucceededIsShown

LEMMA BoardInit == Init => BoardInv
  BY DEF Init, BoardInv, WriteInv, SucceededIsShown, Idle

LEMMA AsksKeepBoard == TypeOK /\ BoardInv /\ (Asks \/ RequestFails) => BoardInv'
<1> SUFFICES ASSUME TypeOK, BoardInv, Asks \/ RequestFails PROVE BoardInv'
  OBVIOUS
<1>1. UNCHANGED <<board, touched>> /\ job'.step \in {"SAVED", "QUEUED", "IDLE"}
  BY DEF Asks, Request, Begin, Decide, MarkQueued, RequestFails, Idle
<1>2. local'.status = "SUCCEEDED" => local.status = "SUCCEEDED" /\ local'.desired = local.desired
  <2>1. CASE Request
    BY <2>1 DEF Request, Begin, StatusFor
  <2>2. CASE Decide
    BY <2>2, MarkType DEF Decide, Statuses, TypeOK
  <2>3. CASE MarkQueued
    BY <2>3, MarkType DEF MarkQueued, Statuses
  <2>4. CASE RequestFails
    BY <2>4 DEF RequestFails
  <2> QED
    BY <2>1, <2>2, <2>3, <2>4 DEF Asks
<1> QED
  BY <1>1, <1>2 DEF BoardInv, WriteInv, SucceededIsShown

LEMMA StepsKeepBoard ==
  TypeOK /\ BoardInv /\ (Steps \/ CallFails) => BoardInv'
<1> SUFFICES ASSUME TypeOK, BoardInv, Steps \/ CallFails PROVE BoardInv'
  OBVIOUS
<1>1. job.step \in {"CHECK", "PUT", "READ", "SETTLE"}
  BY DEF Steps, Calm, Dismiss, Compare, Refuse, OutOfScope, Read, Put, Succeed, CallFails, Finish
<1>2. job.content \in Contents
  BY <1>1, JobKinds DEF TypeOK
<1>3. ASSUME Fail PROVE BoardInv'
  BY <1>2, <1>3, FailType DEF BoardInv, WriteInv, SucceededIsShown
<1>4. ASSUME Settle(NoTask), NEW s \in Statuses \ {"SUCCEEDED"}, Mark(s) PROVE BoardInv'
  BY <1>2, <1>4, NoTaskType, SettleType, MarkType DEF BoardInv, WriteInv, SucceededIsShown
<1>5. ASSUME job'.step \in {"SETTLE", "IDLE"}, UNCHANGED <<local, board, touched>> PROVE BoardInv'
  BY <1>5 DEF BoardInv, WriteInv, SucceededIsShown
<1>6. "SHADOW_ONLY" \in Statuses \ {"SUCCEEDED"} /\ "DELETED" \in Statuses \ {"SUCCEEDED"}
      /\ "SUCCEEDED" \in Statuses
  BY DEF Statuses
<1>7. CASE Dismiss
  BY <1>2, <1>5, <1>7, NoTaskType, SettleType DEF Dismiss, Calm
<1>8. CASE Compare
  BY <1>3, <1>4, <1>6, <1>8 DEF Compare
<1>9. CASE Refuse
  BY <1>3, <1>9 DEF Refuse
<1>10. CASE OutOfScope
  BY <1>4, <1>6, <1>10 DEF OutOfScope
<1>11. CASE Read
  <2>1. CASE board.shows = Gone
    BY <1>3, <1>11, <2>1 DEF Read
  <2>2. CASE board.shows # Gone
    <3>1. job' = [step |-> "READ", content |-> job.content, seen |-> board]
          /\ UNCHANGED <<local, board, touched, setting>> /\ Writing /\ Wanted
      BY <1>11, <2>2 DEF Read, Calm, World
    <3> QED
      BY <3>1 DEF BoardInv, WriteInv, SucceededIsShown, Wanted, Superseded, Writing
  <2> QED
    BY <2>1, <2>2
<1>12. CASE Put
  <2>1. /\ job.step = "READ" /\ job.content = local.desired /\ Writing
        /\ board # job.seen => touched
        /\ touched' = (touched /\ board # job.seen)
        /\ UNCHANGED setting
    BY <1>12 DEF Put, BoardInv, WriteInv, World
  <2>2. touched' \/ board = job.seen
    BY <2>1
  <2>3. CASE job.seen.shows = job.content
    <3>1. job' = Execution("PUT", job.content) /\ UNCHANGED <<board, local>>
      BY <1>12, <2>3 DEF Put
    <3> QED
      BY <2>1, <2>2, <2>3, <3>1 DEF Execution, BoardInv, WriteInv, SucceededIsShown
  <2>4. CASE job.seen.shows # job.content /\ (board.row # job.seen.row \/ board.shows = Gone)
    BY <1>4, <1>6, <1>12, <2>4 DEF Put
  <2>5. CASE job.seen.shows # job.content /\ ~(board.row # job.seen.row \/ board.shows = Gone)
    <3>1. PICK shown \in Patched(board) : board' = [board EXCEPT !.shows = shown]
                                          /\ job' = Execution("PUT", job.content) /\ UNCHANGED local
      BY <1>12, <2>5 DEF Put
    <3>2. board'.shows = shown
      BY <3>1 DEF TypeOK, Boards
    <3>3. touched' \/ shown = job.content
      BY <2>2 DEF Patched
    <3> QED
      BY <2>1, <3>1, <3>2, <3>3 DEF Execution, BoardInv, WriteInv, SucceededIsShown
  <2> QED
    BY <2>3, <2>4, <2>5
<1>13. CASE Succeed
  <2>1. Mark("SUCCEEDED") /\ Settle(NoTask) /\ UNCHANGED <<board, touched>>
        /\ job.content = local.desired /\ (~touched => board.shows = job.content)
    BY <1>13 DEF Succeed, BoardInv, WriteInv
  <2> QED
    BY <1>2, <1>6, <2>1, NoTaskType, SettleType, MarkType DEF BoardInv, WriteInv, SucceededIsShown
<1>14. CASE Finish
  BY <1>5, <1>14 DEF Finish, Idle
<1>15. CASE CallFails
  BY <1>3, <1>15 DEF CallFails
<1> QED
  BY <1>7, <1>8, <1>9, <1>10, <1>11, <1>12, <1>13, <1>14, <1>15 DEF Steps

LEMMA OthersKeepBoard ==
  ASSUME TypeOK, BoardInv,
         \/ Quarantine \/ \E c \in Contents : Claim(c)
         \/ Restart \/ Change \/ TurnReady \/ Meddle
  PROVE  BoardInv'
<1>1. ASSUME NEW c \in Contents, Claim(c) PROVE BoardInv'
  BY <1>1 DEF Claim, Execution, BoardInv, WriteInv, SucceededIsShown
<1>2. CASE Quarantine
  BY <1>2 DEF Quarantine, BoardInv, WriteInv, SucceededIsShown, World, Writing
<1>3. CASE Restart
  BY <1>3 DEF Restart, Begin, StatusFor, BoardInv, WriteInv, SucceededIsShown
<1>4. CASE Change
  BY <1>4 DEF Change, BoardInv, WriteInv, SucceededIsShown, Writing
<1>5. CASE TurnReady
  BY <1>5 DEF TurnReady, BoardInv, WriteInv, SucceededIsShown, Writing
<1>6. CASE Meddle
  BY <1>6 DEF Meddle, BoardInv, WriteInv, SucceededIsShown, Writing
<1> QED
  BY <1>1, <1>2, <1>3, <1>4, <1>5, <1>6

LEMMA BoardNext == TypeOK /\ BoardInv /\ [Next]_vars => BoardInv'
<1> SUFFICES ASSUME TypeOK, BoardInv, [Next]_vars PROVE BoardInv'
  OBVIOUS
<1>1. CASE UNCHANGED vars
  BY <1>1 DEF vars, BoardInv, WriteInv, SucceededIsShown, Writing
<1> QED
  BY <1>1, AsksKeepBoard, StepsKeepBoard, OthersKeepBoard DEF Next

LEMMA BoardSafe == Spec => []BoardInv
  BY TypeInit, TypeNext, BoardInit, BoardNext, PTL DEF Spec

\* What is reported as shown is shown, unless people touched the board since.
THEOREM ShownSafe == Spec => []SucceededIsShown
<1>1. BoardInv => SucceededIsShown
  BY DEF BoardInv
<1> QED
  BY <1>1, BoardSafe, PTL

\* Only what is wanted at that moment is written, and only by an Active process.
THEOREM PutsSafe == Spec => PutsWhatIsDesired
<1>1. TypeOK /\ BoardInv /\ [Next]_vars
        => [board'.shows \in Contents /\ board'.shows # board.shows
              => board'.shows = local.desired /\ Writing]_vars
  <2> SUFFICES ASSUME TypeOK, BoardInv, Next,
                      board'.shows \in Contents, board'.shows # board.shows
               PROVE  board'.shows = local.desired /\ Writing
    OBVIOUS
  <2>1. Put \/ CallFails \/ Meddle
    BY DEF Next, Asks, Steps, Request, Decide, MarkQueued, RequestFails, Quarantine, Claim,
           Calm, Dismiss,
           Compare, Refuse, OutOfScope, Read, Succeed, Finish, Restart, Change, TurnReady
  <2>2. ~Meddle
    BY DeviceStatusAssumption DEF Meddle, TypeOK, Boards
  <2>3. job.step = "READ" /\ \E shown \in Patched(board) : board' = [board EXCEPT !.shows = shown]
    BY <2>1, <2>2 DEF Put, CallFails
  <2>4. board'.shows = job.content
    BY <2>3, DeviceStatusAssumption DEF Patched, TypeOK, Boards
  <2> QED
    BY <2>3, <2>4 DEF BoardInv, WriteInv
<1> QED
  BY <1>1, BoardSafe, TypeCorrect, PTL DEF Spec, PutsWhatIsDesired

=============================================================================
