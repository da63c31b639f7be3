------------------------- MODULE NotificationProofs -------------------------
(***************************************************************************)
(* Safety of Notification for any number of directions, events, episodes   *)
(* and attempts, and any number of failures and deaths of the process.     *)
(***************************************************************************)
EXTENDS Notification, SequenceTheorems, TLAPS

Notice == [task : {"NONE", "PENDING", "RUNNING", "SUCCEEDED", "FAILED", "CANCELLED"},
           attempt : 0..(MaxAttempts - 1),
           marker : {"NONE", "ATTEMPTED", "SUCCEEDED"}, sent : Nat]

\* Only an event has a row to write.
Action == {a \in [act : {"CREATE", "RECOVER", "NOTIFY"}, key : Keys] :
             a.act # "NOTIFY" => a.key.kind \in Formal}

Job == [key : Keys, by : {"TASK", "INLINE"}, step : {"CHECK", "SEND", "RECORD", "SETTLE"},
        result : {"NONE", "OK", "RETRY", "FAIL"}]

-----------------------------------------------------------------------------
(* The inductive invariant.                                                *)

\* Types, of the variables that TypeOK leaves open too.
ShapeInv ==
  /\ TypeOK
  /\ troubles \in 0..MaxTroubles
  /\ todo \in Seq(Action)
  /\ job = NoJob \/ job \in Job

\* An alarm has an event, and a warning that is shown has an identity.
StateInv ==
  /\ Raised => cycle # 0
  /\ warning.active => warning.episode # 0 /\ warning.direction # Clear

\* What a delivery knows from its earlier steps: its notice was attempted and
\* not delivered, and what forbids a warning now was reopened since it was
\* prepared.
JobInv ==
  /\ job.by = "TASK" => notices[job.key].task # "NONE"
  /\ job.by = "INLINE" => todo # <<>>
  /\ job.step \in {"SEND", "RECORD"} => notices[job.key].marker = "ATTEMPTED"
  /\ job.step = "SEND" /\ Advisory(job.key) => ~Raised /\ OpenRows \subseteq surfaced

\* The answer that the delivery in progress still has to record.
Arriving(k) == job.step = "RECORD" /\ job.result = "OK" /\ job.key = k

\* One acceptance is known by the marker, or is about to be; the others are
\* doubts, and every doubt was a trouble.
SentInv ==
  \A k \in Keys : /\ doubts[k] <= troubles
                  /\ notices[k].sent <= doubts[k] + 1
                  /\ \/ notices[k].sent <= doubts[k]
                     \/ notices[k].marker = "SUCCEEDED"
                     \/ Arriving(k)

\* An episode whose withdrawal was told is one of the past.
WithdrawnInv ==
  \A k \in Keys : k.kind = "PREWARNING_RECOVERY" /\ notices[k].task # "NONE"
                   => k.of <= episodes /\ warning.episode # k.of

NoticeInv == ShapeInv /\ StateInv /\ JobInv /\ SentInv /\ WithdrawnInv

-----------------------------------------------------------------------------
(* Identities, jobs and the types they have.                               *)

LEMMA KeyKind ==
  ASSUME NEW k \in Keys
  PROVE  /\ k.kind \in Formal \cup Advisories
         /\ k.kind \in Formal => k.of \in Events
         /\ k.kind \in Advisories => k.of \in 1..MaxEpisodes /\ k.about \in Directions
  BY DEF Keys, Formal, Advisories

LEMMA EventKeys ==
  ASSUME NEW e \in Events
  PROVE  /\ Key("ALARM", e, Clear) \in Keys
         /\ Key("RECOVERY", e, "STARTED") \in Keys
         /\ Key("RECOVERY", e, "ENDED") \in Keys
  BY DEF Key, Keys

LEMMA EpisodeKeys ==
  ASSUME NEW n \in 1..MaxEpisodes, NEW d \in Directions
  PROVE  Key("PREWARNING", n, d) \in Keys /\ Key("PREWARNING_RECOVERY", n, d) \in Keys
  BY DEF Key, Keys

LEMMA KeyFields ==
  ASSUME NEW kind, NEW of, NEW about
  PROVE  /\ Key(kind, of, about).kind = kind
         /\ Key(kind, of, about).of = of
         /\ Key(kind, of, about).about = about
  BY DEF Key

LEMMA NoJobIs == NoJob.by = "NONE" /\ NoJob.step = "IDLE" /\ NoJob.result = "NONE"
  BY DEF NoJob

\* The parts of ShapeInv by name.
LEMMA Shapes ==
  ASSUME ShapeInv
  PROVE  /\ cycle \in 0..MaxEvents /\ episodes \in 0..MaxEpisodes
         /\ owed \subseteq 1..cycle /\ bound \subseteq Events /\ surfaced \subseteq Events
         /\ row \in [Events -> {"NONE", "OPEN", "CLOSED"}]
         /\ warning \in [active : BOOLEAN, episode : 0..episodes,
                         direction : Directions \cup {Clear}]
         /\ notices \in [Keys -> Notice] /\ doubts \in [Keys -> 0..MaxTroubles]
         /\ troubles \in 0..MaxTroubles /\ MaxTroubles \in Nat
         /\ todo \in Seq(Action)
         /\ job = NoJob \/ job \in Job
  BY NotificationAssumption DEF ShapeInv, TypeOK, Notice

\* Nothing but the deliveries and their bookkeeping moved.
World == <<state, cycle, row, bound, owed, warning, episodes>>

LEMMA ShapeNext ==
  ASSUME ShapeInv, UNCHANGED World, surfaced' \subseteq Events,
         notices' \in [Keys -> Notice], doubts' \in [Keys -> 0..MaxTroubles],
         troubles' \in 0..MaxTroubles, todo' \in Seq(Action), job' = NoJob \/ job' \in Job
  PROVE  ShapeInv'
  BY DEF ShapeInv, TypeOK, World, Notice, Job

LEMMA WorldKept ==
  ASSUME UNCHANGED World
  PROVE  /\ (Raised' <=> Raised) /\ OpenRows' = OpenRows
         /\ StateInv => StateInv'
  BY DEF World, Unclosed, Raised, OpenRows, StateInv

\* A step that arms nothing keeps what was withdrawn.
LEMMA WithdrawnKept ==
  ASSUME WithdrawnInv, UNCHANGED World,
         \A k \in Keys : notices'[k].task # "NONE" => notices[k].task # "NONE"
  PROVE  WithdrawnInv'
  BY DEF WithdrawnInv, World

-----------------------------------------------------------------------------
(* Markers.                                                                *)

\* What a marker's update leaves alone; a delivered marker stays.
MarksKept ==
  /\ notices' \in [Keys -> Notice]
  /\ \A k \in Keys : /\ notices'[k].task = notices[k].task
                     /\ notices'[k].sent = notices[k].sent
                     /\ notices[k].marker = "SUCCEEDED" => notices'[k].marker = "SUCCEEDED"

LEMMA MarkStep ==
  ASSUME ShapeInv, NEW k \in Keys, NEW m \in {"ATTEMPTED", "SUCCEEDED"},
         Mark(k, m) \/ MarkAdvice(k, m), notices[k].marker # "SUCCEEDED"
  PROVE  /\ MarksKept /\ notices'[k].marker = m
         /\ \A j \in Keys \ {k} : notices'[j] = notices[j]
<1> DEFINE n == [notices[k] EXCEPT !.marker = m]
<1>1. notices \in [Keys -> Notice] /\ notices[k] \in Notice
  BY Shapes
<1>2. notices' = [notices EXCEPT ![k] = n]
  BY <1>1 DEF Mark, MarkAdvice
<1>3. /\ n \in Notice /\ n.marker = m
      /\ n.task = notices[k].task /\ n.sent = notices[k].sent
  BY <1>1 DEF Notice
<1> HIDE DEF n
<1> QED
  BY <1>1, <1>2, <1>3 DEF MarksKept

LEMMA UnmarkedStep ==
  ASSUME ShapeInv, UNCHANGED notices
  PROVE  MarksKept
  BY Shapes DEF MarksKept

\* Marks may move while no acceptance is on its way to its marker.
LEMMA SentKept ==
  ASSUME ShapeInv, SentInv, UNCHANGED doubts,
         troubles' \in 0..MaxTroubles, troubles <= troubles',
         \A k \in Keys : /\ notices'[k].sent = notices[k].sent
                         /\ notices[k].marker = "SUCCEEDED" => notices'[k].marker = "SUCCEEDED",
         \A k \in Keys : Arriving(k) => (Arriving(k))' \/ notices'[k].marker = "SUCCEEDED"
  PROVE  SentInv'
<1> SUFFICES ASSUME NEW k \in Keys
             PROVE  /\ doubts'[k] <= troubles'
                    /\ notices'[k].sent <= doubts'[k] + 1
                    /\ \/ notices'[k].sent <= doubts'[k]
                       \/ notices'[k].marker = "SUCCEEDED"
                       \/ (Arriving(k))'
  BY DEF SentInv
<1>1. /\ notices'[k].sent = notices[k].sent
      /\ notices[k].marker = "SUCCEEDED" => notices'[k].marker = "SUCCEEDED"
  OBVIOUS
<1>2. /\ doubts[k] <= troubles /\ notices[k].sent <= doubts[k] + 1
      /\ notices[k].sent <= doubts[k] \/ notices[k].marker = "SUCCEEDED" \/ Arriving(k)
  BY DEF SentInv
<1>3. doubts[k] \in 0..MaxTroubles /\ troubles \in 0..MaxTroubles /\ MaxTroubles \in Nat
  BY Shapes
<1>4. doubts'[k] <= troubles'
  BY <1>2, <1>3
<1> QED
  BY <1>1, <1>2, <1>4

-----------------------------------------------------------------------------
(* What is being executed.                                                 *)

LEMMA CurrentIs ==
  ASSUME NoticeInv, Current.step = "CHECK"
  PROVE  /\ Current \in Job
         /\ Current.by = "TASK" => notices[Current.key].task # "NONE"
         /\ Current.by = "INLINE" => todo # <<>>
         /\ \A k \in Keys : ~Arriving(k)
<1>1. CASE job = NoJob /\ todo # <<>> /\ Head(todo).act = "NOTIFY"
  <2>1. Head(todo) \in Action
    BY <1>1, HeadTailProperties DEF NoticeInv, ShapeInv
  <2>2. Current = [key |-> Head(todo).key, by |-> "INLINE", step |-> "CHECK", result |-> "NONE"]
    BY <1>1 DEF Current
  <2> QED
    BY <1>1, <2>1, <2>2, NoJobIs DEF Job, Action, Arriving
<1>2. CASE ~(job = NoJob /\ todo # <<>> /\ Head(todo).act = "NOTIFY")
  <2>1. Current = job
    BY <1>2 DEF Current
  <2>2. job \in Job
    BY <2>1, NoJobIs DEF NoticeInv, ShapeInv
  <2> QED
    BY <2>1, <2>2 DEF NoticeInv, JobInv, Arriving
<1> QED
  BY <1>1, <1>2

\* An execution that ends without a send.
LEMMA ConcludeInv ==
  ASSUME NoticeInv, Current.step = "CHECK", NEW result \in {"OK", "RETRY", "FAIL"},
         Conclude(result), UNCHANGED <<state, cycle, row, bound, owed, warning, episodes, todo,
                                       doubts, surfaced>>,
         troubles' \in 0..MaxTroubles, troubles <= troubles', MarksKept
  PROVE  NoticeInv'
<1>1. /\ Current \in Job /\ \A k \in Keys : ~Arriving(k)
      /\ Current.by = "TASK" => notices[Current.key].task # "NONE"
      /\ Current.by = "INLINE" => todo # <<>>
  BY CurrentIs
<1>2. /\ job' \in Job /\ job'.key = Current.key /\ job'.by = Current.by
      /\ job'.step = "SETTLE" /\ job'.key \in Keys
  BY <1>1 DEF Conclude, Job
<1>3. UNCHANGED World
  BY DEF World
<1>4. ShapeInv'
  BY <1>2, <1>3, ShapeNext, Shapes DEF NoticeInv, MarksKept
<1>5. StateInv'
  BY <1>3, WorldKept DEF NoticeInv
<1>6. JobInv'
  BY <1>1, <1>2 DEF JobInv, MarksKept
<1>7. SentInv'
  BY <1>1, SentKept DEF NoticeInv, MarksKept
<1>8. WithdrawnInv'
  BY <1>3, WithdrawnKept DEF NoticeInv, MarksKept
<1> QED
  BY <1>4, <1>5, <1>6, <1>7, <1>8 DEF NoticeInv

\* A send is prepared: the notice was not delivered, and a warning is allowed.
LEMMA PrepareInv ==
  ASSUME NoticeInv, PrepareNotice \/ PrepareAdvice
  PROVE  NoticeInv'
<1>1. /\ Current.step = "CHECK" /\ MayGo(Current.key)
      /\ job' = [Current EXCEPT !.step = "SEND"]
      /\ UNCHANGED <<state, cycle, row, bound, owed, warning, episodes, todo, gate, troubles,
                     doubts, surfaced>>
      /\ Mark(Current.key, "ATTEMPTED") \/ MarkAdvice(Current.key, "ATTEMPTED")
  BY DEF PrepareNotice, PrepareAdvice, Checking
<1>2. /\ Current \in Job /\ \A k \in Keys : ~Arriving(k)
      /\ Current.by = "TASK" => notices[Current.key].task # "NONE"
      /\ Current.by = "INLINE" => todo # <<>>
  BY <1>1, CurrentIs
<1>3. /\ job' \in Job /\ job'.key = Current.key /\ job'.by = Current.by
      /\ job'.step = "SEND" /\ job'.key \in Keys
  BY <1>1, <1>2 DEF Job
<1>4. MarksKept /\ notices'[Current.key].marker = "ATTEMPTED"
  BY <1>1, <1>3, MarkStep DEF NoticeInv, MayGo, AlreadySent
<1>5. UNCHANGED World
  BY <1>1 DEF World
<1>6. ShapeInv'
  BY <1>1, <1>3, <1>4, <1>5, ShapeNext, Shapes DEF NoticeInv, MarksKept
<1>7. StateInv'
  BY <1>5, WorldKept DEF NoticeInv
<1>8. JobInv'
  <2>1. Advisory(job'.key) => ~Raised' /\ OpenRows' = {}
    BY <1>1, <1>3, <1>5, WorldKept DEF MayGo, Suppressed, Unclosed
  <2> QED
    BY <1>1, <1>2, <1>3, <1>4, <2>1 DEF JobInv, MarksKept
<1>9. SentInv'
  BY <1>1, <1>2, <1>4, SentKept, Shapes DEF NoticeInv, MarksKept
<1>10. WithdrawnInv'
  BY <1>4, <1>5, WithdrawnKept DEF NoticeInv, MarksKept
<1> QED
  BY <1>6, <1>7, <1>8, <1>9, <1>10 DEF NoticeInv

-----------------------------------------------------------------------------
(* The invariant, action by action: a delivery.                            *)

LEMMA DismissedInv ==
  ASSUME NoticeInv, Refused \/ DismissNotice \/ DismissAdvice \/ ClosureUnknown
  PROVE  NoticeInv'
<1>1. Current.step = "CHECK" /\ UNCHANGED <<state, cycle, row, bound, owed, warning, episodes,
                                            todo, doubts, surfaced>>
  BY DEF Refused, DismissNotice, DismissAdvice, ClosureUnknown, Checking
<1>2. UNCHANGED notices /\ \E result \in {"OK", "RETRY", "FAIL"} : Conclude(result)
  BY DEF Refused, DismissNotice, DismissAdvice, ClosureUnknown
<1>3. troubles' \in 0..MaxTroubles /\ troubles <= troubles'
  BY Shapes DEF NoticeInv, Refused, DismissNotice, DismissAdvice, ClosureUnknown
<1> QED
  BY <1>1, <1>2, <1>3, ConcludeInv, UnmarkedStep DEF NoticeInv

LEMMA RecipientInv ==
  ASSUME NoticeInv, NEW why \in NoRecipient, NoticeRecipientFails(why) \/ AdviceRecipientFails(why)
  PROVE  NoticeInv'
<1>1. /\ Current.step = "CHECK" /\ MayGo(Current.key)
      /\ UNCHANGED <<state, cycle, row, bound, owed, warning, episodes, todo, doubts, surfaced>>
      /\ troubles < MaxTroubles /\ troubles' = troubles + 1
  BY DEF NoticeRecipientFails, AdviceRecipientFails, Checking
<1>2. \E result \in {"OK", "RETRY", "FAIL"} : Conclude(result)
  BY DEF NoticeRecipientFails, AdviceRecipientFails, NoRecipient
<1>3. \/ Mark(Current.key, "ATTEMPTED") \/ MarkAdvice(Current.key, "ATTEMPTED")
      \/ UNCHANGED notices
  BY DEF NoticeRecipientFails, AdviceRecipientFails
<1>4. Current.key \in Keys
  BY <1>1, CurrentIs DEF Job
<1>5. MarksKept
  BY <1>1, <1>3, <1>4, MarkStep, UnmarkedStep DEF NoticeInv, MayGo, AlreadySent
<1>6. troubles' \in 0..MaxTroubles /\ troubles <= troubles'
  BY <1>1, Shapes DEF NoticeInv
<1> QED
  BY <1>1, <1>2, <1>5, <1>6, ConcludeInv

LEMMA SendInv ==
  ASSUME NoticeInv, NEW accepted \in BOOLEAN, NEW result \in {"OK", "RETRY", "FAIL"},
         Send(accepted, result)
  PROVE  NoticeInv'
<1> DEFINE k == job.key
           n == [notices[k] EXCEPT !.sent = notices[k].sent + 1]
<1>1. /\ job.step = "SEND" /\ (accepted \/ result # "OK")
      /\ result # "OK" => troubles < MaxTroubles
      /\ notices' = IF accepted THEN [notices EXCEPT ![job.key].sent = @ + 1] ELSE notices
      /\ job' = [job EXCEPT !.step = "RECORD", !.result = result]
      /\ troubles' = IF result = "OK" THEN troubles ELSE troubles + 1
      /\ doubts' = IF accepted /\ result # "OK"
                   THEN [doubts EXCEPT ![job.key] = doubts[job.key] + 1] ELSE doubts
      /\ UNCHANGED todo /\ surfaced' = {}
  BY DEF Send
<1>2. job \in Job /\ k \in Keys
  BY <1>1, NoJobIs DEF NoticeInv, ShapeInv, Job
<1>3. job' \in Job /\ job'.key = k /\ job'.by = job.by /\ job'.step = "RECORD" /\ job'.result = result
  BY <1>1, <1>2 DEF Job
<1>4. /\ notices \in [Keys -> Notice] /\ notices[k] \in Notice /\ doubts \in [Keys -> 0..MaxTroubles]
      /\ troubles \in 0..MaxTroubles /\ MaxTroubles \in Nat
  BY <1>2, Shapes DEF NoticeInv
<1>5. notices' = IF accepted THEN [notices EXCEPT ![k] = n] ELSE notices
  BY <1>1, <1>4
<1>6. /\ n \in Notice /\ n.task = notices[k].task /\ n.marker = notices[k].marker
      /\ n.sent = notices[k].sent + 1
  BY <1>4 DEF Notice
<1>7. UNCHANGED World
  BY DEF Send, World
<1>8. /\ notices[k].marker = "ATTEMPTED" /\ \A j \in Keys : ~Arriving(j)
      /\ doubts[k] <= troubles /\ notices[k].sent <= doubts[k]
  BY <1>1, <1>2 DEF NoticeInv, JobInv, SentInv, Arriving
<1> HIDE DEF n, k
<1>9. /\ notices' \in [Keys -> Notice]
      /\ notices'[k].task = notices[k].task /\ notices'[k].marker = notices[k].marker
      /\ notices'[k].sent = IF accepted THEN notices[k].sent + 1 ELSE notices[k].sent
      /\ \A j \in Keys \ {k} : notices'[j] = notices[j]
  BY <1>2, <1>4, <1>5, <1>6
<1>10. /\ troubles' \in 0..MaxTroubles /\ troubles <= troubles'
       /\ \A j \in Keys \ {k} : doubts'[j] = doubts[j]
       /\ doubts'[k] = IF accepted /\ result # "OK" THEN doubts[k] + 1 ELSE doubts[k]
       /\ doubts' \in [Keys -> 0..MaxTroubles] /\ doubts'[k] <= troubles'
  <2>1. CASE accepted /\ result # "OK"
    <3>1. doubts[k] + 1 \in 0..MaxTroubles /\ troubles' = troubles + 1
      BY <1>1, <1>2, <1>4, <1>8, <2>1
    <3>2. doubts' = [doubts EXCEPT ![k] = doubts[k] + 1]
      BY <1>1, <2>1 DEF k
    <3> QED
      BY <1>1, <1>2, <1>4, <1>8, <2>1, <3>1, <3>2
  <2>2. CASE ~(accepted /\ result # "OK")
    BY <1>1, <1>2, <1>4, <1>8, <2>2
  <2> QED
    BY <2>1, <2>2
<1>11. ShapeInv'
  BY <1>1, <1>3, <1>7, <1>9, <1>10, ShapeNext, Shapes DEF NoticeInv
<1>12. StateInv'
  BY <1>7, WorldKept DEF NoticeInv
<1>13. JobInv'
  BY <1>1, <1>2, <1>3, <1>8, <1>9 DEF NoticeInv, JobInv, k
<1>14. SentInv'
  <2> SUFFICES ASSUME NEW j \in Keys
               PROVE  /\ doubts'[j] <= troubles'
                      /\ notices'[j].sent <= doubts'[j] + 1
                      /\ \/ notices'[j].sent <= doubts'[j]
                         \/ notices'[j].marker = "SUCCEEDED"
                         \/ (Arriving(j))'
    BY DEF SentInv
  <2>1. CASE j # k
    <3>1. /\ doubts[j] <= troubles /\ notices[j].sent <= doubts[j] + 1
          /\ notices[j].sent <= doubts[j] \/ notices[j].marker = "SUCCEEDED"
      BY <1>8 DEF NoticeInv, SentInv
    <3>2. doubts[j] \in Nat /\ troubles' \in Nat /\ troubles \in Nat
      BY <1>4, <1>10
    <3> QED
      BY <1>9, <1>10, <2>1, <3>1, <3>2
  <2>2. CASE j = k
    <3>1. doubts[k] \in Nat /\ notices[k].sent \in Nat
      BY <1>2, <1>4 DEF Notice
    <3>2. CASE accepted /\ result = "OK"
      <4>1. (Arriving(j))'
        BY <1>3, <2>2, <3>2 DEF Arriving, k
      <4> QED
        BY <1>8, <1>9, <1>10, <2>2, <3>1, <3>2, <4>1
    <3>3. CASE ~accepted \/ result # "OK"
      BY <1>1, <1>8, <1>9, <1>10, <2>2, <3>1, <3>3
    <3> QED
      BY <3>2, <3>3
  <2> QED
    BY <2>1, <2>2
<1>15. WithdrawnInv'
  BY <1>7, <1>9, WithdrawnKept DEF NoticeInv
<1> QED
  BY <1>11, <1>12, <1>13, <1>14, <1>15 DEF NoticeInv

LEMMA RecordInv ==
  ASSUME NoticeInv, RecordNotice \/ RecordAdvice
  PROVE  NoticeInv'
<1> DEFINE k == job.key
           m == IF job.result = "OK" THEN "SUCCEEDED" ELSE "ATTEMPTED"
<1>1. /\ job.step = "RECORD" /\ (Mark(k, m) \/ MarkAdvice(k, m))
      /\ job' = [job EXCEPT !.step = "SETTLE"]
      /\ UNCHANGED <<todo, troubles, doubts, surfaced>>
  BY DEF RecordNotice, RecordAdvice
<1>2. job \in Job /\ k \in Keys
  BY <1>1, NoJobIs DEF NoticeInv, ShapeInv, Job
<1>3. job' \in Job /\ job'.key = k /\ job'.by = job.by /\ job'.step = "SETTLE"
  BY <1>1, <1>2 DEF Job
<1>4. UNCHANGED World
  BY DEF RecordNotice, RecordAdvice, World
<1>5. MarksKept /\ notices'[k].marker = m
  BY <1>1, <1>2, MarkStep DEF NoticeInv, JobInv
<1>6. ShapeInv'
  BY <1>1, <1>3, <1>4, <1>5, ShapeNext, Shapes DEF NoticeInv, MarksKept
<1>7. StateInv'
  BY <1>4, WorldKept DEF NoticeInv
<1>8. JobInv'
  BY <1>1, <1>2, <1>3, <1>5 DEF NoticeInv, JobInv, MarksKept
<1>9. SentInv'
  BY <1>1, <1>5, SentKept, Shapes DEF NoticeInv, Arriving, MarksKept
<1>10. WithdrawnInv'
  BY <1>4, <1>5, WithdrawnKept DEF NoticeInv, MarksKept
<1> QED
  BY <1>6, <1>7, <1>8, <1>9, <1>10 DEF NoticeInv

\* A task's columns change, its marker and what was sent do not.
LEMMA TaskMoves ==
  ASSUME ShapeInv, NEW k \in Keys, NEW n \in Notice, notices' = [notices EXCEPT ![k] = n],
         n.marker = notices[k].marker, n.sent = notices[k].sent
  PROVE  /\ notices' \in [Keys -> Notice] /\ notices'[k] = n
         /\ \A j \in Keys \ {k} : notices'[j] = notices[j]
         /\ \A j \in Keys : /\ notices'[j].marker = notices[j].marker
                            /\ notices'[j].sent = notices[j].sent
  BY Shapes

LEMMA SettledType ==
  ASSUME NEW n \in Notice
  PROVE  /\ Settled(n) \in Notice /\ Settled(n).task # "NONE"
         /\ Settled(n).marker = n.marker /\ Settled(n).sent = n.sent
         /\ Cancelled(n) \in Notice /\ (Cancelled(n).task # "NONE" <=> n.task # "NONE")
         /\ Cancelled(n).marker = n.marker /\ Cancelled(n).sent = n.sent
<1>1. /\ Cancelled(n) \in Notice /\ (Cancelled(n).task # "NONE" <=> n.task # "NONE")
      /\ Cancelled(n).marker = n.marker /\ Cancelled(n).sent = n.sent
  BY DEF Cancelled, Notice
<1>2. CASE job.result = "OK"
  BY <1>1, <1>2 DEF Settled, Notice
<1>3. CASE job.result = "RETRY" /\ n.attempt + 1 < MaxAttempts
  <2>1. n.attempt + 1 \in 0..(MaxAttempts - 1)
    BY <1>3, NotificationAssumption DEF Notice
  <2>2. Settled(n) = [n EXCEPT !.task = "PENDING", !.attempt = n.attempt + 1]
    BY <1>3 DEF Settled, Notice
  <2> QED
    BY <1>1, <2>1, <2>2 DEF Notice
<1>4. CASE job.result # "OK" /\ ~(job.result = "RETRY" /\ n.attempt + 1 < MaxAttempts)
  BY <1>1, <1>4 DEF Settled, Notice
<1> QED
  BY <1>2, <1>3, <1>4

LEMMA SettleInv ==
  ASSUME NoticeInv, Settle
  PROVE  NoticeInv'
<1> DEFINE k == job.key
           n == IF job.by = "TASK" THEN Settled(notices[k]) ELSE Cancelled(notices[k])
<1>1. /\ job.step = "SETTLE" /\ job' = NoJob /\ UNCHANGED <<troubles, doubts, surfaced>>
      /\ notices' = [notices EXCEPT ![k] = n]
      /\ todo' = IF job.by = "INLINE" THEN Tail(todo) ELSE todo
  BY DEF Settle
<1>2. job \in Job /\ k \in Keys
  BY <1>1, NoJobIs DEF NoticeInv, ShapeInv, Job
<1>3. notices[k] \in Notice /\ todo \in Seq(Action)
  BY <1>2, Shapes DEF NoticeInv
<1>4. /\ n \in Notice /\ n.marker = notices[k].marker /\ n.sent = notices[k].sent
      /\ n.task # "NONE" => notices[k].task # "NONE"
  BY <1>3, SettledType DEF NoticeInv, JobInv
<1>5. todo' \in Seq(Action)
  BY <1>1, <1>3, HeadTailProperties DEF NoticeInv, JobInv
<1>6. UNCHANGED World
  BY DEF Settle, World
<1> HIDE DEF n
<1>7. /\ notices' \in [Keys -> Notice] /\ notices'[k] = n
      /\ \A j \in Keys \ {k} : notices'[j] = notices[j]
      /\ \A j \in Keys : notices'[j].marker = notices[j].marker /\ notices'[j].sent = notices[j].sent
  BY <1>1, <1>2, <1>4, TaskMoves DEF NoticeInv
<1>8. ShapeInv'
  BY <1>1, <1>5, <1>6, <1>7, ShapeNext, Shapes DEF NoticeInv
<1>9. StateInv'
  BY <1>6, WorldKept DEF NoticeInv
<1>10. JobInv'
  BY <1>1, NoJobIs DEF JobInv
<1>11. SentInv'
  BY <1>1, <1>7, SentKept, Shapes DEF NoticeInv, Arriving
<1>12. WithdrawnInv'
  BY <1>4, <1>6, <1>7, WithdrawnKept DEF NoticeInv
<1> QED
  BY <1>8, <1>9, <1>10, <1>11, <1>12 DEF NoticeInv

LEMMA ClaimInv ==
  ASSUME NoticeInv, NEW k \in Keys, Claim(k)
  PROVE  NoticeInv'
<1> DEFINE n == [notices[k] EXCEPT !.task = "RUNNING"]
           j == [key |-> k, by |-> "TASK", step |-> "CHECK", result |-> "NONE"]
<1>1. /\ job = NoJob /\ notices[k].task # "NONE" /\ job' = j
      /\ notices' = [notices EXCEPT ![k] = n] /\ UNCHANGED <<todo, troubles, doubts, surfaced>>
  BY DEF Claim, Idle, Unfinished
<1>2. notices[k] \in Notice
  BY Shapes DEF NoticeInv
<1>3. /\ n \in Notice /\ n.marker = notices[k].marker /\ n.sent = notices[k].sent
      /\ n.task = "RUNNING"
  BY <1>2 DEF Notice
<1>4. job' \in Job /\ job'.step = "CHECK" /\ job'.by = "TASK" /\ job'.key = k
  BY <1>1 DEF Job
<1>5. UNCHANGED World
  BY DEF Claim, World
<1> HIDE DEF n, j
<1>6. /\ notices' \in [Keys -> Notice] /\ notices'[k] = n
      /\ \A i \in Keys \ {k} : notices'[i] = notices[i]
      /\ \A i \in Keys : notices'[i].marker = notices[i].marker /\ notices'[i].sent = notices[i].sent
  BY <1>1, <1>3, TaskMoves DEF NoticeInv
<1>7. ShapeInv'
  BY <1>1, <1>4, <1>5, <1>6, ShapeNext, Shapes DEF NoticeInv
<1>8. StateInv'
  BY <1>5, WorldKept DEF NoticeInv
<1>9. JobInv'
  BY <1>3, <1>4, <1>6 DEF JobInv
<1>10. SentInv'
  BY <1>1, <1>6, NoJobIs, SentKept, Shapes DEF NoticeInv, Arriving
<1>11. WithdrawnInv'
  BY <1>1, <1>5, <1>6, WithdrawnKept DEF NoticeInv
<1> QED
  BY <1>7, <1>8, <1>9, <1>10, <1>11 DEF NoticeInv

-----------------------------------------------------------------------------
(* ... the event's row, the environment, and the sample.                   *)

\* Arming gives an identity a task if it had none, and no more.
LEMMA ArmStep ==
  ASSUME ShapeInv, NEW ks, notices' = Arm(ks)
  PROVE  /\ notices' \in [Keys -> Notice]
         /\ \A k \in Keys : /\ notices'[k].marker = notices[k].marker
                            /\ notices'[k].sent = notices[k].sent
                            /\ notices'[k].task # "NONE" => notices[k].task # "NONE" \/ k \in ks
<1>1. ASSUME NEW k \in Keys
      PROVE  LET n == [notices[k] EXCEPT !.task = "PENDING"]
             IN  n \in Notice /\ n.marker = notices[k].marker /\ n.sent = notices[k].sent
  <2>1. notices[k] \in Notice
    BY Shapes
  <2> QED
    BY <2>1 DEF Notice
<1>2. notices \in [Keys -> Notice]
  BY Shapes
<1>3. ASSUME NEW k \in Keys
      PROVE  \/ notices'[k] = notices[k]
             \/ k \in ks /\ notices'[k] = [notices[k] EXCEPT !.task = "PENDING"]
  BY DEF Arm
<1>4. notices' \in [Keys -> Notice]
  <2>1. notices' = [k \in Keys |-> notices'[k]]
    BY DEF Arm
  <2> QED
    BY <1>1, <1>2, <1>3, <2>1
<1> QED
  BY <1>1, <1>3, <1>4

\* A step between deliveries that leaves the state and the warning alone.
LEMMA QuietInv ==
  ASSUME NoticeInv, ShapeInv', job' = NoJob, \A k \in Keys : ~Arriving(k),
         UNCHANGED <<state, cycle, warning, episodes, doubts>>, troubles <= troubles',
         \A k \in Keys : /\ notices'[k].marker = notices[k].marker
                         /\ notices'[k].sent = notices[k].sent
                         /\ k.kind = "PREWARNING_RECOVERY" /\ notices'[k].task # "NONE"
                              => notices[k].task # "NONE"
  PROVE  NoticeInv'
<1>1. StateInv'
  BY DEF NoticeInv, StateInv, Raised
<1>2. JobInv'
  BY NoJobIs DEF JobInv
<1>3. SentInv'
  BY SentKept DEF NoticeInv, ShapeInv
<1>4. WithdrawnInv'
  BY DEF NoticeInv, WithdrawnInv
<1> QED
  BY <1>1, <1>2, <1>3, <1>4 DEF NoticeInv

LEMMA IdleArrivesNot ==
  ASSUME job = NoJob
  PROVE  \A k \in Keys : ~Arriving(k)
  BY NoJobIs DEF Arriving

LEMMA PostedType ==
  ASSUME ShapeInv, NEW e
  PROVE  Posted(e) \in [Events -> {"NONE", "OPEN", "CLOSED"}]
  BY Shapes DEF Posted

LEMMA WriteInlineInv ==
  ASSUME NoticeInv, NEW ok \in BOOLEAN, WriteInline(ok)
  PROVE  NoticeInv'
<1>1. /\ todo # <<>> /\ job = NoJob /\ job' = NoJob /\ todo' = Tail(todo)
      /\ UNCHANGED <<state, cycle, warning, episodes, notices, doubts>>
  BY DEF WriteInline
<1>2. troubles' \in 0..MaxTroubles /\ troubles <= troubles'
  BY Shapes DEF NoticeInv, WriteInline
<1>3. todo' \in Seq(Action)
  BY <1>1, HeadTailProperties, Shapes DEF NoticeInv
<1>4. /\ row' \in [Events -> {"NONE", "OPEN", "CLOSED"}] /\ owed' \subseteq owed
      /\ bound' \subseteq Events /\ UNCHANGED surfaced
  <2> DEFINE e == Head(todo).key.of
  <2>1. e \in Events
    <3>1. Head(todo) \in Action /\ Head(todo).act # "NOTIFY"
      BY <1>1, HeadTailProperties, Shapes DEF NoticeInv, WriteInline
    <3> QED
      BY <3>1, KeyKind DEF Action
  <2>2. Write(Head(todo).act, e, ok) /\ UNCHANGED surfaced
    BY DEF WriteInline
  <2> HIDE DEF e
  <2> QED
    BY <2>1, <2>2, PostedType, Shapes DEF NoticeInv, Write, Bind, Miss
<1>5. ShapeInv'
  BY <1>1, <1>2, <1>3, <1>4 DEF NoticeInv, ShapeInv, TypeOK
<1> QED
  BY <1>1, <1>2, <1>5, QuietInv, IdleArrivesNot

LEMMA ReconcileInv ==
  ASSUME NoticeInv, NEW e \in Events, NEW ok \in BOOLEAN, Reconcile(e, ok)
  PROVE  NoticeInv'
<1>1. /\ job = NoJob /\ notices' = Arm(Reconciled(e))
      /\ UNCHANGED <<state, cycle, warning, episodes, todo, job, doubts>>
  BY DEF Reconcile, Idle
<1>2. troubles' \in 0..MaxTroubles /\ troubles <= troubles'
  BY Shapes DEF NoticeInv, Reconcile
<1>3. /\ row' \in [Events -> {"NONE", "OPEN", "CLOSED"}] /\ owed' \subseteq owed
      /\ bound' \subseteq Events /\ UNCHANGED surfaced
  BY PostedType, Shapes DEF NoticeInv, Reconcile, Bind, Miss
<1>4. \A k \in Reconciled(e) : k.kind # "PREWARNING_RECOVERY"
  BY DEF Reconciled, Key
<1>5. /\ notices' \in [Keys -> Notice]
      /\ \A k \in Keys : /\ notices'[k].marker = notices[k].marker
                         /\ notices'[k].sent = notices[k].sent
                         /\ notices'[k].task # "NONE"
                              => notices[k].task # "NONE" \/ k \in Reconciled(e)
  BY <1>1, ArmStep DEF NoticeInv
<1>6. ShapeInv'
  BY <1>1, <1>2, <1>3, <1>5 DEF NoticeInv, ShapeInv, TypeOK, Notice
<1> QED
  BY <1>1, <1>2, <1>4, <1>5, <1>6, QuietInv, IdleArrivesNot

LEMMA CrashInv ==
  ASSUME NoticeInv, Crash
  PROVE  NoticeInv'
<1>1. /\ job' = NoJob /\ todo' = <<>> /\ UNCHANGED notices /\ UNCHANGED World
      /\ troubles' = troubles + 1 /\ troubles < MaxTroubles /\ surfaced' = {}
  BY DEF Crash, World
<1>2. /\ notices \in [Keys -> Notice] /\ doubts \in [Keys -> 0..MaxTroubles]
      /\ troubles \in 0..MaxTroubles /\ MaxTroubles \in Nat
  BY Shapes DEF NoticeInv
<1>3. \A k \in Keys : doubts'[k] = IF Arriving(k) THEN doubts[k] + 1 ELSE doubts[k]
  <2>1. CASE job.step = "RECORD" /\ job.result = "OK"
    <3>1. job.key \in Keys
      BY <2>1, NoJobIs DEF NoticeInv, ShapeInv, Job
    <3>2. doubts' = [doubts EXCEPT ![job.key] = doubts[job.key] + 1]
      BY <1>2, <2>1, <3>1 DEF Crash
    <3> QED
      BY <1>2, <2>1, <3>1, <3>2 DEF Arriving
  <2>2. CASE ~(job.step = "RECORD" /\ job.result = "OK")
    BY <2>2 DEF Crash, Arriving
  <2> QED
    BY <2>1, <2>2
<1>4. \A k \in Keys : /\ doubts[k] <= troubles /\ doubts[k] \in Nat
                      /\ notices[k].sent <= doubts[k] + 1 /\ notices[k].sent \in Nat
                      /\ \/ notices[k].sent <= doubts[k]
                         \/ notices[k].marker = "SUCCEEDED"
                         \/ Arriving(k)
  BY <1>2 DEF NoticeInv, SentInv, Notice
<1>5. doubts' \in [Keys -> 0..MaxTroubles]
  <2>1. \A k \in Keys : doubts'[k] \in 0..MaxTroubles
    BY <1>1, <1>2, <1>3, <1>4
  <2>2. doubts' = [k \in Keys |-> doubts'[k]]
    BY <1>2 DEF Crash
  <2> QED
    BY <2>1, <2>2
<1>6. ShapeInv'
  BY <1>1, <1>2, <1>5, ShapeNext, EmptySeq DEF NoticeInv
<1>7. StateInv'
  BY <1>1, WorldKept DEF NoticeInv
<1>8. JobInv'
  BY <1>1, NoJobIs DEF JobInv
<1>9. SentInv'
  <2>1. \A k \in Keys : /\ doubts'[k] <= troubles'
                        /\ notices[k].sent <= doubts'[k] + 1
                        /\ notices[k].sent <= doubts'[k] \/ notices[k].marker = "SUCCEEDED"
    BY <1>1, <1>2, <1>3, <1>4
  <2> QED
    BY <1>1, <2>1 DEF SentInv
<1>10. WithdrawnInv'
  BY <1>1, WithdrawnKept DEF NoticeInv
<1> QED
  BY <1>6, <1>7, <1>8, <1>9, <1>10 DEF NoticeInv

LEMMA PeopleInv ==
  ASSUME NoticeInv, (\E e \in Events : CloseRow(e) \/ ReopenRow(e)) \/ (\E g : Turn(g))
  PROVE  NoticeInv'
<1>1. UNCHANGED <<state, cycle, bound, owed, warning, episodes, notices, todo, job, doubts>>
  BY DEF CloseRow, ReopenRow, Turn
<1>2. troubles' \in 0..MaxTroubles /\ troubles <= troubles'
  BY Shapes DEF NoticeInv, CloseRow, ReopenRow, Turn
<1>3. /\ row' \in [Events -> {"NONE", "OPEN", "CLOSED"}] /\ surfaced' \subseteq Events
      /\ job.step = "SEND" => OpenRows' \subseteq OpenRows \cup surfaced'
      /\ surfaced \subseteq surfaced'
  BY Shapes DEF NoticeInv, CloseRow, ReopenRow, Turn, OpenRows
<1>4. ShapeInv'
  BY <1>1, <1>2, <1>3 DEF NoticeInv, ShapeInv, TypeOK
<1>5. StateInv'
  BY <1>1 DEF NoticeInv, StateInv, Raised
<1>6. JobInv'
  BY <1>1, <1>3 DEF NoticeInv, JobInv, Raised
<1>7. SentInv'
  BY <1>1, <1>2, SentKept DEF NoticeInv, Arriving
<1>8. WithdrawnInv'
  BY <1>1 DEF NoticeInv, WithdrawnInv
<1> QED
  BY <1>4, <1>5, <1>6, <1>7, <1>8 DEF NoticeInv

\* The warning that is shown next: its identity is none, the old or a new one.
LEMMA ShownWarning ==
  ASSUME NoticeInv, NEW verdict, NEW near \in Directions \cup {Clear}, NEW next, NEW blocked,
         NEW shown, shown = WarningAfter(verdict, near, next, blocked)
  PROVE  /\ shown.active \in BOOLEAN /\ shown.direction \in Directions \cup {Clear}
         /\ shown.episode \in {0, warning.episode, episodes + 1}
         /\ shown = [active |-> shown.active, episode |-> shown.episode,
                     direction |-> shown.direction]
         /\ shown.active => shown.episode # 0 /\ shown.direction # Clear
<1>1. /\ warning \in [active : BOOLEAN, episode : 0..episodes, direction : Directions \cup {Clear}]
      /\ episodes \in Nat /\ MaxEpisodes \in Nat
  BY Shapes, NotificationAssumption DEF NoticeInv
<1>2. warning.active => warning.episode # 0 /\ warning.direction # Clear
  BY DEF NoticeInv, StateInv
<1>3. \/ shown = [warning EXCEPT !.active = FALSE]
      \/ shown = [warning EXCEPT !.active = FALSE, !.direction = Clear]
      \/ shown = warning
      \/ shown = NoWarning
      \/ /\ near # Clear
         /\ shown = [active |-> TRUE, direction |-> near,
                     episode |-> IF warning.episode # 0 THEN warning.episode ELSE episodes + 1]
  BY DEF WarningAfter, Interrupted
<1>4. CASE shown = NoWarning
  BY <1>4 DEF NoWarning
<1>5. CASE \/ shown = [warning EXCEPT !.active = FALSE]
           \/ shown = [warning EXCEPT !.active = FALSE, !.direction = Clear]
           \/ shown = warning
  <2>1. PICK active \in BOOLEAN, episode \in 0..episodes, direction \in Directions \cup {Clear} :
             warning = [active |-> active, episode |-> episode, direction |-> direction]
    BY <1>1
  <2>2. PICK a \in BOOLEAN, d \in Directions \cup {Clear} :
             /\ shown = [active |-> a, episode |-> episode, direction |-> d]
             /\ a => warning.active /\ d = warning.direction
    BY <1>5, <2>1
  <2> QED
    BY <1>2, <2>1, <2>2
<1>6. CASE /\ near # Clear
           /\ shown = [active |-> TRUE, direction |-> near,
                       episode |-> IF warning.episode # 0 THEN warning.episode ELSE episodes + 1]
  BY <1>1, <1>6
<1> QED
  BY <1>3, <1>4, <1>5, <1>6

LEMMA OneKey ==
  ASSUME NEW k \in Keys
  PROVE  <<k>> \in Seq(Keys) /\ \A i \in 1..Len(<<k>>) : <<k>>[i] = k
  OBVIOUS

\* What is told of an episode: the start of the one that is shown, or the end
\* of the one that was, and then none is shown.
LEMMA AdviceIs ==
  ASSUME NoticeInv, NEW verdict, NEW near \in Directions \cup {Clear}, NEW next, NEW blocked,
         NEW shown, shown = WarningAfter(verdict, near, next, blocked),
         NEW advice, advice = Advice(verdict, near, next, blocked),
         shown.episode <= MaxEpisodes
  PROVE  /\ advice \in Seq(Keys)
         /\ \A i \in 1..Len(advice) :
              advice[i].kind = "PREWARNING_RECOVERY"
                => advice[i].of = warning.episode /\ shown.episode = 0
<1>1. /\ warning \in [active : BOOLEAN, episode : 0..episodes, direction : Directions \cup {Clear}]
      /\ episodes \in 0..MaxEpisodes /\ MaxEpisodes \in Nat
  BY Shapes, NotificationAssumption DEF NoticeInv
<1>2. warning.active => warning.episode # 0 /\ warning.direction # Clear
  BY DEF NoticeInv, StateInv
<1>3. \/ advice = <<>>
      \/ /\ verdict = "NORMAL" /\ next = "NORMAL" /\ ~blocked /\ near # Clear /\ ~warning.active
         /\ advice = <<Key("PREWARNING", shown.episode, near)>>
      \/ /\ verdict = "NORMAL" /\ next = "NORMAL" /\ ~blocked /\ near = Clear /\ warning.active
         /\ advice = <<Key("PREWARNING_RECOVERY", warning.episode, warning.direction)>>
  BY DEF Advice
<1>4. CASE advice = <<>>
  BY <1>4, EmptySeq
<1>5. CASE /\ verdict = "NORMAL" /\ next = "NORMAL" /\ ~blocked /\ near # Clear /\ ~warning.active
           /\ advice = <<Key("PREWARNING", shown.episode, near)>>
  <2>1. shown = [active |-> TRUE, direction |-> near,
                 episode |-> IF warning.episode # 0 THEN warning.episode ELSE episodes + 1]
    BY <1>5 DEF WarningAfter
  <2>2. shown.episode \in 1..MaxEpisodes
    BY <1>1, <2>1
  <2>3. Key("PREWARNING", shown.episode, near) \in Keys
    BY <1>5, <2>2, EpisodeKeys
  <2>4. PICK k \in Keys : k = Key("PREWARNING", shown.episode, near)
    BY <2>3
  <2>5. advice = <<k>> /\ k.kind = "PREWARNING"
    BY <1>5, <2>4, KeyFields
  <2> QED
    BY <2>5, OneKey
<1>6. CASE /\ verdict = "NORMAL" /\ next = "NORMAL" /\ ~blocked /\ near = Clear /\ warning.active
           /\ advice = <<Key("PREWARNING_RECOVERY", warning.episode, warning.direction)>>
  <2>1. shown = NoWarning
    BY <1>6 DEF WarningAfter
  <2>2. warning.episode \in 1..MaxEpisodes /\ warning.direction \in Directions
    BY <1>1, <1>2, <1>6
  <2>3. Key("PREWARNING_RECOVERY", warning.episode, warning.direction) \in Keys
    BY <2>2, EpisodeKeys
  <2>4. PICK k \in Keys : k = Key("PREWARNING_RECOVERY", warning.episode, warning.direction)
    BY <2>3
  <2>5. advice = <<k>> /\ k.of = warning.episode /\ shown.episode = 0
    BY <1>6, <2>1, <2>4, KeyFields DEF NoWarning
  <2> QED
    BY <2>5, OneKey
<1> QED
  BY <1>3, <1>4, <1>5, <1>6

\* The actions of a sample: those of its event, then what it has to advise.
LEMMA ActionsAre ==
  ASSUME NoticeInv, NEW next, NEW advice \in Seq(Keys), Opens(next) => cycle < MaxEvents
  PROVE  /\ Actions(next, advice) \in Seq(Action)
         /\ \A k \in Told(Actions(next, advice)) :
              k.kind = "PREWARNING_RECOVERY" => \E i \in 1..Len(advice) : k = advice[i]
<1> DEFINE about == IF Opens(next) THEN Key("ALARM", cycle + 1, Clear)
                    ELSE Key("RECOVERY", cycle, "STARTED")
           told == [act |-> "NOTIFY", key |-> about]
           event == IF Opens(next) THEN << [act |-> "CREATE", key |-> about], told >>
                    ELSE IF Recovered(next) THEN << [act |-> "RECOVER", key |-> about], told >>
                    ELSE <<>>
           later == [i \in 1..Len(advice) |-> [act |-> "NOTIFY", key |-> advice[i]]]
           all == Actions(next, advice)
<1>1. all = event \o later
  BY DEF Actions
<1>2. about.kind \in Formal /\ about.kind # "PREWARNING_RECOVERY"
  BY KeyFields DEF Formal
<1>3. Opens(next) \/ Recovered(next) => about \in Keys
  <2>1. cycle \in 0..MaxEvents /\ MaxEvents \in Nat
    BY Shapes, NotificationAssumption DEF NoticeInv
  <2>2. CASE Opens(next)
    <3>1. cycle + 1 \in Events
      BY <2>1, <2>2 DEF Events
    <3> QED
      BY <2>2, <3>1, EventKeys
  <2>3. CASE ~Opens(next) /\ Recovered(next)
    <3>1. cycle \in Events
      BY <2>1, <2>3 DEF Events, Recovered, NoticeInv, StateInv
    <3> QED
      BY <2>3, <3>1, EventKeys
  <2> QED
    BY <2>2, <2>3
<1> HIDE DEF about, all
<1>4. /\ event \in Seq(Action)
      /\ \A i \in 1..Len(event) : event[i].key = about
  <2>1. CASE Opens(next) \/ Recovered(next)
    <3>1. /\ told \in Action /\ [act |-> "CREATE", key |-> about] \in Action
          /\ [act |-> "RECOVER", key |-> about] \in Action
      BY <1>2, <1>3, <2>1 DEF Action
    <3> QED
      BY <2>1, <3>1
  <2>2. CASE ~(Opens(next) \/ Recovered(next))
    BY <2>2, EmptySeq
  <2> QED
    BY <2>1, <2>2
<1>5. /\ later \in Seq(Action) /\ Len(later) = Len(advice)
      /\ \A i \in 1..Len(later) : later[i].key = advice[i]
  <2>1. Len(advice) \in Nat /\ \A i \in 1..Len(advice) : advice[i] \in Keys
    BY ElementOfSeq, LenProperties
  <2>2. \A i \in 1..Len(advice) : [act |-> "NOTIFY", key |-> advice[i]] \in Action
    BY <2>1 DEF Action
  <2> QED
    BY <2>1, <2>2, IsASeq, LenProperties
<1> HIDE DEF event, later
<1> HIDE DEF told
<1>6. /\ all \in Seq(Action) /\ Len(all) = Len(event) + Len(later)
      /\ \A i \in 1..Len(all) : all[i] = IF i <= Len(event) THEN event[i]
                                        ELSE later[i - Len(event)]
  <2>1. event \in Seq(Action) /\ later \in Seq(Action)
    BY <1>4, <1>5
  <2>2. /\ event \o later \in Seq(Action) /\ Len(event \o later) = Len(event) + Len(later)
        /\ \A i \in 1..(Len(event) + Len(later)) :
             (event \o later)[i] = IF i <= Len(event) THEN event[i] ELSE later[i - Len(event)]
    BY <2>1, ConcatProperties
  <2> QED
    BY <1>1, <2>2
<1>7. ASSUME NEW k \in Told(all), k.kind = "PREWARNING_RECOVERY"
      PROVE  \E i \in 1..Len(advice) : k = advice[i]
  <2>1. PICK i \in 1..Len(all) : k = all[i].key
    BY <1>7 DEF Told
  <2>2. Len(event) \in Nat /\ Len(later) \in Nat
    BY <1>4, <1>5, LenProperties
  <2>3. ~(i <= Len(event))
    BY <1>2, <1>4, <1>6, <1>7, <2>1, <2>2
  <2>4. i - Len(event) \in 1..Len(later)
    BY <1>6, <2>2, <2>3
  <2> QED
    BY <1>5, <1>6, <2>1, <2>3, <2>4
<1> QED
  BY <1>6, <1>7 DEF all

LEMMA SampleInv ==
  ASSUME NoticeInv, NEW reading \in Readings, NEW next \in {"NORMAL", "PENDING", "ALARM", "RECOVERY"},
         NEW unsure \in BOOLEAN, Sample(reading, next, unsure)
  PROVE  NoticeInv'
<1> DEFINE blocked == Unclosed \/ unsure
           advice == Advice(reading.verdict, reading.near, next, blocked)
           shown == WarningAfter(reading.verdict, reading.near, next, blocked)
           told == Told(Actions(next, advice))
<1>1. /\ job = NoJob /\ job' = NoJob /\ UNCHANGED <<row, bound, doubts, surfaced>>
      /\ next \in Moves(reading.verdict) /\ (Opens(next) => cycle < MaxEvents)
      /\ shown.episode <= MaxEpisodes /\ warning' = shown
      /\ episodes' = IF shown.episode > episodes THEN shown.episode ELSE episodes
      /\ state' = next /\ cycle' = IF Opens(next) THEN cycle + 1 ELSE cycle
      /\ owed' = IF Recovered(next) /\ Permitted("RECOVER") THEN owed \cup {cycle} ELSE owed
      /\ notices' = Arm(told) /\ todo' = Actions(next, advice)
  BY DEF Sample, Idle
<1>2. reading.near \in Directions \cup {Clear}
  BY DEF Readings
<1>3. troubles' \in 0..MaxTroubles /\ troubles <= troubles'
  BY Shapes DEF NoticeInv, Sample
<1>4. /\ shown.active \in BOOLEAN /\ shown.direction \in Directions \cup {Clear}
      /\ shown.episode \in {0, warning.episode, episodes + 1}
      /\ shown = [active |-> shown.active, episode |-> shown.episode, direction |-> shown.direction]
      /\ shown.active => shown.episode # 0 /\ shown.direction # Clear
  <2> HIDE DEF shown
  <2> QED
    BY <1>2, ShownWarning DEF shown
<1>5. /\ advice \in Seq(Keys)
      /\ \A i \in 1..Len(advice) : advice[i].kind = "PREWARNING_RECOVERY"
                                    => advice[i].of = warning.episode /\ shown.episode = 0
  BY <1>1, <1>2, AdviceIs
<1> HIDE DEF shown, advice, told
<1>6. /\ todo' \in Seq(Action)
      /\ \A k \in told : k.kind = "PREWARNING_RECOVERY" => \E i \in 1..Len(advice) : k = advice[i]
  BY <1>1, <1>5, ActionsAre DEF told
<1>7. /\ notices' \in [Keys -> Notice]
      /\ \A k \in Keys : /\ notices'[k].marker = notices[k].marker
                         /\ notices'[k].sent = notices[k].sent
                         /\ notices'[k].task # "NONE" => notices[k].task # "NONE" \/ k \in told
  BY <1>1, ArmStep DEF NoticeInv
<1>8. /\ cycle \in 0..MaxEvents /\ episodes \in 0..MaxEpisodes /\ owed \subseteq 1..cycle
      /\ row \in [Events -> {"NONE", "OPEN", "CLOSED"}] /\ warning.episode \in 0..episodes
      /\ doubts \in [Keys -> 0..MaxTroubles] /\ MaxEvents \in Nat /\ MaxEpisodes \in Nat
      /\ bound \subseteq Events /\ surfaced \subseteq Events
  BY Shapes, NotificationAssumption DEF NoticeInv
<1>9. /\ episodes' \in 0..MaxEpisodes /\ episodes <= episodes' /\ shown.episode \in 0..episodes'
      /\ warning' \in [active : BOOLEAN, episode : 0..episodes', direction : Directions \cup {Clear}]
  <2>1. episodes' \in 0..MaxEpisodes /\ episodes <= episodes' /\ shown.episode \in 0..episodes'
    BY <1>1, <1>4, <1>8
  <2> QED
    BY <1>1, <1>4, <2>1
<1>10. Raised => cycle # 0
  BY DEF NoticeInv, StateInv
<1>11. cycle' \in 0..MaxEvents /\ owed' \subseteq 1..cycle'
  <2>1. Recovered(next) => cycle \in 1..cycle
    BY <1>8, <1>10 DEF Recovered
  <2> QED
    BY <1>1, <1>8, <2>1
<1>12. ShapeInv'
  BY <1>1, <1>3, <1>6, <1>7, <1>8, <1>9, <1>11 DEF ShapeInv, TypeOK, Notice
<1>13. StateInv'
  <2>1. Raised' => Raised \/ Opens(next)
    <3>1. state \in {"NORMAL", "PENDING", "ALARM", "RECOVERY"}
      BY DEF NoticeInv, ShapeInv, TypeOK
    <3>2. reading.verdict \in {"NORMAL", "VIOLATION", "UNKNOWN", "NOT_APPLICABLE"}
      BY DEF Readings
    <3>3. CASE state = "NORMAL"
      BY <1>1, <3>2, <3>3 DEF Raised, Moves
    <3>4. CASE state = "PENDING"
      BY <1>1, <3>2, <3>4 DEF Raised, Moves, Opens
    <3> QED
      BY <3>1, <3>3, <3>4 DEF Raised
  <2>2. Raised' => cycle' # 0
    BY <1>1, <1>8, <1>10, <2>1
  <2> QED
    BY <1>1, <1>4, <2>2 DEF StateInv
<1>14. JobInv'
  BY <1>1, NoJobIs DEF JobInv
<1>15. SentInv'
  BY <1>1, <1>3, <1>7, IdleArrivesNot, SentKept DEF NoticeInv
<1>16. WithdrawnInv'
  <2> SUFFICES ASSUME NEW k \in Keys, k.kind = "PREWARNING_RECOVERY", notices'[k].task # "NONE"
               PROVE  k.of <= episodes' /\ shown.episode # k.of
    BY <1>1 DEF WithdrawnInv
  <2>1. k.of \in 1..MaxEpisodes
    BY KeyKind DEF Advisories
  <2>2. CASE notices[k].task # "NONE"
    <3>1. k.of <= episodes /\ warning.episode # k.of
      BY <2>2 DEF NoticeInv, WithdrawnInv
    <3> QED
      BY <1>4, <1>8, <1>9, <2>1, <3>1
  <2>3. CASE k \in told
    <3>1. k.of = warning.episode /\ shown.episode = 0
      BY <1>5, <1>6, <2>3
    <3> QED
      BY <1>8, <1>9, <2>1, <3>1
  <2> QED
    BY <1>7, <2>2, <2>3
<1> QED
  BY <1>12, <1>13, <1>14, <1>15, <1>16 DEF NoticeInv

-----------------------------------------------------------------------------
(* The invariant, and what it implies.                                     *)

LEMMA InitInv ==
  ASSUME Init
  PROVE  NoticeInv
<1>1. /\ state = "NORMAL" /\ cycle = 0 /\ owed = {} /\ episodes = 0 /\ warning = NoWarning
      /\ bound = {} /\ surfaced = {}
      /\ row = [e \in Events |-> "NONE"] /\ notices = [k \in Keys |-> NoNotice]
      /\ todo = <<>> /\ job = NoJob /\ troubles = 0 /\ doubts = [k \in Keys |-> 0]
  BY DEF Init
<1>2. /\ MaxEvents \in Nat /\ MaxEpisodes \in Nat /\ MaxTroubles \in Nat
      /\ MaxAttempts \in Nat \ {0}
  BY NotificationAssumption
<1>3. NoNotice \in Notice /\ NoNotice.task = "NONE" /\ NoNotice.sent = 0
  BY <1>2 DEF NoNotice, Notice
<1>4. ShapeInv
  <2>1. notices \in [Keys -> Notice] /\ doubts \in [Keys -> 0..MaxTroubles]
    BY <1>1, <1>2, <1>3
  <2>2. /\ owed \subseteq 1..cycle /\ row \in [Events -> {"NONE", "OPEN", "CLOSED"}]
        /\ warning \in [active : BOOLEAN, episode : 0..episodes, direction : Directions \cup {Clear}]
    BY <1>1 DEF NoWarning
  <2> QED
    BY <1>1, <1>2, <2>1, <2>2, EmptySeq DEF ShapeInv, TypeOK, Notice
<1>5. StateInv
  BY <1>1 DEF StateInv, Raised, NoWarning
<1>6. JobInv
  BY <1>1, NoJobIs DEF JobInv
<1>7. SentInv
  BY <1>1, <1>3 DEF SentInv
<1>8. WithdrawnInv
  BY <1>1, <1>3 DEF WithdrawnInv
<1> QED
  BY <1>4, <1>5, <1>6, <1>7, <1>8 DEF NoticeInv

LEMMA NextInv ==
  ASSUME NoticeInv, [Next]_vars
  PROVE  NoticeInv'
<1>1. CASE Samples
  BY <1>1, SampleInv DEF Samples
<1>2. CASE Inline
  BY <1>2, WriteInlineInv DEF Inline
<1>3. CASE Worker
  BY <1>3, ClaimInv DEF Worker
<1>4. CASE Deliver
  BY <1>4, DismissedInv, RecipientInv, PrepareInv, SendInv, RecordInv, SettleInv DEF Deliver
<1>5. CASE \E e \in Events, ok \in BOOLEAN : Reconcile(e, ok)
  BY <1>5, ReconcileInv
<1>6. CASE (\E e \in Events : CloseRow(e) \/ ReopenRow(e)) \/ (\E g : Turn(g))
  BY <1>6, PeopleInv
<1>7. CASE Crash
  BY <1>7, CrashInv
<1>8. CASE UNCHANGED vars
  BY <1>8 DEF vars, NoticeInv, ShapeInv, TypeOK, StateInv, JobInv, SentInv, WithdrawnInv,
              Raised, OpenRows, Arriving
<1> QED
  BY <1>1, <1>2, <1>3, <1>4, <1>5, <1>6, <1>7, <1>8 DEF Next

\* The inductive invariant holds in every state: what a delivery knows from
\* its earlier steps stays true until it is settled, and every acceptance is
\* known by a marker, about to be, or a doubt.
THEOREM NoticeSafe == Spec => []NoticeInv
<1>1. Init => NoticeInv
  BY InitInv
<1>2. NoticeInv /\ [Next]_vars => NoticeInv'
  BY NextInv
<1> QED
  BY <1>1, <1>2, PTL DEF Spec

\* The tables of the notices keep their types, whatever is lost or dies.
THEOREM TypeCorrect == Spec => []TypeOK
<1>1. NoticeInv => TypeOK
  BY DEF NoticeInv, ShapeInv
<1> QED
  BY <1>1, NoticeSafe, PTL

\* A recipient hears a message again only as often as the process could not
\* know that it had arrived (integrations/feishu_notifications.py, the markers).
THEOREM NoticesSafe == Spec => []NoticesAreAccountedFor
<1>1. NoticeInv => NoticesAreAccountedFor
  <2> SUFFICES ASSUME NoticeInv, NEW k \in Keys
               PROVE  notices[k].sent <= 1 + doubts[k]
    BY DEF NoticesAreAccountedFor, RepeatsAreDoubts, NoticeInv, ShapeInv
  <2>1. notices[k].sent \in Nat /\ doubts[k] \in Nat /\ notices[k].sent <= doubts[k] + 1
    BY Shapes DEF NoticeInv, SentInv, Notice
  <2> QED
    BY <2>1
<1> QED
  BY <1>1, NoticeSafe, PTL

\* The identity of a warning whose end was told is never shown again
\* (application/monitor_service.py, the episode of the warning).
THEOREM WithdrawnSafe == Spec => []WithdrawnIsOver
<1>1. NoticeInv => WithdrawnIsOver
  BY DEF NoticeInv, WithdrawnInv, WithdrawnIsOver
<1> QED
  BY <1>1, NoticeSafe, PTL

-----------------------------------------------------------------------------
(* What is delivered, and when.                                            *)

LEMMA MarkSendsNothing ==
  ASSUME ShapeInv, NEW k, NEW m, Mark(k, m) \/ MarkAdvice(k, m), NEW j \in Keys
  PROVE  notices'[j].sent = notices[j].sent
<1>1. notices \in [Keys -> Notice] /\ notices[j] \in Notice
  BY Shapes
<1>2. PICK x : notices' = [notices EXCEPT ![k].marker = x]
  BY DEF Mark, MarkAdvice
<1> QED
  BY <1>1, <1>2 DEF Notice

\* A message is accepted in a delivery's send and nowhere else.
LEMMA OnlySendSends ==
  ASSUME NoticeInv, [Next]_vars, NEW k \in Keys, Sent(k)
  PROVE  job.step = "SEND" /\ job.key = k
<1>1. notices \in [Keys -> Notice] /\ notices[k] \in Notice
  BY Shapes DEF NoticeInv
<1>2. notices'[k].sent # notices[k].sent
  BY <1>1 DEF Sent, Notice
<1>3. ASSUME NEW ks, notices' = Arm(ks) PROVE FALSE
  BY <1>2, <1>3, ArmStep DEF NoticeInv
<1>4. ASSUME NEW j, NEW m, Mark(j, m) \/ MarkAdvice(j, m) PROVE FALSE
  BY <1>2, <1>4, MarkSendsNothing DEF NoticeInv
<1>5. ASSUME UNCHANGED notices PROVE FALSE
  BY <1>2, <1>5
<1>6. CASE Samples \/ \E e \in Events, ok \in BOOLEAN : Reconcile(e, ok)
  BY <1>3, <1>6 DEF Samples, Sample, Reconcile
<1>7. CASE \/ Inline \/ (\E e \in Events : CloseRow(e) \/ ReopenRow(e))
           \/ (\E g : Turn(g)) \/ Crash \/ UNCHANGED vars
  BY <1>5, <1>7 DEF Inline, WriteInline, CloseRow, ReopenRow, Turn, Crash, vars
<1>8. CASE Worker
  BY <1>1, <1>2, <1>8 DEF Worker, Claim, Notice
<1>9. CASE Settle
  <2>1. \A n \in Notice : Settled(n).sent = n.sent /\ Cancelled(n).sent = n.sent
    BY SettledType
  <2> QED
    BY <1>1, <1>2, <1>9, <2>1 DEF Settle
<1>10. CASE Refused \/ DismissNotice \/ DismissAdvice \/ ClosureUnknown
  BY <1>5, <1>10 DEF Refused, DismissNotice, DismissAdvice, ClosureUnknown
<1>11. CASE \/ PrepareNotice \/ PrepareAdvice \/ RecordNotice \/ RecordAdvice
            \/ \E why \in NoRecipient : NoticeRecipientFails(why) \/ AdviceRecipientFails(why)
  BY <1>4, <1>5, <1>11 DEF PrepareNotice, PrepareAdvice, RecordNotice, RecordAdvice,
                           NoticeRecipientFails, AdviceRecipientFails
<1>12. CASE \E accepted \in BOOLEAN, result \in {"OK", "RETRY", "FAIL"} : Send(accepted, result)
  <2>1. job.step = "SEND" /\ (\/ UNCHANGED notices
                             \/ notices' = [notices EXCEPT ![job.key].sent = @ + 1])
    BY <1>12 DEF Send
  <2> QED
    BY <1>1, <1>2, <2>1
<1> QED
  BY <1>6, <1>7, <1>8, <1>9, <1>10, <1>11, <1>12 DEF Next, Deliver

\* No warning is delivered while the device is in alarm, or while a row is open
\* that was open when the delivery checked: the check that prepared the send
\* still holds when it is sent, but for what people reopened in between
\* (integrations/feishu_notifications.py, has_unclosed_event).
THEOREM AdviceSafe == Spec => NoAdviceDuringIncident
<1>1. NoticeInv /\ [Next]_vars => [\A k \in Keys : Advisory(k) /\ Sent(k) =>
                                      ~Raised /\ OpenRows \subseteq surfaced]_vars
  BY OnlySendSends DEF NoticeInv, JobInv
<1> QED
  BY <1>1, NoticeSafe, PTL DEF Spec, NoAdviceDuringIncident

=============================================================================
