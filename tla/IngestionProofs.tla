-------------------------- MODULE IngestionProofs ---------------------------
(***************************************************************************)
(* What the ingestion path promises, for every value of the constants.     *)
(* Projection: for any number of HTTP threads, samples, retries, crashes   *)
(* and failures, the inductive invariant of a device's row, its threads    *)
(* and what the runtime heard; then what holds while only the scheduler    *)
(* writes to Feishu.  HeartbeatOutbox: for any number of devices and       *)
(* heartbeats and any fetch limit nothing is lost, and the outbox          *)
(* implements HeartbeatRelay.                                              *)
(***************************************************************************)
EXTENDS Projection, HeartbeatOutbox, FiniteSetTheorems, WellFoundedInduction, TLAPS

-----------------------------------------------------------------------------
(* The inductive invariant.                                                *)

Stored == Range(stored)

\* What the runtime heard last.
HeardLast == IF heard = <<>> THEN 0 ELSE heard[Len(heard)]

\* A thread holds a time stamp that was handed out; what it writes to the
\* Feishu row is a sample, and what it calls projected was shown.
Threads ==
    \A p \in Processes :
        /\ proc[p].s <= clock
        /\ proc[p].at \in {"store", "note", "replay", "gate", "put"} => proc[p].s # 0
        /\ proc[p].at = "project" => proc[p].s \in shown

\* Time stamps belong to reports that arrived, and both watermarks to samples
\* that were shown.  Until it is stored a report's stamp is its own.
Stamps ==
    /\ Stored \subseteq 1..clock /\ shown \subseteq 1..clock
    /\ row.projected \in shown \cup {0}
    /\ row.dispatched \in shown \cup {0}
    /\ \A p \in Processes : proc[p].at = "store" =>
          /\ proc[p].s \notin Stored \cup shown
          /\ \A q \in Processes \ {p} : proc[q].s # proc[p].s

Sorted == \A i, j \in DOMAIN heard : i < j => heard[i] <= heard[j]

\* What is offered to the runtime lies between the watermarks and is not
\* older than what it heard; what is about to be marked was heard last,
\* unless it was never stored.
Hearing ==
    /\ Range(heard) \subseteq shown \cap Stored
    /\ Sorted
    /\ HeardLast <= row.projected
    /\ AcknowledgedWasHeard
    /\ At("deliver") \/ At("mark") =>
          /\ row.dispatched < proc[Scheduler].s
          /\ proc[Scheduler].s <= row.projected
          /\ HeardLast <= proc[Scheduler].s
          /\ proc[Scheduler].s \in shown
    /\ At("deliver") => proc[Scheduler].s \in Stored
    /\ At("mark") /\ proc[Scheduler].s \in Stored => proc[Scheduler].s = HeardLast

\* One when a delivery's watermark was not written: it will be repeated.
Owed ==
    IF HeardLast > row.dispatched /\ ~(At("mark") /\ proc[Scheduler].s = HeardLast)
    THEN 1 ELSE 0

\* Only crashes and failures make the runtime hear a sample again.
Repeats ==
    Len(heard) + Owed <= Cardinality(Range(heard)) + crashes + faults

ProjectionInv == TypeOK /\ Threads /\ Stamps /\ Hearing /\ Repeats

-----------------------------------------------------------------------------
(* Type correctness.                                                       *)

\* Sets of naturals have a least element.
LEMMA HasMin ==
  ASSUME NEW T, T \subseteq Nat, T # {}
  PROVE  \E m \in T : \A x \in T : m <= x
<1> DEFINE Less == {ss \in Nat \X Nat : ss[1] < ss[2]}
<1>1. IsWellFoundedOn(Less, Nat)
  BY NatLessThanWellFounded DEF OpToRel
<1>2. PICK b \in T : \A y \in T : ~(<<y, b>> \in Less)
  <2> HIDE DEF Less
  <2> QED
    BY <1>1, WFMin
<1>3. ASSUME NEW x \in T PROVE b <= x
  <2>1. ~(x < b)
    BY <1>2
  <2> QED
    BY <2>1
<1> QED
  BY <1>3

\* Bounded sets of naturals have a greatest element, and Max is one.
LEMMA MaxOfBounded ==
  ASSUME NEW n \in Nat, NEW S, S \subseteq 0..n, S # {}
  PROVE  Max(S) \in S /\ \A x \in S : x <= Max(S)
<1> DEFINE Below == {y \in Nat : n - y \in S}
<1>1. PICK z : z \in S
  OBVIOUS
<1>2. n - z \in Below
  BY <1>1
<1>3. PICK b \in Below : \A y \in Below : b <= y
  <2>1. Below \subseteq Nat /\ Below # {}
    BY <1>2
  <2> HIDE DEF Below
  <2> QED
    BY <2>1, HasMin
<1>4. ASSUME NEW x \in S PROVE n - b >= x
  <2>1. n - x \in Below
    OBVIOUS
  <2>2. b <= n - x
    BY <1>3, <2>1
  <2> QED
    BY <2>2
<1>5. \E m \in S : \A x \in S : m >= x
  BY <1>3, <1>4
<1>6. Max(S) \in S /\ \A x \in S : Max(S) >= x
  <2> DEFINE P(m) == m \in S /\ \A x \in S : m >= x
  <2>1. Max(S) = CHOOSE m \in S : \A x \in S : m >= x
    BY DEF Max
  <2> QED
    BY <1>5, <2>1, Zenon
<1> QED
  BY <1>6

LEMMA RangeAppend ==
  ASSUME NEW T, NEW s \in Seq(T), NEW x \in T
  PROVE  Range(Append(s, x)) = Range(s) \cup {x}
<1>1. /\ DOMAIN s = 1..Len(s) /\ DOMAIN Append(s, x) = 1..(Len(s) + 1) /\ Len(s) \in Nat
      /\ Append(s, x)[Len(s) + 1] = x
      /\ \A i \in 1..Len(s) : Append(s, x)[i] = s[i]
  OBVIOUS
<1>2. Range(Append(s, x)) \subseteq Range(s) \cup {x}
  BY <1>1 DEF Range
<1>3. Range(s) \subseteq Range(Append(s, x)) /\ x \in Range(Append(s, x))
  BY <1>1 DEF Range
<1> QED
  BY <1>2, <1>3

LEMMA RangeType ==
  ASSUME NEW T, NEW s \in Seq(T)
  PROVE  Range(s) \subseteq T /\ (s # <<>> => Range(s) # {})
  BY DEF Range

LEMMA NewestStored ==
  ASSUME TypeOK, stored # <<>>
  PROVE  Newest \in Stored /\ Newest \in Times /\ \A s \in Stored : s <= Newest
<1>1. Stored \subseteq Times /\ Stored # {}
  BY RangeType DEF TypeOK, Stored
<1>2. Stored \subseteq 0..MaxSamples /\ MaxSamples \in Nat
  BY <1>1, BoundsAssumption DEF Times
<1> QED
  BY <1>1, <1>2, MaxOfBounded DEF Newest, Stored

LEMMA FreshType == Fresh \in Verdict /\ Requeued \in Verdict /\ Idle \in Thread
  BY BoundsAssumption DEF Fresh, Requeued, Verdict, Statuses, Idle, Thread, Labels

LEMMA VerdictType ==
  ASSUME TypeOK
  PROVE  /\ row.state \in Verdict
         /\ \A s : Succeeded(s) \in Verdict
         /\ \A new : InlineFailed(new) \in Verdict
         /\ RetryFailed \in Verdict /\ Gone \in Verdict
<1>1. row.state \in Verdict
  BY DEF TypeOK, DeviceRow
<1>2. /\ row.state.status \in Statuses /\ row.state.retries \in Nat
      /\ row.state.attempt \in {"none", "recent", "old"}
  BY <1>1 DEF Verdict
<1>3. ASSUME NEW s PROVE Succeeded(s) \in Verdict
  BY <1>2, FreshType DEF Succeeded, Fresh, Verdict, Statuses
<1>4. ASSUME NEW new PROVE InlineFailed(new) \in Verdict
  BY <1>1, <1>2 DEF InlineFailed, Verdict, Statuses
<1>5. RetryFailed \in Verdict
  BY <1>2 DEF RetryFailed, Verdict, Statuses
<1>6. Gone \in Verdict
  BY <1>1, <1>2 DEF Gone, Verdict, Statuses
<1> QED
  BY <1>1, <1>3, <1>4, <1>5, <1>6

\* What a change of status leaves of the row.
LEMMA RewriteType ==
  ASSUME TypeOK, NEW v \in Verdict, Rewrite(v)
  PROVE  /\ row' \in DeviceRow /\ row'.state = v /\ tries' \in Nat
         /\ row'.last = row.last /\ row'.projected = row.projected
         /\ row'.dispatched = row.dispatched
  BY DEF TypeOK, DeviceRow, Rewrite

\* A step of one thread, to thread state th.
Becomes(p, th) ==
    /\ th \in Thread
    /\ proc' \in [Processes -> Thread]
    /\ proc'[p] = th
    /\ \A q \in Processes \ {p} : proc'[q] = proc[q]

LEMMA MoveType ==
  ASSUME TypeOK, NEW p \in Processes, NEW th \in Thread,
         proc' = [proc EXCEPT ![p] = th]
  PROVE  Becomes(p, th)
  BY DEF TypeOK, Becomes

LEMMA GotoType ==
  ASSUME TypeOK, NEW p \in Processes, NEW l \in Labels, Goto(p, l)
  PROVE  Becomes(p, [proc[p] EXCEPT !.at = l])
<1>1. proc[p] \in Thread /\ [proc[p] EXCEPT !.at = l] \in Thread
  BY DEF TypeOK, Thread
<1>2. proc' = [proc EXCEPT ![p] = [proc[p] EXCEPT !.at = l]]
  BY DEF Goto, TypeOK
<1> QED
  BY <1>1, <1>2, MoveType

LEMMA WriteType ==
  ASSUME TypeOK, NEW p \in Processes, NEW v \in Verdict,
         proc' = [proc EXCEPT ![p].at = "write", ![p].verdict = v]
  PROVE  Becomes(p, [proc[p] EXCEPT !.at = "write", !.verdict = v])
<1>1. proc[p] \in Thread /\ [proc[p] EXCEPT !.at = "write", !.verdict = v] \in Thread
  BY DEF TypeOK, Thread, Labels
<1>2. proc' = [proc EXCEPT ![p] = [proc[p] EXCEPT !.at = "write", !.verdict = v]]
  BY DEF TypeOK
<1> QED
  BY <1>1, <1>2, MoveType

-----------------------------------------------------------------------------
(* What was heard.                                                         *)

LEMMA Facts ==
  ASSUME TypeOK
  PROVE  /\ MaxSamples \in Nat /\ clock \in 0..MaxSamples
         /\ row \in DeviceRow /\ row.state \in Verdict
         /\ row.last \in 0..MaxSamples
         /\ row.projected \in 0..MaxSamples /\ row.dispatched \in 0..MaxSamples
         /\ Scheduler \in Processes
         /\ \A p \in Processes : proc[p] \in Thread /\ proc[p].s \in 0..MaxSamples
         /\ Stored \subseteq Times /\ Range(heard) \subseteq Times /\ shown \subseteq Times
         /\ 0 \notin Times /\ Times \subseteq Nat
         /\ crashes \in Nat /\ faults \in Nat
  BY RangeType, BoundsAssumption
  DEF TypeOK, DeviceRow, Thread, Processes, Stored, Times

LEMMA LastHeard ==
  ASSUME TypeOK
  PROVE  /\ HeardLast \in Nat
         /\ heard # <<>> => HeardLast \in Range(heard)
         /\ HeardLast # 0 => HeardLast \in Range(heard)
         /\ IsFiniteSet(Range(heard)) /\ Cardinality(Range(heard)) \in Nat
         /\ Len(heard) \in Nat
<1>1. heard \in Seq(Times) /\ Range(heard) \subseteq Times /\ Times \subseteq Nat
  BY Facts DEF TypeOK
<1>2. heard # <<>> => HeardLast \in Range(heard)
  <2> HAVE heard # <<>>
  <2>1. Len(heard) \in DOMAIN heard /\ HeardLast = heard[Len(heard)]
    BY <1>1 DEF HeardLast
  <2> QED
    BY <2>1 DEF Range
<1>3. IsFiniteSet(Times)
  BY FS_Interval, BoundsAssumption DEF Times
<1>4. IsFiniteSet(Range(heard)) /\ Cardinality(Range(heard)) \in Nat
  BY <1>1, <1>3, FS_Subset, FS_CardinalityType
<1>5. heard = <<>> => HeardLast = 0
  BY DEF HeardLast
<1>6. Len(heard) \in Nat
  BY <1>1
<1> QED
  BY <1>1, <1>2, <1>4, <1>5, <1>6

\* Nothing heard is newer than what was heard last.
LEMMA NoneLater ==
  ASSUME TypeOK, Sorted, NEW s \in Range(heard)
  PROVE  s <= HeardLast
<1>1. PICK i \in DOMAIN heard : s = heard[i]
  BY DEF Range
<1>2. /\ heard \in Seq(Times) /\ Times \subseteq Nat /\ Len(heard) \in DOMAIN heard
      /\ i \in 1..Len(heard) /\ HeardLast = heard[Len(heard)] /\ s \in Nat /\ HeardLast \in Nat
  BY <1>1, Facts DEF TypeOK, HeardLast
<1>3. CASE i = Len(heard)
  BY <1>1, <1>2, <1>3
<1>4. CASE i < Len(heard)
  BY <1>1, <1>2, <1>4 DEF Sorted
<1> QED
  BY <1>2, <1>3, <1>4

-----------------------------------------------------------------------------
(* Steps that deliver nothing.                                             *)

\* Arithmetic of Repeats: whatever is owed in addition, a crash or a failure
\* has paid for.
LEMMA BoundGrows ==
  ASSUME NEW n \in Nat, NEW c \in Nat, NEW o \in 0..1, NEW q \in 0..1,
         NEW a \in Nat, NEW b \in Nat, NEW d \in Nat, NEW e \in Nat,
         n + o <= c + a + b, a + b + q <= d + e + o
  PROVE  n + q <= c + d + e
  OBVIOUS

LEMMA RepeatsKept ==
  ASSUME TypeOK, Repeats, heard' = heard, crashes' \in Nat, faults' \in Nat,
         crashes + faults + Owed' <= crashes' + faults' + Owed
  PROVE  Repeats'
<1>1. Owed \in 0..1 /\ Owed' \in 0..1
  BY DEF Owed
<1>2. /\ Len(heard) \in Nat /\ Cardinality(Range(heard)) \in Nat
      /\ crashes \in Nat /\ faults \in Nat
      /\ Len(heard) + Owed <= Cardinality(Range(heard)) + crashes + faults
  BY LastHeard DEF Repeats, TypeOK
<1>3. Len(heard) + Owed' <= Cardinality(Range(heard)) + crashes' + faults'
  BY <1>1, <1>2, BoundGrows
<1> QED
  BY <1>3 DEF Repeats

\* A thread moves, perhaps writes to Feishu or advances the projected
\* watermark, and the histories of storing and hearing stay as they are.
LEMMA QuietStep ==
  ASSUME ProjectionInv, TypeOK', NEW p \in Processes, NEW th, Becomes(p, th),
         UNCHANGED <<clock, stored, heard>>,
         \/ shown' = shown
         \/ proc[p].at = "put" /\ shown' = shown \cup {proc[p].s},
         row'.projected \in shown' \cup {0}, row.projected <= row'.projected,
         row'.dispatched = row.dispatched,
         proc[p].at # "mark", th.at \notin {"store", "deliver", "mark"},
         th.s \in {proc[p].s, 0} \cup Stored \cup shown,
         th.at \in {"note", "replay", "gate", "put"} => th.s # 0,
         th.at = "project" => th.s \in shown',
         crashes + faults <= crashes' + faults'
  PROVE  ProjectionInv'
<1>1. /\ TypeOK /\ Threads /\ Stamps /\ Hearing /\ Repeats
      /\ proc'[p] = th /\ \A q \in Processes \ {p} : proc'[q] = proc[q]
  BY DEF ProjectionInv, Becomes
<1>2. /\ clock' = clock /\ stored' = stored /\ heard' = heard
      /\ Stored' = Stored /\ HeardLast' = HeardLast /\ Range(heard)' = Range(heard)
      /\ Scheduler \in Processes
  BY DEF Stored, HeardLast, Processes
<1>3. /\ clock \in Nat /\ proc[p].s \in Nat /\ proc[p].s <= clock /\ th.s <= clock
      /\ Stored \subseteq 1..clock /\ shown \subseteq 1..clock
      /\ shown \subseteq shown' /\ shown' \subseteq shown \cup {proc[p].s}
      /\ shown' \subseteq 1..clock
  <2>1. clock \in Nat /\ proc[p].s \in Nat
    BY <1>1, Facts
  <2>2. Stored \subseteq 1..clock /\ shown \subseteq 1..clock
    BY <1>1 DEF Stamps
  <2>3. proc[p].s <= clock /\ (proc[p].at = "put" => proc[p].s \in 1..clock)
    BY <1>1, <2>1 DEF Threads
  <2>4. shown \subseteq shown' /\ shown' \subseteq shown \cup {proc[p].s}
    OBVIOUS
  <2>5. shown' \subseteq 1..clock
    BY <2>2, <2>3
  <2>6. th.s <= clock
    <3>1. \A x \in Stored \cup shown : x <= clock
      BY <2>1, <2>2
    <3> QED
      BY <2>1, <2>3, <3>1
  <2> QED
    BY <2>1, <2>2, <2>3, <2>4, <2>5, <2>6
<1>4. Threads'
  BY <1>1, <1>2, <1>3 DEF Threads
<1>5. Stamps'
  <2>1. ASSUME NEW q \in Processes, proc'[q].at = "store"
        PROVE  /\ q # p /\ proc[q].at = "store" /\ proc'[q].s = proc[q].s
               /\ proc[q].s \notin Stored \cup shown' \cup {0, th.s}
               /\ \A o \in Processes \ {q} : proc'[o].s # proc'[q].s
    <3>1. q # p /\ proc'[q] = proc[q]
      BY <1>1, <2>1
    <3>2. /\ proc[q].s \notin Stored \cup shown /\ proc[q].s # 0
          /\ \A o \in Processes \ {q} : proc[o].s # proc[q].s
      BY <1>1, <2>1, <3>1 DEF Stamps, Threads
    <3> QED
      BY <1>1, <1>3, <2>1, <3>1, <3>2
  <2> QED
    BY <1>1, <1>2, <1>3, <2>1 DEF Stamps
<1>6. /\ At("deliver")' => At("deliver") /\ proc'[Scheduler].s = proc[Scheduler].s
      /\ At("mark")' => At("mark") /\ proc'[Scheduler].s = proc[Scheduler].s
      /\ (At("mark") /\ proc[Scheduler].s = HeardLast) <=> (At("mark") /\ proc[Scheduler].s = HeardLast)'
  BY <1>1, <1>2 DEF At
<1>7. /\ row.projected \in Nat /\ row'.projected \in Nat /\ HeardLast \in Nat
      /\ proc[Scheduler].s \in Nat /\ row.dispatched \in Nat
  <2>1. row'.projected \in Nat
    BY <1>3 DEF TypeOK, DeviceRow
  <2> QED
    BY <1>1, <2>1, Facts, LastHeard
<1>8. Hearing'
  <2>1. Sorted' /\ AcknowledgedWasHeard'
    BY <1>1, <1>2 DEF Hearing, Sorted, AcknowledgedWasHeard, Stored
  <2>2. Range(heard)' \subseteq shown' \cap Stored' /\ HeardLast' <= row'.projected
    BY <1>1, <1>2, <1>3, <1>7 DEF Hearing
  <2>3. At("deliver")' \/ At("mark")' =>
          /\ row'.dispatched < proc'[Scheduler].s
          /\ proc'[Scheduler].s <= row'.projected
          /\ HeardLast <= proc'[Scheduler].s
          /\ proc'[Scheduler].s \in shown'
    BY <1>1, <1>3, <1>6, <1>7 DEF Hearing
  <2>4. /\ At("deliver")' => proc'[Scheduler].s \in Stored
        /\ At("mark")' /\ proc'[Scheduler].s \in Stored => proc'[Scheduler].s = HeardLast
    BY <1>1, <1>6 DEF Hearing
  <2> QED
    BY <1>2, <2>1, <2>2, <2>3, <2>4 DEF Hearing
<1>9. Repeats'
  <2>1. Owed' = Owed /\ Owed \in 0..1
    BY <1>2, <1>6 DEF Owed
  <2>2. crashes \in Nat /\ faults \in Nat /\ crashes' \in Nat /\ faults' \in Nat
    BY <1>1 DEF TypeOK
  <2>3. crashes + faults + Owed' <= crashes' + faults' + Owed
    <3>1. \A a, b, c, d \in Nat : \A o \in 0..1 : a + b <= c + d => a + b + o <= c + d + o
      OBVIOUS
    <3> QED
      BY <2>1, <2>2, <3>1
  <2> QED
    BY <1>1, <1>2, <2>2, <2>3, RepeatsKept
<1> QED
  BY <1>4, <1>5, <1>8, <1>9 DEF ProjectionInv

\* No thread moves and no watermark changes.
LEMMA StillStep ==
  ASSUME ProjectionInv, TypeOK', UNCHANGED <<clock, stored, proc, heard, shown, crashes, faults>>,
         row'.projected = row.projected, row'.dispatched = row.dispatched
  PROVE  ProjectionInv'
<1>1. Stored' = Stored /\ HeardLast' = HeardLast /\ Owed' = Owed
  BY DEF Stored, HeardLast, Owed, At
<1>2. Threads' /\ Stamps' /\ Repeats'
  BY <1>1 DEF ProjectionInv, Threads, Stamps, Repeats
<1>3. Hearing'
  BY <1>1 DEF ProjectionInv, Hearing, Sorted, AcknowledgedWasHeard, At
<1> QED
  BY <1>2, <1>3 DEF ProjectionInv
\* What a thread may turn into without storing, offering or marking.
Calm(p, th) ==
    /\ proc[p].at # "mark"
    /\ th.at \notin {"store", "deliver", "mark", "project"}
    /\ th.s \in {proc[p].s, 0} \cup Stored \cup shown
    /\ th.at \in {"note", "replay", "gate", "put"} => th.s # 0

\* Nothing but one thread and the task changes.
LEMMA MoveStep ==
  ASSUME ProjectionInv, NEW p \in Processes, NEW th, Becomes(p, th), Calm(p, th),
         task' \in BOOLEAN,
         UNCHANGED <<inline, clock, stored, row, remote, tombstone, heard,
                     shown, tries, crashes, faults>>
  PROVE  ProjectionInv'
<1>1. TypeOK'
  BY DEF ProjectionInv, TypeOK, Becomes
<1>2. row.projected \in shown \cup {0} /\ row.projected \in Nat /\ crashes + faults \in Nat
  BY Facts DEF ProjectionInv, Stamps
<1> QED
  BY <1>1, <1>2, QuietStep DEF Calm

\* The row's newest stamp or its status changes as well, or a fault occurs.
LEMMA RowStep ==
  ASSUME ProjectionInv, NEW p \in Processes, NEW th, Becomes(p, th), Calm(p, th),
         row' \in DeviceRow, row'.projected = row.projected, row'.dispatched = row.dispatched,
         task' \in BOOLEAN, tombstone' \in BOOLEAN, tries' \in Nat, faults' \in {faults, faults + 1},
         UNCHANGED <<inline, clock, stored, remote, heard, shown, crashes>>
  PROVE  ProjectionInv'
<1>1. crashes \in Nat /\ faults \in Nat /\ faults' \in Nat /\ faults <= faults'
  BY DEF ProjectionInv, TypeOK
<1>2. TypeOK'
  BY <1>1 DEF ProjectionInv, TypeOK, Becomes
<1>3. row.projected \in shown \cup {0} /\ row.projected \in Nat
  BY Facts DEF ProjectionInv, Stamps
<1>4. crashes + faults <= crashes' + faults'
  <2>1. \A a, b, c \in Nat : b <= c => a + b <= a + c
    OBVIOUS
  <2> QED
    BY <1>1, <2>1
<1> QED
  BY <1>2, <1>3, <1>4, QuietStep DEF Calm

LEMMA CollapseInv ==
  ASSUME ProjectionInv, NEW p \in Processes, Collapse(p)
  PROVE  ProjectionInv'
<1> DEFINE th == [proc[p] EXCEPT !.at = "note", !.s = Newest]
<1>1. Newest \in Stored /\ Newest \in Times
  BY NewestStored DEF ProjectionInv, Collapse
<1>2. proc[p] \in Thread /\ Newest \in 0..MaxSamples /\ Newest # 0
  BY <1>1, Facts DEF ProjectionInv, Times
<1>3. th \in Thread /\ th.at = "note" /\ th.s = Newest
  BY <1>2 DEF Thread, Labels
<1>4. proc' = [proc EXCEPT ![p] = th]
  BY DEF Collapse, ProjectionInv, TypeOK
<1> HIDE DEF th
<1>5. Becomes(p, th)
  BY <1>3, <1>4, MoveType DEF ProjectionInv
<1> QED
  BY <1>1, <1>2, <1>3, <1>5, MoveStep DEF Calm, Collapse, ProjectionInv, TypeOK

\* Where a thread may go on to with the sample it has.
LEMMA GotoStep ==
  ASSUME ProjectionInv, NEW p \in Processes, NEW l \in Labels,
         proc[p].at # "mark", l \notin {"store", "deliver", "mark", "project"},
         l \in {"note", "replay", "gate", "put"} =>
            proc[p].at \in {"store", "note", "replay", "gate", "put"}
  PROVE  /\ Calm(p, [proc[p] EXCEPT !.at = l])
         /\ Goto(p, l) => Becomes(p, [proc[p] EXCEPT !.at = l])
<1>1. proc[p] \in Thread
  BY Facts DEF ProjectionInv
<1>2. [proc[p] EXCEPT !.at = l].at = l /\ [proc[p] EXCEPT !.at = l].s = proc[p].s
  BY <1>1 DEF Thread
<1>3. Calm(p, [proc[p] EXCEPT !.at = l])
  BY <1>2 DEF Calm, ProjectionInv, Threads
<1> QED
  BY <1>3, GotoType DEF ProjectionInv

LEMMA WriteStep ==
  ASSUME ProjectionInv, NEW p \in Processes, NEW v \in Verdict, proc[p].at # "mark"
  PROVE  /\ Calm(p, [proc[p] EXCEPT !.at = "write", !.verdict = v])
         /\ proc' = [proc EXCEPT ![p].at = "write", ![p].verdict = v] =>
              Becomes(p, [proc[p] EXCEPT !.at = "write", !.verdict = v])
<1> DEFINE th == [proc[p] EXCEPT !.at = "write", !.verdict = v]
<1>1. proc[p] \in Thread
  BY Facts DEF ProjectionInv
<1>2. th.at = "write" /\ th.s = proc[p].s
  BY <1>1 DEF Thread
<1>3. Calm(p, th)
  BY <1>2 DEF Calm
<1> QED
  BY <1>3, WriteType DEF ProjectionInv

\* A thread gives up its sample.
LEMMA RestStep ==
  ASSUME ProjectionInv, NEW p \in Processes, NEW l \in {"idle", "dispatch", "scan"},
         proc[p].at # "mark"
  PROVE  /\ Calm(p, [Idle EXCEPT !.at = l])
         /\ proc' = [proc EXCEPT ![p] = [Idle EXCEPT !.at = l]] => Becomes(p, [Idle EXCEPT !.at = l])
         /\ Idle = [Idle EXCEPT !.at = "idle"]
<1>1. [Idle EXCEPT !.at = l] \in Thread /\ Idle = [Idle EXCEPT !.at = "idle"]
  BY FreshType DEF Idle, Thread, Labels
<1>2. [Idle EXCEPT !.at = l].at = l /\ [Idle EXCEPT !.at = l].s = 0
  BY DEF Idle
<1> QED
  BY <1>1, <1>2, MoveType DEF Calm, ProjectionInv

LEMMA ReplayInv ==
  ASSUME ProjectionInv, NEW p \in Processes, Replay(p)
  PROVE  ProjectionInv'
<1>1. CASE row.projected >= proc[p].s
  BY <1>1, RestStep, MoveStep DEF Replay, ProjectionInv, TypeOK
<1>2. CASE ~(row.projected >= proc[p].s)
  BY <1>2, GotoStep, MoveStep DEF Replay, Goto, Labels, ProjectionInv, TypeOK
<1> QED
  BY <1>1, <1>2

LEMMA DeferInv ==
  ASSUME ProjectionInv, NEW p \in Processes, Defer(p)
  PROVE  ProjectionInv'
<1>1. CASE ~Durable(p)
  BY <1>1, RestStep, MoveStep DEF Defer, ProjectionInv, TypeOK
<1>2. CASE Durable(p)
  BY <1>2, GotoStep, MoveStep DEF Defer, Goto, Labels, ProjectionInv, TypeOK
<1> QED
  BY <1>1, <1>2

LEMMA AttemptInv ==
  ASSUME ProjectionInv, NEW p \in Processes, Attempt(p)
  PROVE  ProjectionInv'
  BY GotoStep, MoveStep DEF Attempt, Labels, ProjectionInv, TypeOK

LEMMA QueueInv ==
  ASSUME ProjectionInv, NEW p \in Processes, Queue(p)
  PROVE  ProjectionInv'
<1>1. CASE ~Queues(proc[p].new)
  BY <1>1, RestStep, MoveStep DEF Queue, ProjectionInv, TypeOK
<1>2. CASE Queues(proc[p].new)
  BY <1>2, FreshType, WriteStep, MoveStep DEF Queue, ProjectionInv, TypeOK
<1> QED
  BY <1>1, <1>2
LEMMA StoreFailsInv ==
  ASSUME ProjectionInv, NEW p \in Processes, StoreFails(p)
  PROVE  ProjectionInv'
<1> DEFINE th == [proc[p] EXCEPT !.at = "note", !.new = TRUE]
<1>1. proc[p] \in Thread
  BY Facts DEF ProjectionInv
<1>2. th \in Thread /\ th.at = "note" /\ th.s = proc[p].s /\ th.s # 0
  BY <1>1 DEF Thread, Labels, StoreFails, ProjectionInv, Threads
<1>3. proc' = [proc EXCEPT ![p] = th]
  BY DEF StoreFails, ProjectionInv, TypeOK
<1> HIDE DEF th
<1>4. Becomes(p, th) /\ Calm(p, th)
  BY <1>2, <1>3, MoveType DEF ProjectionInv, Calm, StoreFails
<1> QED
  BY <1>4, RowStep DEF StoreFails, ProjectionInv, TypeOK

LEMMA NoteInv ==
  ASSUME ProjectionInv, NEW p \in Processes, Note(p)
  PROVE  ProjectionInv'
<1>1. /\ row' \in DeviceRow /\ row'.projected = row.projected /\ row'.dispatched = row.dispatched
  BY Facts DEF ProjectionInv, Note, Larger, DeviceRow
<1>2. CASE proc[p].new
  BY <1>1, <1>2, GotoStep, RowStep DEF Note, Labels, ProjectionInv, TypeOK
<1>3. CASE ~proc[p].new
  BY <1>1, <1>3, GotoStep, RowStep DEF Note, Labels, ProjectionInv, TypeOK
<1> QED
  BY <1>2, <1>3

LEMMA SucceedInv ==
  ASSUME ProjectionInv, NEW p \in Processes, Succeed(p)
  PROVE  ProjectionInv'
  BY VerdictType, WriteStep, MoveStep DEF Succeed, ProjectionInv, TypeOK

LEMMA FailInlineInv ==
  ASSUME ProjectionInv, NEW p \in Processes, FailInline(p)
  PROVE  ProjectionInv'
<1>1. CASE Durable(p) /\ row.state.status # "deleted"
  BY <1>1, VerdictType, WriteStep, MoveStep DEF FailInline, ProjectionInv, TypeOK
<1>2. CASE ~(Durable(p) /\ row.state.status # "deleted")
  BY <1>2, RestStep, MoveStep DEF FailInline, ProjectionInv, TypeOK
<1> QED
  BY <1>1, <1>2

LEMMA AnswerInv ==
  ASSUME ProjectionInv, NEW p \in Processes, Answer(p)
  PROVE  ProjectionInv'
<1>1. proc[p].verdict \in Verdict
  BY Facts DEF ProjectionInv, Thread
<1> QED
  BY <1>1, RewriteType, RestStep, RowStep DEF Answer, ProjectionInv, TypeOK

LEMMA PutRefusedInv ==
  ASSUME ProjectionInv, NEW p \in Processes, PutRefused(p)
  PROVE  ProjectionInv'
<1>1. /\ row' \in DeviceRow /\ row'.projected = row.projected /\ row'.dispatched = row.dispatched
      /\ tries' \in Nat
  BY VerdictType, RewriteType DEF PutRefused, ProjectionInv, TypeOK
<1>2. CASE p = Scheduler
  BY <1>1, <1>2, GotoStep, RowStep DEF PutRefused, Labels, ProjectionInv, TypeOK
<1>3. CASE p # Scheduler
  BY <1>1, <1>3, GotoStep, RowStep DEF PutRefused, Labels, ProjectionInv, TypeOK
<1> QED
  BY <1>2, <1>3

LEMMA ClaimInv ==
  ASSUME ProjectionInv, Claim
  PROVE  ProjectionInv'
<1>1. Scheduler \in Processes /\ proc[Scheduler].at = "idle" /\ task' \in BOOLEAN
  BY DEF Processes, Claim, At, ProjectionInv, TypeOK
<1>2. CASE task /\ row.state.status = "pending"
  BY <1>1, <1>2, GotoStep, MoveStep DEF Claim, Labels
<1>3. CASE ~(task /\ row.state.status = "pending")
  BY <1>1, <1>3, GotoStep, MoveStep DEF Claim, Labels
<1> QED
  BY <1>2, <1>3

LEMMA FetchInv ==
  ASSUME ProjectionInv, Fetch
  PROVE  ProjectionInv'
<1>1. Scheduler \in Processes /\ proc[Scheduler].at = "fetch" /\ proc[Scheduler] \in Thread
  BY Facts DEF Fetch, At, ProjectionInv
<1>2. CASE stored = <<>>
  BY <1>1, <1>2, GotoStep, MoveStep DEF Fetch, Goto, Labels, ProjectionInv, TypeOK
<1>3. CASE stored # <<>>
  <2> DEFINE th == [proc[Scheduler] EXCEPT !.at = "put", !.s = Newest]
  <2>1. Newest \in Stored /\ Newest \in 0..MaxSamples /\ Newest # 0
    BY <1>3, NewestStored, Facts DEF ProjectionInv, Times
  <2>2. th \in Thread /\ th.at = "put" /\ th.s = Newest
    BY <1>1, <2>1 DEF Thread, Labels
  <2>3. proc' = [proc EXCEPT ![Scheduler] = th]
    BY <1>1, <1>3 DEF Fetch, ProjectionInv, TypeOK
  <2> HIDE DEF th
  <2>4. Becomes(Scheduler, th) /\ Calm(Scheduler, th)
    BY <1>1, <2>1, <2>2, <2>3, MoveType DEF ProjectionInv, Calm
  <2> QED
    BY <1>1, <2>4, MoveStep DEF Fetch, ProjectionInv, TypeOK
<1> QED
  BY <1>2, <1>3

LEMMA FailRetryInv ==
  ASSUME ProjectionInv, FailRetry
  PROVE  ProjectionInv'
<1>1. Scheduler \in Processes
  BY DEF Processes
<1> QED
  BY <1>1, VerdictType, WriteStep, MoveStep DEF FailRetry, At, ProjectionInv, TypeOK

LEMMA GiveUpDeletedInv ==
  ASSUME ProjectionInv, GiveUpDeleted
  PROVE  ProjectionInv'
<1>1. Scheduler \in Processes
  BY DEF Processes
<1> QED
  BY <1>1, VerdictType, WriteStep, MoveStep DEF GiveUpDeleted, At, ProjectionInv, TypeOK

LEMMA ConcludeInv ==
  ASSUME ProjectionInv, Conclude
  PROVE  ProjectionInv'
<1>1. Scheduler \in Processes /\ proc[Scheduler].verdict \in Verdict
  BY Facts DEF ProjectionInv, Thread
<1> QED
  BY <1>1, RewriteType, RestStep, RowStep DEF Conclude, At, ProjectionInv, TypeOK

LEMMA RefuseInv ==
  ASSUME ProjectionInv, Refuse
  PROVE  ProjectionInv'
<1>1. Scheduler \in Processes
  BY DEF Processes
<1> QED
  BY <1>1, RestStep, MoveStep DEF Refuse, At, ProjectionInv, TypeOK

LEMMA ScanInv ==
  ASSUME ProjectionInv, Scan
  PROVE  ProjectionInv'
<1>1. Scheduler \in Processes /\ task' \in BOOLEAN
  BY DEF Processes, Scan, RetryDue, ProjectionInv, TypeOK
<1> QED
  BY <1>1, GotoStep, MoveStep DEF Scan, At, Labels

LEMMA CoolInv ==
  ASSUME ProjectionInv, Cool
  PROVE  ProjectionInv'
<1>1. row' \in DeviceRow /\ row'.projected = row.projected /\ row'.dispatched = row.dispatched
  BY Facts DEF ProjectionInv, Cool, DeviceRow, Verdict
<1>2. TypeOK'
  BY <1>1 DEF ProjectionInv, TypeOK, Cool
<1> QED
  BY <1>1, <1>2, StillStep DEF Cool

LEMMA DeleteRowInv ==
  ASSUME ProjectionInv, DeleteRow
  PROVE  ProjectionInv'
<1>1. TypeOK'
  BY BoundsAssumption DEF ProjectionInv, TypeOK, DeleteRow, Deleted
<1> QED
  BY <1>1, StillStep DEF DeleteRow
LEMMA PutInv ==
  ASSUME ProjectionInv, NEW p \in Processes, Put(p)
  PROVE  ProjectionInv'
<1> DEFINE th == [proc[p] EXCEPT !.at = "project"]
<1>1. proc[p] \in Thread /\ proc[p].s \in Times
  BY Facts DEF ProjectionInv, Threads, Put, Times
<1>2. Becomes(p, th) /\ th.at = "project" /\ th.s = proc[p].s
  BY <1>1, GotoType DEF ProjectionInv, Put, Labels, Thread
<1> HIDE DEF th
<1>3. TypeOK'
  <2>1. shown' \subseteq Times /\ proc' \in [Processes -> Thread]
    BY <1>1, <1>2 DEF ProjectionInv, TypeOK, Put, Becomes
  <2>3. remote' \in 0..Deleted
    BY <1>1, BoundsAssumption DEF Put, Deleted, Times
  <2>2. UNCHANGED <<inline, clock, stored, row, task, tombstone, heard, tries,
                    crashes, faults>>
    BY DEF Put
  <2> QED
    BY <2>1, <2>2, <2>3 DEF ProjectionInv, TypeOK
<1>4. row.projected \in shown' \cup {0} /\ row.projected \in Nat /\ crashes + faults \in Nat
  BY Facts DEF ProjectionInv, Stamps, Put
<1> QED
  BY <1>2, <1>3, <1>4, QuietStep DEF Put

LEMMA PutFailsInv ==
  ASSUME ProjectionInv, NEW p \in Processes, PutFails(p)
  PROVE  ProjectionInv'
<1> DEFINE th == [proc[p] EXCEPT !.at = "failed"]
<1>1. proc[p] \in Thread /\ proc[p].s \in Times
  BY Facts DEF ProjectionInv, Threads, PutFails, Times
<1>2. Becomes(p, th) /\ th.at = "failed" /\ th.s = proc[p].s
  BY <1>1, GotoType DEF ProjectionInv, PutFails, Labels, Thread
<1> HIDE DEF th
<1>3. /\ shown' = shown \/ shown' = shown \cup {proc[p].s}
      /\ remote' \in 0..Deleted /\ tries' \in Nat /\ faults' = faults + 1
  BY <1>1, BoundsAssumption DEF PutFails, ProjectionInv, TypeOK, Deleted, Times
<1>4. TypeOK'
  <2>1. shown' \subseteq Times /\ faults' \in Nat
    BY <1>1, <1>3 DEF ProjectionInv, TypeOK
  <2>2. /\ proc' \in [Processes -> Thread]
        /\ UNCHANGED <<inline, clock, stored, row, task, tombstone, heard, crashes>>
    BY <1>2 DEF Becomes, PutFails
  <2> QED
    BY <1>3, <2>1, <2>2 DEF ProjectionInv, TypeOK
<1>5. row.projected \in shown' \cup {0} /\ row.projected \in Nat
  BY <1>3, Facts DEF ProjectionInv, Stamps
<1>6. crashes + faults <= crashes' + faults'
  BY <1>3 DEF PutFails, ProjectionInv, TypeOK
<1> QED
  BY <1>2, <1>3, <1>4, <1>5, <1>6, QuietStep DEF PutFails

LEMMA ProjectInv ==
  ASSUME ProjectionInv, NEW p \in Processes, Project(p)
  PROVE  ProjectionInv'
<1> DEFINE th == [proc[p] EXCEPT !.at = "succeeded"]
<1>1. proc[p] \in Thread /\ proc[p].s \in shown /\ proc[p].s \in 0..MaxSamples
  BY Facts DEF ProjectionInv, Threads, Project
<1>2. Becomes(p, th) /\ th.at = "succeeded" /\ th.s = proc[p].s
  BY <1>1, GotoType DEF ProjectionInv, Project, Labels, Thread
<1> HIDE DEF th
<1>3. /\ row' \in DeviceRow /\ row'.projected \in shown \cup {0}
      /\ row.projected <= row'.projected /\ row'.dispatched = row.dispatched
  BY <1>1, Facts DEF ProjectionInv, Stamps, Project, Larger, DeviceRow
<1>4. TypeOK' /\ crashes + faults \in Nat
  BY <1>2, <1>3 DEF ProjectionInv, TypeOK, Project, Becomes
<1> QED
  BY <1>2, <1>3, <1>4, QuietStep DEF Project

-----------------------------------------------------------------------------
(* Reports arriving and being stored.                                      *)

LEMMA ReceiveInv ==
  ASSUME ProjectionInv, NEW p \in Processes, Receive(p)
  PROVE  ProjectionInv'
<1> DEFINE th == [Idle EXCEPT !.at = "store", !.s = clock + 1]
<1>1. /\ clock \in Nat /\ clock' = clock + 1 /\ clock' \in Times
      /\ UNCHANGED <<inline, stored, row, task, remote, tombstone, heard, shown,
                     tries, crashes, faults>>
  BY Facts DEF Receive, ProjectionInv, Times
<1>2. th \in Thread /\ th.at = "store" /\ th.s = clock + 1
  <2>1. Idle \in Thread /\ clock + 1 \in 0..MaxSamples
    BY <1>1, FreshType DEF Times
  <2> QED
    BY <2>1 DEF Thread, Labels
<1>3. Becomes(p, th)
  BY <1>2, MoveType DEF Receive, ProjectionInv
<1> HIDE DEF th
<1>4. proc'[p] = th /\ \A q \in Processes \ {p} : proc'[q] = proc[q]
  BY <1>3 DEF Becomes
<1>5. TypeOK'
  BY <1>1, <1>3 DEF ProjectionInv, TypeOK, Becomes, Times
<1>6. \A q \in Processes : proc[q].s \in Nat /\ proc[q].s <= clock
  BY Facts DEF ProjectionInv, Threads
<1>7. Threads'
  BY <1>1, <1>2, <1>4, <1>6 DEF ProjectionInv, Threads
<1>8. Stored' = Stored /\ HeardLast' = HeardLast
  BY <1>1 DEF Stored, HeardLast
<1>9. Stamps'
  <2>1. Stored \subseteq 1..clock' /\ shown \subseteq 1..clock' /\ clock' \notin Stored \cup shown
    BY <1>1 DEF ProjectionInv, Stamps
  <2>2. ASSUME NEW q \in Processes, proc'[q].at = "store"
        PROVE  /\ proc'[q].s \notin Stored \cup shown
               /\ \A o \in Processes \ {q} : proc'[o].s # proc'[q].s
    <3>1. CASE q = p
      BY <1>1, <1>2, <1>4, <1>6, <2>1, <3>1
    <3>2. CASE q # p
      BY <1>1, <1>2, <1>4, <1>6, <2>2, <3>2 DEF ProjectionInv, Stamps
    <3> QED
      BY <3>1, <3>2
  <2> QED
    BY <1>1, <1>8, <2>1, <2>2 DEF ProjectionInv, Stamps
<1>10. /\ At("deliver")' <=> At("deliver") /\ p # Scheduler
       /\ At("mark")' <=> At("mark") /\ p # Scheduler
       /\ p # Scheduler => proc'[Scheduler] = proc[Scheduler]
       /\ p = Scheduler => ~At("mark")
  BY <1>2, <1>4 DEF At, Receive, Processes
<1>11. Hearing'
  BY <1>1, <1>8, <1>10 DEF ProjectionInv, Hearing, Sorted, AcknowledgedWasHeard, Stored
<1>12. Repeats'
  BY <1>1, <1>8, <1>10 DEF ProjectionInv, Repeats, Owed
<1> QED
  BY <1>5, <1>7, <1>9, <1>11, <1>12 DEF ProjectionInv

LEMMA StoreInv ==
  ASSUME ProjectionInv, NEW p \in Processes, Store(p)
  PROVE  ProjectionInv'
<1> DEFINE th == [proc[p] EXCEPT !.at = "note", !.new = TRUE, !.kept = TRUE]
           s == proc[p].s
<1>1. /\ proc[p] \in Thread /\ s \in Times /\ s \in 1..clock /\ proc[p].at = "store"
      /\ s \notin Stored \cup shown /\ \A q \in Processes \ {p} : proc[q].s # s
  BY Facts DEF ProjectionInv, Threads, Stamps, Store, Times
<1>2. th \in Thread /\ th.at = "note" /\ th.s = s
  BY <1>1 DEF Thread, Labels
<1>3. /\ proc' = [proc EXCEPT ![p] = th] /\ stored' = Append(stored, s)
      /\ UNCHANGED <<inline, clock, row, task, remote, tombstone, heard, shown,
                     tries, crashes, faults>>
  BY DEF Store, ProjectionInv, TypeOK
<1> HIDE DEF th
<1>4. Becomes(p, th)
  BY <1>2, <1>3, MoveType DEF ProjectionInv
<1>5. proc'[p] = th /\ \A q \in Processes \ {p} : proc'[q] = proc[q]
  BY <1>4 DEF Becomes
<1>6. Stored' = Stored \cup {s} /\ stored' \in Seq(Times)
  BY <1>1, <1>3, RangeAppend DEF ProjectionInv, TypeOK, Stored
<1>7. TypeOK'
  BY <1>3, <1>4, <1>6 DEF ProjectionInv, TypeOK, Becomes
<1>8. Threads'
  BY <1>1, <1>2, <1>3, <1>5 DEF ProjectionInv, Threads
<1>9. Stamps'
  <2>1. /\ Stored' \subseteq 1..clock' /\ shown' \subseteq 1..clock'
        /\ row'.projected \in shown' \cup {0} /\ row'.dispatched \in shown' \cup {0}
    BY <1>1, <1>3, <1>6 DEF ProjectionInv, Stamps
  <2>2. ASSUME NEW q \in Processes, proc'[q].at = "store"
        PROVE  /\ proc'[q].s \notin Stored' \cup shown
               /\ \A o \in Processes \ {q} : proc'[o].s # proc'[q].s
    <3>1. q # p /\ proc'[q] = proc[q]
      BY <1>2, <1>5, <2>2
    <3>2. /\ proc[q].s \notin Stored \cup shown
          /\ \A o \in Processes \ {q} : proc[o].s # proc[q].s
      BY <2>2, <3>1 DEF ProjectionInv, Stamps
    <3> QED
      BY <1>1, <1>2, <1>5, <1>6, <3>1, <3>2
  <2> QED
    BY <1>3, <2>1, <2>2 DEF Stamps
<1>10. /\ At("deliver")' <=> At("deliver") /\ p # Scheduler
       /\ At("mark")' <=> At("mark") /\ p # Scheduler
       /\ p # Scheduler => proc'[Scheduler] = proc[Scheduler]
       /\ p = Scheduler => ~At("mark")
  BY <1>1, <1>2, <1>5 DEF At, Processes
<1>11. HeardLast' = HeardLast
  BY <1>3 DEF HeardLast
<1>12. row.dispatched # s
  BY <1>1, Facts DEF ProjectionInv, Stamps
<1>13. AcknowledgedWasHeard'
  BY <1>3, <1>6, <1>12 DEF ProjectionInv, Hearing, AcknowledgedWasHeard, Stored
<1>14. Hearing'
  BY <1>1, <1>3, <1>6, <1>10, <1>11, <1>13 DEF ProjectionInv, Hearing, Sorted
<1>15. Repeats'
  BY <1>3, <1>10, <1>11 DEF ProjectionInv, Repeats, Owed
<1> QED
  BY <1>7, <1>8, <1>9, <1>14, <1>15 DEF ProjectionInv
-----------------------------------------------------------------------------
(* Dispatch.                                                               *)

\* The scheduler goes on with its tick.
LEMMA SchedulerStep ==
  ASSUME ProjectionInv, NEW th, Becomes(Scheduler, th),
         row' \in DeviceRow, row'.projected = row.projected,
         row'.dispatched \in shown \cup {0},
         heard' \in Seq(Times), faults' \in {faults, faults + 1},
         th.at \in {"scan", "deliver", "mark"}, th.s \in shown \cup {0},
         UNCHANGED <<inline, clock, stored, task, remote, tombstone, shown,
                     tries, crashes>>
  PROVE  /\ TypeOK' /\ Threads' /\ Stamps'
         /\ proc'[Scheduler] = th
<1>1. /\ Scheduler \in Processes /\ proc'[Scheduler] = th
      /\ proc' \in [Processes -> Thread]
      /\ \A q \in Processes \ {Scheduler} : proc'[q] = proc[q]
      /\ Stored' = Stored
  BY DEF Processes, Becomes, Stored
<1>2. TypeOK'
  BY <1>1 DEF ProjectionInv, TypeOK
<1>3. \A x \in shown \cup {0} : x <= clock
  BY Facts DEF ProjectionInv, Stamps
<1>4. Threads'
  BY <1>1, <1>3 DEF ProjectionInv, Threads
<1>5. ASSUME NEW q \in Processes, proc'[q].at = "store"
      PROVE  /\ proc'[q].s \notin Stored \cup shown
             /\ \A o \in Processes \ {q} : proc'[o].s # proc'[q].s
  <2>1. q # Scheduler /\ proc'[q] = proc[q]
    BY <1>1, <1>5
  <2>2. /\ proc[q].s \notin Stored \cup shown \cup {0}
        /\ \A o \in Processes \ {q} : proc[o].s # proc[q].s
    BY <1>5, <2>1 DEF ProjectionInv, Stamps, Threads
  <2> QED
    BY <1>1, <2>1, <2>2
<1>6. Stamps'
  BY <1>1, <1>5 DEF ProjectionInv, Stamps
<1> QED
  BY <1>1, <1>2, <1>4, <1>6

LEMMA DispatchInv ==
  ASSUME ProjectionInv, Dispatch
  PROVE  ProjectionInv'
<1> DEFINE next == IF row.projected \in Range(stored) THEN "deliver" ELSE "mark"
           offer == [proc[Scheduler] EXCEPT !.s = row.projected, !.at = next]
           th == IF Undispatched THEN offer ELSE [Idle EXCEPT !.at = "scan"]
<1>1. /\ proc[Scheduler] \in Thread /\ Scheduler \in Processes
      /\ proc[Scheduler].at = "dispatch"
      /\ row.projected \in 0..MaxSamples /\ row.dispatched \in 0..MaxSamples
      /\ row.projected \in shown \cup {0} /\ row \in DeviceRow /\ MaxSamples \in Nat
      /\ row.dispatched \in shown \cup {0} /\ HeardLast \in Nat /\ HeardLast <= row.projected
  BY Facts, LastHeard DEF Dispatch, At, ProjectionInv, Stamps, Hearing
<1>2. offer \in Thread /\ offer.at = next /\ offer.s = row.projected
  BY <1>1 DEF Thread, Labels
<1>3. /\ th \in Thread /\ th.at \in {"scan", "deliver", "mark"}
      /\ th.s \in shown \cup {0}
      /\ th.at \in {"deliver", "mark"} => Undispatched /\ th.s = row.projected
      /\ th.at = "deliver" => row.projected \in Stored
      /\ th.at = "mark" => row.projected \notin Stored
  BY <1>1, <1>2, FreshType DEF Idle, Thread, Labels, Stored
<1>4. proc' = [proc EXCEPT ![Scheduler] = th]
  BY <1>1 DEF Dispatch, ProjectionInv, TypeOK
<1> HIDE DEF th
<1>5. UNCHANGED <<inline, clock, stored, row, task, remote, tombstone, heard, shown,
                  tries, crashes, faults>>
  BY DEF Dispatch
<1>7. Becomes(Scheduler, th)
  BY <1>1, <1>3, <1>4, MoveType DEF ProjectionInv
<1>8. TypeOK' /\ Threads' /\ Stamps' /\ proc'[Scheduler] = th
  BY <1>1, <1>3, <1>5, <1>7, SchedulerStep DEF ProjectionInv, TypeOK
<1>9. Stored' = Stored /\ HeardLast' = HeardLast /\ ~At("mark") /\ ~At("deliver")
  BY <1>1, <1>5 DEF Stored, HeardLast, At
<1>10. At("deliver")' \/ At("mark")' =>
         /\ Undispatched /\ proc'[Scheduler].s = row.projected
         /\ row.dispatched < row.projected /\ row.projected \in shown
  BY <1>1, <1>3, <1>8 DEF At, Undispatched
<1>11. Hearing'
  BY <1>1, <1>3, <1>5, <1>8, <1>9, <1>10
  DEF ProjectionInv, Hearing, Sorted, AcknowledgedWasHeard, At
<1>12. Repeats'
  <2>1. Owed \in 0..1 /\ Owed' \in 0..1 /\ Owed' <= Owed
    BY <1>5, <1>9 DEF Owed
  <2>2. crashes \in Nat /\ faults \in Nat /\ crashes' = crashes /\ faults' = faults
    BY <1>5 DEF ProjectionInv, TypeOK
  <2>3. crashes + faults + Owed' <= crashes + faults + Owed
    <3>1. \A a, b \in Nat : \A o, q \in 0..1 : q <= o => a + b + q <= a + b + o
      OBVIOUS
    <3> QED
      BY <2>1, <2>2, <3>1
  <2> QED
    BY <1>5, <2>2, <2>3, RepeatsKept DEF ProjectionInv
<1> QED
  BY <1>8, <1>11, <1>12 DEF ProjectionInv
\* A sample is heard for the first time, or again because it is owed.
LEMMA HearAgain ==
  ASSUME TypeOK, Sorted, NEW s \in Times, HeardLast <= s
  PROVE  LET again == IF HeardLast = s THEN 1 ELSE 0
         IN  /\ Append(heard, s) \in Seq(Times)
             /\ Range(Append(heard, s)) = Range(heard) \cup {s}
             /\ Len(Append(heard, s)) = Len(heard) + 1
             /\ Cardinality(Range(Append(heard, s))) + again
                  = Cardinality(Range(heard)) + 1
<1>1. heard \in Seq(Times) /\ s \in Nat /\ s # 0
  BY Facts DEF TypeOK
<1>2. /\ Range(Append(heard, s)) = Range(heard) \cup {s}
      /\ Append(heard, s) \in Seq(Times) /\ Len(Append(heard, s)) = Len(heard) + 1
  BY <1>1, RangeAppend
<1>3. s \in Range(heard) <=> HeardLast = s
  <2>1. CASE s \in Range(heard)
    <3>1. s <= HeardLast /\ HeardLast \in Nat
      BY <2>1, NoneLater, LastHeard
    <3> QED
      BY <1>1, <2>1, <3>1
  <2>2. CASE s \notin Range(heard)
    BY <1>1, <2>2, LastHeard
  <2> QED
    BY <2>1, <2>2
<1>4. /\ Cardinality(Range(heard)) \in Nat
      /\ Cardinality(Range(heard) \cup {s}) =
           IF s \in Range(heard) THEN Cardinality(Range(heard))
                                 ELSE Cardinality(Range(heard)) + 1
  BY LastHeard, FS_AddElement
<1> QED
  BY <1>2, <1>3, <1>4

LEMMA DeliverInv ==
  ASSUME ProjectionInv, Deliver
  PROVE  ProjectionInv'
<1> DEFINE th == [proc[Scheduler] EXCEPT !.at = "mark"]
           s == proc[Scheduler].s
<1>1. /\ proc[Scheduler] \in Thread /\ Scheduler \in Processes /\ proc[Scheduler].at = "deliver"
      /\ row.dispatched < s /\ s <= row.projected /\ HeardLast <= s /\ s \in shown /\ s \in Stored
      /\ s \in Times /\ s \in Nat /\ HeardLast \in Nat /\ row.dispatched \in Nat
  BY Facts, LastHeard DEF Deliver, At, ProjectionInv, Hearing
<1>2. th \in Thread /\ th.at = "mark" /\ th.s = s /\ Becomes(Scheduler, th)
  BY <1>1, GotoType DEF Deliver, Labels, Thread, ProjectionInv
<1> HIDE DEF th
<1>3. heard' = Append(heard, s)
      /\ UNCHANGED <<inline, clock, stored, row, task, remote, tombstone, shown,
                     tries, crashes, faults>>
  BY DEF Deliver
<1>4. /\ heard' \in Seq(Times) /\ Range(heard') = Range(heard) \cup {s}
      /\ Len(heard') = Len(heard) + 1
      /\ Cardinality(Range(heard')) + (IF HeardLast = s THEN 1 ELSE 0)
           = Cardinality(Range(heard)) + 1
  BY <1>1, <1>3, HearAgain DEF ProjectionInv, Hearing
<1>5. /\ TypeOK' /\ Threads' /\ Stamps' /\ proc'[Scheduler] = th
  BY <1>1, <1>2, <1>3, <1>4, SchedulerStep DEF ProjectionInv, TypeOK, Stamps
<1>6. heard \in Seq(Times) /\ \A x \in Range(heard) : x <= HeardLast
  BY NoneLater DEF ProjectionInv, TypeOK, Hearing
<1>7. HeardLast' = s /\ Stored' = Stored
  BY <1>3, <1>6 DEF HeardLast, Stored
<1>8. Sorted'
  <2> SUFFICES ASSUME NEW i \in DOMAIN heard', NEW j \in DOMAIN heard', i < j
               PROVE  heard'[i] <= heard'[j]
    BY DEF Sorted
  <2>1. i \in 1..Len(heard) /\ heard'[i] = heard[i] /\ i \in DOMAIN heard
    BY <1>3, <1>6
  <2>2. CASE j = Len(heard) + 1
    <3>1. heard'[j] = s
      BY <1>3, <1>6, <2>2
    <3>2. heard[i] \in Range(heard) /\ heard[i] \in Nat
      BY <1>6, <2>1, Facts DEF ProjectionInv, Range
    <3>3. heard[i] <= HeardLast
      BY <1>6, <3>2
    <3> QED
      BY <1>1, <2>1, <3>1, <3>2, <3>3
  <2>3. CASE j # Len(heard) + 1
    <3>1. j \in DOMAIN heard /\ heard'[j] = heard[j]
      BY <1>3, <1>6, <2>3
    <3> QED
      BY <2>1, <3>1 DEF ProjectionInv, Hearing, Sorted
  <2> QED
    BY <2>2, <2>3
<1>9. AcknowledgedWasHeard'
  BY <1>3, <1>4, <1>7 DEF ProjectionInv, Hearing, AcknowledgedWasHeard, Stored
<1>10. Hearing'
  BY <1>1, <1>2, <1>3, <1>4, <1>5, <1>7, <1>8, <1>9 DEF ProjectionInv, Hearing, At
<1>11. Repeats'
  <2>1. Owed' = 0
    BY <1>2, <1>5, <1>7 DEF Owed, At
  <2> DEFINE again == IF HeardLast = s THEN 1 ELSE 0
             n == Len(heard)
             c == Cardinality(Range(heard))
             d == Cardinality(Range(heard'))
  <2>2. Owed \in 0..1 /\ again \in 0..1 /\ again <= Owed
    BY <1>1 DEF Owed, At
  <2>3. /\ n \in Nat /\ c \in Nat /\ d + again = c + 1
        /\ crashes \in Nat /\ faults \in Nat
        /\ n + Owed <= c + crashes + faults
    BY <1>4, LastHeard DEF ProjectionInv, Repeats, TypeOK
  <2>4. d \in Nat
    <3>1. IsFiniteSet(Range(heard) \cup {s})
      BY LastHeard, FS_AddElement DEF ProjectionInv
    <3> QED
      BY <1>4, <3>1, FS_CardinalityType
  <2> HIDE DEF again, n, c, d
  <2>5. n + 1 <= d + crashes + faults
    BY <2>2, <2>3, <2>4
  <2> QED
    BY <1>3, <1>4, <2>1, <2>3, <2>5 DEF Repeats, n, d
<1> QED
  BY <1>5, <1>10, <1>11 DEF ProjectionInv
LEMMA MarkInv ==
  ASSUME ProjectionInv, Mark \/ MarkFails
  PROVE  ProjectionInv'
<1> DEFINE th == [Idle EXCEPT !.at = "scan"]
           s == proc[Scheduler].s
<1>1. /\ Scheduler \in Processes /\ proc[Scheduler].at = "mark"
      /\ row.dispatched < s /\ s <= row.projected /\ HeardLast <= s /\ s \in shown
      /\ s \in Stored => s = HeardLast
      /\ s \in 0..MaxSamples /\ HeardLast \in Nat /\ row.dispatched \in Nat
      /\ row \in DeviceRow /\ MaxSamples \in Nat /\ row.dispatched \in shown \cup {0}
  BY Facts, LastHeard DEF Mark, MarkFails, At, ProjectionInv, Hearing, Stamps
<1>2. th \in Thread /\ th.at = "scan" /\ th.s = 0
  BY FreshType DEF Idle, Thread, Labels
<1>3. proc' = [proc EXCEPT ![Scheduler] = th]
  BY DEF Mark, MarkFails
<1> HIDE DEF th
<1>4. Becomes(Scheduler, th)
  BY <1>1, <1>2, <1>3, MoveType DEF ProjectionInv
<1>5. /\ row' \in DeviceRow /\ row'.projected = row.projected
      /\ \/ Mark /\ row'.dispatched = s
         \/ MarkFails /\ row'.dispatched = row.dispatched
  BY <1>1 DEF Mark, MarkFails, Larger, DeviceRow
<1>6. /\ UNCHANGED <<inline, clock, stored, task, remote, tombstone, heard, shown,
                     tries, crashes>>
      /\ \/ Mark /\ faults' = faults
         \/ MarkFails /\ faults' = faults + 1
  BY DEF Mark, MarkFails
<1>7. TypeOK' /\ Threads' /\ Stamps' /\ proc'[Scheduler] = th
  BY <1>1, <1>2, <1>4, <1>5, <1>6, SchedulerStep DEF ProjectionInv, TypeOK
<1>8. HeardLast' = HeardLast /\ Stored' = Stored /\ ~At("mark")' /\ ~At("deliver")'
  BY <1>2, <1>6, <1>7 DEF HeardLast, Stored, At
<1>9. AcknowledgedWasHeard'
  <2>1. CASE Mark
    <3>1. s # 0
      BY <1>1
    <3>2. s \in Stored => s \in Range(heard)
      BY <1>1, <3>1, LastHeard DEF ProjectionInv
    <3>3. row'.dispatched = s
      BY <1>1, <1>5, <2>1 DEF Mark, Larger, DeviceRow
    <3> QED
      BY <1>6, <3>2, <3>3 DEF AcknowledgedWasHeard, Stored
  <2>2. CASE MarkFails
    BY <2>2 DEF MarkFails, ProjectionInv, Hearing, AcknowledgedWasHeard
  <2> QED
    BY <2>1, <2>2
<1>10. Hearing'
  BY <1>5, <1>6, <1>8, <1>9 DEF ProjectionInv, Hearing, Sorted
<1>11. Repeats'
  <2>1. Owed \in 0..1 /\ Owed' \in 0..1
    BY DEF Owed
  <2>2. crashes \in Nat /\ faults \in Nat /\ faults' \in Nat /\ crashes' = crashes
    BY <1>6 DEF ProjectionInv, TypeOK
  <2>3. faults + Owed' <= faults'
    <3>1. CASE Mark /\ faults' = faults
      <4>1. row'.dispatched = s
        BY <1>1, <3>1 DEF Mark, Larger, DeviceRow
      <4> QED
        BY <1>1, <1>8, <2>2, <3>1, <4>1 DEF Owed
    <3>2. CASE faults' = faults + 1
      <4>1. \A b \in Nat : \A q \in 0..1 : b + q <= b + 1
        OBVIOUS
      <4> QED
        BY <2>1, <2>2, <3>2, <4>1
    <3> QED
      BY <1>6, <3>1, <3>2
  <2>4. crashes + faults + Owed' <= crashes' + faults' + Owed
    <3>1. \A a, b, d \in Nat : \A o, q \in 0..1 : b + q <= d => a + b + q <= a + d + o
      OBVIOUS
    <3> QED
      BY <2>1, <2>2, <2>3, <3>1
  <2> QED
    BY <1>6, <2>2, <2>4, RepeatsKept DEF ProjectionInv
<1> QED
  BY <1>7, <1>10, <1>11 DEF ProjectionInv

LEMMA CrashInv ==
  ASSUME ProjectionInv, Crash
  PROVE  ProjectionInv'
<1>1. /\ row' \in DeviceRow /\ row'.projected = row.projected
      /\ row'.dispatched = row.dispatched /\ tries' \in Nat
  BY FreshType, RewriteType, Facts DEF Crash, ProjectionInv, TypeOK
<1>2. /\ crashes' = crashes + 1 /\ proc' = [p \in Processes |-> Idle]
      /\ UNCHANGED <<inline, clock, stored, task, remote, tombstone, heard, shown, faults>>
  BY DEF Crash
<1>3. TypeOK'
  BY <1>1, <1>2, FreshType DEF ProjectionInv, TypeOK
<1>4. \A p \in Processes : proc'[p].at = "idle" /\ proc'[p].s = 0
  BY <1>2 DEF Idle
<1>5. Scheduler \in Processes /\ Stored' = Stored /\ HeardLast' = HeardLast /\ clock \in Nat
  BY <1>2, Facts DEF Processes, Stored, HeardLast, ProjectionInv
<1>6. Threads' /\ Stamps'
  BY <1>1, <1>2, <1>4, <1>5 DEF ProjectionInv, Threads, Stamps
<1>7. Hearing'
  BY <1>1, <1>2, <1>4, <1>5 DEF ProjectionInv, Hearing, Sorted, AcknowledgedWasHeard, At, Stored
<1>8. Repeats'
  <2>1. Owed \in 0..1 /\ Owed' \in 0..1
    BY DEF Owed
  <2>2. crashes \in Nat /\ faults \in Nat /\ faults' = faults /\ crashes' = crashes + 1
    BY <1>2 DEF ProjectionInv, TypeOK
  <2>3. crashes + faults + Owed' <= crashes' + faults' + Owed
    <3>1. \A a, b \in Nat : \A o, q \in 0..1 : a + b + q <= (a + 1) + b + o
      OBVIOUS
    <3> QED
      BY <2>1, <2>2, <3>1
  <2> QED
    BY <1>2, <2>2, <2>3, RepeatsKept DEF ProjectionInv
<1> QED
  BY <1>3, <1>6, <1>7, <1>8 DEF ProjectionInv

-----------------------------------------------------------------------------
(* The theorems.                                                           *)

LEMMA InitInv == Init => ProjectionInv
<1> SUFFICES ASSUME Init PROVE ProjectionInv
  OBVIOUS
<1>1. TypeOK
  <2>1. row \in DeviceRow
    BY FreshType, BoundsAssumption DEF Init, DeviceRow
  <2>2. proc \in [Processes -> Thread]
    BY FreshType DEF Init
  <2>3. clock \in 0..MaxSamples /\ remote \in 0..Deleted
    BY BoundsAssumption DEF Init, Deleted
  <2>4. /\ inline \in InlineModes /\ stored = <<>> /\ heard = <<>> /\ shown = {}
        /\ task = FALSE /\ tombstone = FALSE /\ tries = 0 /\ crashes = 0 /\ faults = 0
    BY DEF Init
  <2>5. stored \in Seq(Times) /\ heard \in Seq(Times) /\ shown \subseteq Times
    BY <2>4
  <2>6. task \in BOOLEAN /\ tombstone \in BOOLEAN
    BY <2>4
  <2>7. tries \in Nat /\ crashes \in Nat /\ faults \in Nat
    BY <2>4
  <2> QED
    BY <2>1, <2>2, <2>3, <2>4, <2>5, <2>6, <2>7, Zenon DEF TypeOK
<1>2. \A p \in Processes : proc[p].at = "idle" /\ proc[p].s = 0
  BY DEF Init, Idle
<1>3. Scheduler \in Processes /\ Stored = {} /\ Range(heard) = {} /\ HeardLast = 0 /\ Len(heard) = 0
  BY DEF Processes, Init, Stored, Range, HeardLast
<1>4. Threads /\ Stamps
  BY <1>2, <1>3 DEF Init, Threads, Stamps
<1>5. Hearing
  BY <1>2, <1>3 DEF Init, Hearing, Sorted, AcknowledgedWasHeard, At, Stored
<1>6. Repeats
  <2>1. Cardinality(Range(heard)) = 0 /\ Owed = 0 /\ crashes = 0 /\ faults = 0
    BY <1>3, FS_EmptySet DEF Init, Owed
  <2> QED
    BY <1>3, <2>1 DEF Repeats
<1> QED
  BY <1>1, <1>4, <1>5, <1>6 DEF ProjectionInv

LEMMA NextInv == ProjectionInv /\ [Next]_vars => ProjectionInv'
<1> SUFFICES ASSUME ProjectionInv, [Next]_vars PROVE ProjectionInv'
  OBVIOUS
<1>1. ASSUME NEW p \in Requests, Request(p) PROVE ProjectionInv'
  <2>1. p \in Processes
    BY DEF Processes
  <2> QED
    BY <1>1, <2>1, ReceiveInv, StoreInv, CollapseInv, StoreFailsInv, NoteInv, ReplayInv,
       DeferInv, AttemptInv, QueueInv, FailInlineInv, AnswerInv
    DEF Request
<1>2. ASSUME NEW p \in Processes, Remote(p) PROVE ProjectionInv'
  BY <1>2, PutInv, PutFailsInv, PutRefusedInv, ProjectInv, SucceedInv DEF Remote
<1>3. CASE Tick
  BY <1>3, ClaimInv, FetchInv, FailRetryInv, GiveUpDeletedInv, ConcludeInv, DispatchInv,
     DeliverInv, RefuseInv, MarkInv, ScanInv
  DEF Tick
<1>4. CASE UNCHANGED vars
  <2>1. TypeOK'
    BY <1>4 DEF vars, ProjectionInv, TypeOK
  <2> QED
    BY <1>4, <2>1, StillStep DEF vars
<1> QED
  BY <1>1, <1>2, <1>3, <1>4, CoolInv, DeleteRowInv, CrashInv DEF Next

\* Every reachable state satisfies the invariant.
THEOREM ProjectionSafe == Spec => []ProjectionInv
  BY InitInv, NextInv, PTL DEF Spec

\* The row of the device, the threads and the histories keep their shape,
\* however often a stale verdict is written.
THEOREM TypeCorrect == Spec => []TypeOK
  BY ProjectionSafe, PTL DEF ProjectionInv

\* The runtime hears what was shown, in the order of time, again only after a
\* crash or a failure, and never less than the dispatched watermark says.
THEOREM HearingSafe == Spec => []HearingIsAccountedFor
<1>1. ProjectionInv => HearingIsAccountedFor
  <2> SUFFICES ASSUME ProjectionInv PROVE HearingIsAccountedFor
    OBVIOUS
  <2>1. Len(heard) - Cardinality(Range(heard)) <= crashes + faults
    <3>1. /\ Len(heard) \in Nat /\ Cardinality(Range(heard)) \in Nat
          /\ crashes \in Nat /\ faults \in Nat /\ Owed \in 0..1
          /\ Len(heard) + Owed <= Cardinality(Range(heard)) + crashes + faults
      BY LastHeard DEF ProjectionInv, Repeats, TypeOK, Owed
    <3> QED
      BY <3>1
  <2> QED
    BY <2>1 DEF ProjectionInv, Hearing, Sorted, HearingIsAccountedFor, HeardInOrder, HeardWasShown
<1> QED
  BY <1>1, ProjectionSafe, PTL

-----------------------------------------------------------------------------
(* The scheduler alone writes to Feishu.                                   *)

Pending == row.state.status = "pending"

\* Where the scheduler may be in its tick: a retry is for a pending device and
\* the newest stored sample; giving up follows as many failures as it counted.
OnCourse(th) ==
    /\ th.at = "put" => th.s \in Stored /\ (remote = Deleted \/ remote <= th.s)
    /\ th.at \in {"fetch", "put", "failed"} => Pending
    /\ th.at = "failed" => row.state.retries < tries
    /\ th.at = "write" /\ th.verdict.status = "failed" =>
          Pending /\ MaxRetries <= th.verdict.retries /\ th.verdict.retries <= tries
    /\ th.at = "write" /\ th.verdict.status = "pending" =>
          th.verdict.retries = 0 \/ (Pending /\ th.verdict.retries <= tries)

\* The HTTP threads only queue, and the row counts failures that happened.
Deferring(th) ==
    /\ th.at \notin {"put", "project", "succeeded", "failed"}
    /\ th.at = "write" => th.verdict = Requeued

Scheduled ==
    /\ \A p \in Requests : Deferring(proc[p])
    /\ remote \in {0, Deleted} \cup Stored
    /\ Pending => row.state.retries <= tries
    /\ OnCourse(proc[Scheduler])

ScheduledInv == ~inline => Scheduled

LEMMA RequestMove ==
  ASSUME TypeOK, Scheduled, NEW p \in Requests,
         \A q \in Processes \ {p} : proc'[q] = proc[q], Deferring(proc'[p]),
         Stored \subseteq Stored', row'.state = row.state, UNCHANGED <<remote, tries>>
  PROVE  Scheduled'
<1>1. Scheduler \in Processes \ {p} /\ Requests \subseteq Processes
  BY SchedulerAssumption DEF Processes
<1>2. \A q \in Requests : Deferring(proc'[q])
  BY <1>1 DEF Scheduled
<1>3. proc'[Scheduler] = proc[Scheduler]
  BY <1>1
<1>4. OnCourse(proc[Scheduler])'
  BY <1>3 DEF Scheduled, OnCourse, Pending
<1>5. \A q \in Requests : Deferring(proc[q])'
  BY <1>2 DEF Deferring, Requeued
<1> QED
  BY <1>4, <1>5 DEF Scheduled, Pending

\* Without inline writing a request stores, notes and queues.
LEMMA RequestScheduled ==
  ASSUME ProjectionInv, ~inline, Scheduled, NEW p \in Requests, Request(p)
  PROVE  Scheduled'
<1>1. /\ p \in Processes /\ p # Scheduler /\ TypeOK
      /\ proc \in [Processes -> Thread] /\ proc[p] \in Thread
  BY SchedulerAssumption DEF Processes, ProjectionInv, TypeOK
<1>2. Deferring(proc[p])
  BY DEF Scheduled
<1>3. CASE Receive(p)
  <2>1. /\ \A q \in Processes \ {p} : proc'[q] = proc[q]
        /\ proc'[p].at = "store"
    BY <1>1, <1>3 DEF Receive, Idle
  <2> QED
    BY <1>1, <1>3, <2>1, RequestMove DEF Receive, Stored, Deferring
<1>4. CASE Store(p)
  <2>1. /\ \A q \in Processes \ {p} : proc'[q] = proc[q]
        /\ proc'[p].at = "note"
    BY <1>1, <1>4 DEF Store, Thread
  <2>2. Stored \subseteq Stored'
    <3>1. proc[p].s \in Times /\ stored \in Seq(Times) /\ stored' = Append(stored, proc[p].s)
      BY <1>1, <1>4, Facts DEF Store, TypeOK, ProjectionInv, Threads, Times
    <3> QED
      BY <3>1, RangeAppend DEF Stored
  <2> QED
    BY <1>1, <1>4, <2>1, <2>2, RequestMove DEF Store, Deferring
<1>5. CASE Collapse(p) \/ StoreFails(p)
  <2>1. /\ \A q \in Processes \ {p} : proc'[q] = proc[q]
        /\ proc'[p].at = "note"
    BY <1>1, <1>5 DEF Collapse, StoreFails, Thread
  <2> QED
    BY <1>1, <1>5, <2>1, RequestMove DEF Collapse, StoreFails, Stored, Deferring
<1>6. CASE Note(p)
  <2>1. /\ \A q \in Processes \ {p} : proc'[q] = proc[q]
        /\ proc'[p].at \in {"gate", "replay"}
    BY <1>1, <1>6 DEF Note, Goto, Thread
  <2>2. row'.state = row.state
    BY <1>6 DEF Note, TypeOK, DeviceRow
  <2> QED
    BY <1>1, <1>6, <2>1, <2>2, RequestMove DEF Note, Stored, Deferring
<1>7. CASE Replay(p) \/ Defer(p)
  <2>1. /\ \A q \in Processes \ {p} : proc'[q] = proc[q]
        /\ proc'[p].at \in {"gate", "queue", "idle"}
    BY <1>1, <1>7 DEF Replay, Defer, Goto, Thread, Idle
  <2> QED
    BY <1>1, <1>7, <2>1, RequestMove DEF Replay, Defer, Stored, Deferring
<1>8. CASE Attempt(p)
  BY <1>8 DEF Attempt
<1>9. CASE Queue(p)
  <2>1. /\ \A q \in Processes \ {p} : proc'[q] = proc[q]
        /\ \/ proc'[p].at = "idle"
           \/ proc'[p].at = "write" /\ proc'[p].verdict = Requeued
    BY <1>1, <1>9 DEF Queue, Thread, Idle
  <2> QED
    BY <1>1, <1>9, <2>1, RequestMove DEF Queue, Stored, Deferring
<1>10. CASE FailInline(p)
  BY <1>2, <1>10 DEF FailInline, Deferring
<1>11. CASE Answer(p)
  <2>1. /\ \A q \in Processes \ {p} : proc'[q] = proc[q]
        /\ proc'[p].at = "idle"
        /\ proc[p].verdict = Requeued
    BY <1>1, <1>2, <1>11 DEF Answer, Idle, Deferring
  <2>2. /\ row'.state = Requeued /\ UNCHANGED <<remote, stored>>
        /\ Pending => tries' = tries
        /\ tries' \in Nat
    BY <1>1, <1>11, <2>1, FreshType, RewriteType DEF Answer, Rewrite, Requeued, Pending
  <2>3. OnCourse(proc[Scheduler])'
    <3>1. proc'[Scheduler] = proc[Scheduler] /\ OnCourse(proc[Scheduler])
      BY <1>1, <2>1 DEF Processes, Scheduled
    <3>2. Pending' /\ row'.state.retries = 0
      BY <2>2 DEF Pending, Requeued
    <3>3. proc[Scheduler].at = "failed" => 0 < tries'
      BY <1>1, <2>2, <3>1, Facts DEF OnCourse, Verdict, TypeOK
    <3> QED
      BY <2>2, <3>1, <3>2, <3>3 DEF OnCourse, Stored
  <2>4. \A q \in Requests : Deferring(proc[q])'
    <3>1. \A q \in Requests : Deferring(proc'[q])
      BY <2>1 DEF Scheduled, Deferring, Processes
    <3> QED
      BY <3>1 DEF Deferring, Requeued
  <2> QED
    BY <2>2, <2>3, <2>4 DEF Scheduled, Stored, Requeued
<1> QED
  BY <1>3, <1>4, <1>5, <1>6, <1>7, <1>8, <1>9, <1>10, <1>11 DEF Request
\* The scheduler goes on, writing neither the row nor to Feishu.
LEMMA SchedulerMove ==
  ASSUME Scheduled, \A q \in Processes \ {Scheduler} : proc'[q] = proc[q],
         OnCourse(proc'[Scheduler]), row'.state = row.state, UNCHANGED <<stored, remote, tries>>
  PROVE  Scheduled'
<1>1. \A q \in Requests : proc'[q] = proc[q]
  BY SchedulerAssumption DEF Processes
<1>2. \A q \in Requests : Deferring(proc[q])'
  BY <1>1 DEF Scheduled, Deferring, Requeued
<1>3. OnCourse(proc[Scheduler])'
  BY DEF OnCourse, Stored, Pending
<1> QED
  BY <1>2, <1>3 DEF Scheduled, Stored, Pending

LEMMA WriteScheduled ==
  ASSUME ProjectionInv, Scheduled, NEW v \in Verdict,
         proc' = [proc EXCEPT ![Scheduler].at = "write", ![Scheduler].verdict = v],
         UNCHANGED <<row, stored, remote, tries>>,
         v.status = "failed" =>
            Pending /\ MaxRetries <= v.retries /\ v.retries <= tries,
         v.status = "pending" => v.retries = 0 \/ (Pending /\ v.retries <= tries)
  PROVE  Scheduled'
<1>1. /\ \A q \in Processes \ {Scheduler} : proc'[q] = proc[q]
      /\ proc'[Scheduler].at = "write" /\ proc'[Scheduler].verdict = v
  BY Facts DEF ProjectionInv, TypeOK, Thread
<1>2. OnCourse(proc'[Scheduler])
  BY <1>1 DEF OnCourse
<1> QED
  BY <1>1, <1>2, SchedulerMove

LEMMA TickScheduled ==
  ASSUME ProjectionInv, Scheduled, Tick
  PROVE  Scheduled'
<1>1. /\ Scheduler \in Processes /\ TypeOK /\ proc[Scheduler] \in Thread
      /\ proc \in [Processes -> Thread] /\ OnCourse(proc[Scheduler])
      /\ row.state \in Verdict /\ row.state.retries \in Nat /\ tries \in Nat
  BY Facts DEF ProjectionInv, TypeOK, Scheduled, Verdict
<1>2. CASE Claim
  <2>1. /\ \A q \in Processes \ {Scheduler} : proc'[q] = proc[q]
        /\ proc'[Scheduler].at \in {"fetch", "dispatch"}
        /\ proc'[Scheduler].at = "fetch" => Pending
    BY <1>1, <1>2 DEF Claim, Goto, Thread, Pending
  <2>2. OnCourse(proc'[Scheduler])
    BY <2>1 DEF OnCourse
  <2> QED
    BY <1>2, <2>1, <2>2, SchedulerMove DEF Claim
<1>3. CASE Fetch
  <2>1. /\ \A q \in Processes \ {Scheduler} : proc'[q] = proc[q]
        /\ \/ proc'[Scheduler].at = "succeeded"
           \/ /\ proc'[Scheduler].at = "put" /\ proc'[Scheduler].s = Newest
              /\ stored # <<>>
        /\ Pending
    BY <1>1, <1>3 DEF Fetch, At, Thread, OnCourse
  <2>2. stored # <<>> => Newest \in Stored /\ \A x \in Stored \cup {0} : x <= Newest
    BY <1>1, NewestStored DEF Times
  <2>3. OnCourse(proc'[Scheduler])
    BY <2>1, <2>2 DEF OnCourse, Scheduled
  <2> QED
    BY <1>3, <2>1, <2>3, SchedulerMove DEF Fetch
<1>4. CASE FailRetry
  <2>1. /\ Pending /\ row.state.retries < tries
    BY <1>1, <1>4 DEF FailRetry, At, OnCourse
  <2>2. /\ RetryFailed \in Verdict /\ RetryFailed.retries = row.state.retries + 1
        /\ RetryFailed.status = "failed" => MaxRetries <= row.state.retries + 1
    BY <1>1, VerdictType, RetriesAssumption DEF RetryFailed
  <2>3. RetryFailed.retries <= tries
    BY <1>1, <2>1, <2>2
  <2> QED
    BY <1>4, <2>1, <2>2, <2>3, WriteScheduled DEF FailRetry
<1>5. CASE GiveUpDeleted
  <2>1. Gone \in Verdict /\ Gone.status = "deleted"
    BY <1>1, VerdictType DEF Gone, Verdict
  <2> QED
    BY <1>5, <2>1, WriteScheduled DEF GiveUpDeleted
<1>6. CASE Conclude
  <2> DEFINE v == proc[Scheduler].verdict
  <2>1. /\ v \in Verdict /\ Rewrite(v)
        /\ \A q \in Processes \ {Scheduler} : proc'[q] = proc[q]
        /\ proc'[Scheduler].at = "dispatch" /\ UNCHANGED <<stored, remote>>
        /\ v.status = "pending" => v.retries = 0 \/ (Pending /\ v.retries <= tries)
    BY <1>1, <1>6 DEF Conclude, Idle, Thread, At, OnCourse
  <2>2. row'.state = v /\ tries' \in Nat
    BY <1>1, <2>1, RewriteType
  <2>3. Pending' => row'.state.retries <= tries'
    BY <2>1, <2>2 DEF Pending, Rewrite, Verdict
  <2>4. OnCourse(proc[Scheduler])'
    BY <2>1 DEF OnCourse
  <2>5. \A q \in Requests : proc'[q] = proc[q]
    BY <2>1, SchedulerAssumption DEF Processes
  <2>6. \A q \in Requests : Deferring(proc[q])'
    BY <2>5 DEF Scheduled, Deferring, Requeued
  <2> QED
    BY <2>1, <2>3, <2>4, <2>6 DEF Scheduled, Stored
<1>7. CASE Dispatch
  <2>1. /\ \A q \in Processes \ {Scheduler} : proc'[q] = proc[q]
        /\ proc'[Scheduler].at \in {"deliver", "mark", "scan"}
    BY <1>1, <1>7 DEF Dispatch, Thread, Idle
  <2>2. OnCourse(proc'[Scheduler])
    BY <2>1 DEF OnCourse
  <2> QED
    BY <1>7, <2>1, <2>2, SchedulerMove DEF Dispatch
<1>8. CASE Deliver \/ Refuse \/ Mark \/ MarkFails \/ Scan
  <2>1. /\ \A q \in Processes \ {Scheduler} : proc'[q] = proc[q]
        /\ proc'[Scheduler].at \in {"mark", "scan", "idle"}
    BY <1>1, <1>8 DEF Deliver, Refuse, Mark, MarkFails, Scan, Goto, Thread, Idle
  <2>2. OnCourse(proc'[Scheduler])
    BY <2>1 DEF OnCourse
  <2>3. row'.state = row.state /\ UNCHANGED <<stored, remote, tries>>
    BY <1>1, <1>8 DEF Deliver, Refuse, Mark, MarkFails, Scan, TypeOK, DeviceRow
  <2> QED
    BY <2>1, <2>2, <2>3, SchedulerMove
<1> QED
  BY <1>2, <1>3, <1>4, <1>5, <1>6, <1>7, <1>8 DEF Tick
LEMMA RemoteScheduled ==
  ASSUME ProjectionInv, ~inline, Scheduled, NEW p \in Processes, Remote(p)
  PROVE  Scheduled'
<1>1. p = Scheduler
  BY DEF Remote, Put, PutFails, PutRefused, Project, Succeed, Scheduled, Deferring, Processes
<1>2. /\ Scheduler \in Processes /\ TypeOK /\ proc[Scheduler] \in Thread
      /\ proc \in [Processes -> Thread] /\ OnCourse(proc[Scheduler])
      /\ row.state \in Verdict /\ row.state.retries \in Nat /\ tries \in Nat
  BY Facts DEF ProjectionInv, TypeOK, Scheduled, Verdict
<1>3. \A q \in Requests : q \in Processes \ {Scheduler}
  BY SchedulerAssumption DEF Processes
<1>4. CASE Put(Scheduler) \/ PutFails(Scheduler) \/ PutRefused(Scheduler)
  <2>1. /\ \A q \in Processes \ {Scheduler} : proc'[q] = proc[q]
        /\ proc'[Scheduler].at \in {"project", "failed", "gone"}
        /\ proc'[Scheduler].at = "failed" => PutFails(Scheduler)
        /\ proc[Scheduler].at = "put" /\ proc[Scheduler].s \in Stored /\ Pending
    BY <1>2, <1>4 DEF Put, PutFails, PutRefused, Goto, Thread, OnCourse
  <2>2. stored' = stored /\ remote' \in {remote, proc[Scheduler].s}
    BY <1>4 DEF Put, PutFails, PutRefused
  <2>3. remote' \in {0, Deleted} \cup Stored /\ Stored' = Stored
    BY <2>1, <2>2 DEF Scheduled, Stored
  <2>4. \A q \in Requests : Deferring(proc[q])'
    BY <1>3, <2>1 DEF Scheduled, Deferring, Requeued
  <2>5. CASE Put(Scheduler) \/ PutFails(Scheduler)
    <3>1. /\ row' = row /\ tries' \in Nat /\ tries <= tries'
          /\ PutFails(Scheduler) => tries' = tries + 1
      BY <1>2, <2>5 DEF Put, PutFails
    <3>2. row.state.retries <= tries
      BY <2>1 DEF Scheduled
    <3>3. OnCourse(proc[Scheduler])'
      BY <1>2, <2>1, <3>1, <3>2 DEF OnCourse, Pending
    <3>4. row'.state.retries <= tries'
      BY <1>2, <3>1, <3>2
    <3> QED
      BY <2>3, <2>4, <3>3, <3>4 DEF Scheduled
  <2>6. CASE PutRefused(Scheduler)
    <3>1. /\ proc'[Scheduler].at = "gone"
          /\ UNCHANGED <<row, tries>> \/ row'.state = Gone
      BY <1>2, <2>6, VerdictType, RewriteType DEF PutRefused, Goto, Thread
    <3>2. Pending' => row' = row /\ tries' = tries
      BY <1>2, <3>1, <2>6 DEF Pending, Gone, Verdict, PutRefused
    <3>3. OnCourse(proc[Scheduler])'
      BY <3>1 DEF OnCourse
    <3> QED
      BY <2>3, <2>4, <3>2, <3>3 DEF Scheduled, Pending
  <2> QED
    BY <1>4, <2>5, <2>6
<1>5. CASE Project(Scheduler)
  <2>1. /\ \A q \in Processes \ {Scheduler} : proc'[q] = proc[q]
        /\ proc'[Scheduler].at = "succeeded" /\ row'.state = row.state
    BY <1>2, <1>5 DEF Project, Goto, Thread, TypeOK, DeviceRow
  <2>2. OnCourse(proc'[Scheduler])
    BY <2>1 DEF OnCourse
  <2> QED
    BY <1>5, <2>1, <2>2, SchedulerMove DEF Project
<1>6. CASE Succeed(Scheduler)
  <2> DEFINE v == Succeeded(proc[Scheduler].s)
  <2>1. v \in Verdict /\ v.status \in {"ok", "pending"} /\ v.retries = 0
    BY <1>2, VerdictType DEF Succeeded, Requeued, Fresh
  <2> HIDE DEF v
  <2> QED
    BY <1>6, <2>1, WriteScheduled DEF Succeed, v
<1> QED
  BY <1>1, <1>4, <1>5, <1>6 DEF Remote

LEMMA OtherScheduled ==
  ASSUME ProjectionInv, Scheduled, Cool \/ DeleteRow \/ Crash \/ UNCHANGED vars
  PROVE  Scheduled'
<1>1. /\ Scheduler \in Processes /\ TypeOK /\ row.state \in Verdict /\ row \in DeviceRow
      /\ Requests \subseteq Processes /\ OnCourse(proc[Scheduler])
  BY Facts DEF ProjectionInv, Scheduled, Processes
<1>2. CASE Cool
  <2>1. /\ row'.state.status = row.state.status /\ row'.state.retries = row.state.retries
        /\ UNCHANGED <<stored, remote, proc, tries>>
    BY <1>1, <1>2 DEF Cool, DeviceRow, Verdict
  <2> QED
    BY <2>1 DEF Scheduled, Deferring, OnCourse, Stored, Pending, Requeued
<1>3. CASE DeleteRow
  <2>1. remote' = Deleted /\ UNCHANGED <<stored, row, proc, tries>>
    BY <1>3 DEF DeleteRow
  <2> QED
    BY <2>1 DEF Scheduled, Deferring, OnCourse, Stored, Pending, Requeued, Deleted
<1>4. CASE Crash
  <2>1. /\ \A q \in Processes : proc'[q].at = "idle"
        /\ UNCHANGED <<stored, remote>>
        /\ UNCHANGED <<row, tries>> \/ Rewrite(Requeued)
    BY <1>4 DEF Crash, Idle
  <2>2. Pending' => row'.state.retries <= tries'
    <3>1. CASE UNCHANGED <<row, tries>>
      BY <3>1 DEF Pending, Scheduled
    <3>2. CASE Rewrite(Requeued)
      <4>1. row'.state = Requeued /\ tries' \in Nat
        BY <1>1, <3>2, FreshType, RewriteType
      <4> QED
        BY <4>1 DEF Requeued
    <3> QED
      BY <2>1, <3>1, <3>2
  <2> QED
    BY <1>1, <2>1, <2>2 DEF Scheduled, Deferring, OnCourse, Stored
<1>5. CASE UNCHANGED vars
  BY <1>5 DEF vars, Scheduled, Deferring, OnCourse, Stored, Pending, Requeued
<1> QED
  BY <1>2, <1>3, <1>4, <1>5

\* Whether the HTTP threads write to Feishu does not change while running.
LEMMA InlineFixed == [Next]_vars => inline' = inline
<1>1. ASSUME NEW p, Request(p) PROVE inline' = inline
  BY <1>1 DEF Request, Receive, Store, Collapse, StoreFails, Note, Replay, Defer, Attempt,
     Queue, FailInline, Answer
<1>2. ASSUME NEW p, Remote(p) PROVE inline' = inline
  BY <1>2 DEF Remote, Put, PutFails, PutRefused, Project, Succeed
<1>3. ASSUME Tick PROVE inline' = inline
  BY <1>3 DEF Tick, Claim, Fetch, FailRetry, GiveUpDeleted, Conclude, Dispatch, Deliver,
     Refuse, Mark, MarkFails, Scan
<1>4. ASSUME Cool \/ DeleteRow \/ Crash \/ UNCHANGED vars PROVE inline' = inline
  BY <1>4 DEF Cool, DeleteRow, Crash, vars
<1> QED
  BY <1>1, <1>2, <1>3, <1>4 DEF Next

LEMMA ScheduledNext ==
  ProjectionInv /\ ScheduledInv /\ [Next]_vars => ScheduledInv'
<1> SUFFICES ASSUME ProjectionInv, ScheduledInv, [Next]_vars, ~inline
             PROVE  Scheduled'
  BY InlineFixed DEF ScheduledInv
<1>1. Scheduled
  BY DEF ScheduledInv
<1> QED
  BY <1>1, RequestScheduled, RemoteScheduled, TickScheduled, OtherScheduled DEF Next

\* While only the scheduler writes to Feishu, HTTP threads merely queue, the
\* Feishu row shows a stored sample, and no verdict about to be written claims
\* more failed attempts than there were.
THEOREM ScheduledSafe == Spec => []ScheduledInv
<1>1. Init => ScheduledInv
  BY SchedulerAssumption
  DEF Init, ScheduledInv, Scheduled, Deferring, OnCourse, Pending, Idle, Fresh, Processes
<1> QED
  BY <1>1, ScheduledNext, ProjectionSafe, PTL DEF Spec
-----------------------------------------------------------------------------
(* What the scheduler's writes do.                                         *)

\* Only a sample, or a deletion, replaces what the Feishu row shows.
LEMMA RemoteStep ==
  ASSUME ProjectionInv, ScheduledInv, [Next]_vars
  PROVE  [~inline => remote' >= remote]_remote
<1> SUFFICES ASSUME ~inline, remote' # remote PROVE remote' >= remote
  OBVIOUS
<1>1. /\ TypeOK /\ Scheduled /\ remote \in 0..Deleted /\ Deleted \in Nat
      /\ Scheduler \in Processes
  BY BoundsAssumption DEF ProjectionInv, TypeOK, ScheduledInv, Deleted, Processes
<1>2. \A p \in Requests : ~Request(p)
  BY DEF Request, Receive, Store, Collapse, StoreFails, Note, Replay, Defer, Attempt,
     Queue, FailInline, Answer
<1>3. ~Tick
  BY DEF Tick, Claim, Fetch, FailRetry, GiveUpDeleted, Conclude, Dispatch, Deliver,
     Refuse, Mark, MarkFails, Scan
<1>4. ASSUME NEW p \in Processes, Remote(p) PROVE remote' >= remote
  <2>1. Put(p) \/ PutFails(p)
    BY <1>4 DEF Remote, PutRefused, Project, Succeed
  <2>2. /\ proc[p].at = "put" /\ remote' = proc[p].s
        /\ remote # Deleted
    BY <2>1 DEF Put, PutFails
  <2>3. p = Scheduler
    BY <1>1, <2>2 DEF Scheduled, Deferring, Processes
  <2>4. remote <= proc[p].s /\ proc[p].s \in Nat
    BY <1>1, <2>2, <2>3, Facts DEF Scheduled, OnCourse
  <2> QED
    BY <1>1, <2>2, <2>4
<1>5. CASE DeleteRow
  BY <1>1, <1>5 DEF DeleteRow
<1>6. ~Cool /\ ~Crash /\ ~UNCHANGED vars
  BY DEF Cool, Crash, vars
<1> QED
  BY <1>2, <1>3, <1>4, <1>5, <1>6 DEF Next

\* While the scheduler alone writes it, the Feishu row never goes back to a
\* superseded sample.
THEOREM RemoteSafe == Spec => RemoteNeverRegresses
  BY RemoteStep, ProjectionSafe, ScheduledSafe, PTL DEF Spec, RemoteNeverRegresses

\* Only the conclusion of a retry declares a device failed.
LEMMA GiveUpStep ==
  ASSUME ProjectionInv, ScheduledInv, [Next]_vars
  PROVE  [~inline /\ row'.state.status = "failed" /\ row.state.status # "failed"
            => tries >= MaxRetries]_row
<1> SUFFICES ASSUME ~inline, row'.state.status = "failed", row.state.status # "failed"
             PROVE  tries >= MaxRetries
  OBVIOUS
<1>1. /\ TypeOK /\ Scheduled /\ row \in DeviceRow /\ row.state \in Verdict
      /\ Scheduler \in Processes /\ tries \in Nat /\ proc[Scheduler].verdict \in Verdict
  BY Facts DEF ProjectionInv, TypeOK, ScheduledInv, Thread
<1>2. Requeued.status = "pending" /\ Gone.status = "deleted"
  BY <1>1 DEF Requeued, Gone, Verdict
<1>3. \A v : Rewrite(v) => row'.state = v
  BY <1>1 DEF Rewrite, DeviceRow
<1>4. ASSUME NEW p \in Requests, Request(p) PROVE FALSE
  <2>1. Note(p) \/ Answer(p)
    BY <1>4 DEF Request, Receive, Store, Collapse, StoreFails, Note, Replay, Defer, Attempt,
       Queue, FailInline, Answer
  <2>2. CASE Note(p)
    BY <1>1, <2>2 DEF Note, DeviceRow
  <2>3. CASE Answer(p)
    BY <1>1, <1>2, <1>3, <2>3 DEF Answer, Scheduled, Deferring
  <2> QED
    BY <2>1, <2>2, <2>3
<1>5. ASSUME NEW p \in Processes, Remote(p) PROVE FALSE
  <2>1. Project(p) \/ PutRefused(p)
    BY <1>5 DEF Remote, Put, PutFails, PutRefused, Project, Succeed
  <2>2. CASE Project(p)
    BY <1>1, <2>2 DEF Project, DeviceRow
  <2>3. CASE PutRefused(p)
    BY <1>2, <1>3, <2>3 DEF PutRefused
  <2> QED
    BY <2>1, <2>2, <2>3
<1>6. CASE Tick
  <2>1. Conclude \/ Mark
    BY <1>6 DEF Tick, Claim, Fetch, FailRetry, GiveUpDeleted, Conclude, Dispatch, Deliver,
       Refuse, Mark, MarkFails, Scan
  <2>2. ~Mark
    BY <1>1 DEF Mark, DeviceRow
  <2>3. proc[Scheduler].at = "write" /\ proc[Scheduler].verdict.status = "failed"
    BY <1>3, <2>1, <2>2 DEF Conclude, At
  <2>4. /\ MaxRetries <= proc[Scheduler].verdict.retries
        /\ proc[Scheduler].verdict.retries <= tries
    BY <1>1, <2>3 DEF Scheduled, OnCourse
  <2> QED
    BY <1>1, <2>4, RetriesAssumption DEF Verdict
<1>7. ~Cool /\ ~DeleteRow /\ ~Crash /\ ~UNCHANGED vars
  BY <1>1, <1>2, <1>3 DEF Cool, DeleteRow, Crash, vars, DeviceRow, Verdict
<1> QED
  BY <1>4, <1>5, <1>6, <1>7 DEF Next

\* A device is given up only after MaxRetries scheduled attempts failed since
\* it last became pending, while the scheduler alone writes to Feishu.
THEOREM GivesUpSafe == Spec => GivesUpOnlyAfterCap
  BY GiveUpStep, ProjectionSafe, ScheduledSafe, PTL DEF Spec, GivesUpOnlyAfterCap

-----------------------------------------------------------------------------
(* The heartbeat outbox.                                                   *)

Latest(d) == Relay!Latest(d)

\* Ids are unique, given out in order, and belong to accepted heartbeats.
Numbered ==
    /\ IsFiniteSet(outbox)
    /\ batch \subseteq outbox
    /\ \A r, q \in outbox : r.id = q.id => r = q
    /\ \A r \in outbox : r.id <= issued /\ r.id \in sent[r.device]
    /\ \A d \in Devices : Latest(d) <= issued
    /\ \A d \in Devices : \A b \in sent[d] : b <= issued

\* What waits is not older than what was heard last, and what follows waits.
Waiting ==
    /\ \A r \in outbox : Latest(r.device) <= r.id
    /\ \A d \in Devices : \A b \in sent[d] :
          b > Latest(d) => [id |-> b, device |-> d] \in outbox

\* Of a device that is not blocked the tick holds the oldest rows.
InOrder ==
    \A r \in outbox \ batch, q \in batch :
        r.device = q.device /\ q.device \notin blocked => q.id < r.id

\* The row to be acknowledged is the one heard last.
Taken ==
    phase = "acknowledge" =>
        /\ batch # {}
        /\ \A r \in batch : Turn(r) => r.id = Latest(r.device)

OutboxInv ==
    OutboxTypeOK /\ Numbered /\ Waiting /\ InOrder /\ Taken /\ NothingLost

-----------------------------------------------------------------------------
(* The history of what was heard.                                          *)

LEMMA LatestType ==
  ASSUME OutboxTypeOK, NEW d \in Devices
  PROVE  Latest(d) \in Nat
<1>1. received[d] \in Seq(Beats)
  BY DEF OutboxTypeOK
<1>2. CASE received[d] = <<>>
  BY <1>2 DEF Latest, Relay!Latest
<1>3. CASE received[d] # <<>>
  <2>1. Len(received[d]) \in DOMAIN received[d] /\ received[d][Len(received[d])] \in Beats
    BY <1>1, <1>3
  <2> QED
    BY <1>3, <2>1, BeatBoundsAssumption DEF Latest, Relay!Latest, Beats
<1> QED
  BY <1>2, <1>3

\* After a delivery the row delivered is the one heard last, and what other
\* devices heard is unchanged.
LEMMA LatestAfterDelivery ==
  ASSUME OutboxTypeOK, NEW r \in batch, DeliverBeat(r)
  PROVE  /\ received' \in [Devices -> Seq(Beats)]
         /\ Latest(r.device)' = r.id
         /\ \A d \in Devices \ {r.device} : Latest(d)' = Latest(d)
<1>1. r.id \in Beats /\ r.device \in Devices
  BY DEF OutboxTypeOK, OutboxRow
<1>2. received' = [received EXCEPT ![r.device] = Append(@, r.id)]
  BY DEF DeliverBeat
<1>3. received'[r.device] = Append(received[r.device], r.id)
  BY <1>1, <1>2 DEF OutboxTypeOK
<1>4. received[r.device] \in Seq(Beats)
  BY <1>1 DEF OutboxTypeOK
<1>5. Append(received[r.device], r.id) \in Seq(Beats)
  BY <1>1, <1>4
<1>6. received' \in [Devices -> Seq(Beats)]
  BY <1>2, <1>5 DEF OutboxTypeOK
<1>7. Latest(r.device)' = r.id
  BY <1>1, <1>3, <1>4 DEF Latest, Relay!Latest
<1>8. ASSUME NEW d \in Devices \ {r.device} PROVE Latest(d)' = Latest(d)
  BY <1>2, <1>8 DEF OutboxTypeOK, Latest, Relay!Latest
<1> QED
  BY <1>6, <1>7, <1>8

\* What was heard last, if anything, was heard.
LEMMA LatestWasHeard ==
  ASSUME OutboxTypeOK, NEW d \in Devices, Latest(d) # 0
  PROVE  Latest(d) \in ToSet(received[d])
<1>1. received[d] \in Seq(Beats) /\ received[d] # <<>>
  BY DEF OutboxTypeOK, Latest, Relay!Latest
<1>2. Len(received[d]) \in DOMAIN received[d]
  BY <1>1
<1> QED
  BY <1>1, <1>2 DEF ToSet, Latest, Relay!Latest

\* The rows a tick fetches are older than those it leaves.
LEMMA OldestFirst ==
  ASSUME NEW rows, rows \subseteq OutboxRow, IsFiniteSet(rows),
         NEW r \in rows \ Oldest(rows), NEW q \in Oldest(rows)
  PROVE  q.id < r.id
<1> DEFINE Below(x) == {y \in rows : y.id < x.id}
<1>1. q \in rows /\ r.id \in Nat /\ q.id \in Nat /\ \A y \in rows : y.id \in Nat
  BY BeatBoundsAssumption DEF Oldest, OutboxRow, Beats
<1>2. Cardinality(Below(q)) < Limit
  BY DEF Oldest
<1>3. ~(Cardinality(Below(r)) < Limit)
  BY DEF Oldest
<1>4. IsFiniteSet(Below(r)) /\ IsFiniteSet(Below(q))
  BY FS_Subset
<1>5. Cardinality(Below(r)) \in Nat /\ Cardinality(Below(q)) \in Nat
  BY <1>4, FS_CardinalityType
<1>6. SUFFICES ASSUME r.id <= q.id PROVE FALSE
  BY <1>1
<1>7. Below(r) \subseteq Below(q)
  BY <1>1, <1>6
<1>8. Cardinality(Below(r)) <= Cardinality(Below(q))
  BY <1>4, <1>7, FS_Subset
<1> QED
  BY <1>2, <1>3, <1>5, <1>8, LimitAssumption

-----------------------------------------------------------------------------
(* The inductive invariant: one lemma per action.                          *)

LEMMA OutboxInitInv == OutboxInit => OutboxInv
<1> SUFFICES ASSUME OutboxInit PROVE OutboxInv
  OBVIOUS
<1>1. OutboxTypeOK
  BY BeatBoundsAssumption DEF OutboxInit, OutboxTypeOK
<1>2. \A d \in Devices : Latest(d) = 0 /\ sent[d] = {}
  BY DEF OutboxInit, Latest, Relay!Latest
<1>3. Numbered
  BY <1>2, FS_EmptySet DEF OutboxInit, Numbered
<1> QED
  BY <1>1, <1>2, <1>3
  DEF OutboxInit, OutboxInv, Waiting, InOrder, Taken, NothingLost

LEMMA PostInv ==
  ASSUME OutboxInv, NEW d \in Devices, Post(d)
  PROVE  OutboxInv'
<1> DEFINE posted == [id |-> issued', device |-> d]
<1>1. /\ issued \in Nat /\ issued' = issued + 1 /\ issued' \in 1..MaxBeats
      /\ outbox' = outbox \cup {posted} /\ posted \in OutboxRow
      /\ sent' = [sent EXCEPT ![d] = @ \cup {issued'}]
      /\ UNCHANGED <<received, batch, blocked, phase, restarts, lostAcks>>
  BY BeatBoundsAssumption DEF OutboxInv, OutboxTypeOK, Post, OutboxRow, Beats
<1>2. OutboxTypeOK'
  BY <1>1 DEF OutboxInv, OutboxTypeOK, Beats
<1>3. \A e \in Devices : Latest(e)' = Latest(e) /\ Latest(e) \in Nat
  BY <1>1, LatestType DEF OutboxInv, Latest, Relay!Latest
<1>4. \A r \in outbox : r.id \in Nat /\ r.device \in Devices
  BY BeatBoundsAssumption DEF OutboxInv, OutboxTypeOK, OutboxRow, Beats
<1>5. \A e \in Devices : \A b \in sent[e] : b \in Nat
  BY BeatBoundsAssumption DEF OutboxInv, OutboxTypeOK, Beats
<1>6. \A e \in Devices : sent'[e] = IF e = d THEN sent[e] \cup {issued'} ELSE sent[e]
  BY <1>1 DEF OutboxInv, OutboxTypeOK
<1>7. Numbered'
  <2>1. IsFiniteSet(outbox')
    BY <1>1, FS_AddElement DEF OutboxInv, Numbered
  <2>2. \A r \in outbox : r.id <= issued /\ r.id # issued'
    BY <1>1, <1>4 DEF OutboxInv, Numbered
  <2>3. \A r, q \in outbox' : r.id = q.id => r = q
    BY <1>1, <2>2 DEF OutboxInv, Numbered
  <2>4. \A r \in outbox' : r.id <= issued' /\ r.id \in sent'[r.device]
    BY <1>1, <1>4, <1>6, <2>2 DEF OutboxInv, Numbered
  <2>5. \A e \in Devices : Latest(e)' <= issued'
    BY <1>1, <1>3 DEF OutboxInv, Numbered
  <2>6. \A e \in Devices : \A b \in sent'[e] : b <= issued'
    BY <1>1, <1>5, <1>6 DEF OutboxInv, Numbered
  <2> QED
    BY <1>1, <2>1, <2>3, <2>4, <2>5, <2>6 DEF OutboxInv, Numbered
<1>8. Waiting'
  <2>1. Latest(d) <= issued'
    BY <1>1, <1>3 DEF OutboxInv, Numbered
  <2> QED
    BY <1>1, <1>3, <1>4, <1>6, <2>1 DEF OutboxInv, Waiting
<1>9. InOrder'
  <2>1. \A q \in batch : q.id < posted.id
    BY <1>1, <1>4 DEF OutboxInv, Numbered
  <2> QED
    BY <1>1, <2>1 DEF OutboxInv, InOrder
<1>10. Taken'
  BY <1>1, <1>3 DEF OutboxInv, Taken, Turn, OutboxTypeOK, OutboxRow
<1>11. NothingLost'
  <2> SUFFICES ASSUME NEW e \in Devices, NEW b \in sent'[e],
                      b \notin ToSet(received[e])
               PROVE  [id |-> b, device |-> e] \in outbox'
    BY <1>1 DEF NothingLost
  <2>1. CASE b \in sent[e]
    BY <1>1, <2>1 DEF OutboxInv, NothingLost
  <2>2. CASE b \notin sent[e]
    <3>1. e = d /\ b = issued'
      BY <1>6, <2>2
    <3> QED
      BY <1>1, <3>1
  <2> QED
    BY <2>1, <2>2
<1> QED
  BY <1>2, <1>7, <1>8, <1>9, <1>10, <1>11 DEF OutboxInv

LEMMA FetchBeatsInv ==
  ASSUME OutboxInv, FetchBeats
  PROVE  OutboxInv'
<1>1. /\ batch' = Oldest(outbox) /\ Oldest(outbox) \subseteq outbox
      /\ blocked' = {}
      /\ UNCHANGED <<outbox, issued, sent, received, phase, restarts, lostAcks>>
  BY DEF FetchBeats, Oldest
<1>2. OutboxTypeOK'
  BY <1>1 DEF OutboxInv, OutboxTypeOK
<1>3. \A d \in Devices : Latest(d)' = Latest(d)
  BY <1>1 DEF Latest, Relay!Latest
<1>4. InOrder'
  BY <1>1, OldestFirst DEF OutboxInv, OutboxTypeOK, Numbered, InOrder
<1>5. Taken'
  <2>1. phase # "acknowledge"
    BY DEF OutboxInv, FetchBeats, Taken
  <2> QED
    BY <1>1, <2>1 DEF Taken
<1> QED
  BY <1>1, <1>2, <1>3, <1>4, <1>5
  DEF OutboxInv, Numbered, Waiting, NothingLost, OutboxTypeOK, OutboxRow

\* A delivered row is the one heard last, or the next of its device.
LEMMA DeliveryFollows ==
  ASSUME OutboxInv, NEW r \in batch, Offered(r)
  PROVE  /\ r \in outbox /\ r.device \in Devices /\ r.id \in Beats
         /\ Latest(r.device) <= r.id
         /\ \A q \in outbox : q.device = r.device => r.id <= q.id
         /\ \A b \in sent[r.device] : b > Latest(r.device) => r.id <= b
<1>1. r \in outbox /\ r.device \in Devices /\ r.id \in Beats
  BY DEF OutboxInv, Numbered, OutboxTypeOK, OutboxRow
<1>2. \A q \in outbox : q.id \in Nat
  BY BeatBoundsAssumption DEF OutboxInv, OutboxTypeOK, OutboxRow, Beats
<1>3. ASSUME NEW q \in outbox, q.device = r.device PROVE r.id <= q.id
  <2>1. CASE q \in batch
    BY <2>1 DEF Offered, Turn
  <2>2. CASE q \notin batch
    <3>1. r.id < q.id
      BY <1>3, <2>2 DEF OutboxInv, InOrder, Offered
    <3> QED
      BY <1>1, <1>2, <3>1
  <2> QED
    BY <2>1, <2>2
<1>4. ASSUME NEW b \in sent[r.device], b > Latest(r.device) PROVE r.id <= b
  <2>1. [id |-> b, device |-> r.device] \in outbox
    BY <1>1, <1>4 DEF OutboxInv, Waiting
  <2> QED
    BY <1>3, <2>1
<1> QED
  BY <1>1, <1>3, <1>4 DEF OutboxInv, Waiting

LEMMA DeliverBeatInv ==
  ASSUME OutboxInv, NEW r \in batch, DeliverBeat(r)
  PROVE  OutboxInv'
<1>1. /\ received' = [received EXCEPT ![r.device] = Append(@, r.id)]
      /\ phase' = "acknowledge"
      /\ UNCHANGED <<outbox, issued, sent, batch, blocked, restarts, lostAcks>>
      /\ Offered(r)
  BY DEF DeliverBeat
<1>2. /\ received' \in [Devices -> Seq(Beats)]
      /\ Latest(r.device)' = r.id
      /\ \A d \in Devices \ {r.device} : Latest(d)' = Latest(d)
  BY LatestAfterDelivery DEF OutboxInv
<1>3. /\ r \in outbox /\ r.device \in Devices /\ r.id \in Nat
      /\ Latest(r.device) <= r.id
      /\ \A q \in outbox : q.device = r.device => r.id <= q.id
  BY <1>1, DeliveryFollows, BeatBoundsAssumption DEF Beats
<1>4. \A d \in Devices : Latest(d) \in Nat
  BY LatestType DEF OutboxInv
<1>5. OutboxTypeOK'
  BY <1>1, <1>2 DEF OutboxInv, OutboxTypeOK
<1>6. Numbered'
  <2>1. \A d \in Devices : Latest(d)' <= issued'
    BY <1>1, <1>2, <1>3 DEF OutboxInv, Numbered
  <2> QED
    BY <1>1, <2>1 DEF OutboxInv, Numbered
<1>7. Waiting'
  <2>1. \A q \in outbox : q.device \in Devices
    BY DEF OutboxInv, OutboxTypeOK, OutboxRow
  <2>2. \A q \in outbox : Latest(q.device)' <= q.id
    BY <1>2, <1>3, <2>1 DEF OutboxInv, Waiting
  <2>3. ASSUME NEW d \in Devices, NEW b \in sent[d], b > Latest(d)'
        PROVE  [id |-> b, device |-> d] \in outbox
    <3>1. b \in Nat
      BY BeatBoundsAssumption DEF OutboxInv, OutboxTypeOK, Beats
    <3>2. b > Latest(d)
      BY <1>2, <1>3, <1>4, <2>3, <3>1
    <3> QED
      BY <3>2 DEF OutboxInv, Waiting
  <2> QED
    BY <1>1, <2>2, <2>3 DEF Waiting
<1>8. InOrder'
  BY <1>1 DEF OutboxInv, InOrder
<1>9. Taken'
  <2>1. ASSUME NEW q \in batch, Turn(q) PROVE q = r
    <3>1. q.id <= r.id /\ r.id <= q.id /\ q.id \in Nat /\ q \in outbox
      BY <1>1, <2>1, BeatBoundsAssumption
      DEF Offered, Turn, OutboxInv, Numbered, OutboxTypeOK, OutboxRow, Beats
    <3> QED
      BY <1>3, <3>1 DEF OutboxInv, Numbered
  <2> QED
    BY <1>1, <1>2, <2>1 DEF Taken, Turn
<1>10. NothingLost'
  <2>1. ASSUME NEW d \in Devices PROVE ToSet(received[d]) \subseteq ToSet(received'[d])
    <3>1. CASE d # r.device
      BY <1>1, <3>1 DEF OutboxInv, OutboxTypeOK
    <3>2. CASE d = r.device
      <4>1. received'[d] = Append(received[d], r.id) /\ received[d] \in Seq(Beats)
        BY <1>1, <1>3, <3>2 DEF OutboxInv, OutboxTypeOK
      <4> QED
        BY <4>1, <1>3 DEF ToSet
    <3> QED
      BY <3>1, <3>2
  <2> QED
    BY <1>1, <2>1 DEF OutboxInv, NothingLost
<1> QED
  BY <1>5, <1>6, <1>7, <1>8, <1>9, <1>10 DEF OutboxInv

\* The tick lets go of a row of a device that is blocked from now on.
LEMMA PassInv ==
  ASSUME OutboxInv, NEW r \in batch, batch' = batch \ {r},
         r.device \in blocked', blocked \subseteq blocked', blocked' \subseteq Devices,
         phase' = "deliver", restarts' \in Nat, lostAcks' \in Nat,
         UNCHANGED <<outbox, issued, sent, received>>
  PROVE  OutboxInv'
<1>1. OutboxTypeOK'
  BY DEF OutboxInv, OutboxTypeOK
<1>2. \A d \in Devices : Latest(d)' = Latest(d)
  BY DEF Latest, Relay!Latest
<1>3. Numbered' /\ Waiting'
  BY <1>2 DEF OutboxInv, Numbered, Waiting, OutboxTypeOK, OutboxRow
<1>4. InOrder' /\ Taken'
  BY DEF OutboxInv, InOrder, Taken
<1>5. NothingLost'
  BY DEF OutboxInv, NothingLost
<1> QED
  BY <1>1, <1>3, <1>4, <1>5 DEF OutboxInv

LEMMA AcknowledgeInv ==
  ASSUME OutboxInv, NEW r \in batch, Acknowledge(r)
  PROVE  OutboxInv'
<1>1. /\ outbox' = outbox \ {r} /\ batch' = batch \ {r} /\ phase' = "deliver"
      /\ UNCHANGED <<issued, sent, received, blocked, restarts, lostAcks>>
  BY DEF Acknowledge
<1>2. /\ r.id = Latest(r.device) /\ r.device \in Devices
      /\ r.id \in Nat \ {0}
  BY BeatBoundsAssumption
  DEF Acknowledge, OutboxInv, Taken, OutboxTypeOK, OutboxRow, Beats
<1>3. \A d \in Devices : Latest(d)' = Latest(d)
  BY <1>1 DEF Latest, Relay!Latest
<1>4. OutboxTypeOK'
  BY <1>1 DEF OutboxInv, OutboxTypeOK
<1>5. Numbered'
  <2>1. IsFiniteSet(outbox')
    BY <1>1, FS_Subset DEF OutboxInv, Numbered
  <2> QED
    BY <1>1, <1>3, <2>1 DEF OutboxInv, Numbered
<1>6. Waiting'
  <2>1. ASSUME NEW d \in Devices, NEW b \in sent[d], b > Latest(d)
        PROVE  [id |-> b, device |-> d] \in outbox \ {r}
    <3>1. [id |-> b, device |-> d] \in outbox
      BY <2>1 DEF OutboxInv, Waiting
    <3>2. [id |-> b, device |-> d] # r
      BY <1>2, <2>1
    <3> QED
      BY <3>1, <3>2
  <2>2. \A q \in outbox : Latest(q.device) <= q.id /\ q.device \in Devices
    BY DEF OutboxInv, Waiting, OutboxTypeOK, OutboxRow
  <2> QED
    BY <1>1, <1>3, <2>1, <2>2 DEF Waiting
<1>7. InOrder' /\ Taken'
  BY <1>1 DEF OutboxInv, InOrder, Taken
<1>8. NothingLost'
  <2> SUFFICES ASSUME NEW d \in Devices, NEW b \in sent[d],
                      b \notin ToSet(received[d])
               PROVE  [id |-> b, device |-> d] \in outbox \ {r}
    BY <1>1 DEF NothingLost
  <2>1. [id |-> b, device |-> d] \in outbox
    BY DEF OutboxInv, NothingLost
  <2>2. CASE [id |-> b, device |-> d] = r
    <3>1. d = r.device /\ b = r.id
      BY <2>2
    <3>2. b \in ToSet(received[d])
      BY <1>2, <3>1, LatestWasHeard DEF OutboxInv
    <3> QED
      BY <3>2
  <2> QED
    BY <2>1, <2>2
<1> QED
  BY <1>4, <1>5, <1>6, <1>7, <1>8 DEF OutboxInv

LEMMA LoseTickInv ==
  ASSUME OutboxInv, LoseTick
  PROVE  OutboxInv'
<1>1. /\ batch' = {} /\ blocked' = {} /\ phase' = "deliver"
      /\ restarts' \in Nat
      /\ UNCHANGED <<outbox, issued, sent, received, lostAcks>>
  BY DEF LoseTick, OutboxInv, OutboxTypeOK
<1>2. \A d \in Devices : Latest(d)' = Latest(d)
  BY <1>1 DEF Latest, Relay!Latest
<1>3. OutboxTypeOK' /\ NothingLost'
  BY <1>1 DEF OutboxInv, OutboxTypeOK, NothingLost
<1>4. Numbered' /\ Waiting'
  BY <1>1, <1>2 DEF OutboxInv, Numbered, Waiting, OutboxTypeOK, OutboxRow
<1> QED
  BY <1>1, <1>3, <1>4 DEF OutboxInv, InOrder, Taken

LEMMA OutboxNextInv == OutboxInv /\ [OutboxNext]_outboxVars => OutboxInv'
<1> SUFFICES ASSUME OutboxInv, [OutboxNext]_outboxVars PROVE OutboxInv'
  OBVIOUS
<1>1. ASSUME NEW d \in Devices, Post(d) PROVE OutboxInv'
  BY <1>1, PostInv
<1>2. CASE FetchBeats
  BY <1>2, FetchBeatsInv
<1>3. ASSUME NEW r \in batch, Skip(r) PROVE OutboxInv'
  BY <1>3, PassInv DEF Skip, OutboxInv, OutboxTypeOK
<1>4. ASSUME NEW r \in batch, DeliverBeat(r) PROVE OutboxInv'
  BY <1>4, DeliverBeatInv
<1>5. ASSUME NEW r \in batch, RefuseBeat(r) PROVE OutboxInv'
  BY <1>5, PassInv DEF RefuseBeat, Offered, OutboxInv, OutboxTypeOK, OutboxRow
<1>6. ASSUME NEW r \in batch, Acknowledge(r) PROVE OutboxInv'
  BY <1>6, AcknowledgeInv
<1>7. ASSUME NEW r \in batch, AcknowledgeFails(r) PROVE OutboxInv'
  BY <1>7, PassInv DEF AcknowledgeFails, OutboxInv, OutboxTypeOK, OutboxRow
<1>8. CASE LoseTick
  BY <1>8, LoseTickInv
<1>9. CASE UNCHANGED outboxVars
  <2>1. \A d \in Devices : Latest(d)' = Latest(d)
    BY <1>9 DEF outboxVars, Latest, Relay!Latest
  <2>2. OutboxTypeOK' /\ NothingLost'
    BY <1>9 DEF outboxVars, OutboxInv, OutboxTypeOK, NothingLost
  <2>3. Numbered' /\ Waiting'
    BY <1>9, <2>1 DEF outboxVars, OutboxInv, Numbered, Waiting, OutboxTypeOK, OutboxRow
  <2>4. Taken'
    BY <1>9, <2>1 DEF outboxVars, OutboxInv, Taken, Turn, OutboxTypeOK, OutboxRow
  <2> QED
    BY <1>9, <2>2, <2>3, <2>4 DEF outboxVars, OutboxInv, InOrder
<1> QED
  BY <1>1, <1>2, <1>3, <1>4, <1>5, <1>6, <1>7, <1>8, <1>9 DEF OutboxNext, DeliveryTick

\* Every reachable state satisfies the invariant.
THEOREM OutboxSafe == OutboxSpec => []OutboxInv
  BY OutboxInitInv, OutboxNextInv, PTL DEF OutboxSpec

\* The variables of the outbox, its tick and its histories keep their shape.
THEOREM OutboxTypeCorrect == OutboxSpec => []OutboxTypeOK
  BY OutboxSafe, PTL DEF OutboxInv

\* An accepted heartbeat is queued until the runtime has heard it, whatever
\* is refused, not acknowledged or lost in a crash.
THEOREM NeverLost == OutboxSpec => []NothingLost
  BY OutboxSafe, PTL DEF OutboxInv

-----------------------------------------------------------------------------
(* The outbox implements the relay.                                        *)

LEMMA RelayInit == OutboxInit => Relay!Init
  BY DEF OutboxInit, Relay!Init

LEMMA RelayStep == OutboxInv /\ [OutboxNext]_outboxVars => [Relay!Next]_(Relay!vars)
<1> SUFFICES ASSUME OutboxInv, OutboxNext PROVE Relay!Next \/ UNCHANGED Relay!vars
  BY DEF outboxVars, Relay!vars
<1>1. ASSUME NEW d \in Devices, Post(d) PROVE Relay!Next
  <2>1. issued' \in Beats /\ issued' = issued + 1 /\ issued \in Nat
    BY <1>1, BeatBoundsAssumption DEF OutboxInv, OutboxTypeOK, Post, Beats
  <2>2. \A c \in sent[d] : c \in Nat /\ c <= issued
    BY BeatBoundsAssumption DEF OutboxInv, Numbered, OutboxTypeOK, Beats
  <2>3. Relay!Accept(d, issued')
    BY <1>1, <2>1, <2>2 DEF Post, Relay!Accept
  <2> QED
    BY <2>1, <2>3 DEF Relay!Next
<1>2. ASSUME NEW r \in batch, DeliverBeat(r) PROVE Relay!Next
  <2>1. Offered(r)
    BY <1>2 DEF DeliverBeat
  <2>2. /\ r \in outbox /\ r.device \in Devices /\ r.id \in Beats
        /\ Latest(r.device) <= r.id
        /\ \A b \in sent[r.device] : b > Latest(r.device) => r.id <= b
    BY <2>1, DeliveryFollows
  <2>3. r.id \in sent[r.device] /\ r.id \in Nat /\ Latest(r.device) \in Nat
    BY <2>2, BeatBoundsAssumption, LatestType DEF OutboxInv, Numbered, Beats
  <2>4. \A b \in sent[r.device] : b \in Nat
    BY <2>2, BeatBoundsAssumption DEF OutboxInv, OutboxTypeOK, Beats
  <2>5. r.id = Latest(r.device) \/ Relay!Follows(r.device, r.id)
    BY <2>2, <2>3, <2>4 DEF Relay!Follows, Latest
  <2>6. Relay!Hear(r.device, r.id)
    BY <1>2, <2>5 DEF DeliverBeat, Relay!Hear, Latest
  <2> QED
    BY <2>2, <2>6 DEF Relay!Next
<1>3. CASE FetchBeats
  BY <1>3 DEF FetchBeats, Relay!vars
<1>4. ASSUME NEW r \in batch,
             Skip(r) \/ RefuseBeat(r) \/ Acknowledge(r) \/ AcknowledgeFails(r)
      PROVE  UNCHANGED Relay!vars
  BY <1>4 DEF Skip, RefuseBeat, Acknowledge, AcknowledgeFails, Relay!vars
<1>5. CASE LoseTick
  BY <1>5 DEF LoseTick, Relay!vars
<1> QED
  BY <1>1, <1>2, <1>3, <1>4, <1>5 DEF OutboxNext, DeliveryTick

\* The runtime hears each device's heartbeats in the order of acceptance,
\* skips none and hears at most the last one again.
THEOREM RelayKept == OutboxSpec => KeepsRelay
  BY RelayInit, RelayStep, OutboxSafe, PTL DEF OutboxSpec, KeepsRelay, Relay!Spec
=============================================================================
