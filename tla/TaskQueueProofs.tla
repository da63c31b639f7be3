-------------------------- MODULE TaskQueueProofs --------------------------
(***************************************************************************)
(* Safety of TaskQueue for every value of its constants: any number of     *)
(* rows, workers and requests, any lease, any number of crashes.           *)
(***************************************************************************)
EXTENDS TaskQueue, TLAPS

-----------------------------------------------------------------------------
(* Facts about rows.                                                       *)

LEMMA RowKinds ==
  ASSUME NEW r \in AnyRow
  PROVE  /\ Live(r) <=> r \in LiveRow
         /\ r.status \in Terminal \cup {"LEGACY_PENDING"} <=> r \in ClosedRow
         /\ r.status = "ABSENT" <=> r = EmptyRow
         /\ r # EmptyRow => r.key \in Keys \cup {Archived}
  BY DEF AnyRow, LiveRow, ClosedRow, EmptyRow, Live, Unfinished, Terminal

LEMMA NewRowType ==
  ASSUME TypeOK, ctx.mode \in Modes,
         NEW q \in Requests, NEW d \in Delays, NEW fresh \in BOOLEAN
  PROVE  NewRow(q, d, fresh) \in LiveRow
  BY ConstantsAssumption
  DEF NewRow, LiveRow, TypeOK, Entities, Keys, Unfinished

LEMMA ClosedType ==
  ASSUME NEW r \in LiveRow, NEW s \in Terminal \cup {"LEGACY_PENDING"}
  PROVE  Closed(r, s) \in ClosedRow
  BY DEF Closed, LiveRow, ClosedRow

LEMMA RequeuedType ==
  ASSUME NEW r \in LiveRow, NEW d \in Int
  PROVE  Requeued(r, d) \in LiveRow
  BY DEF Requeued, LiveRow, Unfinished

LEMMA ClaimedType ==
  ASSUME NEW r \in LiveRow, NEW w \in Workers
  PROVE  ClaimedBy(r, w) \in LiveRow
<1>1. OneMore(r.attempts) \in Nat
  BY ConstantsAssumption DEF OneMore, LiveRow
<1>2. LeaseFor \in Nat
  BY ConstantsAssumption
<1> QED
  BY <1>1, <1>2 DEF ClaimedBy, LiveRow, Unfinished

LEMMA AgedType ==
  ASSUME NEW r \in AnyRow
  PROVE  Aged(r) \in AnyRow
<1>1. CASE r \in LiveRow
  <2> DEFINE d == IF r.due > -MaxOverdue THEN r.due - 1 ELSE r.due
             l == IF r.lease > 0 THEN r.lease - 1 ELSE r.lease
  <2>1. d \in Int /\ l \in Nat
    BY <1>1, ConstantsAssumption DEF LiveRow
  <2>2. Aged(r) = [r EXCEPT !.due = d, !.lease = l]
    BY <1>1, RowKinds DEF Aged, LiveRow
  <2> HIDE DEF d, l
  <2> QED
    BY <1>1, <2>1, <2>2 DEF AnyRow, LiveRow
<1>2. CASE r \notin LiveRow
  BY <1>2, RowKinds DEF Aged
<1> QED
  BY <1>1, <1>2

LEMMA QuarantineType ==
  ASSUME TypeOK, Quarantine
  PROVE  tasks' \in [TaskIds -> AnyRow]
<1> SUFFICES ASSUME NEW i \in TaskIds
             PROVE  /\ tasks[i] \in AnyRow
                    /\ Live(tasks[i]) => Closed(tasks[i], "LEGACY_PENDING") \in AnyRow
  BY DEF Quarantine, Quarantinable
<1>1. tasks[i] \in AnyRow
  BY DEF TypeOK
<1> QED
  BY <1>1, RowKinds, ClosedType DEF AnyRow

LEMMA KeyReleasedType ==
  ASSUME TypeOK, NEW i \in TaskIds, NEW k \in Keys
  PROVE  KeyReleased(i, k) \in [TaskIds -> AnyRow]
<1> SUFFICES ASSUME NEW j \in TaskIds, tasks[j] # EmptyRow
             PROVE  [tasks[j] EXCEPT !.key = Archived] \in AnyRow
  BY DEF KeyReleased, TypeOK
<1>1. tasks[j] \in LiveRow \/ tasks[j] \in ClosedRow
  BY DEF TypeOK, AnyRow
<1> QED
  BY <1>1 DEF AnyRow, LiveRow, ClosedRow

LEMMA AdoptType ==
  ASSUME TypeOK, NEW i \in TaskIds, Live(tasks[i]), NEW q \in Requests, NEW d \in Delays
  PROVE  /\ Adopt(i, q, d) \in [TaskIds -> AnyRow]
         /\ \A j \in TaskIds : Live(tasks[j]) => Adopt(i, q, d)[j] \in LiveRow
<1>1. tasks \in [TaskIds -> AnyRow] /\ \A j \in TaskIds : Live(tasks[j]) => tasks[j] \in LiveRow
  BY RowKinds DEF TypeOK
<1>2. CASE q.type = "RECONCILE_ALARM_EVENT"
  BY <1>1, <1>2 DEF Adopt
<1>3. CASE q.type # "RECONCILE_ALARM_EVENT"
  <2> DEFINE T == KeyReleased(i, q.key)
             due == IF tasks[i].status = "PENDING" /\ d < T[i].due THEN d ELSE T[i].due
  <2>1. q.key \in Keys /\ d \in Int
    BY ConstantsAssumption DEF Keys
  <2>2. T \in [TaskIds -> AnyRow]
    BY <2>1, KeyReleasedType
  <2>3. \A j \in TaskIds : Live(tasks[j]) => T[j] \in LiveRow
    BY <1>1 DEF KeyReleased, LiveRow
  <2>4. due \in Int
    BY <2>1, <2>3 DEF LiveRow
  <2>5. Adopt(i, q, d) = [T EXCEPT ![i] = [T[i] EXCEPT !.key = q.key, !.due = due]]
    BY <1>3, <2>2, <2>3 DEF Adopt, LiveRow
  <2>6. [T[i] EXCEPT !.key = q.key, !.due = due] \in LiveRow
    <3> HIDE DEF due, T
    <3> QED BY <2>1, <2>3, <2>4 DEF LiveRow
  <2> HIDE DEF due, T
  <2> QED
    BY <2>2, <2>3, <2>5, <2>6 DEF AnyRow
<1> QED
  BY <1>2, <1>3

-----------------------------------------------------------------------------
(* Type correctness.                                                       *)

\* Tasks are created, claimed and finished only by a process that has set its
\* runtime context, and a worker past its claim holds a task.
Booted == phase # "down" => ctx.mode \in Modes
BusyHolds == \A w \in Workers :
               pc[w] \in {"handling", "succeeded", "failed"} => held[w] \in TaskIds

TypeInv == TypeOK /\ Booted /\ BusyHolds

LEMMA TypeInvInit == Init => TypeInv
  BY DEF Init, TypeInv, TypeOK, Booted, BusyHolds, AnyRow

LEMMA TypeInvNext == TypeInv /\ [Next]_vars => TypeInv'
<1> SUFFICES ASSUME TypeInv, [Next]_vars PROVE TypeInv'
  OBVIOUS
<1> USE DEF TypeInv
<1>1. tasks \in [TaskIds -> AnyRow] /\ \A i \in TaskIds : Live(tasks[i]) => tasks[i] \in LiveRow
  BY RowKinds DEF TypeOK
<1>2. ASSUME NEW m \in Modes, SetRuntimeContext(m) PROVE TypeInv'
  BY <1>2 DEF SetRuntimeContext, TypeOK, Booted, BusyHolds
<1>3. CASE StartupQuarantine
  BY <1>3, QuarantineType DEF StartupQuarantine, TypeOK, Booted, BusyHolds
<1>4. CASE RecoverStaleTasks
  <2>1. tasks' \in [TaskIds -> AnyRow]
    <3>1. \A i \in TaskIds : Live(tasks[i]) => Requeued(tasks[i], 0) \in AnyRow
      BY <1>1, RequeuedType DEF AnyRow
    <3> QED
      BY <1>1, <1>4, <3>1 DEF RecoverStaleTasks, Live, Unfinished
  <2> QED
    BY <1>4, <2>1 DEF RecoverStaleTasks, TypeOK, Booted, BusyHolds
<1>5. ASSUME NEW q \in Requests, NEW d \in Delays, NEW fresh \in BOOLEAN,
             CreateOrGet(q, d, fresh)
      PROVE  TypeInv'
  <2>1. NewRow(q, d, fresh) \in AnyRow
    BY <1>5, NewRowType DEF CreateOrGet, Booted, AnyRow
  <2>2. tasks' \in [TaskIds -> AnyRow]
    BY <1>1, <1>5, <2>1 DEF CreateOrGet, FreeIds
  <2> QED
    BY <1>5, <2>2 DEF CreateOrGet, TypeOK, Booted, BusyHolds
<1>6. ASSUME NEW q \in Requests, NEW d \in Delays, NEW fresh \in BOOLEAN,
             CreateOrGetUnfinished(q, d, fresh)
      PROVE  TypeInv'
  <2>1. ASSUME NEW i \in FreeIds,
               tasks' = [KeyReleased(i, q.key) EXCEPT ![i] = NewRow(q, d, fresh)]
        PROVE  tasks' \in [TaskIds -> AnyRow]
    <3>1. NewRow(q, d, fresh) \in AnyRow
      BY <1>6, NewRowType DEF CreateOrGetUnfinished, Booted, AnyRow
    <3>2. i \in TaskIds /\ q.key \in Keys
      BY DEF FreeIds, Keys
    <3> QED
      BY <2>1, <3>1, <3>2, KeyReleasedType
  <2>2. ASSUME NEW i \in TaskIds, Live(tasks[i]), NEW dups \in SUBSET TaskIds,
               \A j \in dups : Live(tasks[j]),
               tasks' = DuplicatesCancelled(Adopt(i, q, d), dups)
        PROVE  tasks' \in [TaskIds -> AnyRow]
    <3>1. /\ Adopt(i, q, d) \in [TaskIds -> AnyRow]
          /\ \A j \in dups : Adopt(i, q, d)[j] \in LiveRow
      BY <2>2, AdoptType
    <3>2. \A j \in dups : Closed(Adopt(i, q, d)[j], "CANCELLED") \in AnyRow
      BY <3>1, ClosedType DEF Terminal, AnyRow
    <3> QED
      BY <2>2, <3>1, <3>2 DEF DuplicatesCancelled
  <2>3. tasks' \in [TaskIds -> AnyRow]
    <3> DEFINE active == {i \in TaskIds : Live(tasks[i]) /\ SameIdentity(tasks[i], q)}
               dups(i) == {j \in active \ {i} : tasks[j].status = "PENDING"}
    <3>1. CASE \E i \in FreeIds :
                 tasks' = [KeyReleased(i, q.key) EXCEPT ![i] = NewRow(q, d, fresh)]
      BY <3>1, <2>1
    <3>2. CASE \E i \in active : tasks' = DuplicatesCancelled(Adopt(i, q, d), dups(i))
      <4>1. PICK i \in active : tasks' = DuplicatesCancelled(Adopt(i, q, d), dups(i))
        BY <3>2
      <4>2. i \in TaskIds /\ Live(tasks[i]) /\ dups(i) \in SUBSET TaskIds
        OBVIOUS
      <4>3. \A j \in dups(i) : Live(tasks[j])
        OBVIOUS
      <4> HIDE DEF dups, active
      <4> QED
        BY <4>1, <4>2, <4>3, <2>2
    <3> QED
      BY <1>6, <3>1, <3>2 DEF CreateOrGetUnfinished
  <2> QED
    BY <1>6, <2>3 DEF CreateOrGetUnfinished, TypeOK, Booted, BusyHolds
<1>7. ASSUME NEW i \in TaskIds, Cancel(i) PROVE TypeInv'
  <2>1. tasks' \in [TaskIds -> AnyRow]
    BY <1>1, <1>7, ClosedType DEF Cancel, Terminal, AnyRow
  <2> QED
    BY <1>7, <2>1 DEF Cancel, TypeOK, Booted, BusyHolds
<1>8. ASSUME NEW ids \in SUBSET TaskIds, Purge(ids) PROVE TypeInv'
  <2>1. tasks' \in [TaskIds -> AnyRow]
    BY <1>1, <1>8 DEF Purge, AnyRow
  <2> QED
    BY <1>8, <2>1 DEF Purge, TypeOK, Booted, BusyHolds
<1>9. ASSUME NEW w \in Workers, RunOnce(w) PROVE TypeInv'
  <2>1. CASE ClaimQuarantine(w)
    BY <2>1, QuarantineType DEF ClaimQuarantine, TypeOK, Booted, BusyHolds
  <2>2. CASE Claim(w)
    <3>1. tasks' \in [TaskIds -> AnyRow]
      <4>1. \A i \in TaskIds : Claimable(tasks[i]) => ClaimedBy(tasks[i], w) \in AnyRow
        BY <1>1, ClaimedType DEF Claimable, Live, Unfinished, AnyRow
      <4> QED
        BY <1>1, <2>2, <4>1 DEF Claim
    <3> QED
      BY <2>2, <3>1 DEF Claim, TypeOK, Booted, BusyHolds
  <2>3. ASSUME NEW outcome \in {"succeeded", "failed"}, HandlerEnds(w, outcome)
        PROVE  TypeInv'
    BY <2>3 DEF HandlerEnds, TypeOK, Booted, BusyHolds
  <2>4. ASSUME NEW d \in Delays, HandlerReschedules(w, d) PROVE TypeInv'
    <3>1. held[w] \in TaskIds
      BY <2>4 DEF HandlerReschedules, BusyHolds
    <3>2. tasks' \in [TaskIds -> AnyRow]
      <4>1. OwnedBy(held[w], w) => Requeued(tasks[held[w]], d) \in AnyRow
        BY <1>1, <3>1, RequeuedType, ConstantsAssumption DEF OwnedBy, Live, Unfinished, AnyRow
      <4> QED
        BY <1>1, <2>4, <3>1, <4>1 DEF HandlerReschedules
    <3> QED
      BY <2>4, <3>2 DEF HandlerReschedules, TypeOK, Booted, BusyHolds
  <2>5. CASE Finish(w)
    <3>1. held[w] \in TaskIds
      BY <2>5 DEF Finish, BusyHolds
    <3>2. tasks' \in [TaskIds -> AnyRow]
      <4>1. Finishable(held[w], w) =>
              /\ Closed(tasks[held[w]], "SUCCEEDED") \in AnyRow
              /\ Closed(tasks[held[w]], "FAILED") \in AnyRow
        BY <1>1, <3>1, ClosedType
        DEF Finishable, OwnedBy, Live, Unfinished, Terminal, AnyRow
      <4> QED
        BY <1>1, <2>5, <3>1, <4>1 DEF Finish
    <3> QED
      BY <2>5, <3>2 DEF Finish, TypeOK, Booted, BusyHolds
  <2> QED
    BY <1>9, <2>1, <2>2, <2>3, <2>4, <2>5 DEF RunOnce
<1>10. CASE Tick
  <2>1. tasks' \in [TaskIds -> AnyRow]
    BY <1>1, <1>10, AgedType DEF Tick
  <2> QED
    BY <1>10, <2>1 DEF Tick, TypeOK, Booted, BusyHolds
<1>11. CASE Crash
  BY <1>11 DEF Crash, TypeOK, Booted, BusyHolds
<1>12. CASE UNCHANGED vars
  BY <1>12 DEF vars, TypeOK, Booted, BusyHolds
<1> QED
  BY <1>2, <1>3, <1>4, <1>5, <1>6, <1>7, <1>8, <1>9, <1>10, <1>11, <1>12
  DEF Next, Startup, Application

\* Every column keeps its type, for every number of rows, workers and restarts.
THEOREM TypeCorrect == Spec => []TypeOK
<1>1. Spec => []TypeInv
  BY TypeInvInit, TypeInvNext, PTL DEF Spec
<1> QED
  BY <1>1, PTL DEF TypeInv

-----------------------------------------------------------------------------
(* Leases and identities.                                                  *)

\* The key of an unfinished status projection is still the one it was created
\* with, so the lookup by key finds every unfinished projection of a state.
ProjectionKeyKept ==
  \A i \in TaskIds :
    Live(tasks[i]) /\ tasks[i].type = "PROJECT_DEVICE_STATUS" => tasks[i].key = tasks[i].base

\* Keys are prefixed by the task type, and a winner is only ever renamed to a
\* key of its own type.
KeyOfType ==
  \A i \in TaskIds :
    Live(tasks[i]) /\ tasks[i].key # Archived =>
      \E q \in Requests : q.key = tasks[i].key /\ q.type = tasks[i].type

WorkInv == KeysUnique /\ OneUnfinishedPerIdentity /\ ProjectionKeyKept /\ KeyOfType

\* What every step but the two creations does to the work in the table: no
\* unfinished row appears or changes what it stands for, no key changes.
KeepsWork ==
  \A i \in TaskIds :
    /\ Live(tasks'[i]) => /\ Live(tasks[i])
                          /\ tasks'[i].type = tasks[i].type
                          /\ tasks'[i].entity = tasks[i].entity
                          /\ tasks'[i].base = tasks[i].base
    /\ tasks'[i] # EmptyRow => tasks[i] # EmptyRow /\ tasks'[i].key = tasks[i].key

LEMMA KeepsWorkInv ==
  ASSUME TypeInv, TypeInv', WorkInv, KeepsWork
  PROVE  WorkInv'
<1>0. \A i \in TaskIds : Live(tasks'[i]) => tasks'[i] # EmptyRow
  BY DEF Live, EmptyRow, Unfinished
<1>1. KeysUnique'
  BY DEF KeysUnique, WorkInv, KeepsWork
<1>2. OneUnfinishedPerIdentity'
  BY DEF OneUnfinishedPerIdentity, SameWork, WorkInv, KeepsWork
<1>3. ProjectionKeyKept'
  BY <1>0 DEF ProjectionKeyKept, WorkInv, KeepsWork
<1>4. KeyOfType'
  BY <1>0 DEF KeyOfType, WorkInv, KeepsWork
<1> QED
  BY <1>1, <1>2, <1>3, <1>4 DEF WorkInv

LEMMA InsertKeepsWorkInv ==
  ASSUME TypeInv, WorkInv,
         NEW q \in Requests, NEW d \in Delays, NEW fresh \in BOOLEAN,
         NEW i \in FreeIds,
         tasks' = [KeyReleased(i, q.key) EXCEPT ![i] = NewRow(q, d, fresh)],
         \A j \in TaskIds : Live(tasks[j]) => ~SameIdentity(tasks[j], q)
  PROVE  WorkInv'
<1> DEFINE n == NewRow(q, d, fresh)
<1>1. i \in TaskIds /\ tasks[i] = EmptyRow
  BY DEF FreeIds
<1>2. /\ tasks'[i] = n
      /\ n.type = q.type /\ n.entity = q.entity /\ n.base = q.key /\ n.key = q.key
      /\ q.key # Archived
  BY <1>1, ConstantsAssumption DEF KeyReleased, NewRow, Keys
<1>3. ASSUME NEW j \in TaskIds \ {i}
      PROVE  /\ tasks'[j] # EmptyRow => tasks[j] # EmptyRow
             /\ tasks'[j] # EmptyRow => tasks'[j].key = tasks[j].key \/ tasks'[j].key = Archived
             /\ tasks'[j] # EmptyRow => tasks'[j].key # q.key
             /\ Live(tasks'[j]) => /\ Live(tasks[j]) /\ tasks[j] \in LiveRow
                                   /\ tasks'[j].type = tasks[j].type
                                   /\ tasks'[j].entity = tasks[j].entity
                                   /\ tasks'[j].base = tasks[j].base
                                   /\ tasks[j].key # q.key => tasks'[j].key = tasks[j].key
  <2>1. tasks'[j] = IF tasks[j] # EmptyRow /\ tasks[j].key = q.key
                    THEN [tasks[j] EXCEPT !.key = Archived] ELSE tasks[j]
    BY <1>1, <1>3 DEF KeyReleased
  <2>2. tasks[j] \in AnyRow
    BY DEF TypeInv, TypeOK
  <2>3. CASE tasks[j] \in LiveRow
    BY <1>2, <2>1, <2>3, RowKinds, <2>2 DEF LiveRow, Live, EmptyRow, Unfinished
  <2>4. CASE tasks[j] \in ClosedRow
    BY <1>2, <2>1, <2>4, RowKinds, <2>2 DEF ClosedRow, Live, EmptyRow, Unfinished, Terminal
  <2>5. CASE tasks[j] = EmptyRow
    BY <2>1, <2>5, RowKinds, <2>2 DEF Live, EmptyRow, Unfinished
  <2> QED
    BY <2>2, <2>3, <2>4, <2>5 DEF AnyRow
<1> HIDE DEF n
<1>4. KeysUnique'
  BY <1>1, <1>2, <1>3 DEF KeysUnique, WorkInv
<1>5. ASSUME NEW j \in TaskIds \ {i}, Live(tasks'[j]) PROVE ~SameIdentity(tasks'[j], q)
  <2>1. ~SameIdentity(tasks[j], q)
    BY <1>3, <1>5
  <2> QED
    BY <1>3, <1>5, <2>1 DEF SameIdentity
<1>6. ASSUME NEW j \in TaskIds \ {i}, Live(tasks'[j]) PROVE ~SameWork(tasks'[j], n)
  <2>1. CASE q.type = "PROJECT_DEVICE_STATUS" /\ tasks[j].type = q.type
    BY <1>2, <1>3, <1>5, <1>6, <2>1
    DEF SameWork, SameIdentity, WorkInv, ProjectionKeyKept
  <2>2. CASE q.type # "PROJECT_DEVICE_STATUS" \/ tasks[j].type # q.type
    BY <1>2, <1>3, <1>5, <1>6, <2>2 DEF SameWork, SameIdentity
  <2> QED
    BY <2>1, <2>2
<1>7. OneUnfinishedPerIdentity'
  BY <1>1, <1>2, <1>3, <1>6
  DEF OneUnfinishedPerIdentity, SameWork, WorkInv
<1>8. ASSUME NEW j \in TaskIds, Live(tasks'[j]), tasks'[j].type = "PROJECT_DEVICE_STATUS"
      PROVE  tasks'[j].key = tasks'[j].base
  <2>1. CASE j = i
    BY <1>2, <2>1
  <2>2. CASE j # i
    \* Its key could only be archived by a request of its own type for the very
    \* same key, and then the row would have been found by the lookup.
    <3>1. tasks[j].key = tasks[j].base
      BY <1>3, <1>8, <2>2 DEF WorkInv, ProjectionKeyKept
    <3>2. tasks[j].key # Archived
      BY <1>3, <1>8, <2>2, <3>1, ConstantsAssumption DEF LiveRow, Keys
    <3>3. tasks[j].key = q.key => q.type = "PROJECT_DEVICE_STATUS"
      BY <1>3, <1>8, <2>2, <3>2, ConstantsAssumption DEF WorkInv, KeyOfType
    <3>4. tasks[j].key # q.key
      BY <1>3, <1>8, <2>2, <3>3 DEF SameIdentity
    <3> QED
      BY <1>3, <1>8, <2>2, <3>1, <3>4
  <2> QED
    BY <2>1, <2>2
<1>9. ASSUME NEW j \in TaskIds, Live(tasks'[j]), tasks'[j].key # Archived
      PROVE  \E r \in Requests : r.key = tasks'[j].key /\ r.type = tasks'[j].type
  <2>1. CASE j = i
    BY <1>2, <2>1
  <2>2. CASE j # i
    <3>1. tasks'[j] # EmptyRow
      BY <1>9 DEF Live, EmptyRow, Unfinished
    <3>2. tasks'[j].key = tasks[j].key /\ Live(tasks[j]) /\ tasks'[j].type = tasks[j].type
      BY <1>3, <1>9, <2>2, <3>1
    <3> QED
      BY <1>9, <3>2 DEF WorkInv, KeyOfType
  <2> QED
    BY <2>1, <2>2
<1> QED
  BY <1>4, <1>7, <1>8, <1>9 DEF WorkInv, ProjectionKeyKept, KeyOfType

LEMMA AdoptKeepsWorkInv ==
  ASSUME TypeInv, WorkInv,
         NEW q \in Requests, NEW d \in Delays,
         NEW i \in TaskIds, Live(tasks[i]), SameIdentity(tasks[i], q),
         NEW dups \in SUBSET (TaskIds \ {i}), \A j \in dups : Live(tasks[j]),
         q.type # "RECONCILE_ALARM_EVENT",
         tasks' = DuplicatesCancelled(Adopt(i, q, d), dups)
  PROVE  WorkInv'
<1>0. tasks[i] \in LiveRow /\ q.key \in Keys /\ q.key # Archived /\ tasks[i].type = q.type
  BY RowKinds, ConstantsAssumption DEF TypeInv, TypeOK, Keys, SameIdentity
<1>1. /\ Live(tasks'[i]) /\ tasks'[i].key = q.key
      /\ tasks'[i].type = q.type /\ tasks'[i].base = tasks[i].base
      /\ tasks'[i].entity = tasks[i].entity
  BY <1>0 DEF DuplicatesCancelled, Adopt, KeyReleased, LiveRow, Live
<1>2. ASSUME NEW j \in TaskIds \ {i}
      PROVE  /\ tasks'[j] # EmptyRow => tasks[j] # EmptyRow
             /\ tasks'[j] # EmptyRow => tasks'[j].key = tasks[j].key \/ tasks'[j].key = Archived
             /\ tasks'[j] # EmptyRow => tasks'[j].key # q.key
             /\ Live(tasks'[j]) => /\ Live(tasks[j]) /\ tasks[j] \in LiveRow
                                   /\ tasks'[j] # EmptyRow
                                   /\ tasks'[j].type = tasks[j].type
                                   /\ tasks'[j].entity = tasks[j].entity
                                   /\ tasks'[j].base = tasks[j].base
                                   /\ tasks[j].key # q.key => tasks'[j].key = tasks[j].key
  <2> DEFINE r == IF tasks[j] # EmptyRow /\ tasks[j].key = q.key
                  THEN [tasks[j] EXCEPT !.key = Archived] ELSE tasks[j]
  <2>1. tasks'[j] = IF j \in dups THEN Closed(r, "CANCELLED") ELSE r
    BY <1>2 DEF DuplicatesCancelled, Adopt, KeyReleased
  <2>2. tasks[j] \in AnyRow
    BY DEF TypeInv, TypeOK
  <2>3. CASE j \in dups
    <3>1. tasks[j] \in LiveRow /\ tasks[j] # EmptyRow
      BY <2>2, <2>3, RowKinds DEF Live, EmptyRow, Unfinished
    <3> QED
      BY <1>0, <2>1, <2>3, <3>1 DEF Closed, LiveRow, Live, Unfinished, EmptyRow
  <2>4. CASE j \notin dups
    <3>1. CASE tasks[j] \in LiveRow
      BY <1>0, <2>1, <2>4, <3>1, <2>2, RowKinds DEF LiveRow, Live, EmptyRow, Unfinished
    <3>2. CASE tasks[j] \in ClosedRow
      BY <1>0, <2>1, <2>4, <3>2, <2>2, RowKinds
      DEF ClosedRow, Live, EmptyRow, Unfinished, Terminal
    <3>3. CASE tasks[j] = EmptyRow
      BY <2>1, <2>4, <3>3 DEF Live, EmptyRow, Unfinished
    <3> QED
      BY <2>2, <3>1, <3>2, <3>3 DEF AnyRow
  <2> QED
    BY <2>3, <2>4
<1>3. KeysUnique'
  BY <1>0, <1>1, <1>2 DEF KeysUnique, WorkInv
<1>4. OneUnfinishedPerIdentity'
  BY <1>0, <1>1, <1>2 DEF OneUnfinishedPerIdentity, SameWork, WorkInv
<1>5. ASSUME NEW j \in TaskIds, Live(tasks'[j]), tasks'[j].type = "PROJECT_DEVICE_STATUS"
      PROVE  tasks'[j].key = tasks'[j].base
  <2>1. CASE j = i
    BY <1>0, <1>1, <1>5, <2>1 DEF SameIdentity, WorkInv, ProjectionKeyKept
  <2>2. CASE j # i
    <3>1. /\ Live(tasks[j]) /\ tasks[j].type = "PROJECT_DEVICE_STATUS"
          /\ tasks[j].key = tasks[j].base
      BY <1>2, <1>5, <2>2 DEF WorkInv, ProjectionKeyKept
    <3>2. tasks[j].key # Archived /\ tasks[j] # EmptyRow /\ tasks[i] # EmptyRow
      BY <1>0, <1>2, <1>5, <2>2, <3>1, ConstantsAssumption
      DEF LiveRow, Keys, Live, EmptyRow, Unfinished
    <3>3. tasks[j].key = q.key => q.type = "PROJECT_DEVICE_STATUS"
      BY <3>1, <3>2, ConstantsAssumption DEF WorkInv, KeyOfType
    <3>4. tasks[j].key # q.key
      BY <1>0, <2>2, <3>1, <3>2, <3>3 DEF SameIdentity, WorkInv, KeysUnique
    <3> QED
      BY <1>2, <1>5, <2>2, <3>1, <3>4
  <2> QED
    BY <2>1, <2>2
<1>6. ASSUME NEW j \in TaskIds, Live(tasks'[j]), tasks'[j].key # Archived
      PROVE  \E r \in Requests : r.key = tasks'[j].key /\ r.type = tasks'[j].type
  <2>1. CASE j = i
    BY <1>1, <2>1
  <2>2. CASE j # i
    <3>1. tasks'[j].key = tasks[j].key /\ Live(tasks[j]) /\ tasks'[j].type = tasks[j].type
      BY <1>2, <1>6, <2>2
    <3> QED
      BY <1>6, <3>1 DEF WorkInv, KeyOfType
  <2> QED
    BY <2>1, <2>2
<1> QED
  BY <1>3, <1>4, <1>5, <1>6 DEF WorkInv, ProjectionKeyKept, KeyOfType

\* What a row still stands for after a claim, a requeue or the passing of time.
SameRow(r, s) ==
  /\ s # EmptyRow /\ s.key = r.key
  /\ s.type = r.type /\ s.entity = r.entity /\ s.base = r.base

LEMMA RowSteps ==
  ASSUME NEW r \in LiveRow
  PROVE  /\ \A w : SameRow(r, ClaimedBy(r, w))
         /\ \A d : SameRow(r, Requeued(r, d))
         /\ SameRow(r, Aged(r)) /\ (Live(Aged(r)) => Live(r))
<1>1. \A w : SameRow(r, ClaimedBy(r, w))
  BY DEF SameRow, ClaimedBy, LiveRow, EmptyRow, Unfinished
<1>2. \A d : SameRow(r, Requeued(r, d))
  BY DEF SameRow, Requeued, LiveRow, EmptyRow, Unfinished
<1>3. SameRow(r, Aged(r)) /\ (Live(Aged(r)) => Live(r))
  BY DEF SameRow, Aged, LiveRow, EmptyRow, Live, Unfinished
<1> QED
  BY <1>1, <1>2, <1>3

LEMMA ClosedSteps ==
  ASSUME NEW r \in LiveRow, NEW s \in Terminal \cup {"LEGACY_PENDING"}
  PROVE  ~Live(Closed(r, s)) /\ Closed(r, s).key = r.key
  BY DEF Closed, Live, Unfinished, Terminal

LEMMA QuarantineKeepsWork ==
  ASSUME TypeInv, Quarantine
  PROVE  KeepsWork
<1> SUFFICES ASSUME NEW i \in TaskIds
             PROVE  tasks'[i] # tasks[i] =>
                      /\ ~Live(tasks'[i]) /\ tasks[i] # EmptyRow
                      /\ tasks'[i].key = tasks[i].key
  BY DEF KeepsWork
<1>1. tasks'[i] # tasks[i] => Live(tasks[i]) /\ tasks'[i] = Closed(tasks[i], "LEGACY_PENDING")
  BY DEF Quarantine, Quarantinable
<1> QED
  BY <1>1 DEF Closed, Live, Unfinished, EmptyRow

LEMMA WorkInvNext == TypeInv /\ TypeInv' /\ WorkInv /\ [Next]_vars => WorkInv'
<1> SUFFICES ASSUME TypeInv, TypeInv', WorkInv, [Next]_vars PROVE WorkInv'
  OBVIOUS
<1>1. /\ tasks \in [TaskIds -> AnyRow]
      /\ \A i \in TaskIds : Live(tasks[i]) => tasks[i] \in LiveRow
  BY RowKinds DEF TypeInv, TypeOK
<1>2. ~Live(EmptyRow) /\ \A i \in TaskIds : Live(tasks[i]) => tasks[i] # EmptyRow
  BY DEF Live, EmptyRow, Unfinished
<1>3. ASSUME UNCHANGED tasks PROVE WorkInv'
  BY <1>2, <1>3, KeepsWorkInv DEF KeepsWork
<1>4. CASE StartupQuarantine
  BY <1>4, QuarantineKeepsWork, KeepsWorkInv DEF StartupQuarantine
<1>5. CASE RecoverStaleTasks
  <2>1. KeepsWork
    BY <1>1, <1>2, <1>5, RowSteps
    DEF RecoverStaleTasks, KeepsWork, SameRow, Live, Unfinished
  <2> QED
    BY <2>1, KeepsWorkInv
<1>6. ASSUME NEW q \in Requests, NEW d \in Delays, NEW fresh \in BOOLEAN,
             CreateOrGet(q, d, fresh)
      PROVE  WorkInv'
  <2>1. PICK i \in FreeIds : tasks' = [tasks EXCEPT ![i] = NewRow(q, d, fresh)]
    BY <1>6 DEF CreateOrGet
  <2>2. /\ i \in TaskIds /\ tasks[i] = EmptyRow
        /\ tasks'[i] = NewRow(q, d, fresh)
        /\ \A j \in TaskIds \ {i} : tasks'[j] = tasks[j]
    BY <2>1 DEF FreeIds, TypeInv, TypeOK
  <2>3. /\ tasks'[i].key = q.key /\ tasks'[i].base = q.key /\ tasks'[i].type = q.type
        /\ q.type \notin SingleSlotTypes
    BY <1>6, <2>2 DEF NewRow, CreateOrGet, SingleSlotTypes
  <2>4. KeysUnique'
    BY <1>6, <2>2, <2>3 DEF KeysUnique, WorkInv, CreateOrGet
  <2>5. OneUnfinishedPerIdentity'
    BY <2>2, <2>3 DEF OneUnfinishedPerIdentity, SameWork, WorkInv
  <2>6. ProjectionKeyKept'
    BY <2>2, <2>3 DEF ProjectionKeyKept, WorkInv
  <2>7. KeyOfType'
    BY <2>2, <2>3 DEF KeyOfType, WorkInv
  <2> QED
    BY <2>4, <2>5, <2>6, <2>7 DEF WorkInv
<1>7. ASSUME NEW q \in Requests, NEW d \in Delays, NEW fresh \in BOOLEAN,
             CreateOrGetUnfinished(q, d, fresh)
      PROVE  WorkInv'
  <2> DEFINE active == {i \in TaskIds : Live(tasks[i]) /\ SameIdentity(tasks[i], q)}
             dups(i) == {j \in active \ {i} : tasks[j].status = "PENDING"}
  <2>1. CASE /\ active = {}
             /\ \E i \in FreeIds :
                  tasks' = [KeyReleased(i, q.key) EXCEPT ![i] = NewRow(q, d, fresh)]
    BY <2>1, InsertKeepsWorkInv
  <2>2. ASSUME NEW i \in active, tasks' = DuplicatesCancelled(Adopt(i, q, d), dups(i))
        PROVE  WorkInv'
    <3>1. CASE q.type = "RECONCILE_ALARM_EVENT"
      <4>1. KeepsWork
        BY <1>1, <1>2, <2>2, <3>1
        DEF Adopt, DuplicatesCancelled, KeepsWork, Closed, Live, Unfinished
      <4> QED
        BY <4>1, KeepsWorkInv
    <3>2. CASE q.type # "RECONCILE_ALARM_EVENT"
      <4>1. /\ i \in TaskIds /\ Live(tasks[i]) /\ SameIdentity(tasks[i], q)
            /\ dups(i) \in SUBSET (TaskIds \ {i}) /\ \A j \in dups(i) : Live(tasks[j])
        OBVIOUS
      <4> HIDE DEF dups, active
      <4> QED
        BY <2>2, <3>2, <4>1, AdoptKeepsWorkInv
    <3> QED
      BY <3>1, <3>2
  <2>3. \/ /\ active = {}
           /\ \E i \in FreeIds :
                tasks' = [KeyReleased(i, q.key) EXCEPT ![i] = NewRow(q, d, fresh)]
        \/ \E i \in active : tasks' = DuplicatesCancelled(Adopt(i, q, d), dups(i))
    BY <1>7 DEF CreateOrGetUnfinished
  <2> QED
    BY <2>1, <2>2, <2>3
<1>8. ASSUME NEW i \in TaskIds, Cancel(i) PROVE WorkInv'
  <2>1. KeepsWork
    BY <1>1, <1>2, <1>8, ClosedSteps DEF Cancel, KeepsWork, Terminal
  <2> QED
    BY <2>1, KeepsWorkInv
<1>9. ASSUME NEW ids \in SUBSET TaskIds, Purge(ids) PROVE WorkInv'
  <2>1. KeepsWork
    BY <1>1, <1>2, <1>9 DEF Purge, KeepsWork
  <2> QED
    BY <2>1, KeepsWorkInv
<1>10. ASSUME NEW w \in Workers, RunOnce(w) PROVE WorkInv'
  <2>1. CASE ClaimQuarantine(w)
    BY <2>1, QuarantineKeepsWork, KeepsWorkInv DEF ClaimQuarantine
  <2>2. CASE Claim(w)
    <3>1. KeepsWork
      <4>1. \A i \in TaskIds : Claimable(tasks[i]) => Live(tasks[i])
        BY DEF Claimable, Live, Unfinished
      <4> QED
        BY <1>1, <1>2, <2>2, <4>1, RowSteps DEF Claim, KeepsWork, SameRow
    <3> QED
      BY <3>1, KeepsWorkInv
  <2>3. ASSUME NEW outcome \in {"succeeded", "failed"}, HandlerEnds(w, outcome)
        PROVE  WorkInv'
    BY <1>3, <2>3 DEF HandlerEnds
  <2>4. ASSUME NEW d \in Delays, HandlerReschedules(w, d) PROVE WorkInv'
    <3>1. held[w] \in TaskIds /\ (OwnedBy(held[w], w) => Live(tasks[held[w]]))
      BY <2>4 DEF HandlerReschedules, TypeInv, BusyHolds, OwnedBy, Live, Unfinished
    <3>2. KeepsWork
      BY <1>1, <1>2, <2>4, <3>1, RowSteps DEF HandlerReschedules, KeepsWork, SameRow
    <3> QED
      BY <3>2, KeepsWorkInv
  <2>5. CASE Finish(w)
    <3>1. held[w] \in TaskIds /\ (Finishable(held[w], w) => Live(tasks[held[w]]))
      BY <2>5 DEF Finish, TypeInv, BusyHolds, Finishable, OwnedBy, Live, Unfinished
    <3>2. KeepsWork
      BY <1>1, <1>2, <2>5, <3>1, ClosedSteps DEF Finish, KeepsWork, Terminal
    <3> QED
      BY <3>2, KeepsWorkInv
  <2> QED
    BY <1>10, <2>1, <2>2, <2>3, <2>4, <2>5 DEF RunOnce
<1>11. CASE Tick
  <2>1. KeepsWork
    BY <1>1, <1>2, <1>11, RowSteps DEF Tick, Aged, KeepsWork, SameRow
  <2> QED
    BY <2>1, KeepsWorkInv
<1> QED
  BY <1>3, <1>4, <1>5, <1>6, <1>7, <1>8, <1>9, <1>10, <1>11
  DEF Next, Startup, Application, SetRuntimeContext, Crash, vars

\* One unfinished task per business identity, for every set of requests, any
\* number of scheduler loops and any sequence of crashes.
THEOREM IdentitySafe == Spec => []OneUnfinishedPerIdentity
<1>1. Init => WorkInv
  BY DEF Init, WorkInv, KeysUnique, OneUnfinishedPerIdentity, ProjectionKeyKept, KeyOfType,
         Live, Unfinished, EmptyRow
<1>2. Spec => [](TypeInv /\ WorkInv)
  BY <1>1, TypeInvInit, TypeInvNext, WorkInvNext, PTL DEF Spec
<1>3. WorkInv => OneUnfinishedPerIdentity
  BY DEF WorkInv
<1> QED
  BY <1>2, <1>3, PTL

\* No two rows share a dedupe key: the renames never meet the UNIQUE constraint.
THEOREM KeysSafe == Spec => []KeysUnique
<1>1. Init => WorkInv
  BY DEF Init, WorkInv, KeysUnique, OneUnfinishedPerIdentity, ProjectionKeyKept, KeyOfType,
         Live, Unfinished, EmptyRow
<1>2. Spec => [](TypeInv /\ WorkInv)
  BY <1>1, TypeInvInit, TypeInvNext, WorkInvNext, PTL DEF Spec
<1>3. WorkInv => KeysUnique
  BY DEF WorkInv
<1> QED
  BY <1>2, <1>3, PTL

-----------------------------------------------------------------------------
(* The activation boundary.                                                *)

InCurrentEpoch(r) == r.mode = ctx.mode /\ r.epoch = ctx.epoch

\* From the startup quarantine on, every unfinished external-effect row was
\* created under the current mode and epoch; only a live process runs handlers.
EpochInv ==
  /\ phase \in {"quarantined", "up"} =>
       \A i \in TaskIds : Live(tasks[i]) /\ tasks[i].type \in ExternalEffectTypes
                            => InCurrentEpoch(tasks[i])
  /\ \A w \in Workers : pc[w] # "idle" => phase = "up"

\* A step that keeps the context and lets no row appear keeps the boundary.
KeepsOrigin ==
  /\ ctx' = ctx
  /\ phase' \in {"quarantined", "up"} => phase \in {"quarantined", "up"}
  /\ \A i \in TaskIds :
       Live(tasks'[i]) => /\ Live(tasks[i])
                          /\ tasks'[i].type = tasks[i].type
                          /\ tasks'[i].mode = tasks[i].mode
                          /\ tasks'[i].epoch = tasks[i].epoch

LEMMA RowOrigin ==
  ASSUME NEW r \in LiveRow
  PROVE  /\ \A w : ClaimedBy(r, w).type = r.type /\ ClaimedBy(r, w).mode = r.mode
                  /\ ClaimedBy(r, w).epoch = r.epoch
         /\ \A d : Requeued(r, d).type = r.type /\ Requeued(r, d).mode = r.mode
                  /\ Requeued(r, d).epoch = r.epoch
         /\ Aged(r).type = r.type /\ Aged(r).mode = r.mode /\ Aged(r).epoch = r.epoch
  BY DEF ClaimedBy, Requeued, Aged, LiveRow

LEMMA EpochInvNext == TypeInv /\ EpochInv /\ [Next]_vars => EpochInv'
<1> SUFFICES ASSUME TypeInv, EpochInv, [Next]_vars PROVE EpochInv'
  OBVIOUS
<1>1. /\ tasks \in [TaskIds -> AnyRow]
      /\ \A i \in TaskIds : Live(tasks[i]) => tasks[i] \in LiveRow
      /\ pc \in [Workers -> {"idle", "claiming", "handling", "succeeded", "failed"}]
  BY RowKinds DEF TypeInv, TypeOK
<1>2. ~Live(EmptyRow)
  BY DEF Live, EmptyRow, Unfinished
<1>3. ASSUME KeepsOrigin, \A w \in Workers : pc'[w] # "idle" => phase' = "up"
      PROVE  EpochInv'
  BY <1>3 DEF EpochInv, KeepsOrigin, InCurrentEpoch
<1>4. ASSUME Quarantine
      PROVE  \A i \in TaskIds : Live(tasks'[i]) =>
               /\ tasks'[i] = tasks[i] /\ Live(tasks[i])
               /\ ctx.mode # "unknown" /\ tasks[i].type \in ExternalEffectTypes
                    => ctx.mode = "active" /\ InCurrentEpoch(tasks[i])
  BY <1>1, <1>4, ClosedSteps DEF Quarantine, Quarantinable, InCurrentEpoch
<1>5. ASSUME NEW m \in Modes, SetRuntimeContext(m) PROVE EpochInv'
  BY <1>5 DEF SetRuntimeContext, EpochInv
<1>6. CASE StartupQuarantine
  <2>1. ctx.mode # "unknown"
    BY <1>6, ConstantsAssumption DEF StartupQuarantine, TypeInv, Booted
  <2> QED
    BY <1>4, <1>6, <2>1 DEF StartupQuarantine, EpochInv, InCurrentEpoch
<1>7. CASE RecoverStaleTasks
  BY <1>1, <1>3, <1>7, RowOrigin
  DEF RecoverStaleTasks, KeepsOrigin, EpochInv, Live, Unfinished
<1>8. ASSUME NEW q \in Requests, NEW d \in Delays, NEW fresh \in BOOLEAN, NEW i \in FreeIds,
             phase = "up", UNCHANGED <<ctx, phase, pc>>,
             tasks'[i] = NewRow(q, d, fresh),
             \A j \in TaskIds \ {i} : Live(tasks'[j]) =>
               /\ Live(tasks[j]) /\ tasks'[j].type = tasks[j].type
               /\ tasks'[j].mode = tasks[j].mode /\ tasks'[j].epoch = tasks[j].epoch
      PROVE  EpochInv'
  BY <1>8 DEF NewRow, EpochInv, InCurrentEpoch
<1>9. ASSUME NEW q \in Requests, NEW d \in Delays, NEW fresh \in BOOLEAN,
             CreateOrGet(q, d, fresh)
      PROVE  EpochInv'
  <2>1. PICK i \in FreeIds : tasks' = [tasks EXCEPT ![i] = NewRow(q, d, fresh)]
    BY <1>9 DEF CreateOrGet
  <2> QED
    BY <1>1, <1>8, <1>9, <2>1 DEF CreateOrGet, FreeIds
<1>10. ASSUME NEW i \in TaskIds, NEW k
       PROVE  \A j \in TaskIds : Live(KeyReleased(i, k)[j]) =>
                /\ Live(tasks[j])
                /\ KeyReleased(i, k)[j].type = tasks[j].type
                /\ KeyReleased(i, k)[j].mode = tasks[j].mode
                /\ KeyReleased(i, k)[j].epoch = tasks[j].epoch
  <2> SUFFICES ASSUME NEW j \in TaskIds, Live(KeyReleased(i, k)[j])
               PROVE  /\ Live(tasks[j])
                      /\ KeyReleased(i, k)[j].type = tasks[j].type
                      /\ KeyReleased(i, k)[j].mode = tasks[j].mode
                      /\ KeyReleased(i, k)[j].epoch = tasks[j].epoch
    OBVIOUS
  <2>1. tasks[j] \in AnyRow
    BY <1>1
  <2>2. \/ KeyReleased(i, k)[j] = tasks[j]
        \/ tasks[j] # EmptyRow /\ KeyReleased(i, k)[j] = [tasks[j] EXCEPT !.key = Archived]
    BY DEF KeyReleased
  <2>3. Live(tasks[j])
    BY <2>1, <2>2 DEF Live, AnyRow, LiveRow, ClosedRow
  <2> QED
    BY <1>1, <2>2, <2>3 DEF LiveRow
<1>11. ASSUME NEW q \in Requests, NEW d \in Delays, NEW fresh \in BOOLEAN,
              CreateOrGetUnfinished(q, d, fresh)
       PROVE  EpochInv'
  <2>1. ASSUME NEW i \in FreeIds,
               tasks' = [KeyReleased(i, q.key) EXCEPT ![i] = NewRow(q, d, fresh)]
        PROVE  EpochInv'
    <3>1. i \in TaskIds /\ tasks'[i] = NewRow(q, d, fresh)
      BY <2>1 DEF FreeIds, KeyReleased
    <3>2. \A j \in TaskIds \ {i} : tasks'[j] = KeyReleased(i, q.key)[j]
      BY <2>1 DEF KeyReleased
    <3> QED
      BY <1>8, <1>10, <1>11, <3>1, <3>2 DEF CreateOrGetUnfinished
  <2>2. ASSUME NEW i \in TaskIds, Live(tasks[i]), NEW dups \in SUBSET TaskIds,
               \A j \in dups : Live(tasks[j]),
               tasks' = DuplicatesCancelled(Adopt(i, q, d), dups)
        PROVE  EpochInv'
    <3>1. \A j \in TaskIds : Live(Adopt(i, q, d)[j]) =>
            /\ Live(tasks[j])
            /\ Adopt(i, q, d)[j].type = tasks[j].type
            /\ Adopt(i, q, d)[j].mode = tasks[j].mode
            /\ Adopt(i, q, d)[j].epoch = tasks[j].epoch
      <4>1. CASE q.type = "RECONCILE_ALARM_EVENT"
        BY <4>1 DEF Adopt
      <4>2. CASE q.type # "RECONCILE_ALARM_EVENT"
        <5>1. KeyReleased(i, q.key)[i] = tasks[i] /\ tasks[i] \in LiveRow
          BY <1>1, <2>2 DEF KeyReleased
        <5>2. \A j \in TaskIds \ {i} : Adopt(i, q, d)[j] = KeyReleased(i, q.key)[j]
          BY <4>2 DEF Adopt, KeyReleased
        <5>3. /\ Adopt(i, q, d)[i].type = tasks[i].type
              /\ Adopt(i, q, d)[i].mode = tasks[i].mode
              /\ Adopt(i, q, d)[i].epoch = tasks[i].epoch
          BY <4>2, <5>1 DEF Adopt, KeyReleased, LiveRow
        <5> QED
          BY <1>10, <2>2, <5>2, <5>3
      <4> QED
        BY <4>1, <4>2
    <3>2. \A j \in dups : ~Live(tasks'[j])
      BY <2>2 DEF DuplicatesCancelled, Closed, Live, Unfinished
    <3>3. KeepsOrigin
      BY <1>11, <2>2, <3>1, <3>2 DEF KeepsOrigin, CreateOrGetUnfinished, DuplicatesCancelled
    <3> QED
      BY <1>3, <1>11, <3>3 DEF CreateOrGetUnfinished, EpochInv
  <2> QED
    <3> DEFINE active == {i \in TaskIds : Live(tasks[i]) /\ SameIdentity(tasks[i], q)}
               dups(i) == {j \in active \ {i} : tasks[j].status = "PENDING"}
    <3>1. \/ \E i \in FreeIds :
               tasks' = [KeyReleased(i, q.key) EXCEPT ![i] = NewRow(q, d, fresh)]
          \/ \E i \in active : tasks' = DuplicatesCancelled(Adopt(i, q, d), dups(i))
      BY <1>11 DEF CreateOrGetUnfinished
    <3>2. \A i \in active : /\ i \in TaskIds /\ Live(tasks[i]) /\ dups(i) \in SUBSET TaskIds
                            /\ \A j \in dups(i) : Live(tasks[j])
      OBVIOUS
    <3> HIDE DEF active, dups
    <3> QED
      BY <2>1, <2>2, <3>1, <3>2
<1>12. ASSUME NEW i \in TaskIds, Cancel(i) PROVE EpochInv'
  BY <1>1, <1>3, <1>12, ClosedSteps DEF Cancel, KeepsOrigin, EpochInv, Terminal
<1>13. ASSUME NEW ids \in SUBSET TaskIds, Purge(ids) PROVE EpochInv'
  BY <1>1, <1>2, <1>3, <1>13 DEF Purge, KeepsOrigin, EpochInv
<1>14. ASSUME NEW w \in Workers, RunOnce(w) PROVE EpochInv'
  <2>1. phase = "up"
    BY <1>14 DEF RunOnce, ClaimQuarantine, Claim, HandlerEnds, HandlerReschedules, Finish, EpochInv
  <2>2. ASSUME UNCHANGED <<ctx, phase>>,
               \A i \in TaskIds :
                 \/ tasks'[i] = tasks[i]
                 \/ ~Live(tasks'[i])
                 \/ /\ Live(tasks[i])
                    /\ \/ \E v : tasks'[i] = ClaimedBy(tasks[i], v)
                       \/ \E d : tasks'[i] = Requeued(tasks[i], d)
        PROVE  EpochInv'
    <3>1. KeepsOrigin
      BY <1>1, <2>2, RowOrigin DEF KeepsOrigin
    <3> QED
      BY <1>3, <2>1, <2>2, <3>1
  <2>3. CASE ClaimQuarantine(w)
    BY <1>4, <2>2, <2>3 DEF ClaimQuarantine
  <2>4. CASE Claim(w)
    BY <1>1, <2>2, <2>4 DEF Claim, Claimable, Live, Unfinished
  <2>5. ASSUME NEW outcome \in {"succeeded", "failed"}, HandlerEnds(w, outcome)
        PROVE  EpochInv'
    BY <2>2, <2>5 DEF HandlerEnds
  <2>6. ASSUME NEW d \in Delays, HandlerReschedules(w, d) PROVE EpochInv'
    BY <1>1, <2>2, <2>6 DEF HandlerReschedules, OwnedBy, Live, Unfinished
  <2>7. CASE Finish(w)
    <3>1. \A s \in {"SUCCEEDED", "FAILED"} : ~Live(Closed(tasks[held[w]], s))
      BY DEF Closed, Live, Unfinished
    <3> QED
      BY <1>1, <2>2, <2>7, <3>1 DEF Finish
  <2> QED
    BY <1>14, <2>3, <2>4, <2>5, <2>6, <2>7 DEF RunOnce
<1>15. CASE Tick
  BY <1>1, <1>3, <1>15, RowSteps, RowOrigin DEF Tick, Aged, KeepsOrigin, EpochInv
<1>16. CASE Crash
  BY <1>16 DEF Crash, EpochInv
<1>17. CASE UNCHANGED vars
  BY <1>17 DEF vars, EpochInv, InCurrentEpoch
<1> QED
  BY <1>5, <1>6, <1>7, <1>9, <1>11, <1>12, <1>13, <1>14, <1>15, <1>16, <1>17
  DEF Next, Startup, Application

\* No handler runs an external effect left by another mode or activation, for
\* any number of restarts, workers and rows.
THEOREM EpochSafe == Spec => []HandledInOwnEpoch
<1>1. Init => EpochInv
  BY DEF Init, EpochInv
<1>2. Spec => [](TypeInv /\ EpochInv)
  BY <1>1, TypeInvInit, TypeInvNext, EpochInvNext, PTL DEF Spec
<1>3. TypeInv /\ EpochInv => HandledInOwnEpoch
  BY DEF TypeInv, BusyHolds, EpochInv, HandledInOwnEpoch, InCurrentEpoch, OwnedBy, Live, Unfinished
<1> QED
  BY <1>2, <1>3, PTL

-----------------------------------------------------------------------------
(* What one step may do to a row.                                          *)

\* The step does not finish row i successfully.
NoSuccess(i) == tasks'[i].status = "SUCCEEDED" => tasks[i].status = "SUCCEEDED"

Waits(i) == tasks[i].status = "PENDING" /\ tasks'[i].status = "PENDING"

\* If row i waits before and after the step, it waits for the same instant.
SameTime(i) == Waits(i) => tasks'[i].due = tasks[i].due

Quiet == \A i \in TaskIds : NoSuccess(i) /\ SameTime(i)

LEMMA RowOutcomes ==
  ASSUME NEW r \in LiveRow
  PROVE  /\ \A w : ClaimedBy(r, w).status = "RUNNING"
         /\ \A d : Requeued(r, d).status = "PENDING" /\ Requeued(r, d).due = d
         /\ Aged(r).status = r.status /\ Aged(r).due <= r.due
         /\ \A s : Closed(r, s).status = s
  BY DEF ClaimedBy, Requeued, Aged, Closed, LiveRow

LEMMA KeyReleasedRow ==
  ASSUME TypeOK, NEW i, NEW k, NEW j \in TaskIds
  PROVE  /\ KeyReleased(i, k)[j].status = tasks[j].status
         /\ tasks[j].status = "PENDING" => KeyReleased(i, k)[j].due = tasks[j].due
<1>1. tasks[j] \in AnyRow
  BY DEF TypeOK
<1>2. \/ KeyReleased(i, k)[j] = tasks[j]
      \/ KeyReleased(i, k)[j] = [tasks[j] EXCEPT !.key = Archived]
  BY DEF KeyReleased
<1>3. /\ [tasks[j] EXCEPT !.key = Archived].status = tasks[j].status
      /\ tasks[j].status = "PENDING" =>
           [tasks[j] EXCEPT !.key = Archived].due = tasks[j].due
  BY <1>1 DEF AnyRow, LiveRow, ClosedRow, EmptyRow, Terminal
<1> QED
  BY <1>2, <1>3

LEMMA InsertIsQuiet ==
  ASSUME TypeInv, NEW q \in Requests, NEW d \in Delays, NEW fresh \in BOOLEAN, NEW i \in FreeIds,
         \/ tasks' = [tasks EXCEPT ![i] = NewRow(q, d, fresh)]
         \/ tasks' = [KeyReleased(i, q.key) EXCEPT ![i] = NewRow(q, d, fresh)]
  PROVE  Quiet
<1>1. /\ i \in TaskIds /\ tasks[i].status = "ABSENT"
      /\ tasks'[i].status = "PENDING"
  BY DEF FreeIds, EmptyRow, NewRow, KeyReleased, TypeInv, TypeOK
<1>2. ASSUME NEW j \in TaskIds \ {i}
      PROVE  tasks'[j] = tasks[j] \/ tasks'[j] = KeyReleased(i, q.key)[j]
  BY DEF KeyReleased, TypeInv, TypeOK
<1>3. ASSUME NEW j \in TaskIds \ {i} PROVE NoSuccess(j) /\ SameTime(j)
  BY <1>2, KeyReleasedRow DEF NoSuccess, SameTime, Waits, TypeInv
<1> QED
  BY <1>1, <1>3 DEF Quiet, NoSuccess, SameTime, Waits

\* create_or_get_unfinished on a row that waits already: nothing is finished,
\* no row waits longer, and a reconciliation waits for the same instant.
LEMMA AdoptKeepsTime ==
  ASSUME TypeInv, NEW q \in Requests, NEW d \in Delays, NEW i \in TaskIds, Live(tasks[i]),
         SameIdentity(tasks[i], q), NEW dups \in SUBSET TaskIds,
         tasks' = DuplicatesCancelled(Adopt(i, q, d), dups)
  PROVE  \A j \in TaskIds :
           /\ NoSuccess(j)
           /\ Waits(j) => /\ tasks'[j].due <= tasks[j].due
                          /\ tasks[j].type = "RECONCILE_ALARM_EVENT" => tasks'[j].due = tasks[j].due
<1> SUFFICES ASSUME NEW j \in TaskIds
             PROVE  /\ NoSuccess(j)
                    /\ Waits(j) => /\ tasks'[j].due <= tasks[j].due
                                   /\ tasks[j].type = "RECONCILE_ALARM_EVENT"
                                        => tasks'[j].due = tasks[j].due
  OBVIOUS
<1>1. /\ tasks[i] \in LiveRow /\ tasks[i].type = q.type
      /\ tasks[j].status = "PENDING" => tasks[j] \in LiveRow
  BY RowKinds DEF TypeInv, TypeOK, SameIdentity, Live, Unfinished
<1>2. j \in dups => tasks'[j].status = "CANCELLED"
  BY DEF DuplicatesCancelled, Closed
<1>3. j \notin dups => tasks'[j] = Adopt(i, q, d)[j]
  BY DEF DuplicatesCancelled
<1>4. CASE q.type = "RECONCILE_ALARM_EVENT"
  <2>1. j \notin dups => tasks'[j] = tasks[j]
    BY <1>3, <1>4 DEF Adopt
  <2>2. tasks[j].status = "PENDING" => tasks[j].due \in Int
    BY <1>1 DEF LiveRow
  <2> QED
    BY <1>2, <2>1, <2>2 DEF NoSuccess, Waits
<1>5. CASE q.type # "RECONCILE_ALARM_EVENT" /\ j # i
  <2>1. j \notin dups => tasks'[j] = KeyReleased(i, q.key)[j]
    BY <1>3, <1>5 DEF Adopt, KeyReleased
  <2>2. tasks[j].status = "PENDING" => tasks[j].due \in Int
    BY <1>1 DEF LiveRow
  <2> QED
    BY <1>2, <2>1, <2>2, KeyReleasedRow DEF NoSuccess, Waits, TypeInv
<1>6. CASE q.type # "RECONCILE_ALARM_EVENT" /\ j = i
  <2>1. KeyReleased(i, q.key)[i] = tasks[i]
    BY DEF KeyReleased
  <2> DEFINE due == IF tasks[i].status = "PENDING" /\ d < tasks[i].due THEN d ELSE tasks[i].due
  <2>2. Adopt(i, q, d)[i] = [tasks[i] EXCEPT !.key = q.key, !.due = due]
    BY <1>1, <1>6, <2>1 DEF Adopt, KeyReleased, LiveRow
  <2>3. due \in Int /\ due <= tasks[i].due
    BY <1>1, ConstantsAssumption DEF LiveRow
  <2>4. Adopt(i, q, d)[i].status = tasks[i].status /\ Adopt(i, q, d)[i].due = due
    <3> HIDE DEF due
    <3> QED
      BY <1>1, <2>2 DEF LiveRow
  <2> HIDE DEF due
  <2> QED
    BY <1>1, <1>2, <1>3, <1>6, <2>3, <2>4 DEF NoSuccess, Waits
<1> QED
  BY <1>4, <1>5, <1>6

\* A row becomes SUCCEEDED in _finish alone; a waiting row's instant changes
\* when time passes, at the recovery of a start, and when it is asked for again.
LEMMA WhatMovesARow ==
  ASSUME TypeInv, Next
  PROVE  \/ Quiet
         \/ \E w \in Workers : Finish(w) /\ \A i \in TaskIds : SameTime(i)
         \/ /\ RecoverStaleTasks
            /\ \A i \in TaskIds : NoSuccess(i) /\ (Waits(i) => tasks'[i].due >= tasks[i].due)
         \/ /\ Tick
            /\ \A i \in TaskIds : NoSuccess(i) /\ (Waits(i) => tasks'[i].due <= tasks[i].due)
         \/ \A i \in TaskIds :
              /\ NoSuccess(i)
              /\ Waits(i) => /\ tasks'[i].due <= tasks[i].due
                             /\ tasks[i].type = "RECONCILE_ALARM_EVENT"
                                  => tasks'[i].due = tasks[i].due
<1>1. /\ tasks \in [TaskIds -> AnyRow]
      /\ \A i \in TaskIds : Live(tasks[i]) => tasks[i] \in LiveRow
      /\ \A i \in TaskIds : Live(tasks[i]) => tasks[i].due \in Int
  BY RowKinds DEF TypeInv, TypeOK, LiveRow
<1>2. ASSUME UNCHANGED tasks PROVE Quiet
  BY <1>2 DEF Quiet, NoSuccess, SameTime
<1>3. ASSUME \A i \in TaskIds : \/ tasks'[i] = tasks[i]
                                \/ tasks'[i].status \notin {"SUCCEEDED", "PENDING"}
      PROVE  Quiet
  BY <1>3 DEF Quiet, NoSuccess, SameTime, Waits
<1>4. ASSUME StartupQuarantine \/ \E w \in Workers : ClaimQuarantine(w) PROVE Quiet
  <2>1. \A i \in TaskIds : tasks'[i] = tasks[i] \/ tasks'[i].status = "LEGACY_PENDING"
    BY <1>4 DEF StartupQuarantine, ClaimQuarantine, Quarantine, Closed
  <2> QED
    BY <1>3, <2>1
<1>5. CASE RecoverStaleTasks
  <2> SUFFICES ASSUME NEW i \in TaskIds
               PROVE  NoSuccess(i) /\ (Waits(i) => tasks'[i].due >= tasks[i].due)
    BY <1>5
  <2>1. CASE tasks'[i] = tasks[i]
    BY <1>1, <2>1 DEF NoSuccess, Waits, Live, Unfinished
  <2>2. CASE tasks'[i] # tasks[i]
    <3>1. /\ tasks'[i] = Requeued(tasks[i], 0) /\ Live(tasks[i])
          /\ tasks[i].status = "PENDING" => tasks[i].due <= -StaleAfter
      BY <1>5, <2>2 DEF RecoverStaleTasks, Live, Unfinished
    <3>2. tasks'[i].status = "PENDING" /\ tasks'[i].due = 0
      BY <1>1, <3>1, RowOutcomes
    <3> QED
      BY <1>1, <3>1, <3>2, ConstantsAssumption DEF NoSuccess, Waits
  <2> QED
    BY <2>1, <2>2
<1>6. ASSUME NEW q \in Requests, NEW d \in Delays, NEW fresh \in BOOLEAN,
             CreateOrGet(q, d, fresh)
      PROVE  Quiet
  BY <1>6, InsertIsQuiet DEF CreateOrGet
<1>7. ASSUME NEW q \in Requests, NEW d \in Delays, NEW fresh \in BOOLEAN,
             CreateOrGetUnfinished(q, d, fresh)
      PROVE  \/ Quiet
             \/ \A i \in TaskIds :
                  /\ NoSuccess(i)
                  /\ Waits(i) => /\ tasks'[i].due <= tasks[i].due
                                 /\ tasks[i].type = "RECONCILE_ALARM_EVENT"
                                      => tasks'[i].due = tasks[i].due
  <2> DEFINE active == {i \in TaskIds : Live(tasks[i]) /\ SameIdentity(tasks[i], q)}
             dups(i) == {j \in active \ {i} : tasks[j].status = "PENDING"}
  <2>1. \/ \E i \in FreeIds :
             tasks' = [KeyReleased(i, q.key) EXCEPT ![i] = NewRow(q, d, fresh)]
        \/ \E i \in active : tasks' = DuplicatesCancelled(Adopt(i, q, d), dups(i))
    BY <1>7 DEF CreateOrGetUnfinished
  <2>2. \A i \in active : /\ i \in TaskIds /\ Live(tasks[i]) /\ SameIdentity(tasks[i], q)
                          /\ dups(i) \in SUBSET TaskIds
    OBVIOUS
  <2> HIDE DEF active, dups
  <2> QED
    BY <2>1, <2>2, InsertIsQuiet, AdoptKeepsTime
<1>8. ASSUME \/ \E i \in TaskIds : Cancel(i)
             \/ \E ids \in SUBSET TaskIds : Purge(ids)
      PROVE  Quiet
  <2>1. \A i \in TaskIds : tasks'[i] = tasks[i] \/ tasks'[i].status \in {"CANCELLED", "ABSENT"}
    BY <1>1, <1>8 DEF Cancel, Purge, Closed, EmptyRow
  <2> QED
    BY <1>3, <2>1
<1>9. ASSUME NEW w \in Workers, Claim(w) PROVE Quiet
  <2>1. \A i \in TaskIds : tasks'[i] = tasks[i] \/ tasks'[i].status = "RUNNING"
    <3>1. \A i \in TaskIds : Claimable(tasks[i]) => ClaimedBy(tasks[i], w).status = "RUNNING"
      BY <1>1, RowOutcomes DEF Claimable, Live, Unfinished
    <3> QED
      BY <1>1, <1>9, <3>1 DEF Claim
  <2> QED
    BY <1>3, <2>1
<1>10. ASSUME NEW w \in Workers, NEW d \in Delays, HandlerReschedules(w, d) PROVE Quiet
  <2>1. held[w] \in TaskIds
    BY <1>10 DEF HandlerReschedules, TypeInv, BusyHolds
  <2>2. CASE ~OwnedBy(held[w], w)
    BY <1>2, <1>10, <2>2 DEF HandlerReschedules
  <2>3. CASE OwnedBy(held[w], w)
    <3>1. tasks' = [tasks EXCEPT ![held[w]] = Requeued(@, d)]
      BY <1>10, <2>3 DEF HandlerReschedules
    <3>2. tasks[held[w]].status = "RUNNING" /\ tasks'[held[w]].status = "PENDING"
      BY <1>1, <2>1, <2>3, <3>1, RowOutcomes DEF OwnedBy, Live, Unfinished
    <3>3. \A i \in TaskIds \ {held[w]} : tasks'[i] = tasks[i]
      BY <1>1, <3>1
    <3> QED
      BY <3>2, <3>3 DEF Quiet, NoSuccess, SameTime, Waits
  <2> QED
    BY <2>2, <2>3
<1>11. ASSUME NEW w \in Workers, Finish(w) PROVE \A i \in TaskIds : SameTime(i)
  <2>1. held[w] \in TaskIds
    BY <1>11 DEF Finish, TypeInv, BusyHolds
  <2>2. \A i \in TaskIds : tasks'[i] = tasks[i] \/ tasks'[i].status \in {"SUCCEEDED", "FAILED"}
    BY <1>1, <1>11, <2>1 DEF Finish, Closed
  <2> QED
    BY <2>2 DEF SameTime, Waits
<1>12. CASE Tick
  <2> SUFFICES ASSUME NEW i \in TaskIds
               PROVE  NoSuccess(i) /\ (Waits(i) => tasks'[i].due <= tasks[i].due)
    BY <1>12
  <2>1. tasks'[i] = Aged(tasks[i])
    BY <1>12 DEF Tick
  <2>2. CASE Live(tasks[i])
    BY <1>1, <2>1, <2>2, RowOutcomes DEF NoSuccess, Waits
  <2>3. CASE ~Live(tasks[i])
    BY <2>1, <2>3 DEF Aged, NoSuccess, Waits, Live, Unfinished
  <2> QED
    BY <2>2, <2>3
<1>13. CASE UNCHANGED tasks
  BY <1>2, <1>13
<1>14. ASSUME Application
       PROVE  \/ Quiet
              \/ \A i \in TaskIds :
                   /\ NoSuccess(i)
                   /\ Waits(i) => /\ tasks'[i].due <= tasks[i].due
                                  /\ tasks[i].type = "RECONCILE_ALARM_EVENT"
                                       => tasks'[i].due = tasks[i].due
  BY <1>3, <1>6, <1>7, <1>8, <1>14 DEF Application
<1>15. ASSUME NEW w \in Workers, RunOnce(w), ~Quiet PROVE Finish(w)
  <2>1. ~ \E outcome \in {"succeeded", "failed"} : HandlerEnds(w, outcome)
    BY <1>2, <1>15 DEF HandlerEnds
  <2> QED
    BY <1>4, <1>9, <1>10, <1>15, <2>1 DEF RunOnce
<1> QED
  BY <1>4, <1>5, <1>11, <1>12, <1>13, <1>14, <1>15
  DEF Next, Startup, SetRuntimeContext, Crash

\* A row becomes SUCCEEDED only in _finish of the worker whose handler returned
\* and whose lease is live: never under a worker that has reclaimed the row.
THEOREM SuccessSafe == Spec => SuccessIsTheClaimants
<1> DEFINE Mine == \A i \in TaskIds :
       tasks[i].status # "SUCCEEDED" /\ tasks'[i].status = "SUCCEEDED" =>
         \E w \in Workers :
           /\ held[w] = i /\ pc[w] = "succeeded"
           /\ \A v \in Workers \ {w} : ~(held[v] = i /\ OwnedBy(i, v))
<1>1. TypeInv /\ [Next]_vars => [Mine]_vars
  <2> SUFFICES ASSUME TypeInv, Next, NEW i \in TaskIds,
                      tasks[i].status # "SUCCEEDED", tasks'[i].status = "SUCCEEDED"
               PROVE  \E w \in Workers :
                        /\ held[w] = i /\ pc[w] = "succeeded"
                        /\ \A v \in Workers \ {w} : ~(held[v] = i /\ OwnedBy(i, v))
    OBVIOUS
  <2>1. PICK w \in Workers : Finish(w)
    BY WhatMovesARow DEF Quiet, NoSuccess
  <2>2. held[w] \in TaskIds
    BY <2>1 DEF Finish, TypeInv, BusyHolds
  <2>3. /\ Finishable(held[w], w) /\ i = held[w]
        /\ tasks'[i] = Closed(tasks[i], IF pc[w] = "succeeded" THEN "SUCCEEDED" ELSE "FAILED")
    BY <2>1, <2>2 DEF Finish, TypeInv, TypeOK
  <2>4. pc[w] = "succeeded"
    BY <2>3 DEF Closed
  <2>5. \A v \in Workers \ {w} : ~OwnedBy(i, v)
    BY <2>3 DEF Finishable, OwnedBy
  <2> QED
    BY <2>3, <2>4, <2>5
<1> QED
  BY <1>1, TypeInvInit, TypeInvNext, PTL DEF Spec, SuccessIsTheClaimants

\* create_or_get_unfinished never moves waiting work later, and it leaves the
\* backoff of a waiting reconciliation alone, however often the scanner asks.
THEOREM RearmSafe == Spec => RearmKeepsTime
<1> DEFINE Punctual == \A i \in TaskIds :
       tasks[i].status = "PENDING" /\ tasks'[i].status = "PENDING" =>
         /\ RecoverStaleTasks \/ tasks'[i].due <= tasks[i].due
         /\ Tick \/ tasks[i].type # "RECONCILE_ALARM_EVENT" \/ tasks'[i].due >= tasks[i].due
<1>1. TypeInv /\ [Next]_vars => [Punctual]_vars
  <2> SUFFICES ASSUME TypeInv, Next, NEW i \in TaskIds, Waits(i)
               PROVE  /\ RecoverStaleTasks \/ tasks'[i].due <= tasks[i].due
                      /\ \/ Tick
                         \/ tasks[i].type # "RECONCILE_ALARM_EVENT"
                         \/ tasks'[i].due >= tasks[i].due
    BY DEF Waits
  <2>1. tasks[i].due \in Int
    BY RowKinds DEF TypeInv, TypeOK, Waits, Live, Unfinished, LiveRow
  <2> QED
    BY <2>1, WhatMovesARow DEF Quiet, SameTime
<1> QED
  BY <1>1, TypeInvInit, TypeInvNext, PTL DEF Spec, RearmKeepsTime
=============================================================================
