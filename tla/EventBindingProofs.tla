------------------------- MODULE EventBindingProofs -------------------------
(***************************************************************************)
(* Safety of EventBinding for any number of cycles and rows, any number of *)
(* faults and crashes and either setting of the gate, and its              *)
(* implementation of BindingPromise.                                       *)
(*                                                                         *)
(* For each action X, XType or XStep says that it keeps the types and what *)
(* it does to the state the properties are about, and XInv that it keeps   *)
(* BindingInv.  The last part classifies the steps by what they do to the  *)
(* owners of rows: keep them, make a row, or take one.                     *)
(***************************************************************************)
EXTENDS EventBinding, WellFoundedInduction, TLAPS

-----------------------------------------------------------------------------
(* Type correctness, action by action.                                     *)

\* Sets of naturals have a least element.
LEMMA HasMin ==
  ASSUME NEW T, T \subseteq Nat, T # {}
  PROVE  \E m \in T : \A x \in T : m <= x
<1> DEFINE Less == {ss \in Nat \X Nat : ss[1] < ss[2]}
<1>1. IsWellFoundedOn(Less, Nat)
  BY NatLessThanWellFounded DEF OpToRel
<1>2. PICK b \in T : \A y \in T : ~(<<y, b>> \in Less)
  <2> HIDE DEF Less
  <2> QED BY <1>1, WFMin
<1>3. ASSUME NEW x \in T PROVE b <= x
  <2>1. ~(x < b) BY <1>2
  <2> QED BY <2>1
<1> QED BY <1>3

\* The handler works for a cycle that was opened and whose task is unfinished:
\* Finish alone gives the task back.
HandlerCarriesTask ==
    pc.at # "idle" => pc.e \in Cycles /\ task[pc.e] # "none" /\ cycle[pc.e].status # "NONE"

TypeInv == TypeOK /\ HandlerCarriesTask

LEMMA IdleType == Idle \in Handler /\ Idle.at = "idle"
  BY DEF Idle, Handler, Labels, CreateStates

LEMMA NoCycleType == NoCycle \in Cycle
  BY DEF NoCycle, Cycle, CreateStates

LEMMA BeginType ==
  ASSUME NEW e \in Cycles, NEW act \in {"CREATE", "UPDATE", "MARK"}, NEW then \in BOOLEAN, NEW inline \in BOOLEAN
  PROVE Begin(e, act, then, inline) \in Handler /\ Begin(e, act, then, inline).e = e
  BY DEF Begin, Idle, Handler, Labels, CreateStates

LEMMA GotoType ==
  ASSUME pc \in Handler, NEW l \in Labels, Goto(l)
  PROVE  /\ pc' \in Handler /\ pc'.at = l
         /\ pc'.e = pc.e /\ pc'.act = pc.act /\ pc'.row = pc.row /\ pc'.outcome = pc.outcome /\ pc'.inline = pc.inline
  BY DEF Goto, Handler

LEMMA GotoWithType ==
  ASSUME pc \in Handler, NEW l \in Labels, NEW r \in Rows \cup {NoRow}, GotoWith(l, r)
  PROVE  /\ pc' \in Handler /\ pc'.at = l
         /\ pc'.e = pc.e /\ pc'.act = pc.act /\ pc'.row = r /\ pc'.outcome = pc.outcome
  BY DEF GotoWith, Handler

LEMMA RaiseType ==
  ASSUME pc \in Handler, Raise
  PROVE  /\ pc' \in Handler /\ pc'.at = "finish"
         /\ pc'.e = pc.e
  BY DEF Raise, Handler, Labels

LEMMA ArmForSampleType ==
  ASSUME TypeOK, NEW e \in Cycles, ArmForSample(e)
  PROVE  /\ effects' \in [Cycles -> SUBSET {"recover", "sample", "scan"}]
         /\ task' \in [Cycles -> Origins]
         /\ task'[e] # "none"
         /\ \A f \in Cycles \ {e} : task'[f] = task[f]
  BY DEF TypeOK, ArmForSample, Origins

LEMMA OpenCycleType ==
  ASSUME TypeInv, NEW e \in Cycles, OpenCycle(e)
  PROVE  TypeInv'
<1>1. PICK gate \in Gates :
       /\ cycle' = [cycle EXCEPT ![e] =
                        [NoCycle EXCEPT !.status = "OPEN", !.pending = gate]]
        /\ IF gate
           THEN ArmForSample(e) /\ pc' = Begin(e, "CREATE", FALSE, TRUE)
           ELSE UNCHANGED <<task, effects, pc>>
  BY DEF OpenCycle
<1>2. cycle' \in [Cycles -> Cycle] /\ cycle'[e].status = "OPEN"
  BY <1>1, GatesAssumption DEF NoCycle, Cycle, CreateStates, TypeInv, TypeOK
<1>3. CASE gate = TRUE
  <2>1. ArmForSample(e) /\ pc' = Begin(e, "CREATE", FALSE, TRUE)
    BY <1>1, <1>3
  <2>2. pc' \in Handler /\ pc'.e = e
    BY <2>1, BeginType
  <2> QED
    BY <1>2, <2>1, <2>2, ArmForSampleType DEF OpenCycle, TypeInv, TypeOK, HandlerCarriesTask
<1>4. CASE gate = FALSE
  BY <1>1, <1>2, <1>4 DEF OpenCycle, TypeInv, TypeOK, HandlerCarriesTask
<1> QED
  BY <1>3, <1>4, GatesAssumption

LEMMA StillViolatingType ==
  ASSUME TypeInv, NEW e \in Cycles, StillViolating(e), cycle[e].status # "NONE"
  PROVE  TypeInv'
<1>1. pc' \in Handler /\ pc'.e = e
  BY BeginType DEF StillViolating
<1> QED
  BY <1>1, ArmForSampleType DEF StillViolating, TypeInv, TypeOK, HandlerCarriesTask

LEMMA RecoveredType ==
  ASSUME NEW c \in Cycle, NEW r \in BOOLEAN
  PROVE  /\ [c EXCEPT !.status = "CLOSED", !.recovery = r] \in Cycle
         /\ [c EXCEPT !.status = "CLOSED", !.recovery = r].status = "CLOSED"
  BY DEF Cycle

LEMMA RecoverCycleType ==
  ASSUME TypeInv, NEW e \in Cycles, RecoverCycle(e)
  PROVE  TypeInv'
<1>1. PICK gate \in Gates :
       /\ cycle' = [cycle EXCEPT ![e].status = "CLOSED", ![e].recovery = @ \/ gate]
       /\ IF gate
          THEN ArmForSample(e) /\ pc' = Begin(e, "MARK", FALSE, TRUE)
          ELSE UNCHANGED <<task, effects, pc>>
  BY DEF RecoverCycle
<1>2. cycle' \in [Cycles -> Cycle] /\ cycle'[e].status = "CLOSED"
  <2>1. (cycle[e].recovery \/ gate) \in BOOLEAN /\ cycle[e] \in Cycle
    BY GatesAssumption DEF Cycle, TypeInv, TypeOK
  <2> DEFINE c == [cycle[e] EXCEPT !.status = "CLOSED", !.recovery = @ \/ gate]
  <2>2. c = [cycle[e] EXCEPT !.status = "CLOSED", !.recovery = (cycle[e].recovery \/ gate)]
    BY <2>1, Zenon DEF Cycle
  <2>3. c \in Cycle /\ c.status = "CLOSED"
    BY <2>1, <2>2, RecoveredType
  <2> QED
    BY <1>1, <2>3, Zenon DEF TypeInv, TypeOK
<1>3. CASE gate = TRUE
  <2>1. ArmForSample(e) /\ pc' = Begin(e, "MARK", FALSE, TRUE)
    BY <1>1, <1>3
  <2>2. pc' \in Handler /\ pc'.e = e
    BY <2>1, BeginType
  <2> QED
    BY <1>2, <2>1, <2>2, ArmForSampleType DEF RecoverCycle, TypeInv, TypeOK, HandlerCarriesTask
<1>4. CASE gate = FALSE
  BY <1>1, <1>2, <1>4 DEF RecoverCycle, TypeInv, TypeOK, HandlerCarriesTask
<1> QED
  BY <1>3, <1>4, GatesAssumption

LEMMA ScanType ==
  ASSUME TypeInv, NEW e \in Cycles, Scan(e)
  PROVE  TypeInv'
  BY DEF Scan, TypeInv, TypeOK, HandlerCarriesTask, Origins

LEMMA ReconcileType ==
  ASSUME TypeInv, NEW e \in Cycles, Reconcile(e), cycle[e].status # "NONE"
  PROVE  TypeInv'
<1>1. CASE NothingToDo(e)
  BY <1>1 DEF Reconcile, TypeInv, TypeOK, HandlerCarriesTask, Origins
<1>2. CASE ~NothingToDo(e)
  <2>1. cycle[e] \in Cycle
    BY DEF TypeInv, TypeOK
  <2>2. PICK act \in {"CREATE", "UPDATE", "MARK"}, then \in BOOLEAN : pc' = Begin(e, act, then, FALSE)
    BY <1>2, <2>1 DEF Reconcile, Cycle
  <2>3. pc' \in Handler /\ pc'.e = e
    BY <2>2, BeginType
  <2>4. /\ task[e] # "none"
        /\ UNCHANGED <<cycle, effects, task, alarm, rows, wire, crashes, faults>>
    BY <1>2 DEF Reconcile
  <2> QED
    BY <2>3, <2>4, Zenon DEF TypeInv, TypeOK, HandlerCarriesTask
<1> QED
  BY <1>1, <1>2

LEMMA KeysType ==
  ASSUME TypeInv, pc.at # "idle"
  PROVE  Keys \subseteq {"recover", "sample", "scan"}
  BY DEF Keys, TypeInv, TypeOK, HandlerCarriesTask, Origins

\* One cycle's payload changes, the others stay as they are.
LEMMA OneCycleChanges ==
  ASSUME cycle \in [Cycles -> Cycle], NEW e \in Cycles, NEW c \in Cycle,
         cycle' = [cycle EXCEPT ![e] = c]
  PROVE  /\ cycle' \in [Cycles -> Cycle] /\ cycle'[e] = c
         /\ \A f \in Cycles \ {e} : cycle'[f] = cycle[f]
  OBVIOUS

\* A step that leaves of every cycle what the properties are about.
CyclesKept ==
    \A e \in Cycles : /\ cycle'[e].status = cycle[e].status
                      /\ cycle'[e].link = cycle[e].link
                      /\ cycle'[e].create = cycle[e].create
                      /\ cycle'[e].recovery = cycle[e].recovery
                      /\ cycle'[e].update = cycle[e].update
                      /\ cycle'[e].superseded = cycle[e].superseded

LEMMA LeaseKeeps ==
  ASSUME cycle \in [Cycles -> Cycle], NEW e \in Cycles, NEW b \in BOOLEAN,
         cycle' = [cycle EXCEPT ![e].lease = b]
  PROVE  cycle' \in [Cycles -> Cycle] /\ CyclesKept
<1> DEFINE c == [cycle[e] EXCEPT !.lease = b]
<1>1. cycle[e] \in Cycle
  OBVIOUS
<1>2. /\ c \in Cycle /\ c.status = cycle[e].status /\ c.link = cycle[e].link
      /\ c.create = cycle[e].create /\ c.recovery = cycle[e].recovery
      /\ c.update = cycle[e].update /\ c.superseded = cycle[e].superseded
  BY <1>1 DEF Cycle
<1>3. cycle' = [cycle EXCEPT ![e] = c]
  BY <1>1
<1> HIDE DEF c
<1> QED
  BY <1>2, <1>3, OneCycleChanges DEF CyclesKept

LEMMA ClaimCreateType ==
  ASSUME TypeInv, pc.at # "idle", ClaimCreate
  PROVE  /\ cycle' \in [Cycles -> Cycle] /\ CyclesKept
         /\ pc' \in Handler /\ pc'.e = pc.e /\ pc'.at \in {"lookup", "finish"}
<1>1. cycle \in [Cycles -> Cycle] /\ pc \in Handler /\ pc.e \in Cycles
  BY DEF TypeInv, TypeOK, HandlerCarriesTask
<1>2. CASE cycle[pc.e].lease
  BY <1>1, <1>2, RaiseType DEF ClaimCreate, CyclesKept
<1>3. CASE ~cycle[pc.e].lease
  <2>1. Goto("lookup") /\ cycle' = [cycle EXCEPT ![pc.e].lease = TRUE]
    BY <1>3 DEF ClaimCreate
  <2>2. "lookup" \in Labels
    BY DEF Labels
  <2> QED
    BY <1>1, <2>1, <2>2, LeaseKeeps, GotoType
<1> QED
  BY <1>2, <1>3

\* What a step of the writer has to show about its variables' types.
LEMMA WriterType ==
  ASSUME TypeInv, pc.at # "idle", pc' \in Handler, pc'.e = pc.e,
         cycle' \in [Cycles -> Cycle], cycle'[pc.e].status # "NONE",
         effects' \in [Cycles -> SUBSET {"recover", "sample", "scan"}],
         rows' \in [Rows -> Row], wire' \subseteq Cycles, faults' \in Nat,
         UNCHANGED <<task, alarm, crashes>>
  PROVE  TypeInv'
  BY DEF TypeInv, TypeOK, HandlerCarriesTask

\* The parts of the type invariant that a step of the writer needs.
LEMMA WriterHas ==
  ASSUME TypeInv, pc.at # "idle"
  PROVE  /\ pc \in Handler /\ pc.e \in Cycles /\ cycle \in [Cycles -> Cycle]
         /\ cycle[pc.e] \in Cycle /\ cycle[pc.e].status # "NONE"
         /\ effects \in [Cycles -> SUBSET {"recover", "sample", "scan"}]
         /\ rows \in [Rows -> Row] /\ wire \subseteq Cycles /\ faults \in Nat
         /\ Keys \subseteq {"recover", "sample", "scan"}
         /\ pc.outcome \in CreateStates /\ pc.row \in Rows \cup {NoRow}
<1>1. Keys \subseteq {"recover", "sample", "scan"}
  BY KeysType
<1>2. pc.outcome \in CreateStates /\ pc.row \in Rows \cup {NoRow}
  BY DEF TypeInv, TypeOK, Handler
<1> QED
  BY <1>1, <1>2 DEF TypeInv, TypeOK, HandlerCarriesTask

LEMMA BeginCreateStep ==
  ASSUME TypeInv, BeginCreate
  PROVE  /\ TypeInv' /\ CyclesKept
         /\ pc'.e = pc.e /\ pc'.at \in {"lookup", "finish"}
         /\ pc'.at = "lookup" => ~Bound(pc.e)
<1>1. pc.at # "idle" /\ UNCHANGED <<effects, task, alarm, rows, wire, crashes, faults>>
  BY DEF BeginCreate, At
<1>2. "finish" \in Labels
  BY DEF Labels
<1>3. CASE Bound(pc.e)
  <2>1. Goto("finish") /\ UNCHANGED cycle
    BY <1>3 DEF BeginCreate
  <2> QED
    BY <1>1, <1>2, <2>1, WriterHas, WriterType, GotoType DEF CyclesKept
<1>4. CASE ~Bound(pc.e)
  <2>1. ClaimCreate
    BY <1>4 DEF BeginCreate
  <2> QED
    BY <1>1, <1>4, <2>1, WriterHas, WriterType, ClaimCreateType DEF CyclesKept
<1> QED
  BY <1>3, <1>4

\* Bounded sets of naturals have a greatest element.
LEMMA BoundedHasMax ==
  ASSUME NEW n \in Nat, NEW S, S \subseteq 0..n, S # {}
  PROVE  \E m \in S : \A x \in S : x <= m
<1> DEFINE Below == {y \in Nat : n - y \in S}
<1>1. PICK z : z \in S
  OBVIOUS
<1>2. n - z \in Nat /\ n - (n - z) = z
  BY <1>1
<1>3. Below \subseteq Nat /\ Below # {}
  <2>1. n - z \in Below
    BY <1>1, <1>2
  <2> QED
    BY <2>1
<1>4. PICK b \in Below : \A y \in Below : b <= y
  <2> HIDE DEF Below
  <2> QED BY <1>3, HasMin
<1>5. ASSUME NEW x \in S PROVE x <= n - b
  <2>1. n - x \in Nat /\ n - (n - x) = x
    OBVIOUS
  <2>2. n - x \in Below
    BY <2>1
  <2>3. b <= n - x /\ b \in Nat /\ x \in Nat
    BY <1>4, <2>2
  <2> QED
    BY <2>3
<1>6. n - b \in S
  BY <1>4
<1> QED
  BY <1>5, <1>6

\* What CHOOSE returns for the exact business key.
LEMMA KeyedChosen ==
  ASSUME NEW e, Keyed(e) # {}
  PROVE  LET r == CHOOSE r \in Keyed(e) : TRUE IN r \in Rows /\ Used(r)
<1>1. (CHOOSE r \in Keyed(e) : TRUE) \in Keyed(e)
  BY Zenon
<1> QED
  BY <1>1 DEF Keyed, Visible, Used

\* The latest open row exists: the keys of the rows are bounded.
LEMMA LatestChosen ==
  ASSUME rows \in [Rows -> Row], Unresolved # {}
  PROVE  Latest \in Rows /\ Used(Latest)
<1> DEFINE S == {rows[r].key : r \in Unresolved}
<1>1. \A r \in Unresolved : r \in Rows /\ rows[r].state = "open" /\ rows[r].key \in 0..NCycles
  BY NCyclesAssumption DEF Unresolved, Row, Cycles
<1>2. S \subseteq 0..NCycles /\ S # {}
  BY <1>1
<1>3. PICK m \in S : \A x \in S : x <= m
  <2> HIDE DEF S
  <2> QED
    BY <1>2, BoundedHasMax, NCyclesAssumption
<1>4. PICK r \in Unresolved : m = rows[r].key
  BY <1>3
<1>5. \A q \in Unresolved : rows[q].key <= rows[r].key
  BY <1>3, <1>4
<1>6. Latest \in Unresolved
  <2> HIDE DEF S
  <2> QED
    BY <1>4, <1>5, Zenon DEF Latest
<1> QED
  BY <1>1, <1>6 DEF Used

LEMMA BeginEffectStep ==
  ASSUME TypeInv, BeginEffect
  PROVE  /\ TypeInv' /\ UNCHANGED <<cycle, rows, wire, alarm, task>>
         /\ pc'.e = pc.e /\ pc'.at \in {"finish", "resolve", "patch", "put"}
         /\ pc'.at = "resolve" => ~Bound(pc.e)
         /\ pc'.at \in {"patch", "put"} =>
              Bound(pc.e) /\ pc'.row = cycle[pc.e].link /\ ~cycle[pc.e].superseded
<1>1. pc.at # "idle" /\ UNCHANGED <<cycle, task, alarm, rows, wire, crashes, faults>>
  BY DEF BeginEffect, At
<1>2. {"finish", "resolve", "patch", "put"} \subseteq Labels
  BY DEF Labels
<1>3. CASE Uncertain
  <2>1. Raise /\ UNCHANGED effects
    BY <1>3 DEF BeginEffect
  <2> QED
    BY <1>1, <2>1, WriterHas, WriterType, RaiseType
<1>4. CASE ~Uncertain /\ Proven
  <2>1. Goto("finish") /\ UNCHANGED effects
    BY <1>4 DEF BeginEffect
  <2> QED
    BY <1>1, <1>2, <2>1, WriterHas, WriterType, GotoType
<1>5. CASE ~Uncertain /\ ~Proven /\ Detached
  <2>1. Goto("finish") /\ effects' = [effects EXCEPT ![pc.e] = @ \cup Keys]
    BY <1>5 DEF BeginEffect
  <2>2. effects' \in [Cycles -> SUBSET {"recover", "sample", "scan"}]
    BY <1>1, <2>1, WriterHas
  <2> QED
    BY <1>1, <1>2, <2>1, <2>2, WriterHas, WriterType, GotoType
<1>6. CASE ~Uncertain /\ ~Proven /\ ~Detached
  <2>1. UNCHANGED effects /\ ~cycle[pc.e].superseded
    BY <1>6 DEF BeginEffect, Detached
  <2>2. CASE ~Bound(pc.e)
    <3>1. Goto("resolve")
      BY <1>6, <2>2 DEF BeginEffect
    <3> QED
      BY <1>1, <1>2, <2>1, <2>2, <3>1, WriterHas, WriterType, GotoType
  <2>3. CASE Bound(pc.e)
    <3> DEFINE next == IF pc.act = "UPDATE" THEN "patch" ELSE "put"
    <3>1. GotoWith(next, cycle[pc.e].link)
      BY <1>6, <2>3 DEF BeginEffect
    <3>2. next \in {"patch", "put"} /\ cycle[pc.e].link \in Rows \cup {NoRow}
      BY <1>1, WriterHas DEF Cycle
    <3> HIDE DEF next
    <3> QED
      BY <1>1, <1>2, <2>1, <2>3, <3>1, <3>2, WriterHas, WriterType, GotoWithType
  <2> QED
    BY <2>2, <2>3
<1> QED
  BY <1>3, <1>4, <1>5, <1>6

LEMMA ResolveStep ==
  ASSUME TypeInv, Resolve
  PROVE  /\ TypeInv' /\ CyclesKept /\ UNCHANGED <<rows, wire, alarm, task>>
         /\ pc'.e = pc.e /\ pc'.at \in {"finish", "bind", "lookup"}
         /\ pc'.at = "bind" => pc'.row \in Rows /\ Used(pc'.row)
<1>1. pc.at # "idle" /\ UNCHANGED <<effects, task, alarm, rows, wire, crashes>>
  BY DEF Resolve, At
<1>2. faults' \in Nat
  BY <1>1, WriterHas DEF Resolve, Fault
<1>3. CASE Raise /\ UNCHANGED cycle
  BY <1>1, <1>2, <1>3, WriterHas, WriterType, RaiseType DEF CyclesKept
<1>4. CASE Keyed(pc.e) # {} /\ GotoWith("bind", CHOOSE r \in Keyed(pc.e) : TRUE)
           /\ UNCHANGED cycle
  <2> DEFINE chosen == CHOOSE r \in Keyed(pc.e) : TRUE
  <2>1. chosen \in Rows /\ Used(chosen)
    BY <1>4, KeyedChosen
  <2>2. GotoWith("bind", chosen) /\ "bind" \in Labels
    BY <1>4 DEF Labels
  <2> HIDE DEF chosen
  <2> QED
    BY <1>1, <1>2, <1>4, <2>1, <2>2, WriterHas, WriterType, GotoWithType DEF CyclesKept
<1>5. CASE ClaimCreate
  BY <1>1, <1>2, <1>5, WriterHas, WriterType, ClaimCreateType DEF CyclesKept
<1> QED
  BY <1>3, <1>4, <1>5 DEF Resolve

LEMMA LookupStep ==
  ASSUME TypeInv, Lookup
  PROVE  /\ TypeInv' /\ UNCHANGED <<cycle, rows, wire, alarm, task>>
         /\ pc'.e = pc.e /\ pc'.at \in {"finish", "bind", "reserve", "reuse"}
         /\ pc'.at \in {"bind", "reuse"} => pc'.row \in Rows /\ Used(pc'.row)
<1>1. pc.at # "idle" /\ UNCHANGED <<cycle, effects, task, alarm, rows, wire, crashes>>
  BY DEF Lookup, At
<1>2. faults' \in Nat
  BY <1>1, WriterHas DEF Lookup, Fault
<1>3. CASE Raise
  BY <1>1, <1>2, <1>3, WriterHas, WriterType, RaiseType
<1>4. CASE Goto("reserve")
  <2>1. "reserve" \in Labels
    BY DEF Labels
  <2> QED
    BY <1>1, <1>2, <1>4, <2>1, WriterHas, WriterType, GotoType
<1>5. CASE Keyed(pc.e) # {} /\ GotoWith("bind", CHOOSE r \in Keyed(pc.e) : TRUE)
  <2> DEFINE chosen == CHOOSE r \in Keyed(pc.e) : TRUE
  <2>1. chosen \in Rows /\ Used(chosen)
    BY <1>5, KeyedChosen
  <2>2. GotoWith("bind", chosen) /\ "bind" \in Labels
    BY <1>5 DEF Labels
  <2> HIDE DEF chosen
  <2> QED
    BY <1>1, <1>2, <2>1, <2>2, WriterHas, WriterType, GotoWithType
<1>6. CASE Unresolved # {} /\ GotoWith("reuse", Latest)
  <2>1. Latest \in Rows /\ Used(Latest)
    BY <1>1, <1>6, LatestChosen, WriterHas
  <2>2. "reuse" \in Labels
    BY DEF Labels
  <2> QED
    BY <1>1, <1>2, <1>6, <2>1, <2>2, WriterHas, WriterType, GotoWithType
<1> QED
  BY <1>3, <1>4, <1>5, <1>6 DEF Lookup

\* A step that leaves every row its key and what makes it a row.
RowsKept ==
    \A r \in Rows : /\ rows'[r].key = rows[r].key
                    /\ (rows'[r].state = "absent") <=> (rows[r].state = "absent")

LEMMA OneRowRecovers ==
  ASSUME rows \in [Rows -> Row], NEW e \in Cycles \cup {0}, NEW r,
         rows' \in {rows, [rows EXCEPT ![r].recovered = e]}
  PROVE  /\ rows' \in [Rows -> Row] /\ RowsKept
         /\ \A s \in Rows : rows'[s].recovered # rows[s].recovered
                               => s = r /\ rows'[s].recovered = e
<1>1. CASE rows' = rows
  BY <1>1 DEF RowsKept
<1>2. CASE rows' = [rows EXCEPT ![r].recovered = e] /\ r \in Rows
  <2> DEFINE row == [rows[r] EXCEPT !.recovered = e]
  <2>1. rows[r] \in Row
    BY <1>2
  <2>2. row \in Row /\ row.key = rows[r].key /\ row.state = rows[r].state /\ row.recovered = e
    BY <2>1 DEF Row
  <2>3. rows' = [rows EXCEPT ![r] = row]
    BY <1>2
  <2> HIDE DEF row
  <2> QED
    BY <1>2, <2>2, <2>3 DEF RowsKept
<1>3. CASE rows' = [rows EXCEPT ![r].recovered = e] /\ r \notin Rows
  BY <1>3 DEF RowsKept
<1> QED
  BY <1>1, <1>2, <1>3

LEMMA ReuseStep ==
  ASSUME TypeInv, Reuse
  PROVE  /\ TypeInv' /\ UNCHANGED <<cycle, wire, alarm, task>> /\ RowsKept
         /\ \A r \in Rows : rows'[r].recovered # rows[r].recovered => rows'[r].recovered = 0
         /\ pc'.e = pc.e /\ pc'.at \in {"finish", "bind"} /\ (pc'.at = "bind" => pc'.row = pc.row)
<1>1. pc.at # "idle" /\ UNCHANGED <<cycle, effects, task, alarm, wire, crashes>>
  BY DEF Reuse, At
<1>2. faults' \in Nat /\ rows' \in {rows, [rows EXCEPT ![pc.row].recovered = 0]}
  BY <1>1, WriterHas DEF Reuse, Fault
<1>3. /\ rows' \in [Rows -> Row] /\ RowsKept
      /\ \A r \in Rows : rows'[r].recovered # rows[r].recovered => rows'[r].recovered = 0
  BY <1>1, <1>2, OneRowRecovers, WriterHas
<1>4. CASE Goto("bind")
  <2>1. "bind" \in Labels
    BY DEF Labels
  <2> QED
    BY <1>1, <1>2, <1>3, <1>4, <2>1, WriterHas, WriterType, GotoType
<1>5. CASE Raise
  BY <1>1, <1>2, <1>3, <1>5, WriterHas, WriterType, RaiseType
<1> QED
  BY <1>4, <1>5 DEF Reuse

LEMMA ReserveStep ==
  ASSUME TypeInv, Reserve
  PROVE  /\ TypeInv' /\ UNCHANGED <<rows, wire, alarm, task>> /\ pc'.e = pc.e
         /\ \/ pc'.at = "finish" /\ UNCHANGED cycle
            \/ /\ pc'.at = "post" /\ MayPost(pc.e)
               /\ cycle' = [cycle EXCEPT ![pc.e] = [@ EXCEPT !.create = "IN_FLIGHT"]]
<1>1. pc.at # "idle" /\ UNCHANGED <<effects, task, alarm, rows, wire, crashes, faults>>
  BY DEF Reserve, At
<1>2. CASE ~MayPost(pc.e)
  <2>1. Raise /\ UNCHANGED cycle
    BY <1>2 DEF Reserve
  <2> QED
    BY <1>1, <2>1, WriterHas, WriterType, RaiseType
<1>3. CASE MayPost(pc.e)
  <2> DEFINE c == [cycle[pc.e] EXCEPT !.create = "IN_FLIGHT"]
  <2>1. Goto("post") /\ cycle' = [cycle EXCEPT ![pc.e] = c] /\ "post" \in Labels
    BY <1>3 DEF Reserve, Labels
  <2>2. c \in Cycle /\ c.status = cycle[pc.e].status
    BY <1>1, WriterHas DEF Cycle, CreateStates
  <2>3. cycle' = [cycle EXCEPT ![pc.e] = [@ EXCEPT !.create = "IN_FLIGHT"]]
    BY <2>1
  <2>4. cycle' \in [Cycles -> Cycle] /\ cycle'[pc.e].status # "NONE"
    <3> HIDE DEF c
    <3> QED
      BY <1>1, <2>1, <2>2, WriterHas, OneCycleChanges
  <2> QED
    BY <1>1, <1>3, <2>1, <2>3, <2>4, WriterHas, WriterType, GotoType
<1> QED
  BY <1>2, <1>3

\* The server stores a row that was absent and leaves the others alone.
LEMMA StoredRow ==
  ASSUME rows \in [Rows -> Row], NEW e \in Cycles, NEW r \in Rows, Stored(e, r)
  PROVE  /\ rows' \in [Rows -> Row]
         /\ ~Used(r) /\ rows'[r].state = "open" /\ rows'[r].key = e /\ rows'[r].recovered = 0
         /\ \A s \in Rows \ {r} : rows'[s] = rows[s]
  BY DEF Stored, Absent, Used, Row

LEMMA PostedStep ==
  ASSUME TypeInv, Posted
  PROVE  /\ TypeInv' /\ UNCHANGED <<cycle, wire, alarm, task>>
         /\ pc'.e = pc.e /\ pc'.at = "bind" /\ pc'.row \in Rows /\ Stored(pc.e, pc'.row)
<1>1. pc.at # "idle" /\ UNCHANGED <<cycle, effects, task, alarm, wire, crashes, faults>>
  BY DEF Posted, At
<1>2. PICK r \in Rows : Stored(pc.e, r) /\ GotoWith("bind", r)
  BY DEF Posted
<1>3. "bind" \in Labels
  BY DEF Labels
<1>4. rows' \in [Rows -> Row]
  BY <1>1, <1>2, StoredRow, WriterHas
<1>5. pc' \in Handler /\ pc'.at = "bind" /\ pc'.row = r /\ pc'.e = pc.e
  BY <1>1, <1>2, <1>3, GotoWithType, WriterHas
<1> QED
  BY <1>1, <1>2, <1>4, <1>5, WriterHas, WriterType

LEMMA PostFailsStep ==
  ASSUME TypeInv, PostFails
  PROVE  /\ TypeInv' /\ UNCHANGED <<cycle, alarm, task>>
         /\ pc'.e = pc.e /\ pc'.at = "again"
         /\ \/ UNCHANGED <<rows, wire>>
            \/ /\ pc'.outcome = "UNKNOWN" /\ UNCHANGED wire
               /\ \E r \in Rows : Stored(pc.e, r)
            \/ pc'.outcome = "UNKNOWN" /\ UNCHANGED rows /\ wire' = wire \cup {pc.e}
<1>1. pc.at # "idle" /\ UNCHANGED <<cycle, effects, task, alarm, crashes>>
  BY DEF PostFails, At
<1>2. PICK outcome \in Outcomes :
        /\ pc' = [pc EXCEPT !.at = "again", !.outcome = outcome]
        /\ \/ UNCHANGED <<rows, wire>>
           \/ /\ outcome = "UNKNOWN"
              /\ \E r \in Rows : Stored(pc.e, r)
              /\ UNCHANGED wire
           \/ /\ outcome = "UNKNOWN"
              /\ wire' = wire \cup {pc.e}
              /\ UNCHANGED rows
  BY DEF PostFails
<1>3. faults' \in Nat
  BY <1>1, WriterHas DEF PostFails, Fault
<1>4. pc' \in Handler /\ pc'.at = "again" /\ pc'.e = pc.e /\ pc'.outcome = outcome
  BY <1>1, <1>2, WriterHas DEF Handler, Labels, CreateStates, Outcomes
<1>5. rows' \in [Rows -> Row] /\ wire' \subseteq Cycles
  BY <1>1, <1>2, StoredRow, WriterHas
<1>6. TypeInv'
  BY <1>1, <1>3, <1>4, <1>5, WriterHas, WriterType
<1> QED
  BY <1>1, <1>2, <1>4, <1>6

LEMMA LookupAgainStep ==
  ASSUME TypeInv, LookupAgain
  PROVE  /\ TypeInv' /\ UNCHANGED <<cycle, rows, wire, alarm, task>>
         /\ pc'.e = pc.e /\ pc'.at \in {"finish", "bind", "outcome"}
         /\ pc'.at = "bind" => pc'.row \in Rows /\ Used(pc'.row)
         /\ pc'.at = "outcome" => pc'.outcome = pc.outcome
<1>1. pc.at # "idle" /\ UNCHANGED <<cycle, effects, task, alarm, rows, wire, crashes>>
  BY DEF LookupAgain, At
<1>2. faults' \in Nat
  BY <1>1, WriterHas DEF LookupAgain, Fault
<1>3. CASE Raise
  BY <1>1, <1>2, <1>3, WriterHas, WriterType, RaiseType
<1>4. CASE Goto("outcome")
  <2>1. "outcome" \in Labels
    BY DEF Labels
  <2> QED
    BY <1>1, <1>2, <1>4, <2>1, WriterHas, WriterType, GotoType
<1>5. CASE Keyed(pc.e) # {} /\ GotoWith("bind", CHOOSE r \in Keyed(pc.e) : TRUE)
  <2> DEFINE chosen == CHOOSE r \in Keyed(pc.e) : TRUE
  <2>1. chosen \in Rows /\ Used(chosen)
    BY <1>5, KeyedChosen
  <2>2. GotoWith("bind", chosen) /\ "bind" \in Labels
    BY <1>5 DEF Labels
  <2> HIDE DEF chosen
  <2> QED
    BY <1>1, <1>2, <2>1, <2>2, WriterHas, WriterType, GotoWithType
<1> QED
  BY <1>3, <1>4, <1>5 DEF LookupAgain

LEMMA RecordOutcomeStep ==
  ASSUME TypeInv, RecordOutcome
  PROVE  /\ TypeInv' /\ UNCHANGED <<rows, wire, alarm, task>>
         /\ pc'.e = pc.e /\ pc'.at = "finish"
         /\ cycle' = [cycle EXCEPT ![pc.e] = [@ EXCEPT !.create = pc.outcome, !.lease = FALSE]]
<1> DEFINE c == [cycle[pc.e] EXCEPT !.create = pc.outcome, !.lease = FALSE]
<1>1. pc.at # "idle" /\ Raise /\ UNCHANGED <<effects, task, alarm, rows, wire, crashes, faults>>
  BY DEF RecordOutcome, At
<1>2. cycle' = [cycle EXCEPT ![pc.e] = [@ EXCEPT !.create = pc.outcome, !.lease = FALSE]]
  BY <1>1, WriterHas DEF RecordOutcome
<1>3. cycle' = [cycle EXCEPT ![pc.e] = c]
  BY <1>2
<1>4. c \in Cycle /\ c.status = cycle[pc.e].status
  BY <1>1, WriterHas DEF Cycle
<1>5. cycle' \in [Cycles -> Cycle] /\ cycle'[pc.e].status # "NONE"
  <2> HIDE DEF c
  <2> QED
    BY <1>1, <1>3, <1>4, WriterHas, OneCycleChanges
<1> QED
  BY <1>1, <1>2, <1>5, WriterHas, WriterType, RaiseType

\* What binding a cycle to a row makes of every cycle.
BoundTo(e, r, c) ==
    IF c = e
    THEN [cycle[e] EXCEPT !.link = r, !.create = "SUCCEEDED", !.pending = FALSE,
            !.lease = FALSE, !.recovery = (cycle[e].recovery \/ cycle[e].status = "CLOSED")]
    ELSE IF c \in Others(e, r)
    THEN [cycle[c] EXCEPT !.superseded = TRUE, !.recovery = FALSE, !.update = FALSE]
    ELSE cycle[c]

LEMMA BoundToType ==
  ASSUME cycle \in [Cycles -> Cycle], NEW e \in Cycles, NEW r \in Rows \cup {NoRow},
         NEW c \in Cycles
  PROVE  /\ BoundTo(e, r, c) \in Cycle
         /\ BoundTo(e, r, c).status = cycle[c].status
         /\ c = e => /\ BoundTo(e, r, c).link = r
                     /\ BoundTo(e, r, c).create = "SUCCEEDED"
                     /\ BoundTo(e, r, c).superseded = cycle[c].superseded
                     /\ BoundTo(e, r, c).update = cycle[c].update
         /\ c # e => /\ BoundTo(e, r, c).link = cycle[c].link
                     /\ BoundTo(e, r, c).create = cycle[c].create
         /\ c # e /\ cycle[c].link = r =>
               /\ BoundTo(e, r, c).superseded
               /\ ~BoundTo(e, r, c).recovery
               /\ ~BoundTo(e, r, c).update
         /\ c # e /\ cycle[c].link # r => BoundTo(e, r, c) = cycle[c]
<1>1. cycle[c] \in Cycle /\ (cycle[e].recovery \/ cycle[e].status = "CLOSED") \in BOOLEAN
  OBVIOUS
<1>2. CASE c = e
  <2> DEFINE b == cycle[e].recovery \/ cycle[e].status = "CLOSED"
  <2>1. b \in BOOLEAN
    BY <1>1
  <2>2. BoundTo(e, r, c) = [cycle[c] EXCEPT !.link = r, !.create = "SUCCEEDED",
                              !.pending = FALSE, !.lease = FALSE, !.recovery = b]
    BY <1>2 DEF BoundTo
  <2> HIDE DEF b
  <2> QED
    BY <1>1, <1>2, <2>1, <2>2 DEF Cycle, CreateStates
<1>3. CASE c # e /\ cycle[c].link = r
  <2>1. BoundTo(e, r, c) = [cycle[c] EXCEPT !.superseded = TRUE, !.recovery = FALSE, !.update = FALSE]
    BY <1>3 DEF BoundTo, Others
  <2> QED
    BY <1>1, <1>3, <2>1 DEF Cycle
<1>4. CASE c # e /\ cycle[c].link # r
  BY <1>1, <1>4 DEF BoundTo, Others
<1> QED
  BY <1>2, <1>3, <1>4

LEMMA BoundToStatus ==
  ASSUME cycle \in [Cycles -> Cycle], NEW e \in Cycles, NEW r \in Rows \cup {NoRow},
         NEW c \in Cycles
  PROVE  BoundTo(e, r, c) \in Cycle /\ BoundTo(e, r, c).status = cycle[c].status
  BY BoundToType

LEMMA BindStep ==
  ASSUME TypeInv, Bind
  PROVE  /\ TypeInv' /\ UNCHANGED <<rows, wire, alarm, task>> /\ pc'.e = pc.e /\ pc'.row = pc.row
         /\ \/ pc'.at = "finish" /\ UNCHANGED cycle
            \/ /\ pc'.at \in {"finish", "patch", "put"}
               /\ \A f \in Others(pc.e, pc.row) : cycle[f].status = "CLOSED" /\ f < pc.e
               /\ cycle' = [f \in Cycles |-> BoundTo(pc.e, pc.row, f)]
<1>1. pc.at # "idle" /\ UNCHANGED <<effects, task, alarm, rows, wire, crashes, faults>>
  BY DEF Bind, At
<1>2. CASE Raise /\ UNCHANGED cycle
  <2>1. pc'.row = pc.row
    BY <1>1, <1>2, WriterHas DEF Raise, Handler
  <2> QED
    BY <1>1, <1>2, <2>1, WriterHas, WriterType, RaiseType
<1> DEFINE next == CASE pc.act = "CREATE" -> "finish"
                     [] pc.act = "UPDATE" -> "patch"
                     [] pc.act = "MARK" -> "put"
<1>3. CASE /\ \A f \in Others(pc.e, pc.row) : MayTakeOver(pc.e, f)
           /\ cycle' = [f \in Cycles |-> BoundTo(pc.e, pc.row, f)]
           /\ Goto(next)
  <2>1. next \in {"finish", "patch", "put"} /\ {"finish", "patch", "put"} \subseteq Labels
    BY <1>1, WriterHas DEF Handler, Labels
  <2>2. cycle' \in [Cycles -> Cycle] /\ cycle'[pc.e].status # "NONE"
    <3>1. /\ cycle \in [Cycles -> Cycle] /\ pc.e \in Cycles /\ cycle[pc.e].status # "NONE"
          /\ pc.row \in Rows \cup {NoRow}
      BY <1>1, WriterHas
    <3>2. ASSUME NEW f \in Cycles
          PROVE  /\ BoundTo(pc.e, pc.row, f) \in Cycle
                 /\ BoundTo(pc.e, pc.row, f).status = cycle[f].status
      BY <3>1, BoundToStatus
    <3>3. cycle' = [f \in Cycles |-> BoundTo(pc.e, pc.row, f)]
      BY <1>3
    <3>4. /\ cycle' \in [Cycles -> Cycle]
          /\ cycle'[pc.e] = BoundTo(pc.e, pc.row, pc.e)
      BY <3>1, <3>2, <3>3, Zenon
    <3> QED
      BY <3>1, <3>2, <3>4, Zenon
  <2> HIDE DEF next
  <2>3. pc' \in Handler /\ pc'.at = next /\ pc'.e = pc.e /\ pc'.row = pc.row
    BY <1>1, <1>3, <2>1, WriterHas, GotoType
  <2> QED
    BY <1>1, <1>3, <2>1, <2>2, <2>3, WriterHas, WriterType DEF MayTakeOver
<1>4. (Raise /\ UNCHANGED cycle) \/
      (/\ \A f \in Others(pc.e, pc.row) : MayTakeOver(pc.e, f)
       /\ cycle' = [f \in Cycles |-> BoundTo(pc.e, pc.row, f)]
       /\ Goto(next))
  BY DEF Bind, BoundTo
<1> QED
  BY <1>2, <1>3, <1>4

LEMMA PatchStep ==
  ASSUME TypeInv, Patch
  PROVE  /\ TypeInv' /\ UNCHANGED <<rows, wire, alarm, task>>
         /\ pc'.e = pc.e /\ pc'.at = "put" /\ pc'.row = pc.row
         /\ cycle' = [cycle EXCEPT ![pc.e] = [@ EXCEPT !.update = TRUE]]
<1> DEFINE c == [cycle[pc.e] EXCEPT !.update = TRUE]
<1>1. pc.at # "idle" /\ Goto("put") /\ "put" \in Labels
      /\ UNCHANGED <<task, alarm, rows, wire, crashes, faults>>
  BY DEF Patch, At, Labels
<1>2. cycle' = [cycle EXCEPT ![pc.e] = [@ EXCEPT !.update = TRUE]]
  BY <1>1, WriterHas DEF Patch
<1>3. cycle' = [cycle EXCEPT ![pc.e] = c]
  BY <1>2
<1>4. c \in Cycle /\ c.status = cycle[pc.e].status
  BY <1>1, WriterHas DEF Cycle
<1>5. effects' \in [Cycles -> SUBSET {"recover", "sample", "scan"}]
  BY <1>1, WriterHas DEF Patch
<1>6. cycle' \in [Cycles -> Cycle] /\ cycle'[pc.e].status # "NONE"
  <2> HIDE DEF c
  <2> QED
    BY <1>1, <1>3, <1>4, WriterHas, OneCycleChanges
<1> QED
  BY <1>1, <1>2, <1>5, <1>6, WriterHas, WriterType, GotoType

LEMMA PutStep ==
  ASSUME TypeInv, Put
  PROVE  /\ TypeInv' /\ UNCHANGED <<cycle, wire, alarm, task>> /\ RowsKept
         /\ \A r \in Rows : rows'[r].recovered # rows[r].recovered
                               => r = pc.row /\ rows'[r].recovered = pc.e
         /\ pc'.e = pc.e /\ pc'.at \in {"finish", "prove", "missing"}
<1>1. pc.at # "idle" /\ UNCHANGED <<cycle, effects, task, alarm, wire, crashes>>
  BY DEF Put, At
<1>2. faults' \in Nat /\ rows' \in {rows, [rows EXCEPT ![pc.row].recovered = pc.e]}
  BY <1>1, WriterHas DEF Put, Fault
<1>3. /\ rows' \in [Rows -> Row] /\ RowsKept
      /\ \A r \in Rows : rows'[r].recovered # rows[r].recovered
                               => r = pc.row /\ rows'[r].recovered = pc.e
  BY <1>1, <1>2, OneRowRecovers, WriterHas
<1>4. CASE Goto("prove") \/ Goto("missing")
  <2>1. {"prove", "missing"} \subseteq Labels
    BY DEF Labels
  <2> QED
    BY <1>1, <1>2, <1>3, <1>4, <2>1, WriterHas, WriterType, GotoType
<1>5. CASE Raise
  BY <1>1, <1>2, <1>3, <1>5, WriterHas, WriterType, RaiseType
<1> QED
  BY <1>4, <1>5 DEF Put

LEMMA MarkMissingStep ==
  ASSUME TypeInv, MarkMissing
  PROVE  /\ TypeInv' /\ UNCHANGED <<rows, wire, alarm, task>>
         /\ pc'.e = pc.e /\ pc'.at = "finish"
         /\ cycle' = [cycle EXCEPT ![pc.e] =
               [@ EXCEPT !.status = "CLOSED", !.missing = TRUE, !.pending = FALSE,
                         !.recovery = FALSE, !.update = FALSE]]
<1> DEFINE c == [cycle[pc.e] EXCEPT !.status = "CLOSED", !.missing = TRUE, !.pending = FALSE,
                         !.recovery = FALSE, !.update = FALSE]
<1>1. pc.at # "idle" /\ Goto("finish") /\ "finish" \in Labels
      /\ UNCHANGED <<task, alarm, rows, wire, crashes, faults>>
  BY DEF MarkMissing, At, Labels
<1>2. cycle' = [cycle EXCEPT ![pc.e] =
               [@ EXCEPT !.status = "CLOSED", !.missing = TRUE, !.pending = FALSE,
                         !.recovery = FALSE, !.update = FALSE]]
  BY <1>1, WriterHas DEF MarkMissing
<1>3. cycle' = [cycle EXCEPT ![pc.e] = c]
  BY <1>2
<1>4. c \in Cycle /\ c.status = "CLOSED"
  BY <1>1, WriterHas DEF Cycle
<1>5. effects' \in [Cycles -> SUBSET {"recover", "sample", "scan"}]
  BY <1>1, WriterHas DEF MarkMissing
<1>6. cycle' \in [Cycles -> Cycle] /\ cycle'[pc.e].status # "NONE"
  <2> HIDE DEF c
  <2> QED
    BY <1>1, <1>3, <1>4, WriterHas, OneCycleChanges
<1> QED
  BY <1>1, <1>2, <1>5, <1>6, WriterHas, WriterType, GotoType

LEMMA ProveStep ==
  ASSUME TypeInv, Prove
  PROVE  /\ TypeInv' /\ UNCHANGED <<cycle, rows, wire, alarm, task>>
         /\ pc'.e = pc.e /\ pc'.at = "clear"
<1>1. pc.at # "idle" /\ Goto("clear") /\ "clear" \in Labels
      /\ UNCHANGED <<cycle, task, alarm, rows, wire, crashes, faults>>
  BY DEF Prove, At, Labels
<1>2. effects' \in [Cycles -> SUBSET {"recover", "sample", "scan"}]
  BY <1>1, WriterHas DEF Prove
<1> QED
  BY <1>1, <1>2, WriterHas, WriterType, GotoType

LEMMA ClearStep ==
  ASSUME TypeInv, Clear
  PROVE  /\ TypeInv' /\ UNCHANGED <<rows, wire, alarm, task>>
         /\ pc'.e = pc.e /\ pc'.at = "finish"
         /\ \/ cycle' = [cycle EXCEPT ![pc.e] = [@ EXCEPT !.recovery = FALSE]]
            \/ cycle' = [cycle EXCEPT ![pc.e] = [@ EXCEPT !.update = FALSE]]
<1> DEFINE cr == [cycle[pc.e] EXCEPT !.recovery = FALSE]
           cu == [cycle[pc.e] EXCEPT !.update = FALSE]
<1>1. pc.at # "idle" /\ Goto("finish") /\ "finish" \in Labels
      /\ UNCHANGED <<effects, task, alarm, rows, wire, crashes, faults>>
  BY DEF Clear, At, Labels
<1>2. \/ cycle' = [cycle EXCEPT ![pc.e] = [@ EXCEPT !.recovery = FALSE]]
      \/ cycle' = [cycle EXCEPT ![pc.e] = [@ EXCEPT !.update = FALSE]]
  BY <1>1, WriterHas DEF Clear
<1>3. cycle' = [cycle EXCEPT ![pc.e] = cr] \/ cycle' = [cycle EXCEPT ![pc.e] = cu]
  BY <1>2
<1>4. /\ cr \in Cycle /\ cr.status = cycle[pc.e].status
      /\ cu \in Cycle /\ cu.status = cycle[pc.e].status
  BY <1>1, WriterHas DEF Cycle
<1>5. cycle' \in [Cycles -> Cycle] /\ cycle'[pc.e].status # "NONE"
  <2> HIDE DEF cr, cu
  <2> QED
    BY <1>1, <1>3, <1>4, WriterHas, OneCycleChanges
<1> QED
  BY <1>1, <1>2, <1>5, WriterHas, WriterType, GotoType

LEMMA FinishStep ==
  ASSUME TypeInv, Finish
  PROVE  /\ TypeInv' /\ UNCHANGED <<cycle, rows, wire, alarm>>
         /\ \A f \in Cycles : task[f] = "none" => task'[f] = "none"
         /\ pc'.at = "idle" \/ (pc'.at = "begin" /\ pc'.e = pc.e)
<1>1. pc.at # "idle" /\ UNCHANGED <<cycle, effects, alarm, rows, wire, crashes, faults>>
  BY DEF Finish, At
<1>2. CASE pc.then
  <2> DEFINE b == Begin(pc.e, "MARK", FALSE, pc.inline)
  <2>1. pc' = [b EXCEPT !.ok = pc.ok] /\ UNCHANGED task
    BY <1>2 DEF Finish
  <2>2. pc.ok \in BOOLEAN /\ pc.inline \in BOOLEAN
    BY <1>1, WriterHas DEF Handler
  <2>3. b \in Handler /\ b.e = pc.e /\ b.at = "begin"
    BY <1>1, <2>2, BeginType, WriterHas DEF Begin, Idle
  <2>4. pc' \in Handler /\ pc'.e = pc.e /\ pc'.at = "begin"
    <3> HIDE DEF b
    <3> QED
      BY <2>1, <2>2, <2>3 DEF Handler
  <2> QED
    BY <1>1, <2>1, <2>4, WriterHas, WriterType
<1>3. CASE ~pc.then
  <2>1. pc' = Idle /\ task' = [task EXCEPT ![pc.e] = IF pc.ok THEN "none" ELSE @]
    BY <1>3 DEF Finish
  <2>2. task' \in [Cycles -> Origins]
    BY <2>1 DEF TypeInv, TypeOK, Origins
  <2>3. \A f \in Cycles : task[f] = "none" => task'[f] = "none"
    BY <2>1 DEF TypeInv, TypeOK
  <2>4. pc' \in Handler /\ pc'.at = "idle"
    BY <2>1, IdleType
  <2> QED
    BY <1>1, <2>2, <2>3, <2>4 DEF TypeInv, TypeOK, HandlerCarriesTask
<1> QED
  BY <1>2, <1>3

LEMMA LeaseExpiresStep ==
  ASSUME TypeInv, NEW e \in Cycles, LeaseExpires(e)
  PROVE  TypeInv' /\ CyclesKept /\ UNCHANGED <<rows, wire, alarm, task, pc>>
<1>1. cycle' \in [Cycles -> Cycle] /\ CyclesKept
  BY LeaseKeeps DEF LeaseExpires, TypeInv, TypeOK
<1> QED
  BY <1>1 DEF LeaseExpires, TypeInv, TypeOK, HandlerCarriesTask, CyclesKept

LEMMA LandsStep ==
  ASSUME TypeInv, NEW e \in Cycles, Lands(e)
  PROVE  /\ TypeInv' /\ UNCHANGED <<cycle, alarm, task, pc>>
         /\ e \in wire /\ wire' = wire \ {e}
         /\ \E r \in Rows : Stored(e, r)
<1>1. rows' \in [Rows -> Row]
  BY StoredRow DEF Lands, TypeInv, TypeOK
<1> QED
  BY <1>1 DEF Lands, TypeInv, TypeOK, HandlerCarriesTask

LEMMA PersonEditsStep ==
  ASSUME TypeInv, NEW r \in Rows, PersonEdits(r)
  PROVE  /\ TypeInv' /\ UNCHANGED <<cycle, wire, alarm, task, pc>> /\ RowsKept
         /\ \A s \in Rows : rows'[s].recovered = rows[s].recovered
<1>1. rows \in [Rows -> Row] /\ rows[r] \in Row
  BY DEF TypeInv, TypeOK
<1>2. /\ rows[r].state # "absent"
      /\ \E st \in {"resolved", "open", "deleted"} : rows' = [rows EXCEPT ![r].state = st]
  BY DEF PersonEdits, Visible
<1>3. PICK st \in {"resolved", "open", "deleted"} : rows' = [rows EXCEPT ![r].state = st]
  BY <1>2
<1> DEFINE row == [rows[r] EXCEPT !.state = st]
<1>4. /\ row \in Row /\ row.key = rows[r].key /\ row.state # "absent"
      /\ row.recovered = rows[r].recovered
  BY <1>1 DEF Row
<1>5. rows' = [rows EXCEPT ![r] = row]
  BY <1>1, <1>3
<1>6. /\ rows' \in [Rows -> Row] /\ RowsKept
      /\ \A s \in Rows : rows'[s].recovered = rows[s].recovered
  <2> HIDE DEF row
  <2> QED
    BY <1>1, <1>2, <1>4, <1>5 DEF RowsKept
<1> QED
  BY <1>6 DEF PersonEdits, TypeInv, TypeOK, HandlerCarriesTask

LEMMA CrashStep ==
  ASSUME TypeInv, Crash
  PROVE  TypeInv' /\ UNCHANGED <<cycle, rows, wire, alarm, task>> /\ pc'.at = "idle"
  BY IdleType DEF Crash, TypeInv, TypeOK, HandlerCarriesTask

-----------------------------------------------------------------------------
(* The inductive invariant.                                                *)

\* Cycles open one after the other, and one that never opened has no payload.
OpenedInOrder ==
    /\ \A e \in Cycles : cycle[e].status = "NONE" =>
          cycle[e].link = NoRow /\ cycle[e].create = "NEW" /\ task[e] = "none"
    /\ \A e, f \in Cycles : e < f /\ cycle[f].status # "NONE" => cycle[e].status # "NONE"
    /\ alarm # 0 => /\ cycle[alarm].status # "NONE"
                    /\ \A f \in Cycles : alarm < f => cycle[f].status = "NONE"

\* A bound cycle's row was stored once, a row's cycle and a POST on the wire
\* are recorded by a reservation, and a row is not at the same time on the wire.
RowsKnown ==
    /\ \A e \in Cycles : IF Bound(e) THEN Used(cycle[e].link) ELSE ~cycle[e].superseded
    /\ \A r \in Rows : Used(r) => /\ rows[r].key \in Cycles \ wire
                                  /\ cycle[rows[r].key].create \notin {"NEW", "RETRYABLE"}
    /\ \A e \in wire : cycle[e].create \notin {"NEW", "RETRYABLE"}

\* What the database and the table keep when no handler runs.
Durable == RowsKnown /\ OneRowPerCycle /\ SharedRowHasOneOwner

\* The steps of a CREATE path, from the lookup to the binding.
Creating == {"resolve", "lookup", "reuse", "reserve", "post", "again", "outcome", "bind"}

\* Neither a row of cycle e exists nor can one still arrive.
Unmade(e) == e \notin wire /\ \A r \in Rows : Used(r) => rows[r].key # e

\* What the running handler knows about its cycle, although the lookup that
\* told it so is several remote calls ago: it is the only holder of the
\* execution lock, and its cycle was not bound when it began to create.
HandlerKnows ==
    /\ pc.at \in Creating => ~Bound(pc.e)
    /\ pc.at \in {"reuse", "bind"} => pc.row \in Rows /\ Used(pc.row)
    /\ pc.at \in {"patch", "put"} =>
         pc.row \in Rows /\ cycle[pc.e].link = pc.row /\ ~cycle[pc.e].superseded
    /\ pc.at = "post" => cycle[pc.e].create = "IN_FLIGHT"
    /\ pc.at = "post" \/ (pc.at \in {"again", "outcome"} /\ pc.outcome # "UNKNOWN")
         => Unmade(pc.e)

\* The inductive invariant.
BindingInv == TypeInv /\ OpenedInOrder /\ Durable /\ HandlerKnows

\* Steps that touch neither links nor rows keep what is durable.
LEMMA DurableKept ==
  ASSUME TypeInv, Durable, CyclesKept, RowsKept, wire' = wire
  PROVE  Durable'
<1>1. /\ cycle \in [Cycles -> Cycle] /\ rows \in [Rows -> Row] /\ wire \subseteq Cycles
      /\ \A e \in Cycles : cycle[e].link \in Rows \cup {NoRow}
  BY DEF TypeInv, TypeOK, Cycle
<1>2. \A r \in Rows : (Used(r))' = Used(r) /\ rows'[r].key = rows[r].key
  BY DEF RowsKept, Used
<1>3. \A e \in Cycles : (Bound(e))' = Bound(e)
  BY DEF CyclesKept, Bound
<1>4. RowsKnown'
  <2>1. \A e \in Cycles : IF (Bound(e))' THEN (Used(cycle[e].link))' ELSE ~cycle'[e].superseded
    BY <1>1, <1>2, <1>3 DEF Durable, RowsKnown, CyclesKept, Bound
  <2>2. \A r \in Rows : (Used(r))' => /\ rows'[r].key \in Cycles \ wire'
                                  /\ cycle'[rows'[r].key].create \notin {"NEW", "RETRYABLE"}
    BY <1>1, <1>2 DEF Durable, RowsKnown, CyclesKept
  <2>3. \A e \in wire' : cycle'[e].create \notin {"NEW", "RETRYABLE"}
    BY <1>1 DEF Durable, RowsKnown, CyclesKept
  <2> QED
    BY <2>1, <2>2, <2>3 DEF RowsKnown
<1>5. OneRowPerCycle'
  BY <1>2 DEF Durable, OneRowPerCycle
<1>6. SharedRowHasOneOwner'
  BY <1>3 DEF Durable, SharedRowHasOneOwner, CyclesKept
<1> QED
  BY <1>4, <1>5, <1>6 DEF Durable

\* ... and, when the handler does not move, what it knows.
LEMMA HandlerKept ==
  ASSUME TypeInv, HandlerKnows, CyclesKept, RowsKept, wire' = wire, pc' = pc
  PROVE  HandlerKnows'
  BY DEF TypeInv, TypeOK, HandlerCarriesTask, HandlerKnows, CyclesKept, RowsKept, Bound, Used, Unmade, Creating

\* At the other labels the handler need not know anything.
LEMMA HandlerQuiet ==
  ASSUME pc'.at \notin Creating \cup {"patch", "put"}
  PROVE  HandlerKnows'
  BY DEF HandlerKnows, Creating

LEMMA OrderKept ==
  ASSUME OpenedInOrder, CyclesKept, UNCHANGED alarm, TypeInv,
         \A f \in Cycles : task[f] = "none" => task'[f] = "none"
  PROVE  OpenedInOrder'
  BY DEF TypeInv, TypeOK, OpenedInOrder, CyclesKept

\* A change of one opened cycle keeps the order.
LEMMA OrderKeptElsewhere ==
  ASSUME OpenedInOrder, TypeInv, UNCHANGED alarm,
         NEW e \in Cycles, cycle[e].status # "NONE", cycle'[e].status # "NONE",
         \A f \in Cycles \ {e} : /\ cycle'[f].status = cycle[f].status
                                 /\ cycle'[f].link = cycle[f].link
                                 /\ cycle'[f].create = cycle[f].create,
         UNCHANGED task
  PROVE  OpenedInOrder'
<1>1. alarm \in Cycles \cup {0}
  BY DEF TypeInv, TypeOK
<1>2. \A f \in Cycles : cycle'[f].status = "NONE" <=> cycle[f].status = "NONE"
  OBVIOUS
<1> QED
  BY <1>1, <1>2 DEF OpenedInOrder

\* The types that the proofs below need, by name.
LEMMA TypesOf ==
  ASSUME TypeInv
  PROVE  /\ cycle \in [Cycles -> Cycle] /\ rows \in [Rows -> Row] /\ wire \subseteq Cycles
         /\ alarm \in Cycles \cup {0} /\ pc \in Handler
         /\ pc.at # "idle" => pc.e \in Cycles /\ cycle[pc.e].status # "NONE"
         /\ \A e \in Cycles : cycle[e] \in Cycle /\ cycle[e].link \in Rows \cup {NoRow}
         /\ task \in [Cycles -> Origins]
  BY DEF TypeInv, TypeOK, HandlerCarriesTask, Cycle

\* Steps that change one cycle's payload c and no row.
LEMMA DurablePayload ==
  ASSUME TypeInv, Durable, NEW e \in Cycles, NEW c \in Cycle, cycle' = [cycle EXCEPT ![e] = c],
         UNCHANGED <<rows, wire>>,
         c.link = cycle[e].link, c.superseded = cycle[e].superseded,
         c.superseded => (c.recovery => cycle[e].recovery) /\ (c.update => cycle[e].update),
         c.status = cycle[e].status \/ c.status = "CLOSED",
         c.create \in {"NEW", "RETRYABLE"} /\ cycle[e].create \notin {"NEW", "RETRYABLE"} => Unmade(e)
  PROVE  Durable'
<1>1. /\ cycle'[e] = c /\ \A f \in Cycles \ {e} : cycle'[f] = cycle[f]
  BY TypesOf, OneCycleChanges
<1>2. \A f \in Cycles : cycle'[f].link = cycle[f].link /\ cycle'[f].superseded = cycle[f].superseded
  BY <1>1
<1>3. RowsKnown'
  <2>1. \A f \in Cycles : IF (Bound(f))' THEN (Used(cycle[f].link))' ELSE ~cycle'[f].superseded
    BY <1>2 DEF Durable, RowsKnown, Bound, Used
  <2>2. ASSUME NEW f \in Cycles, f \in wire \/ (\E r \in Rows : Used(r) /\ rows[r].key = f)
        PROVE  cycle'[f].create \notin {"NEW", "RETRYABLE"}
    <3>1. cycle[f].create \notin {"NEW", "RETRYABLE"}
      BY <2>2 DEF Durable, RowsKnown
    <3>2. ~Unmade(f)
      BY <2>2 DEF Unmade
    <3> QED
      BY <1>1, <3>1, <3>2
  <2>3. \A r \in Rows : Used(r) => rows[r].key \in Cycles \ wire
    BY DEF Durable, RowsKnown
  <2> QED
    BY <2>1, <2>2, <2>3, TypesOf DEF RowsKnown, Used
<1>4. OneRowPerCycle'
  BY DEF Durable, OneRowPerCycle, Used
<1>5. SharedRowHasOneOwner'
  BY <1>1, <1>2, TypesOf DEF Durable, SharedRowHasOneOwner, Bound
<1> QED
  BY <1>3, <1>4, <1>5 DEF Durable

\* A row is stored for a cycle that had none.
LEMMA DurableStored ==
  ASSUME TypeInv, Durable, NEW e \in Cycles, NEW r \in Rows, Stored(e, r), UNCHANGED cycle,
         wire' \subseteq wire, e \notin wire', cycle[e].create \notin {"NEW", "RETRYABLE"},
         \A s \in Rows : Used(s) => rows[s].key # e
  PROVE  Durable'
<1>1. /\ ~Used(r) /\ rows'[r].state = "open" /\ rows'[r].key = e
      /\ \A s \in Rows \ {r} : rows'[s] = rows[s]
  BY StoredRow, TypesOf
<1>2. \A s \in Rows : (Used(s))' <=> (s = r \/ Used(s))
  BY <1>1 DEF Used
<1>3. RowsKnown'
  BY <1>1, <1>2, TypesOf DEF Durable, RowsKnown, Bound
<1>4. OneRowPerCycle'
  BY <1>1, <1>2 DEF Durable, OneRowPerCycle
<1>5. SharedRowHasOneOwner'
  BY DEF Durable, SharedRowHasOneOwner, Bound
<1> QED
  BY <1>3, <1>4, <1>5 DEF Durable

\* A POST without an answer is left on the wire.
LEMMA DurableSent ==
  ASSUME TypeInv, Durable, NEW e \in Cycles, wire' = wire \cup {e}, UNCHANGED <<cycle, rows>>,
         cycle[e].create \notin {"NEW", "RETRYABLE"},
         \A s \in Rows : Used(s) => rows[s].key # e
  PROVE  Durable'
<1>1. RowsKnown'
  BY DEF Durable, RowsKnown, Bound, Used
<1> QED
  BY <1>1 DEF Durable, OneRowPerCycle, SharedRowHasOneOwner, Bound, Used

\* bind_external_record: the row's earlier cycles are superseded and closed,
\* so the newest cycle is the only one that owes it something.
LEMMA DurableBind ==
  ASSUME TypeInv, Durable, NEW e \in Cycles, NEW r \in Rows, Used(r), ~Bound(e),
         \A f \in Others(e, r) : cycle[f].status = "CLOSED" /\ f < e,
         cycle' = [f \in Cycles |-> BoundTo(e, r, f)], UNCHANGED <<rows, wire>>
  PROVE  Durable'
<1>1. \A f \in Cycles : cycle'[f] = BoundTo(e, r, f)
  OBVIOUS
<1>2. \A f \in Cycles : cycle'[f].status = cycle[f].status
  BY <1>1, BoundToType, TypesOf
<1>3. cycle'[e].link = r /\ cycle'[e].create = "SUCCEEDED"
  BY <1>1, BoundToType, TypesOf
<1>4. \A f \in Cycles \ {e} : cycle'[f].link = cycle[f].link /\ cycle'[f].create = cycle[f].create
  BY <1>1, BoundToType, TypesOf
<1>5. \A f \in Cycles \ {e} : cycle[f].link # r => cycle'[f] = cycle[f]
  BY <1>1, BoundToType, TypesOf
<1>6. \A f \in Cycles \ {e} : cycle[f].link = r =>
            cycle'[f].superseded /\ ~cycle'[f].recovery /\ ~cycle'[f].update
  BY <1>1, BoundToType, TypesOf
<1>7. \A f \in Cycles \ {e} : cycle[f].link = r => f < e /\ cycle[f].status = "CLOSED"
  BY DEF Others
<1>8. r # NoRow
  BY NoRowAssumption
<1>9. RowsKnown'
  <2>1. \A f \in Cycles : IF (Bound(f))' THEN (Used(cycle[f].link))' ELSE ~cycle'[f].superseded
    BY <1>3, <1>4, <1>5, <1>8 DEF Durable, RowsKnown, Bound, Used
  <2>2. \A f \in Cycles : cycle'[f].create \in {"NEW", "RETRYABLE"} => cycle[f].create = cycle'[f].create
    BY <1>3, <1>4
  <2> QED
    BY <2>1, <2>2, TypesOf DEF Durable, RowsKnown, Used
<1>10. SharedRowHasOneOwner'
  <2> SUFFICES ASSUME NEW f \in Cycles, NEW g \in Cycles, f < g, (Bound(f))',
                      cycle'[f].link = cycle'[g].link
               PROVE  /\ cycle'[f].superseded /\ cycle'[f].status = "CLOSED"
                      /\ ~cycle'[f].recovery /\ ~cycle'[f].update
    BY Zenon DEF SharedRowHasOneOwner
  <2>1. CASE f = e
    <3>1. g # e
      BY <2>1 DEF Cycles
    <3>2. cycle[g].link = r
      BY <2>1, <3>1, <1>3, <1>4
    <3>3. g < e
      BY <1>7, <3>1, <3>2
    <3> QED
      BY <2>1, <3>3 DEF Cycles
  <2>2. CASE f # e /\ cycle[f].link = r
    BY <2>2, <1>2, <1>6, <1>7
  <2>3. CASE f # e /\ cycle[f].link # r
    <3>1. g # e /\ cycle[g].link # r /\ cycle'[f] = cycle[f] /\ cycle'[g] = cycle[g]
      BY <2>3, <1>3, <1>4, <1>5
    <3>2. Bound(f) /\ cycle[f].link = cycle[g].link
      BY <3>1 DEF Bound
    <3>3. /\ cycle[f].superseded /\ cycle[f].status = "CLOSED"
          /\ ~cycle[f].recovery /\ ~cycle[f].update
      BY <3>2 DEF Durable, SharedRowHasOneOwner
    <3> QED
      BY <3>1, <3>3
  <2> QED
    BY <2>1, <2>2, <2>3
<1>11. OneRowPerCycle'
  BY DEF Durable, OneRowPerCycle, Used
<1> QED
  BY <1>9, <1>10, <1>11 DEF Durable

-----------------------------------------------------------------------------
(* Every step preserves it: the samples and the reconciliation.            *)

LEMMA InitInv == Init => BindingInv
<1> SUFFICES ASSUME Init PROVE BindingInv
  OBVIOUS
<1>1. /\ \A e \in Cycles : cycle[e] = NoCycle /\ task[e] = "none"
      /\ NoCycle.status = "NONE" /\ NoCycle.link = NoRow /\ NoCycle.create = "NEW"
      /\ ~NoCycle.superseded
  BY DEF Init, NoCycle
<1>2. \A r \in Rows : rows[r].state = "absent"
  BY DEF Init, NoRecord
<1>3. TypeInv
  <2>1. NoRecord \in Row
    BY DEF NoRecord, Row
  <2> QED
    BY <2>1, NoCycleType, IdleType DEF Init, TypeInv, TypeOK, HandlerCarriesTask, Origins
<1>4. OpenedInOrder
  BY <1>1 DEF Init, OpenedInOrder
<1>5. Durable
  BY <1>1, <1>2 DEF Init, Durable, RowsKnown, OneRowPerCycle, SharedRowHasOneOwner, Bound, Used
<1>6. HandlerKnows
  BY IdleType DEF Init, HandlerKnows, Creating
<1> QED
  BY <1>3, <1>4, <1>5, <1>6 DEF BindingInv

\* A cycle is opened after the ones before it, and nothing is known of it yet.
LEMMA OpenCycleInv ==
  ASSUME BindingInv, NEW e \in Cycles, OpenCycle(e)
  PROVE  BindingInv'
<1>1. TypeInv'
  BY OpenCycleType DEF BindingInv
<1>2. PICK gate \in Gates :
        /\ cycle' = [cycle EXCEPT ![e] = [NoCycle EXCEPT !.status = "OPEN", !.pending = gate]]
        /\ IF gate
           THEN ArmForSample(e) /\ pc' = Begin(e, "CREATE", FALSE, TRUE)
           ELSE UNCHANGED <<task, effects, pc>>
  BY DEF OpenCycle
<1> DEFINE c == [NoCycle EXCEPT !.status = "OPEN", !.pending = gate]
<1>3. /\ c \in Cycle /\ c.status = "OPEN" /\ c.link = NoRow /\ c.create = "NEW"
      /\ ~c.superseded /\ ~c.recovery /\ ~c.update
  BY GatesAssumption DEF NoCycle, Cycle, CreateStates
<1>4. cycle' = [cycle EXCEPT ![e] = c]
  BY <1>2
<1> HIDE DEF c
<1>5. /\ pc.at = "idle" /\ alarm = 0 /\ alarm' = e /\ cycle[e].status = "NONE"
      /\ \A f \in Cycles : f < e => cycle[f].status # "NONE"
      /\ UNCHANGED <<rows, wire>>
  BY DEF OpenCycle
<1>6. /\ cycle' \in [Cycles -> Cycle] /\ cycle'[e] = c
      /\ \A f \in Cycles \ {e} : cycle'[f] = cycle[f]
  BY <1>3, <1>4, TypesOf, OneCycleChanges DEF BindingInv
<1>7. cycle[e].link = NoRow /\ cycle[e].create = "NEW" /\ ~cycle[e].superseded
  BY <1>5 DEF BindingInv, OpenedInOrder, Durable, RowsKnown, Bound
<1>8. \A f \in Cycles \ {e} : task'[f] = task[f]
  BY <1>2, ArmForSampleType DEF BindingInv, TypeInv, OpenCycle
<1>9. OpenedInOrder'
  <2>1. \A f \in Cycles : f > e => cycle[f].status = "NONE"
    BY <1>5 DEF BindingInv, OpenedInOrder, Cycles
  <2>2. \A f, g \in Cycles : f < g /\ cycle'[g].status # "NONE" => cycle'[f].status # "NONE"
    <3>1. ASSUME NEW f \in Cycles, NEW g \in Cycles, f < g, cycle'[g].status # "NONE", f # e
          PROVE  cycle'[f].status # "NONE"
      <4>1. CASE g = e
        BY <3>1, <4>1, <1>5, <1>6
      <4>2. CASE g # e
        BY <3>1, <4>2, <1>6 DEF BindingInv, OpenedInOrder
      <4> QED
        BY <4>1, <4>2
    <3> QED
      BY <3>1, <1>3, <1>6
  <2>3. \A f \in Cycles : e < f => cycle'[f].status = "NONE"
    BY <1>6, <2>1 DEF Cycles
  <2>4. \A f \in Cycles : cycle'[f].status = "NONE" =>
            cycle'[f].link = NoRow /\ cycle'[f].create = "NEW" /\ task'[f] = "none"
    BY <1>3, <1>6, <1>8 DEF BindingInv, OpenedInOrder
  <2> QED
    BY <1>3, <1>5, <1>6, <2>2, <2>3, <2>4 DEF OpenedInOrder
<1>10. Durable'
  <2>1. Unmade(e)
    BY <1>7 DEF BindingInv, Durable, RowsKnown, Unmade
  <2>2. TypeInv /\ Durable
    BY DEF BindingInv
  <2>3. RowsKnown'
    <3>1. \A f \in Cycles : IF (Bound(f))' THEN (Used(cycle[f].link))' ELSE ~cycle'[f].superseded
      BY <1>3, <1>5, <1>6, <2>2 DEF Durable, RowsKnown, Bound, Used
    <3>2. \A r \in Rows : Used(r) => rows[r].key # e
      BY <2>1 DEF Unmade
    <3> QED
      BY <1>5, <1>6, <2>1, <2>2, <3>1, <3>2, TypesOf DEF Durable, RowsKnown, Used, Unmade
  <2>4. SharedRowHasOneOwner'
    BY <1>3, <1>6, <2>2, NoRowAssumption DEF Durable, SharedRowHasOneOwner, Bound
  <2>5. OneRowPerCycle'
    BY <1>5, <2>2 DEF Durable, OneRowPerCycle, Used
  <2> QED
    BY <2>3, <2>4, <2>5 DEF Durable
<1>11. HandlerKnows'
  <2>1. pc'.at \in {"idle", "begin"}
    BY <1>2, <1>5, GatesAssumption DEF Begin, Idle
  <2> QED
    BY <2>1, HandlerQuiet DEF Creating
<1> QED
  BY <1>1, <1>9, <1>10, <1>11 DEF BindingInv

LEMMA StillViolatingInv ==
  ASSUME BindingInv, NEW e \in Cycles, StillViolating(e)
  PROVE  BindingInv'
<1>1. /\ pc.at = "idle" /\ alarm = e /\ ArmForSample(e) /\ pc' = Begin(e, "UPDATE", FALSE, TRUE)
      /\ UNCHANGED <<cycle, alarm, rows, wire>>
  BY DEF StillViolating
<1>2. cycle[e].status # "NONE"
  BY <1>1, NCyclesAssumption DEF BindingInv, OpenedInOrder, Cycles
<1>3. TypeInv'
  BY <1>2, StillViolatingType DEF BindingInv
<1>4. \A f \in Cycles \ {e} : task'[f] = task[f]
  BY <1>1, ArmForSampleType DEF BindingInv, TypeInv
<1>5. OpenedInOrder'
  BY <1>1, <1>2, <1>4 DEF BindingInv, OpenedInOrder
<1>6. Durable'
  BY <1>1, DurableKept DEF BindingInv, CyclesKept, RowsKept
<1>7. HandlerKnows'
  BY <1>1, HandlerQuiet DEF Begin, Idle, Creating
<1> QED
  BY <1>3, <1>5, <1>6, <1>7 DEF BindingInv

LEMMA RecoverCycleInv ==
  ASSUME BindingInv, NEW e \in Cycles, RecoverCycle(e)
  PROVE  BindingInv'
<1>1. TypeInv'
  BY RecoverCycleType DEF BindingInv
<1>2. PICK gate \in Gates :
       /\ cycle' = [cycle EXCEPT ![e].status = "CLOSED", ![e].recovery = @ \/ gate]
       /\ IF gate
          THEN ArmForSample(e) /\ pc' = Begin(e, "MARK", FALSE, TRUE)
          ELSE UNCHANGED <<task, effects, pc>>
  BY DEF RecoverCycle
<1>3. pc.at = "idle" /\ alarm = e /\ alarm' = 0 /\ UNCHANGED <<rows, wire>>
  BY DEF RecoverCycle
<1>4. PICK b \in BOOLEAN : b = (cycle[e].recovery \/ gate)
  BY GatesAssumption
<1>5. cycle[e] \in Cycle
  BY TypesOf DEF BindingInv
<1> DEFINE c == [cycle[e] EXCEPT !.status = "CLOSED", !.recovery = b]
<1>6. cycle' = [cycle EXCEPT ![e] = c]
  BY <1>2, <1>4, <1>5, Zenon DEF Cycle
<1>7. /\ c \in Cycle /\ c.status = "CLOSED" /\ c.link = cycle[e].link /\ c.create = cycle[e].create
      /\ c.superseded = cycle[e].superseded /\ c.update = cycle[e].update
  BY <1>5 DEF Cycle
<1> HIDE DEF c
<1>8. /\ cycle' \in [Cycles -> Cycle] /\ cycle'[e] = c
      /\ \A f \in Cycles \ {e} : cycle'[f] = cycle[f]
  BY <1>6, <1>7, TypesOf, OneCycleChanges DEF BindingInv
<1>9. /\ cycle[e].status # "NONE" /\ \A f \in Cycles : e < f => cycle[f].status = "NONE"
  BY <1>3, NCyclesAssumption DEF BindingInv, OpenedInOrder, Cycles
<1>10. \A f \in Cycles \ {e} : task'[f] = task[f]
  BY <1>2, ArmForSampleType DEF BindingInv, TypeInv
<1>11. OpenedInOrder'
  BY <1>3, <1>7, <1>8, <1>9, <1>10 DEF BindingInv, OpenedInOrder
<1>12. Durable'
  <2>1. TypeInv /\ Durable
    BY DEF BindingInv
  <2>2. \A f \in Cycles : /\ cycle'[f].link = cycle[f].link
                          /\ cycle'[f].superseded = cycle[f].superseded
                          /\ cycle'[f].create = cycle[f].create
    BY <1>7, <1>8
  <2>3. RowsKnown'
    BY <1>3, <2>1, <2>2, TypesOf DEF Durable, RowsKnown, Bound, Used
  <2>4. \A f \in Cycles : e < f => cycle[f].link = NoRow
    BY <1>9 DEF BindingInv, OpenedInOrder
  <2>5. SharedRowHasOneOwner'
    <3> SUFFICES ASSUME NEW f \in Cycles, NEW g \in Cycles, f < g, (Bound(f))',
                        cycle'[f].link = cycle'[g].link
                 PROVE  /\ cycle'[f].superseded /\ cycle'[f].status = "CLOSED"
                        /\ ~cycle'[f].recovery /\ ~cycle'[f].update
      BY Zenon DEF SharedRowHasOneOwner
    <3>1. f # e
      BY <2>2, <2>4 DEF Bound
    <3>2. Bound(f) /\ cycle[f].link = cycle[g].link
      BY <2>2 DEF Bound
    <3> QED
      BY <1>8, <2>1, <3>1, <3>2 DEF Durable, SharedRowHasOneOwner
  <2>6. OneRowPerCycle'
    BY <1>3, <2>1 DEF Durable, OneRowPerCycle, Used
  <2> QED
    BY <2>3, <2>5, <2>6 DEF Durable
<1>13. HandlerKnows'
  <2>1. pc'.at \in {"idle", "begin"}
    BY <1>2, <1>3, GatesAssumption DEF Begin, Idle
  <2> QED
    BY <2>1, HandlerQuiet DEF Creating
<1> QED
  BY <1>1, <1>11, <1>12, <1>13 DEF BindingInv

LEMMA ScanInv ==
  ASSUME BindingInv, NEW e \in Cycles, Scan(e)
  PROVE  BindingInv'
<1>1. /\ cycle[e].status # "NONE" /\ task' = [task EXCEPT ![e] = "scan"]
      /\ UNCHANGED <<cycle, alarm, rows, wire, pc>>
  BY DEF Scan, Listed
<1>2. CyclesKept /\ RowsKept
  BY <1>1 DEF CyclesKept, RowsKept
<1>3. TypeInv'
  BY ScanType DEF BindingInv
<1>4. OpenedInOrder'
  BY <1>1, TypesOf DEF BindingInv, OpenedInOrder
<1> QED
  BY <1>1, <1>2, <1>3, <1>4, DurableKept, HandlerKept DEF BindingInv

LEMMA ReconcileInv ==
  ASSUME BindingInv, NEW e \in Cycles, Reconcile(e)
  PROVE  BindingInv'
<1>1. /\ pc.at = "idle" /\ task[e] # "none" /\ UNCHANGED <<cycle, alarm, rows, wire>>
      /\ IF NothingToDo(e) THEN task' = [task EXCEPT ![e] = "none"] /\ UNCHANGED pc
         ELSE UNCHANGED task /\ \E act, then : pc' = Begin(e, act, then, FALSE)
  BY DEF Reconcile
<1>2. cycle[e].status # "NONE"
  BY <1>1 DEF BindingInv, OpenedInOrder
<1>3. TypeInv'
  BY <1>2, ReconcileType DEF BindingInv
<1>4. CyclesKept /\ RowsKept
  BY <1>1 DEF CyclesKept, RowsKept
<1>5. \A f \in Cycles : task[f] = "none" => task'[f] = "none"
  BY <1>1, TypesOf DEF BindingInv
<1>6. HandlerKnows'
  <2>1. pc'.at \in {"idle", "begin"}
    BY <1>1 DEF Begin, Idle
  <2> QED
    BY <2>1, HandlerQuiet DEF Creating
<1> QED
  BY <1>1, <1>3, <1>4, <1>5, <1>6, DurableKept, OrderKept DEF BindingInv

-----------------------------------------------------------------------------
(* The writer and the rest of the world.                                   *)

\* A step of the writer that leaves of the cycles and rows what matters.
LEMMA QuietWriter ==
  ASSUME BindingInv, TypeInv', CyclesKept, RowsKept, wire' = wire, UNCHANGED alarm,
         \A f \in Cycles : task[f] = "none" => task'[f] = "none", HandlerKnows'
  PROVE  BindingInv'
  BY DurableKept, OrderKept DEF BindingInv

\* What the handler at a later step knows is what it knew, or has just found.
LEMMA KnowsNext ==
  ASSUME BindingInv, CyclesKept, RowsKept, wire' = wire, pc.at # "idle", pc'.e = pc.e,
         pc'.at \in Creating => ~Bound(pc.e),
         pc'.at \in {"reuse", "bind"} => pc'.row \in Rows /\ Used(pc'.row),
         pc'.at \in {"patch", "put"} =>
           pc'.row \in Rows /\ cycle[pc.e].link = pc'.row /\ ~cycle[pc.e].superseded,
         pc'.at # "post",
         pc'.at \in {"again", "outcome"} /\ pc'.outcome # "UNKNOWN" => Unmade(pc.e)
  PROVE  HandlerKnows'
  BY TypesOf DEF BindingInv, HandlerKnows, CyclesKept, RowsKept, Bound, Used, Unmade, Creating

LEMMA UnchangedKept ==
  /\ UNCHANGED cycle => CyclesKept
  /\ UNCHANGED rows => RowsKept
  BY DEF CyclesKept, RowsKept

LEMMA BeginCreateInv == ASSUME BindingInv, BeginCreate PROVE BindingInv'
<1>1. pc.at = "begin" /\ UNCHANGED <<task, alarm, rows, wire>>
  BY DEF BeginCreate, At
<1>2. HandlerKnows'
  BY <1>1, BeginCreateStep, KnowsNext, UnchangedKept DEF BindingInv, Creating
<1> QED
  BY <1>1, <1>2, BeginCreateStep, QuietWriter, UnchangedKept DEF BindingInv

LEMMA BeginEffectInv == ASSUME BindingInv, BeginEffect PROVE BindingInv'
<1>1. pc.at = "begin"
  BY DEF BeginEffect, At
<1>2. Bound(pc.e) => cycle[pc.e].link \in Rows
  BY <1>1, TypesOf DEF BindingInv, Bound
<1>3. HandlerKnows'
  BY <1>1, <1>2, BeginEffectStep, KnowsNext, UnchangedKept DEF BindingInv, Creating
<1> QED
  BY <1>3, BeginEffectStep, QuietWriter, UnchangedKept DEF BindingInv

LEMMA ResolveInv == ASSUME BindingInv, Resolve PROVE BindingInv'
<1>1. pc.at = "resolve" /\ ~Bound(pc.e)
  BY DEF Resolve, At, BindingInv, HandlerKnows, Creating
<1>2. HandlerKnows'
  BY <1>1, ResolveStep, KnowsNext, UnchangedKept DEF BindingInv, Creating
<1> QED
  BY <1>2, ResolveStep, QuietWriter, UnchangedKept DEF BindingInv

LEMMA LookupInv == ASSUME BindingInv, Lookup PROVE BindingInv'
<1>1. pc.at = "lookup" /\ ~Bound(pc.e)
  BY DEF Lookup, At, BindingInv, HandlerKnows, Creating
<1>2. HandlerKnows'
  BY <1>1, LookupStep, KnowsNext, UnchangedKept DEF BindingInv, Creating
<1> QED
  BY <1>2, LookupStep, QuietWriter, UnchangedKept DEF BindingInv

LEMMA ReuseInv == ASSUME BindingInv, Reuse PROVE BindingInv'
<1>1. pc.at = "reuse" /\ ~Bound(pc.e) /\ pc.row \in Rows /\ Used(pc.row)
  BY DEF Reuse, At, BindingInv, HandlerKnows, Creating
<1>2. HandlerKnows'
  BY <1>1, ReuseStep, KnowsNext, UnchangedKept DEF BindingInv, Creating
<1> QED
  BY <1>2, ReuseStep, QuietWriter, UnchangedKept DEF BindingInv

\* The reservation: a cycle without evidence of an earlier request has no row.
LEMMA ReserveInv == ASSUME BindingInv, Reserve PROVE BindingInv'
<1>1. pc.at = "reserve" /\ pc.e \in Cycles /\ cycle[pc.e].status # "NONE" /\ cycle[pc.e] \in Cycle
  BY TypesOf DEF Reserve, At, BindingInv
<1>2. TypeInv' /\ UNCHANGED <<rows, wire, alarm, task>> /\ pc'.e = pc.e
  BY ReserveStep DEF BindingInv
<1>3. CASE pc'.at = "finish" /\ UNCHANGED cycle
  BY <1>2, <1>3, HandlerQuiet, QuietWriter, UnchangedKept DEF Creating
<1>4. CASE /\ pc'.at = "post" /\ MayPost(pc.e)
           /\ cycle' = [cycle EXCEPT ![pc.e] = [@ EXCEPT !.create = "IN_FLIGHT"]]
  <2> DEFINE c == [cycle[pc.e] EXCEPT !.create = "IN_FLIGHT"]
  <2>1. /\ c \in Cycle /\ c.status = cycle[pc.e].status /\ c.link = cycle[pc.e].link
        /\ c.create = "IN_FLIGHT" /\ c.superseded = cycle[pc.e].superseded
        /\ c.recovery = cycle[pc.e].recovery /\ c.update = cycle[pc.e].update
    BY <1>1 DEF Cycle, CreateStates
  <2>2. cycle' = [cycle EXCEPT ![pc.e] = c]
    BY <1>4
  <2> HIDE DEF c
  <2>3. /\ cycle'[pc.e] = c /\ \A f \in Cycles \ {pc.e} : cycle'[f] = cycle[f]
    BY <1>1, <2>1, <2>2, TypesOf, OneCycleChanges DEF BindingInv
  <2>4. Unmade(pc.e) /\ ~Bound(pc.e)
    BY <1>4, TypesOf DEF MayPost, BindingInv, Durable, RowsKnown, Unmade
  <2>5. Durable'
    BY <1>1, <1>2, <2>1, <2>2, DurablePayload DEF BindingInv
  <2>6. OpenedInOrder'
    BY <1>1, <1>2, <2>1, <2>3, OrderKeptElsewhere DEF BindingInv
  <2>7. HandlerKnows'
    BY <1>2, <1>4, <2>1, <2>3, <2>4 DEF HandlerKnows, Creating, Bound, Unmade, Used
  <2> QED
    BY <1>2, <2>5, <2>6, <2>7 DEF BindingInv
<1> QED
  BY <1>3, <1>4, ReserveStep DEF BindingInv

LEMMA PostedInv == ASSUME BindingInv, Posted PROVE BindingInv'
<1>1. /\ pc.at = "post" /\ pc.e \in Cycles /\ ~Bound(pc.e) /\ Unmade(pc.e)
      /\ cycle[pc.e].create = "IN_FLIGHT"
  BY TypesOf DEF Posted, At, BindingInv, HandlerKnows, Creating
<1>2. /\ TypeInv' /\ UNCHANGED <<cycle, wire, alarm, task>>
      /\ pc'.e = pc.e /\ pc'.at = "bind" /\ pc'.row \in Rows /\ Stored(pc.e, pc'.row)
  BY PostedStep DEF BindingInv
<1>3. Durable'
  BY <1>1, <1>2, DurableStored DEF BindingInv, Unmade
<1>4. rows'[pc'.row].state = "open"
  BY <1>1, <1>2, StoredRow, TypesOf DEF BindingInv
<1>5. HandlerKnows'
  BY <1>1, <1>2, <1>4 DEF HandlerKnows, Creating, Bound, Used
<1>6. OpenedInOrder'
  BY <1>2, OrderKept, UnchangedKept DEF BindingInv
<1> QED
  BY <1>2, <1>3, <1>5, <1>6 DEF BindingInv

\* An outcome is UNKNOWN whenever the request may have reached the server.
LEMMA PostFailsInv == ASSUME BindingInv, PostFails PROVE BindingInv'
<1>1. /\ pc.at = "post" /\ pc.e \in Cycles /\ ~Bound(pc.e) /\ Unmade(pc.e)
      /\ cycle[pc.e].create = "IN_FLIGHT"
  BY TypesOf DEF PostFails, At, BindingInv, HandlerKnows, Creating
<1>2. TypeInv' /\ UNCHANGED <<cycle, alarm, task>> /\ pc'.e = pc.e /\ pc'.at = "again"
  BY PostFailsStep DEF BindingInv
<1>3. OpenedInOrder'
  BY <1>2, OrderKept, UnchangedKept DEF BindingInv
<1>4. CASE UNCHANGED <<rows, wire>>
  <2>1. HandlerKnows'
    BY <1>1, <1>2, <1>4, KnowsNext, UnchangedKept DEF Creating
  <2> QED
    BY <1>2, <1>4, <2>1, QuietWriter, UnchangedKept
<1>5. CASE pc'.outcome = "UNKNOWN" /\ UNCHANGED wire /\ \E r \in Rows : Stored(pc.e, r)
  <2>1. Durable'
    BY <1>1, <1>2, <1>5, DurableStored DEF BindingInv, Unmade
  <2>2. HandlerKnows'
    BY <1>1, <1>2, <1>5 DEF HandlerKnows, Creating, Bound
  <2> QED
    BY <1>2, <1>3, <2>1, <2>2 DEF BindingInv
<1>6. CASE pc'.outcome = "UNKNOWN" /\ UNCHANGED rows /\ wire' = wire \cup {pc.e}
  <2>1. Durable'
    BY <1>1, <1>2, <1>6, DurableSent DEF BindingInv, Unmade
  <2>2. HandlerKnows'
    BY <1>1, <1>2, <1>6 DEF HandlerKnows, Creating, Bound
  <2> QED
    BY <1>2, <1>3, <2>1, <2>2 DEF BindingInv
<1> QED
  BY <1>4, <1>5, <1>6, PostFailsStep DEF BindingInv

LEMMA LookupAgainInv == ASSUME BindingInv, LookupAgain PROVE BindingInv'
<1>1. pc.at = "again" /\ ~Bound(pc.e) /\ (pc.outcome # "UNKNOWN" => Unmade(pc.e))
  BY DEF LookupAgain, At, BindingInv, HandlerKnows, Creating
<1>2. HandlerKnows'
  BY <1>1, LookupAgainStep, KnowsNext, UnchangedKept DEF BindingInv, Creating
<1> QED
  BY <1>2, LookupAgainStep, QuietWriter, UnchangedKept DEF BindingInv

\* A reservation is given back only for a request that reached nobody.
LEMMA RecordOutcomeInv == ASSUME BindingInv, RecordOutcome PROVE BindingInv'
<1>1. /\ pc.at = "outcome" /\ pc.e \in Cycles /\ cycle[pc.e].status # "NONE" /\ cycle[pc.e] \in Cycle
      /\ (pc.outcome # "UNKNOWN" => Unmade(pc.e)) /\ pc.outcome \in CreateStates
  BY TypesOf, WriterHas DEF RecordOutcome, At, BindingInv, HandlerKnows
<1>2. /\ TypeInv' /\ UNCHANGED <<rows, wire, alarm, task>> /\ pc'.at = "finish"
      /\ cycle' = [cycle EXCEPT ![pc.e] = [@ EXCEPT !.create = pc.outcome, !.lease = FALSE]]
  BY RecordOutcomeStep DEF BindingInv
<1> DEFINE c == [cycle[pc.e] EXCEPT !.create = pc.outcome, !.lease = FALSE]
<1>3. /\ c \in Cycle /\ c.status = cycle[pc.e].status /\ c.link = cycle[pc.e].link
      /\ c.create = pc.outcome /\ c.superseded = cycle[pc.e].superseded
      /\ c.recovery = cycle[pc.e].recovery /\ c.update = cycle[pc.e].update
  BY <1>1 DEF Cycle
<1>4. cycle' = [cycle EXCEPT ![pc.e] = c]
  BY <1>2
<1> HIDE DEF c
<1>5. /\ cycle'[pc.e] = c /\ \A f \in Cycles \ {pc.e} : cycle'[f] = cycle[f]
  BY <1>1, <1>3, <1>4, TypesOf, OneCycleChanges DEF BindingInv
<1>6. Durable'
  <2>1. c.create \in {"NEW", "RETRYABLE"} => Unmade(pc.e)
    BY <1>1, <1>3
  <2>2. pc.e \in Cycles /\ TypeInv /\ Durable
    BY <1>1 DEF BindingInv
  <2> QED
    BY <1>2, <1>3, <1>4, <2>1, <2>2, DurablePayload
<1>7. OpenedInOrder'
  BY <1>1, <1>2, <1>3, <1>5, OrderKeptElsewhere DEF BindingInv
<1> QED
  BY <1>2, <1>6, <1>7, HandlerQuiet DEF BindingInv, Creating

\* The row changes hands whole: every other cycle it had is closed and older.
LEMMA BindInv == ASSUME BindingInv, Bind PROVE BindingInv'
<1>1. /\ pc.at = "bind" /\ pc.e \in Cycles /\ cycle[pc.e].status # "NONE" /\ ~Bound(pc.e)
      /\ pc.row \in Rows /\ Used(pc.row)
  BY TypesOf DEF Bind, At, BindingInv, HandlerKnows, Creating
<1>2. TypeInv' /\ UNCHANGED <<rows, wire, alarm, task>> /\ pc'.e = pc.e /\ pc'.row = pc.row
  BY BindStep DEF BindingInv
<1>3. CASE pc'.at = "finish" /\ UNCHANGED cycle
  BY <1>2, <1>3, HandlerQuiet, QuietWriter, UnchangedKept DEF Creating
<1>4. CASE /\ pc'.at \in {"finish", "patch", "put"}
           /\ \A f \in Others(pc.e, pc.row) : cycle[f].status = "CLOSED" /\ f < pc.e
           /\ cycle' = [f \in Cycles |-> BoundTo(pc.e, pc.row, f)]
  <2>1. Durable'
    BY <1>1, <1>2, <1>4, DurableBind DEF BindingInv
  <2>2. \A f \in Cycles : cycle'[f] = BoundTo(pc.e, pc.row, f)
    BY <1>4
  <2>3. \A f \in Cycles : cycle'[f].status = cycle[f].status
    BY <1>1, <2>2, BoundToType, TypesOf DEF BindingInv
  <2>4. \A f \in Cycles \ {pc.e} : cycle'[f].link = cycle[f].link /\ cycle'[f].create = cycle[f].create
    BY <1>1, <2>2, BoundToType, TypesOf DEF BindingInv
  <2>5. cycle'[pc.e].link = pc.row /\ cycle'[pc.e].superseded = cycle[pc.e].superseded
    BY <1>1, <2>2, BoundToType, TypesOf DEF BindingInv
  <2>6. ~cycle[pc.e].superseded
    BY <1>1 DEF BindingInv, Durable, RowsKnown
  <2>7. OpenedInOrder'
    BY <1>1, <1>2, <2>3, <2>4, OrderKeptElsewhere DEF BindingInv
  <2>8. HandlerKnows'
    BY <1>1, <1>2, <1>4, <2>5, <2>6 DEF HandlerKnows, Creating
  <2> QED
    BY <1>2, <2>1, <2>7, <2>8 DEF BindingInv
<1> QED
  BY <1>3, <1>4, BindStep DEF BindingInv

\* Only the newest cycle of a row promises it another update.
LEMMA PatchInv == ASSUME BindingInv, Patch PROVE BindingInv'
<1>1. /\ pc.at = "patch" /\ pc.e \in Cycles /\ cycle[pc.e].status # "NONE" /\ cycle[pc.e] \in Cycle
      /\ pc.row \in Rows /\ cycle[pc.e].link = pc.row /\ ~cycle[pc.e].superseded
  BY TypesOf DEF Patch, At, BindingInv, HandlerKnows
<1>2. /\ TypeInv' /\ UNCHANGED <<rows, wire, alarm, task>>
      /\ pc'.e = pc.e /\ pc'.at = "put" /\ pc'.row = pc.row
      /\ cycle' = [cycle EXCEPT ![pc.e] = [@ EXCEPT !.update = TRUE]]
  BY PatchStep DEF BindingInv
<1> DEFINE c == [cycle[pc.e] EXCEPT !.update = TRUE]
<1>3. /\ c \in Cycle /\ c.status = cycle[pc.e].status /\ c.link = cycle[pc.e].link
      /\ c.create = cycle[pc.e].create /\ c.superseded = cycle[pc.e].superseded
      /\ c.recovery = cycle[pc.e].recovery
  BY <1>1 DEF Cycle
<1>4. cycle' = [cycle EXCEPT ![pc.e] = c]
  BY <1>2
<1> HIDE DEF c
<1>5. /\ cycle'[pc.e] = c /\ \A f \in Cycles \ {pc.e} : cycle'[f] = cycle[f]
  BY <1>1, <1>3, <1>4, TypesOf, OneCycleChanges DEF BindingInv
<1>6. Durable'
  BY <1>1, <1>2, <1>3, <1>4, DurablePayload DEF BindingInv
<1>7. OpenedInOrder'
  BY <1>1, <1>2, <1>3, <1>5, OrderKeptElsewhere DEF BindingInv
<1>8. HandlerKnows'
  BY <1>1, <1>2, <1>3, <1>5 DEF HandlerKnows, Creating
<1> QED
  BY <1>2, <1>6, <1>7, <1>8 DEF BindingInv

LEMMA PutInv == ASSUME BindingInv, Put PROVE BindingInv'
<1>1. HandlerKnows'
  BY PutStep, HandlerQuiet DEF BindingInv, Creating
<1> QED
  BY <1>1, PutStep, QuietWriter, UnchangedKept DEF BindingInv

LEMMA MarkMissingInv == ASSUME BindingInv, MarkMissing PROVE BindingInv'
<1>1. /\ pc.at = "missing" /\ pc.e \in Cycles /\ cycle[pc.e].status # "NONE" /\ cycle[pc.e] \in Cycle
  BY TypesOf DEF MarkMissing, At, BindingInv
<1>2. /\ TypeInv' /\ UNCHANGED <<rows, wire, alarm, task>> /\ pc'.at = "finish"
      /\ cycle' = [cycle EXCEPT ![pc.e] =
            [@ EXCEPT !.status = "CLOSED", !.missing = TRUE, !.pending = FALSE,
                      !.recovery = FALSE, !.update = FALSE]]
  BY MarkMissingStep DEF BindingInv
<1> DEFINE c == [cycle[pc.e] EXCEPT !.status = "CLOSED", !.missing = TRUE, !.pending = FALSE,
                      !.recovery = FALSE, !.update = FALSE]
<1>3. /\ c \in Cycle /\ c.status = "CLOSED" /\ c.link = cycle[pc.e].link
      /\ c.create = cycle[pc.e].create /\ c.superseded = cycle[pc.e].superseded
      /\ ~c.recovery /\ ~c.update
  BY <1>1 DEF Cycle
<1>4. cycle' = [cycle EXCEPT ![pc.e] = c]
  BY <1>2
<1> HIDE DEF c
<1>5. /\ cycle'[pc.e] = c /\ \A f \in Cycles \ {pc.e} : cycle'[f] = cycle[f]
  BY <1>1, <1>3, <1>4, TypesOf, OneCycleChanges DEF BindingInv
<1>6. Durable'
  BY <1>1, <1>2, <1>3, <1>4, DurablePayload DEF BindingInv
<1>7. OpenedInOrder'
  BY <1>1, <1>2, <1>3, <1>5, OrderKeptElsewhere DEF BindingInv
<1> QED
  BY <1>2, <1>6, <1>7, HandlerQuiet DEF BindingInv, Creating

LEMMA ProveInv == ASSUME BindingInv, Prove PROVE BindingInv'
<1>1. HandlerKnows'
  BY ProveStep, HandlerQuiet DEF BindingInv, Creating
<1> QED
  BY <1>1, ProveStep, QuietWriter, UnchangedKept DEF BindingInv

LEMMA ClearInv == ASSUME BindingInv, Clear PROVE BindingInv'
<1>1. /\ pc.at = "clear" /\ pc.e \in Cycles /\ cycle[pc.e].status # "NONE" /\ cycle[pc.e] \in Cycle
  BY TypesOf DEF Clear, At, BindingInv
<1>2. /\ TypeInv' /\ UNCHANGED <<rows, wire, alarm, task>> /\ pc'.at = "finish"
      /\ \/ cycle' = [cycle EXCEPT ![pc.e] = [@ EXCEPT !.recovery = FALSE]]
         \/ cycle' = [cycle EXCEPT ![pc.e] = [@ EXCEPT !.update = FALSE]]
  BY ClearStep DEF BindingInv
<1>3. PICK c \in {[cycle[pc.e] EXCEPT !.recovery = FALSE], [cycle[pc.e] EXCEPT !.update = FALSE]} :
        cycle' = [cycle EXCEPT ![pc.e] = c]
  BY <1>2
<1>4. /\ c \in Cycle /\ c.status = cycle[pc.e].status /\ c.link = cycle[pc.e].link
      /\ c.create = cycle[pc.e].create /\ c.superseded = cycle[pc.e].superseded
      /\ c.recovery => cycle[pc.e].recovery
      /\ c.update => cycle[pc.e].update
  BY <1>1, <1>3 DEF Cycle
<1>5. /\ cycle'[pc.e] = c /\ \A f \in Cycles \ {pc.e} : cycle'[f] = cycle[f]
  BY <1>1, <1>3, <1>4, TypesOf, OneCycleChanges DEF BindingInv
<1>6. Durable'
  BY <1>1, <1>2, <1>3, <1>4, DurablePayload DEF BindingInv
<1>7. OpenedInOrder'
  BY <1>1, <1>2, <1>4, <1>5, OrderKeptElsewhere DEF BindingInv
<1> QED
  BY <1>2, <1>6, <1>7, HandlerQuiet DEF BindingInv, Creating

LEMMA FinishInv == ASSUME BindingInv, Finish PROVE BindingInv'
<1>1. HandlerKnows'
  BY FinishStep, HandlerQuiet DEF BindingInv, Creating
<1> QED
  BY <1>1, FinishStep, QuietWriter, UnchangedKept DEF BindingInv

LEMMA LandsInv == ASSUME BindingInv, NEW e \in Cycles, Lands(e) PROVE BindingInv'
<1>1. /\ TypeInv' /\ UNCHANGED <<cycle, alarm, task, pc>>
      /\ e \in wire /\ wire' = wire \ {e}
  BY LandsStep DEF BindingInv
<1>2. PICK r \in Rows : Stored(e, r)
  BY LandsStep DEF BindingInv
<1>3. /\ cycle[e].create \notin {"NEW", "RETRYABLE"}
      /\ \A s \in Rows : Used(s) => rows[s].key # e
  BY <1>1 DEF BindingInv, Durable, RowsKnown
<1>4. Durable'
  BY <1>1, <1>2, <1>3, DurableStored DEF BindingInv
<1>5. OpenedInOrder'
  BY <1>1, OrderKept, UnchangedKept DEF BindingInv
<1>6. /\ rows'[r].state = "open" /\ rows'[r].key = e
      /\ \A s \in Rows \ {r} : rows'[s] = rows[s]
  BY <1>2, StoredRow, TypesOf DEF BindingInv
<1>7. HandlerKnows'
  <2>1. \A f : Unmade(f) => (Unmade(f))'
    BY <1>1, <1>6 DEF Unmade, Used
  <2>2. \A s \in Rows : Used(s) => (Used(s))'
    BY <1>6 DEF Used
  <2> QED
    BY <1>1, <2>1, <2>2 DEF BindingInv, HandlerKnows, Bound, Creating
<1> QED
  BY <1>1, <1>4, <1>5, <1>7 DEF BindingInv

LEMMA EnvironmentInv == ASSUME BindingInv, Environment PROVE BindingInv'
<1>1. ASSUME NEW e \in Cycles, LeaseExpires(e) PROVE BindingInv'
  <2>1. HandlerKnows'
    BY <1>1, LeaseExpiresStep, HandlerKept, UnchangedKept DEF BindingInv
  <2> QED
    BY <1>1, <2>1, LeaseExpiresStep, QuietWriter, UnchangedKept DEF BindingInv
<1>2. ASSUME NEW r \in Rows, PersonEdits(r) PROVE BindingInv'
  <2>1. HandlerKnows'
    BY <1>2, PersonEditsStep, HandlerKept, UnchangedKept DEF BindingInv
  <2> QED
    BY <1>2, <2>1, PersonEditsStep, QuietWriter, UnchangedKept DEF BindingInv
<1>3. CASE Crash
  <2>1. HandlerKnows'
    BY <1>3, CrashStep, HandlerQuiet DEF BindingInv, Creating
  <2> QED
    BY <1>3, <2>1, CrashStep, QuietWriter, UnchangedKept DEF BindingInv
<1> QED
  BY <1>1, <1>2, <1>3, LandsInv DEF Environment

LEMMA NextInv == BindingInv /\ [Next]_vars => BindingInv'
<1> SUFFICES ASSUME BindingInv, [Next]_vars PROVE BindingInv'
  OBVIOUS
<1>1. CASE UNCHANGED vars
  <2>1. UNCHANGED <<cycle, effects, task, alarm, rows, wire, pc, crashes, faults>>
    BY <1>1 DEF vars
  <2>2. TypeInv'
    BY <2>1 DEF BindingInv, TypeInv, TypeOK, HandlerCarriesTask
  <2>3. HandlerKnows'
    BY <2>1, HandlerKept, UnchangedKept DEF BindingInv
  <2> QED
    BY <2>1, <2>2, <2>3, QuietWriter, UnchangedKept
<1>2. ASSUME NEW e \in Cycles, Local(e) PROVE BindingInv'
  BY <1>2, OpenCycleInv, StillViolatingInv, RecoverCycleInv, ScanInv, ReconcileInv DEF Local
<1>3. CASE Write
  BY <1>3, BeginCreateInv, BeginEffectInv, ResolveInv, LookupInv, ReuseInv, ReserveInv, PostedInv,
     PostFailsInv, LookupAgainInv, RecordOutcomeInv, BindInv, PatchInv, PutInv, MarkMissingInv,
     ProveInv, ClearInv, FinishInv DEF Write
<1> QED
  BY <1>1, <1>2, <1>3, EnvironmentInv DEF Next

-----------------------------------------------------------------------------
(* What a step means for the rows and their owners.                        *)

\* No cycle changes its row, and no row comes into being.
OwnersKept ==
    /\ \A e \in Cycles : /\ cycle'[e].link = cycle[e].link
                         /\ cycle'[e].superseded <=> cycle[e].superseded
    /\ RowsKept

\* A row of cycle e comes into being, its first one.
Makes(e, r) ==
    /\ Stored(e, r) /\ UNCHANGED cycle
    /\ \A s \in Rows : Used(s) => rows[s].key # e

\* Cycle e is bound to row r, and every other cycle of the row is older.
Takes(e, r) ==
    /\ r \in Rows /\ Used(r) /\ ~Bound(e) /\ UNCHANGED rows
    /\ \A f \in Others(e, r) : f < e
    /\ cycle' = [f \in Cycles |-> BoundTo(e, r, f)]

LEMMA OneOwnerKept ==
  ASSUME TypeInv, NEW e \in Cycles, NEW c \in Cycle, cycle' = [cycle EXCEPT ![e] = c],
         c.link = cycle[e].link, c.superseded <=> cycle[e].superseded, UNCHANGED rows
  PROVE  OwnersKept
<1>1. cycle'[e] = c /\ \A f \in Cycles \ {e} : cycle'[f] = cycle[f]
  BY TypesOf, OneCycleChanges
<1> QED
  BY <1>1 DEF OwnersKept, RowsKept

LEMMA CyclesKeepOwners ==
  ASSUME CyclesKept, RowsKept
  PROVE  OwnersKept
  BY DEF CyclesKept, OwnersKept

LEMMA LocalOwners ==
  ASSUME BindingInv, NEW e \in Cycles, Local(e)
  PROVE  OwnersKept /\ UNCHANGED rows
<1>1. UNCHANGED rows
  BY DEF Local, OpenCycle, StillViolating, RecoverCycle, Scan, Reconcile
<1>2. TypeInv /\ cycle[e] \in Cycle
  BY TypesOf DEF BindingInv
<1>3. CASE OpenCycle(e)
  <2>1. PICK gate \in Gates :
          cycle' = [cycle EXCEPT ![e] = [NoCycle EXCEPT !.status = "OPEN", !.pending = gate]]
    BY <1>3 DEF OpenCycle
  <2> DEFINE c == [NoCycle EXCEPT !.status = "OPEN", !.pending = gate]
  <2>2. c \in Cycle /\ c.link = NoRow /\ ~c.superseded
    BY GatesAssumption DEF NoCycle, Cycle, CreateStates
  <2>3. cycle[e].link = NoRow /\ ~cycle[e].superseded
    BY <1>3 DEF OpenCycle, BindingInv, OpenedInOrder, Durable, RowsKnown, Bound
  <2>4. cycle' = [cycle EXCEPT ![e] = c]
    BY <2>1
  <2> HIDE DEF c
  <2> QED
    BY <1>1, <1>2, <2>2, <2>3, <2>4, OneOwnerKept
<1>4. CASE RecoverCycle(e)
  <2>1. PICK gate \in Gates :
          cycle' = [cycle EXCEPT ![e].status = "CLOSED", ![e].recovery = @ \/ gate]
    BY <1>4 DEF RecoverCycle
  <2>2. PICK b \in BOOLEAN : b = (cycle[e].recovery \/ gate)
    BY GatesAssumption
  <2> DEFINE c == [cycle[e] EXCEPT !.status = "CLOSED", !.recovery = b]
  <2>3. cycle' = [cycle EXCEPT ![e] = c]
    BY <2>1, <2>2, <1>2, Zenon DEF Cycle
  <2>4. c \in Cycle /\ c.link = cycle[e].link /\ c.superseded = cycle[e].superseded
    BY <1>2 DEF Cycle
  <2> HIDE DEF c
  <2> QED
    BY <1>1, <1>2, <2>3, <2>4, OneOwnerKept
<1>5. CASE UNCHANGED cycle
  BY <1>1, <1>5, UnchangedKept, CyclesKeepOwners
<1> QED
  BY <1>3, <1>4, <1>5 DEF Local, StillViolating, Scan, Reconcile

LEMMA WriteOwners ==
  ASSUME BindingInv, Write
  PROVE  \/ OwnersKept
         \/ \E r \in Rows : pc.e \in Cycles /\ Makes(pc.e, r)
         \/ \E r \in Rows : pc.e \in Cycles /\ Takes(pc.e, r)
<1>1. pc.at # "idle"
  BY DEF Write, At, BeginCreate, BeginEffect, Resolve, Lookup, Reuse, Reserve, Posted, PostFails,
         LookupAgain, RecordOutcome, Bind, Patch, Put, MarkMissing, Prove, Clear, Finish
<1>2. TypeInv /\ pc.e \in Cycles /\ cycle[pc.e] \in Cycle /\ pc.outcome \in CreateStates
  BY <1>1, TypesOf, WriterHas DEF BindingInv
<1>3. CASE BeginCreate \/ BeginEffect \/ Resolve \/ Lookup \/ LookupAgain \/ Prove \/ Finish
  BY <1>2, <1>3, UnchangedKept, CyclesKeepOwners, BeginCreateStep, BeginEffectStep, ResolveStep,
     LookupStep, LookupAgainStep, ProveStep, FinishStep DEF BeginCreate
<1>4. CASE Reuse \/ Put
  BY <1>2, <1>4, UnchangedKept, CyclesKeepOwners, ReuseStep, PutStep
<1>5. CASE Reserve
  <2> DEFINE c == [cycle[pc.e] EXCEPT !.create = "IN_FLIGHT"]
  <2>1. c \in Cycle /\ c.link = cycle[pc.e].link /\ c.superseded = cycle[pc.e].superseded
    BY <1>2 DEF Cycle, CreateStates
  <2>2. UNCHANGED rows /\ (UNCHANGED cycle \/ cycle' = [cycle EXCEPT ![pc.e] = c])
    BY <1>2, <1>5, ReserveStep
  <2> HIDE DEF c
  <2> QED
    BY <1>2, <2>1, <2>2, OneOwnerKept, UnchangedKept, CyclesKeepOwners
<1>6. CASE RecordOutcome
  <2> DEFINE c == [cycle[pc.e] EXCEPT !.create = pc.outcome, !.lease = FALSE]
  <2>1. c \in Cycle /\ c.link = cycle[pc.e].link /\ c.superseded = cycle[pc.e].superseded
    BY <1>2 DEF Cycle
  <2>2. UNCHANGED rows /\ cycle' = [cycle EXCEPT ![pc.e] = c]
    BY <1>2, <1>6, RecordOutcomeStep
  <2> HIDE DEF c
  <2> QED
    BY <1>2, <2>1, <2>2, OneOwnerKept
<1>7. CASE Patch
  <2> DEFINE c == [cycle[pc.e] EXCEPT !.update = TRUE]
  <2>1. c \in Cycle /\ c.link = cycle[pc.e].link /\ c.superseded = cycle[pc.e].superseded
    BY <1>2 DEF Cycle
  <2>2. UNCHANGED rows /\ cycle' = [cycle EXCEPT ![pc.e] = c]
    BY <1>2, <1>7, PatchStep
  <2> HIDE DEF c
  <2> QED
    BY <1>2, <2>1, <2>2, OneOwnerKept
<1>8. CASE MarkMissing
  <2> DEFINE c == [cycle[pc.e] EXCEPT !.status = "CLOSED", !.missing = TRUE, !.pending = FALSE,
                      !.recovery = FALSE, !.update = FALSE]
  <2>1. c \in Cycle /\ c.link = cycle[pc.e].link /\ c.superseded = cycle[pc.e].superseded
    BY <1>2 DEF Cycle
  <2>2. UNCHANGED rows /\ cycle' = [cycle EXCEPT ![pc.e] = c]
    BY <1>2, <1>8, MarkMissingStep
  <2> HIDE DEF c
  <2> QED
    BY <1>2, <2>1, <2>2, OneOwnerKept
<1>9. CASE Clear
  <2>1. PICK c \in {[cycle[pc.e] EXCEPT !.recovery = FALSE], [cycle[pc.e] EXCEPT !.update = FALSE]} :
          cycle' = [cycle EXCEPT ![pc.e] = c]
    BY <1>2, <1>9, ClearStep
  <2>2. c \in Cycle /\ c.link = cycle[pc.e].link /\ c.superseded = cycle[pc.e].superseded
    BY <1>2, <2>1 DEF Cycle
  <2>3. UNCHANGED rows
    BY <1>2, <1>9, ClearStep
  <2> QED
    BY <1>2, <2>1, <2>2, <2>3, OneOwnerKept
<1>10. CASE Posted \/ PostFails
  <2>1. \A s \in Rows : Used(s) => rows[s].key # pc.e
    BY <1>10 DEF Posted, PostFails, At, BindingInv, HandlerKnows, Unmade
  <2>2. UNCHANGED cycle
    BY <1>10 DEF Posted, PostFails
  <2>3. UNCHANGED rows \/ \E r \in Rows : Stored(pc.e, r)
    BY <1>10 DEF Posted, PostFails
  <2> QED
    BY <1>2, <2>1, <2>2, <2>3, UnchangedKept, CyclesKeepOwners DEF Makes
<1>11. CASE Bind
  <2>1. ~Bound(pc.e) /\ pc.row \in Rows /\ Used(pc.row)
    BY <1>11 DEF Bind, At, BindingInv, HandlerKnows, Creating
  <2>2. /\ UNCHANGED rows
        /\ \/ UNCHANGED cycle
           \/ /\ \A f \in Others(pc.e, pc.row) : f < pc.e
              /\ cycle' = [f \in Cycles |-> BoundTo(pc.e, pc.row, f)]
    BY <1>2, <1>11, BindStep
  <2> QED
    BY <1>2, <2>1, <2>2, UnchangedKept, CyclesKeepOwners DEF Takes
<1> QED
  BY <1>3, <1>4, <1>5, <1>6, <1>7, <1>8, <1>9, <1>10, <1>11 DEF Write

LEMMA EnvironmentOwners ==
  ASSUME BindingInv, Environment
  PROVE  OwnersKept \/ \E e \in Cycles, r \in Rows : Makes(e, r)
<1>1. ASSUME NEW e \in Cycles, Lands(e) PROVE \E r \in Rows : Makes(e, r)
  <2>1. \A s \in Rows : Used(s) => rows[s].key # e
    BY <1>1 DEF Lands, BindingInv, Durable, RowsKnown
  <2> QED
    BY <1>1, <2>1 DEF Lands, Makes
<1>2. ASSUME NEW e \in Cycles, LeaseExpires(e) PROVE OwnersKept
  BY <1>2, LeaseExpiresStep, UnchangedKept, CyclesKeepOwners DEF BindingInv
<1>3. ASSUME NEW r \in Rows, PersonEdits(r) PROVE OwnersKept
  BY <1>3, PersonEditsStep, UnchangedKept, CyclesKeepOwners DEF BindingInv
<1>4. CASE Crash
  BY <1>4, CrashStep, UnchangedKept, CyclesKeepOwners DEF BindingInv
<1> QED
  BY <1>1, <1>2, <1>3, <1>4 DEF Environment

-----------------------------------------------------------------------------
(* BindingPromise.                                                         *)

\* The bound, not superseded cycles of one row are one cycle.
LEMMA OneOwner ==
  ASSUME BindingInv, NEW k \in Cycles, NEW e \in OwnersOf(k), NEW f \in OwnersOf(k)
  PROVE  e = f
<1>1. /\ e \in Cycles /\ f \in Cycles /\ Bound(e) /\ Bound(f)
      /\ ~cycle[e].superseded /\ ~cycle[f].superseded
      /\ rows[cycle[e].link].key = k /\ rows[cycle[f].link].key = k
  BY DEF OwnersOf
<1>2. cycle[e].link \in Rows /\ cycle[f].link \in Rows
  BY <1>1, TypesOf DEF BindingInv, Bound
<1>3. Used(cycle[e].link) /\ Used(cycle[f].link)
  BY <1>1 DEF BindingInv, Durable, RowsKnown
<1>4. cycle[e].link = cycle[f].link
  BY <1>1, <1>2, <1>3 DEF BindingInv, Durable, OneRowPerCycle
<1>5. ~(e < f) /\ ~(f < e)
  BY <1>1, <1>4 DEF BindingInv, Durable, SharedRowHasOneOwner
<1> QED
  BY <1>1, <1>5 DEF Cycles

\* A key's owner, read off the cycles that own its row.
OwnerIn(S) == IF S = {} THEN 0 ELSE CHOOSE e \in S : TRUE

LEMMA OwnerByOwners == \A k \in Cycles : Owner[k] = OwnerIn(OwnersOf(k))
  BY Zenon DEF Owner, OwnerIn

\* The owners of the next state, as a function read off their sets.
LEMMA OwnerFunction ==
  /\ Owner = [k \in Cycles |-> OwnerIn(OwnersOf(k))]
  /\ Owner' = [k \in Cycles |-> OwnerIn((OwnersOf(k))')]
<1>1. Owner = [k \in Cycles |-> OwnerIn(OwnersOf(k))]
  BY Zenon DEF Owner, OwnerIn
<1>2. Owner' = [k \in Cycles |-> OwnerIn((OwnersOf(k))')]
  BY Zenon DEF Owner, OwnerIn
<1> QED
  BY <1>1, <1>2

LEMMA OwnersUnchanged ==
  ASSUME \A k \in Cycles : (OwnersOf(k))' = OwnersOf(k)
  PROVE  Owner' = Owner
<1>1. \A k \in Cycles : OwnerIn((OwnersOf(k))') = OwnerIn(OwnersOf(k))
  OBVIOUS
<1>2. [k \in Cycles |-> OwnerIn((OwnersOf(k))')] = [k \in Cycles |-> OwnerIn(OwnersOf(k))]
  BY <1>1
<1> QED
  BY <1>2, OwnerFunction, Zenon

OwnerIsTheOne ==
  \A k \in Cycles : /\ OwnersOf(k) = {} => Owner[k] = 0
                    /\ \A e \in OwnersOf(k) : Owner[k] = e

LEMMA OwnerIs == BindingInv => OwnerIsTheOne
<1> SUFFICES ASSUME BindingInv, NEW k \in Cycles
             PROVE  /\ OwnersOf(k) = {} => Owner[k] = 0
                    /\ \A e \in OwnersOf(k) : Owner[k] = e
  BY DEF OwnerIsTheOne
<1>1. OwnersOf(k) = {} => Owner[k] = 0
  BY OwnerByOwners DEF OwnerIn
<1>2. ASSUME NEW e \in OwnersOf(k) PROVE Owner[k] = e
  <2>1. Owner[k] \in OwnersOf(k)
    BY <1>2, OwnerByOwners, Zenon DEF OwnerIn
  <2> QED
    BY <2>1, OneOwner
<1> QED
  BY <1>1, <1>2

LEMMA KeptIsStutter ==
  ASSUME BindingInv, OwnersKept
  PROVE  UNCHANGED <<Made, Owner>>
<1>1. Made' = Made
  BY DEF OwnersKept, RowsKept, Made, Used
<1>2. ASSUME NEW k \in Cycles PROVE (OwnersOf(k))' = OwnersOf(k)
  <2>1. \A e \in Cycles : Bound(e) => cycle[e].link \in Rows
    BY TypesOf DEF BindingInv, Bound
  <2>2. \A e \in Cycles : (Bound(e))' <=> Bound(e)
    BY DEF OwnersKept, Bound
  <2>3. \A e \in Cycles : Bound(e) => rows'[cycle'[e].link].key = rows[cycle[e].link].key
    BY <2>1 DEF OwnersKept, RowsKept
  <2>4. \A e \in Cycles : cycle'[e].superseded <=> cycle[e].superseded
    BY DEF OwnersKept
  <2> QED
    BY <2>2, <2>3, <2>4 DEF OwnersOf
<1> QED
  BY <1>1, <1>2, OwnersUnchanged

LEMMA MakesIsMake ==
  ASSUME BindingInv, NEW e \in Cycles, NEW r \in Rows, Makes(e, r)
  PROVE  Promise!Make(r, e)
<1>1. /\ ~Used(r) /\ rows'[r].state = "open" /\ rows'[r].key = e
      /\ \A s \in Rows \ {r} : rows'[s] = rows[s]
  BY StoredRow, TypesOf DEF Makes, BindingInv
<1>2. \A m \in Made : m[1] # r /\ m[2] # e
  BY <1>1 DEF Makes, Made
<1>3. Made' = Made \cup {<<r, e>>}
  <2>1. \A s \in Rows : (Used(s))' <=> (s = r \/ Used(s))
    BY <1>1 DEF Used
  <2>2. \A s \in Rows : Used(s) => rows'[s].key = rows[s].key
    BY <1>1
  <2> QED
    BY <1>1, <2>1, <2>2 DEF Made
<1>4. ASSUME NEW k \in Cycles PROVE (OwnersOf(k))' = OwnersOf(k)
  <2>1. UNCHANGED cycle
    BY DEF Makes
  <2>2. \A f \in Cycles : Bound(f) => cycle[f].link \in Rows /\ Used(cycle[f].link)
    BY TypesOf DEF BindingInv, Bound, Durable, RowsKnown
  <2>3. \A f \in Cycles : Bound(f) => rows'[cycle[f].link] = rows[cycle[f].link]
    BY <1>1, <2>2
  <2> QED
    BY <2>1, <2>3 DEF OwnersOf, Bound
<1>5. Owner' = Owner
  BY <1>4, OwnersUnchanged
<1> QED
  BY <1>2, <1>3, <1>5 DEF Promise!Make

LEMMA TakesIsOwn ==
  ASSUME BindingInv, BindingInv', NEW e \in Cycles, NEW r \in Rows, Takes(e, r)
  PROVE  \E k \in Cycles : Promise!Own(k, e)
<1>0. PICK k \in Cycles : rows[r].key = k
  BY DEF Takes, BindingInv, Durable, RowsKnown
<1>1. /\ Used(r) /\ ~Bound(e) /\ UNCHANGED rows
      /\ \A f \in Others(e, r) : f < e
      /\ \A f \in Cycles : cycle'[f] = BoundTo(e, r, f)
  BY DEF Takes
<1>2. k \in Cycles /\ <<r, k>> \in Made
  BY <1>0, <1>1 DEF Made
<1>3. Made' = Made
  BY <1>1 DEF Made, Used
<1>4. \A f \in Cycles \ {e} : cycle'[f].link = cycle[f].link
  BY <1>1, BoundToType, TypesOf DEF BindingInv
<1>5. \A f \in Cycles \ {e} : cycle[f].link # r => cycle'[f] = cycle[f]
  BY <1>1, BoundToType, TypesOf DEF BindingInv
<1>6. \A f \in Cycles \ {e} : cycle[f].link = r => cycle'[f].superseded
  BY <1>1, BoundToType, TypesOf DEF BindingInv
<1>7. cycle'[e].link = r /\ cycle'[e].superseded = cycle[e].superseded /\ r # NoRow
  BY <1>1, BoundToType, TypesOf, NoRowAssumption DEF BindingInv
<1>8. ~cycle[e].superseded
  BY <1>1 DEF BindingInv, Durable, RowsKnown
<1>9. e \in (OwnersOf(k))'
  BY <1>0, <1>1, <1>7, <1>8 DEF OwnersOf, Bound
<1>10. Owner'[k] = e
  <2>1. OwnerIsTheOne'
    BY OwnerIs, PTL
  <2>2. \A j \in Cycles : \A f \in (OwnersOf(j))' : Owner'[j] = f
    BY <2>1 DEF OwnerIsTheOne
  <2> QED
    BY <1>2, <1>9, <2>2
<1>11. Owner[k] < e
  <2>1. CASE OwnersOf(k) = {}
    BY <1>2, <2>1, OwnerIs DEF OwnerIsTheOne, Cycles
  <2>2. ASSUME NEW f \in OwnersOf(k) PROVE f < e
    <3>1. f \in Cycles /\ Bound(f) /\ rows[cycle[f].link].key = k
      BY <2>2 DEF OwnersOf
    <3>2. cycle[f].link \in Rows /\ Used(cycle[f].link)
      BY <3>1, TypesOf DEF BindingInv, Bound, Durable, RowsKnown
    <3>3. cycle[f].link = r
      BY <1>0, <1>1, <3>1, <3>2 DEF BindingInv, Durable, OneRowPerCycle
    <3>4. f \in Others(e, r)
      BY <1>1, <3>1, <3>3 DEF Others
    <3> QED
      BY <1>1, <3>4
  <2> QED
    BY <1>2, <2>1, <2>2, OwnerIs DEF OwnerIsTheOne
<1>12. ASSUME NEW j \in Cycles \ {k} PROVE (OwnersOf(j))' = OwnersOf(j)
  <2>1. e \notin OwnersOf(j) /\ e \notin (OwnersOf(j))'
    BY <1>0, <1>1, <1>7 DEF OwnersOf, Bound
  <2>2. ASSUME NEW f \in Cycles \ {e} PROVE f \in (OwnersOf(j))' <=> f \in OwnersOf(j)
    <3>1. CASE cycle[f].link = r
      BY <1>0, <1>1, <1>4, <3>1 DEF OwnersOf
    <3>2. CASE cycle[f].link # r
      BY <1>1, <1>5, <3>2 DEF OwnersOf, Bound
    <3> QED
      BY <3>1, <3>2
  <2>3. OwnersOf(j) \subseteq Cycles /\ (OwnersOf(j))' \subseteq Cycles
    BY DEF OwnersOf
  <2> QED
    BY <2>1, <2>2, <2>3
<1>13. Owner' = [Owner EXCEPT ![k] = e]
  <2> DEFINE F(j) == OwnerIn(OwnersOf(j))
             G(j) == OwnerIn((OwnersOf(j))')
  <2>1. Owner = [j \in Cycles |-> F(j)] /\ Owner' = [j \in Cycles |-> G(j)]
    BY OwnerFunction
  <2>2. \A j \in Cycles \ {k} : G(j) = F(j)
    BY <1>12
  <2> HIDE DEF F, G
  <2>3. G(k) = e
    BY <2>1, <1>2, <1>10
  <2>4. [j \in Cycles |-> G(j)] = [[j \in Cycles |-> F(j)] EXCEPT ![k] = e]
    BY <1>2, <2>2, <2>3
  <2> QED
    BY <2>1, <2>4, Zenon
<1> QED
  BY <1>2, <1>3, <1>11, <1>13 DEF Promise!Own

LEMMA PromiseInit == Init => Promise!Init
<1> SUFFICES ASSUME Init PROVE Promise!Init
  OBVIOUS
<1>1. \A r \in Rows : ~Used(r)
  BY DEF Init, NoRecord, Used
<1>2. \A e \in Cycles : ~Bound(e)
  BY DEF Init, NoCycle, Bound
<1>3. Made = {}
  BY <1>1 DEF Made
<1>4. Owner = [k \in Cycles |-> 0]
  BY <1>2 DEF Owner, OwnersOf
<1> QED
  BY <1>3, <1>4 DEF Promise!Init, Promise!Cycles, Cycles

LEMMA PromiseStep ==
  BindingInv /\ BindingInv' /\ [Next]_vars => [Promise!Next]_<<Made, Owner>>
<1> SUFFICES ASSUME BindingInv, BindingInv', [Next]_vars
             PROVE  Promise!Next \/ UNCHANGED <<Made, Owner>>
  OBVIOUS
<1>1. Promise!Cycles = Cycles
  BY DEF Promise!Cycles, Cycles
<1>2. CASE OwnersKept
  BY <1>2, KeptIsStutter
<1>3. ASSUME NEW e \in Cycles, NEW r \in Rows, Makes(e, r) PROVE Promise!Next
  BY <1>1, <1>3, MakesIsMake DEF Promise!Next
<1>4. ASSUME NEW e \in Cycles, NEW r \in Rows, Takes(e, r) PROVE Promise!Next
  BY <1>1, <1>4, TakesIsOwn DEF Promise!Next
<1>5. CASE UNCHANGED vars
  BY <1>2, <1>5, UnchangedKept, CyclesKeepOwners DEF vars
<1> QED
  BY <1>2, <1>3, <1>4, <1>5, LocalOwners, WriteOwners, EnvironmentOwners DEF Next

-----------------------------------------------------------------------------
(* What every behaviour of the writer keeps.                               *)

\* BindingInv holds in every reachable state: what claim_external_create,
\* reserve_external_post and bind_external_record find under the execution
\* lock, after any crash and any late POST.
THEOREM BindingSafe == Spec => []BindingInv
<1>1. BindingInv /\ UNCHANGED vars => BindingInv'
  BY NextInv
<1> QED
  BY InitInv, NextInv, <1>1, PTL DEF Spec

\* The types of the local cycles, the rows, the writer's program counter and
\* the effect markers, in every reachable state.
THEOREM TypeCorrect == Spec => []TypeOK
<1>1. BindingInv => TypeOK
  BY DEF BindingInv, TypeInv
<1> QED
  BY <1>1, BindingSafe, PTL

\* EventBinding's invariant: one remote row per local cycle for ever, whatever
\* create_event's calls answer and wherever the process dies; a row reused by
\* bind_external_record owes nothing to the cycles it was taken from; and a
\* reservation is durable before the POST leaves.
THEOREM RowsSafe == Spec => []RowsAreAccountedFor
<1>1. BindingInv => EvidenceComesFirst
  BY DEF BindingInv, HandlerKnows, Durable, RowsKnown, EvidenceComesFirst
<1>2. BindingInv => RowsAreAccountedFor
  BY <1>1 DEF BindingInv, TypeInv, Durable, RowsAreAccountedFor
<1> QED
  BY <1>2, BindingSafe, PTL

\* Who writes a recovery into a row: only the MARK of a cycle that is bound
\* to it and that nobody superseded.
LEMMA RecoveryWriters ==
  ASSUME BindingInv, Next, NEW r \in Rows, NEW e \in Cycles,
         rows'[r].recovered = e, rows[r].recovered # e
  PROVE  cycle[e].link = r /\ ~cycle[e].superseded
<1>1. TypeInv /\ rows \in [Rows -> Row]
  BY TypesOf DEF BindingInv
<1>2. ASSUME NEW k \in Cycles, NEW s \in Rows, Stored(k, s) PROVE FALSE
  BY <1>1, <1>2, StoredRow DEF Cycles
<1>3. CASE Put
  <2>1. r = pc.row /\ e = pc.e
    BY <1>1, <1>3, PutStep
  <2> QED
    BY <1>3, <2>1 DEF Put, At, BindingInv, HandlerKnows
<1>4. CASE Reuse
  <2>1. rows'[r].recovered = 0
    BY <1>1, <1>4, ReuseStep
  <2> QED
    BY <2>1 DEF Cycles
<1>5. CASE Posted \/ PostFails
  <2>1. pc.e \in Cycles
    BY <1>1, <1>5 DEF Posted, PostFails, At, TypeInv, HandlerCarriesTask
  <2>2. (\E s \in Rows : Stored(pc.e, s)) \/ UNCHANGED rows
    BY <1>5 DEF Posted, PostFails
  <2> QED
    BY <1>2, <2>1, <2>2
<1>6. CASE Environment
  <2>1. ASSUME NEW s \in Rows, PersonEdits(s) PROVE FALSE
    BY <1>1, <2>1, PersonEditsStep
  <2>2. ASSUME NEW k \in Cycles, Lands(k) PROVE FALSE
    BY <1>2, <2>2 DEF Lands
  <2>3. ASSUME NEW k \in Cycles, LeaseExpires(k) PROVE FALSE
    BY <2>3 DEF LeaseExpires
  <2>4. ~Crash
    BY DEF Crash
  <2> QED
    BY <1>6, <2>1, <2>2, <2>3, <2>4 DEF Environment
<1>7. ~UNCHANGED rows
  OBVIOUS
<1>8. ASSUME NEW k \in Cycles, Local(k) PROVE FALSE
  BY <1>7, <1>8, LocalOwners
<1>9. Write => Put \/ Reuse \/ Posted \/ PostFails
  BY <1>7 DEF Write, BeginCreate, BeginEffect, Resolve, Lookup, Reserve, LookupAgain,
     RecordOutcome, Bind, Patch, MarkMissing, Prove, Clear, Finish
<1> QED
  BY <1>3, <1>4, <1>5, <1>6, <1>8, <1>9 DEF Next

\* No MARK_ALARM_RECOVERED writes the recovery of a cycle to a row that
\* bind_external_record has handed to a later one, however late it comes.
THEOREM NoOlderRecoverySafe == Spec => NoOlderRecoveryWritten
<1> DEFINE Older == \A r \in Rows, e, f \in Cycles :
      rows'[r].recovered = e /\ rows[r].recovered # e /\ cycle[f].link = r => f <= e
<1>1. BindingInv /\ [Next]_vars => [Older]_vars
  <2> SUFFICES ASSUME BindingInv, Next, NEW r \in Rows, NEW e \in Cycles, NEW f \in Cycles,
                      rows'[r].recovered = e, rows[r].recovered # e, cycle[f].link = r
               PROVE  f <= e
    BY DEF Older
  <2>1. cycle[e].link = r /\ ~cycle[e].superseded
    BY RecoveryWriters
  <2>2. Bound(e)
    BY <2>1, NoRowAssumption DEF Bound
  <2>3. ~(e < f)
    BY <2>1, <2>2 DEF BindingInv, Durable, SharedRowHasOneOwner
  <2> QED
    BY <2>3 DEF Cycles
<1> QED
  BY <1>1, BindingSafe, PTL DEF Spec, NoOlderRecoveryWritten

\* The writer and its reconciliation implement BindingPromise: a step of
\* theirs stores the one row of a cycle, or hands a row to a later cycle, or
\* changes neither.
THEOREM BindingPromiseKept == Spec => KeepsBindingPromise
  BY PromiseInit, PromiseStep, BindingSafe, PTL DEF Spec, KeepsBindingPromise, Promise!Spec

=============================================================================
