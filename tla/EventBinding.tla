---------------------------- MODULE EventBinding ----------------------------
(***************************************************************************)
(* How one device's local alarm cycles are projected to rows of the remote *)
(* Feishu event table: integrations/feishu_writers.py (the writer), with   *)
(* repositories/environment_events.py (its durable evidence) and the       *)
(* reconciliation of application/monitor_service.py and                    *)
(* runtime/shadow_runner.py.                                               *)
(*                                                                         *)
(* Handlers hold the execution lock, so one runs at a time (pc); what      *)
(* interleaves with its remote calls and its SQLite transactions are       *)
(* people editing the table, POSTs the server applies late, the scanner    *)
(* and crashes.  Cycles are numbered in the order they open.  Snapshots,   *)
(* owners and areas are left out; so are the Active-mode gates of          *)
(* ActionExecutor, except the standards/scope gate that decides whether    *)
(* the local transaction projects anything.                                *)
(***************************************************************************)
EXTENDS Naturals, FiniteSets

CONSTANTS
    NCycles,      \* alarm cycles of the device
    Rows,         \* identities the remote table can give to its rows
    NoRow,
    Gates,        \* values _active_event_writes_enabled may return
    MaxCrashes,   \* bound: process crashes
    MaxFaults     \* bound: remote calls that fail (an outage ends)

Cycles == 1..NCycles

ASSUME NCyclesAssumption == NCycles \in Nat
ASSUME NoRowAssumption == NoRow \notin Rows
ASSUME GatesAssumption == Gates \subseteq BOOLEAN
ASSUME BoundsAssumption == MaxCrashes \in Nat /\ MaxFaults \in Nat

VARIABLES
    cycle,     \* environment_events, one row per cycle
    effects,   \* per cycle, the effect keys whose marker is SUCCEEDED
    task,      \* per cycle, the unfinished RECONCILE_ALARM_EVENT and who armed it
    alarm,     \* the cycle the alarm state points at, 0 if none
    rows,      \* the remote table
    wire,      \* cycles with a POST the server will apply later
    pc,        \* the handler holding the execution lock
    crashes, faults

vars == <<cycle, effects, task, alarm, rows, wire, pc, crashes, faults>>

CreateStates ==
    {"NEW", "IN_FLIGHT", "RETRYABLE", "UNKNOWN", "NOT_RETRYABLE", "SUCCEEDED"}

Cycle == [status : {"NONE", "OPEN", "CLOSED"}, link : Rows \cup {NoRow},
          create : CreateStates, pending : BOOLEAN, lease : BOOLEAN,
          recovery : BOOLEAN, update : BOOLEAN,
          missing : BOOLEAN, superseded : BOOLEAN]

Origins == {"none", "sample", "scan"}

Row == [state : {"absent", "open", "resolved", "deleted"},
        key : Cycles \cup {0}, recovered : Cycles \cup {0}]

Labels == {"idle", "begin", "resolve", "lookup", "reuse", "reserve", "post",
           "again", "outcome", "bind", "patch", "put", "missing", "prove",
           "clear", "finish"}

Handler == [at : Labels, e : Cycles \cup {0}, act : {"CREATE", "UPDATE", "MARK"},
            then : BOOLEAN, inline : BOOLEAN, ok : BOOLEAN,
            row : Rows \cup {NoRow}, outcome : CreateStates]

NoCycle == [status |-> "NONE", link |-> NoRow, create |-> "NEW",
            pending |-> FALSE, lease |-> FALSE, recovery |-> FALSE,
            update |-> FALSE, missing |-> FALSE, superseded |-> FALSE]

NoRecord == [state |-> "absent", key |-> 0, recovered |-> 0]

Idle == [at |-> "idle", e |-> 0, act |-> "CREATE", then |-> FALSE,
         inline |-> FALSE, ok |-> TRUE, row |-> NoRow, outcome |-> "NEW"]

\* A handler about to run action act for cycle e; then: MARK follows it.
Begin(e, act, then, inline) ==
    [Idle EXCEPT !.at = "begin", !.e = e, !.act = act, !.then = then,
                 !.inline = inline]

-----------------------------------------------------------------------------
(* What the code reads.                                                    *)

Bound(e) == cycle[e].link # NoRow

Attempted(e) == cycle[e].create # "NEW"

Visible(r) == rows[r].state \in {"open", "resolved"}

Keyed(e) == {r \in Rows : Visible(r) /\ rows[r].key = e}

Unresolved == {r \in Rows : rows[r].state = "open"}

Latest == CHOOSE r \in Unresolved :
              \A s \in Unresolved : rows[s].key <= rows[r].key

Absent == {r \in Rows : rows[r].state = "absent"}

\* list_pending_external_bindings
Listed(e) ==
    /\ cycle[e].status # "NONE"
    /\ ~cycle[e].missing
    /\ \/ cycle[e].pending /\ ~Bound(e)
       \/ cycle[e].recovery
       \/ cycle[e].update

\* external_effect_key: the recovery key is the cycle and its recovery
\* instant; an UPDATE key hashes the snapshot and the payload of whoever
\* armed the task, so an inline UPDATE's key is met once only.
Keys == IF pc.act = "MARK" THEN {"recover"}
        ELSE IF pc.inline THEN {} ELSE {task[pc.e]}

Proven == Keys # {} /\ Keys \subseteq effects[pc.e]

\* create_or_get_unfinished for a new sample: an unfinished task is kept, a
\* new one carries the sample's time and so a new UPDATE key.
ArmForSample(e) ==
    IF task[e] = "none"
    THEN /\ task' = [task EXCEPT ![e] = "sample"]
         /\ effects' = [effects EXCEPT ![e] = @ \ {"sample"}]
    ELSE UNCHANGED <<task, effects>>

Others(e, r) == {f \in Cycles \ {e} : cycle[f].link = r}

\* Bug: the row of a cycle that opened later may be taken over too.
MayTakeOverClosed(e, f) == cycle[f].status = "CLOSED"

\* Bug: binding without looking at the other cycles.
MayTakeOverAny(e, f) == TRUE

\* bind_external_record refuses a row of another cycle unless that cycle is
\* closed and older.
MayTakeOver(e, f) == cycle[f].status = "CLOSED" /\ f < e

-----------------------------------------------------------------------------
Init ==
    /\ cycle = [e \in Cycles |-> NoCycle]
    /\ effects = [e \in Cycles |-> {}]
    /\ task = [e \in Cycles |-> "none"]
    /\ alarm = 0
    /\ rows = [r \in Rows |-> NoRecord]
    /\ wire = {}
    /\ pc = Idle
    /\ crashes = 0
    /\ faults = 0

(* The local transaction of a sample, then the lock is kept for the inline *)
(* action.  With the gate closed the action is only PLANNED.               *)

OpenCycle(e) ==
    /\ pc.at = "idle"
    /\ alarm = 0
    /\ cycle[e].status = "NONE"
    /\ \A f \in Cycles : f < e => cycle[f].status # "NONE"
    /\ alarm' = e
    /\ \E gate \in Gates :
        /\ cycle' = [cycle EXCEPT ![e] =
                        [NoCycle EXCEPT !.status = "OPEN", !.pending = gate]]
        /\ IF gate
           THEN ArmForSample(e) /\ pc' = Begin(e, "CREATE", FALSE, TRUE)
           ELSE UNCHANGED <<task, effects, pc>>
    /\ UNCHANGED <<rows, wire, crashes, faults>>

StillViolating(e) ==
    /\ pc.at = "idle"
    /\ alarm = e
    /\ TRUE \in Gates
    /\ ArmForSample(e)
    /\ pc' = Begin(e, "UPDATE", FALSE, TRUE)
    /\ UNCHANGED <<cycle, alarm, rows, wire, crashes, faults>>

RecoverCycle(e) ==
    /\ pc.at = "idle"
    /\ alarm = e
    /\ alarm' = 0
    /\ \E gate \in Gates :
        /\ cycle' = [cycle EXCEPT ![e].status = "CLOSED",
                                  ![e].recovery = @ \/ gate]
        /\ IF gate
           THEN ArmForSample(e) /\ pc' = Begin(e, "MARK", FALSE, TRUE)
           ELSE UNCHANGED <<task, effects, pc>>
    /\ UNCHANGED <<rows, wire, crashes, faults>>

-----------------------------------------------------------------------------
(* Reconciliation.                                                         *)

Scan(e) ==
    /\ TRUE \in Gates
    /\ Listed(e)
    /\ task[e] = "none"
    /\ task' = [task EXCEPT ![e] = "scan"]
    /\ UNCHANGED <<cycle, effects, alarm, rows, wire, pc, crashes, faults>>

\* Bug: a recovered cycle needs no row any more.
NothingToDoOnceClosed(e) == cycle[e].status = "CLOSED"

\* Bug: a bound cycle is complete, whatever it still owes its row.
NothingToDoWhenBound(e) == Bound(e)

NothingToDo(e) == Bound(e) /\ ~cycle[e].recovery /\ ~cycle[e].update

\* CREATE while unbound, UPDATE otherwise; MARK follows a pending recovery
\* and stands alone when the bound row has no pending UPDATE.
Reconcile(e) ==
    LET marks == cycle[e].recovery
        act == IF ~Bound(e) THEN "CREATE"
               ELSE IF marks /\ ~cycle[e].update THEN "MARK" ELSE "UPDATE"
    IN  /\ pc.at = "idle"
        /\ task[e] # "none"
        /\ IF NothingToDo(e)
           THEN task' = [task EXCEPT ![e] = "none"] /\ UNCHANGED pc
           ELSE /\ pc' = Begin(e, act, marks /\ act # "MARK", FALSE)
                /\ UNCHANGED task
        /\ UNCHANGED <<cycle, effects, alarm, rows, wire, crashes, faults>>

-----------------------------------------------------------------------------
(* The writer, one step per remote call or transaction.                    *)

At(l) == pc.at = l

Goto(l) == pc' = [pc EXCEPT !.at = l]

GotoWith(l, r) == pc' = [pc EXCEPT !.at = l, !.row = r]

Raise == pc' = [pc EXCEPT !.at = "finish", !.ok = FALSE]

Fault == faults < MaxFaults /\ faults' = faults + 1

\* _claim_external_create, then create_event.
ClaimCreate ==
    IF cycle[pc.e].lease
    THEN Raise /\ UNCHANGED cycle
    ELSE /\ cycle' = [cycle EXCEPT ![pc.e].lease = TRUE]
         /\ Goto("lookup")

BeginCreate ==
    /\ At("begin")
    /\ pc.act = "CREATE"
    /\ IF Bound(pc.e) THEN Goto("finish") /\ UNCHANGED cycle ELSE ClaimCreate
    /\ UNCHANGED <<effects, task, alarm, rows, wire, crashes, faults>>

\* An inline UPDATE leaves an uncertain CREATE to reconciliation.
Uncertain == pc.act = "UPDATE" /\ pc.inline /\ ~Bound(pc.e) /\ Attempted(pc.e)

Detached == cycle[pc.e].missing \/ cycle[pc.e].superseded

BeginEffect ==
    /\ At("begin")
    /\ pc.act # "CREATE"
    /\ IF Uncertain THEN Raise /\ UNCHANGED effects
       ELSE IF Proven THEN Goto("finish") /\ UNCHANGED effects
       ELSE IF Detached
       THEN /\ effects' = [effects EXCEPT ![pc.e] = @ \cup Keys]
            /\ Goto("finish")
       ELSE /\ IF ~Bound(pc.e) THEN Goto("resolve")
               ELSE GotoWith(IF pc.act = "UPDATE" THEN "patch" ELSE "put",
                             cycle[pc.e].link)
            /\ UNCHANGED effects
    /\ UNCHANGED <<cycle, task, alarm, rows, wire, crashes, faults>>

\* _resolve_record_id for an unbound cycle: the exact business key, and for
\* an UPDATE without one the CREATE path.
Resolve ==
    /\ At("resolve")
    /\ \/ Fault /\ Raise /\ UNCHANGED cycle
       \/ /\ UNCHANGED faults
          /\ IF Cardinality(Keyed(pc.e)) > 1 THEN Raise /\ UNCHANGED cycle
             ELSE IF Keyed(pc.e) # {}
             THEN GotoWith("bind", CHOOSE r \in Keyed(pc.e) : TRUE) /\ UNCHANGED cycle
             ELSE IF pc.act = "UPDATE" THEN ClaimCreate
             ELSE Raise /\ UNCHANGED cycle
    /\ UNCHANGED <<effects, task, alarm, rows, wire, crashes>>

\* create_event up to its reservation: the exact key, else the latest row
\* nobody closed, else a new row.
Lookup ==
    /\ At("lookup")
    /\ \/ Fault /\ Raise
       \/ /\ UNCHANGED faults
          /\ IF Cardinality(Keyed(pc.e)) > 1 THEN Raise
             ELSE IF Keyed(pc.e) # {}
             THEN GotoWith("bind", CHOOSE r \in Keyed(pc.e) : TRUE)
             ELSE IF Unresolved = {} THEN Goto("reserve")
             ELSE IF Attempted(pc.e) THEN Raise
             ELSE GotoWith("reuse", Latest)
    /\ UNCHANGED <<cycle, effects, task, alarm, rows, wire, crashes>>

\* update_event(clear_recovery=True) on the row about to be reused.
Reuse ==
    LET cleared == [rows EXCEPT ![pc.row].recovered = 0]
    IN  /\ At("reuse")
        /\ \/ /\ Visible(pc.row) /\ rows' = cleared
              /\ Goto("bind") /\ UNCHANGED faults
           \/ /\ ~Visible(pc.row) /\ Raise /\ UNCHANGED <<rows, faults>>
           \/ /\ Visible(pc.row) /\ rows' \in {rows, cleared}
              /\ Fault /\ Raise
        /\ UNCHANGED <<cycle, effects, task, alarm, wire, crashes>>

\* Bug: only a definite refusal forbids another POST.
MayPostUnlessRefused(e) == ~Bound(e) /\ cycle[e].create # "NOT_RETRYABLE"

MayPost(e) == ~Bound(e) /\ cycle[e].create \in {"NEW", "RETRYABLE"}

\* reserve_external_post
Reserve ==
    /\ At("reserve")
    /\ IF MayPost(pc.e)
       THEN /\ cycle' = [cycle EXCEPT ![pc.e].create = "IN_FLIGHT"]
            /\ Goto("post")
       ELSE Raise /\ UNCHANGED cycle
    /\ UNCHANGED <<effects, task, alarm, rows, wire, crashes, faults>>

\* The server stores the row under the cycle's business key.
Stored(e, r) ==
    /\ r \in Absent
    /\ rows' = [rows EXCEPT ![r] = [state |-> "open", key |-> e, recovered |-> 0]]

Posted ==
    /\ At("post")
    /\ \E r \in Rows : Stored(pc.e, r) /\ GotoWith("bind", r)
    /\ UNCHANGED <<cycle, effects, task, alarm, wire, crashes, faults>>

\* _create_failure_outcome
Outcomes == {"UNKNOWN", "RETRYABLE", "NOT_RETRYABLE"}

\* The POST fails.  One whose outcome is UNKNOWN may have been stored, may be
\* stored later or never.
PostFails ==
    /\ At("post")
    /\ Fault
    /\ \E outcome \in Outcomes :
        /\ pc' = [pc EXCEPT !.at = "again", !.outcome = outcome]
        /\ \/ UNCHANGED <<rows, wire>>
           \/ /\ outcome = "UNKNOWN"
              /\ \E r \in Rows : Stored(pc.e, r)
              /\ UNCHANGED wire
           \/ /\ outcome = "UNKNOWN"
              /\ wire' = wire \cup {pc.e}
              /\ UNCHANGED rows
    /\ UNCHANGED <<cycle, effects, task, alarm, crashes>>

\* The exact key again, before the failure is classified; a failing read
\* leaves the reservation IN_FLIGHT.
LookupAgain ==
    /\ At("again")
    /\ \/ Fault /\ Raise
       \/ /\ UNCHANGED faults
          /\ IF Cardinality(Keyed(pc.e)) > 1 THEN Raise
             ELSE IF Keyed(pc.e) # {}
             THEN GotoWith("bind", CHOOSE r \in Keyed(pc.e) : TRUE)
             ELSE Goto("outcome")
    /\ UNCHANGED <<cycle, effects, task, alarm, rows, wire, crashes>>

\* mark_external_create_outcome
RecordOutcome ==
    /\ At("outcome")
    /\ cycle' = [cycle EXCEPT ![pc.e].create = pc.outcome, ![pc.e].lease = FALSE]
    /\ Raise
    /\ UNCHANGED <<effects, task, alarm, rows, wire, crashes, faults>>

\* bind_external_record: the row's earlier cycles are superseded, and a
\* cycle that closed while unbound still owes its recovery.
Bind ==
    LET e == pc.e
        others == Others(e, pc.row)
    IN  /\ At("bind")
        /\ IF /\ cycle[e].link \in {NoRow, pc.row}
              /\ \A f \in others : MayTakeOver(e, f)
           THEN /\ cycle' = [f \in Cycles |->
                     IF f = e
                     THEN [cycle[e] EXCEPT
                             !.link = pc.row, !.create = "SUCCEEDED",
                             !.pending = FALSE, !.lease = FALSE,
                             !.recovery = @ \/ cycle[e].status = "CLOSED"]
                     ELSE IF f \in others
                     THEN [cycle[f] EXCEPT !.superseded = TRUE,
                             !.recovery = FALSE, !.update = FALSE]
                     ELSE cycle[f]]
                /\ Goto(CASE pc.act = "CREATE" -> "finish"
                          [] pc.act = "UPDATE" -> "patch"
                          [] pc.act = "MARK" -> "put")
           ELSE Raise /\ UNCHANGED cycle
        /\ UNCHANGED <<effects, task, alarm, rows, wire, crashes, faults>>

\* patch_external_projection(feishu_update_pending=True, snapshot): a new
\* snapshot changes the keys of later replays.
Patch ==
    /\ At("patch")
    /\ cycle' = [cycle EXCEPT ![pc.e].update = TRUE]
    /\ effects' = IF pc.inline
                  THEN [effects EXCEPT ![pc.e] = @ \ {"sample", "scan"}]
                  ELSE effects
    /\ Goto("put")
    /\ UNCHANGED <<task, alarm, rows, wire, crashes, faults>>

\* update_event or recover_event on the linked row.
Put ==
    LET written == IF pc.act = "MARK"
                   THEN [rows EXCEPT ![pc.row].recovered = pc.e] ELSE rows
    IN  /\ At("put")
        /\ \/ /\ Visible(pc.row) /\ rows' = written
              /\ Goto("prove") /\ UNCHANGED faults
           \/ /\ ~Visible(pc.row)
              /\ Goto("missing") /\ UNCHANGED <<rows, faults>>
           \/ /\ Visible(pc.row) /\ rows' \in {rows, written}
              /\ Fault /\ Raise
        /\ UNCHANGED <<cycle, effects, task, alarm, wire, crashes>>

\* mark_external_record_missing closes the local event, then the marker of
\* this call is SUCCEEDED (a missing cycle is never asked for it again).
MarkMissing ==
    /\ At("missing")
    /\ cycle' = [cycle EXCEPT ![pc.e].status = "CLOSED", ![pc.e].missing = TRUE,
                              ![pc.e].pending = FALSE, ![pc.e].recovery = FALSE,
                              ![pc.e].update = FALSE]
    /\ effects' = [effects EXCEPT ![pc.e] = @ \cup Keys]
    /\ Goto("finish")
    /\ UNCHANGED <<task, alarm, rows, wire, crashes, faults>>

\* mark_external_effect_succeeded
Prove ==
    /\ At("prove")
    /\ effects' = [effects EXCEPT ![pc.e] = @ \cup Keys]
    /\ Goto("clear")
    /\ UNCHANGED <<cycle, task, alarm, rows, wire, crashes, faults>>

\* patch_external_projection(feishu_update_pending=False) or (..recovery..)
Clear ==
    /\ At("clear")
    /\ cycle' = IF pc.act = "MARK"
                THEN [cycle EXCEPT ![pc.e].recovery = FALSE]
                ELSE [cycle EXCEPT ![pc.e].update = FALSE]
    /\ Goto("finish")
    /\ UNCHANGED <<effects, task, alarm, rows, wire, crashes, faults>>

\* The executor goes on to a MARK that follows, whatever became of the
\* first action; then the task is finished if every action succeeded, and
\* otherwise stays armed for a retry.
Finish ==
    /\ At("finish")
    /\ IF pc.then
       THEN /\ pc' = [Begin(pc.e, "MARK", FALSE, pc.inline) EXCEPT !.ok = pc.ok]
            /\ UNCHANGED task
       ELSE /\ pc' = Idle
            /\ task' = [task EXCEPT ![pc.e] = IF pc.ok THEN "none" ELSE @]
    /\ UNCHANGED <<cycle, effects, alarm, rows, wire, crashes, faults>>

Write ==
    \/ BeginCreate \/ BeginEffect \/ Resolve \/ Lookup \/ Reuse \/ Reserve
    \/ Posted \/ PostFails \/ LookupAgain \/ RecordOutcome \/ Bind \/ Patch
    \/ Put \/ MarkMissing \/ Prove \/ Clear \/ Finish

-----------------------------------------------------------------------------
(* The rest of the world.                                                  *)

\* The lease of a claim whose handler gave up or died runs out.
LeaseExpires(e) ==
    /\ pc.at = "idle"
    /\ cycle[e].lease
    /\ cycle' = [cycle EXCEPT ![e].lease = FALSE]
    /\ UNCHANGED <<effects, task, alarm, rows, wire, pc, crashes, faults>>

Lands(e) ==
    /\ e \in wire
    /\ \E r \in Rows : Stored(e, r)
    /\ wire' = wire \ {e}
    /\ UNCHANGED <<cycle, effects, task, alarm, pc, crashes, faults>>

\* A person closes the event in the table, reopens it, or deletes its row.
PersonEdits(r) ==
    /\ \/ rows[r].state = "open" /\ rows' = [rows EXCEPT ![r].state = "resolved"]
       \/ rows[r].state = "resolved" /\ rows' = [rows EXCEPT ![r].state = "open"]
       \/ Visible(r) /\ rows' = [rows EXCEPT ![r].state = "deleted"]
    /\ UNCHANGED <<cycle, effects, task, alarm, wire, pc, crashes, faults>>

Crash ==
    /\ pc.at # "idle"
    /\ crashes < MaxCrashes
    /\ crashes' = crashes + 1
    /\ pc' = Idle
    /\ UNCHANGED <<cycle, effects, task, alarm, rows, wire, faults>>

Environment ==
    \/ \E e \in Cycles : LeaseExpires(e) \/ Lands(e)
    \/ \E r \in Rows : PersonEdits(r)
    \/ Crash

Local(e) == OpenCycle(e) \/ StillViolating(e) \/ RecoverCycle(e) \/ Scan(e)
            \/ Reconcile(e)

Next == (\E e \in Cycles : Local(e)) \/ Write \/ Environment

Spec == Init /\ [][Next]_vars

\* A handler runs on to its end; the scanner and the scheduler keep ticking.
\* The execution lock is free between two samples, so a due task that finds
\* it taken gets it in the end: strong fairness of Reconcile.
Fairness ==
    /\ WF_vars(Write)
    /\ \A e \in Cycles : /\ WF_vars(Scan(e))
                         /\ SF_vars(Reconcile(e))
                         /\ SF_vars(LeaseExpires(e))
                         /\ WF_vars(Lands(e))

FairSpec == Spec /\ Fairness
-----------------------------------------------------------------------------
(* Properties.                                                             *)

\* The shape of every variable: the durable payload of a cycle, the remote
\* rows, and the one handler that holds the execution lock.
TypeOK ==
    /\ cycle \in [Cycles -> Cycle]
    /\ effects \in [Cycles -> SUBSET {"recover", "sample", "scan"}]
    /\ task \in [Cycles -> Origins]
    /\ alarm \in Cycles \cup {0}
    /\ rows \in [Rows -> Row]
    /\ wire \subseteq Cycles
    /\ pc \in Handler
    /\ crashes \in Nat
    /\ faults \in Nat

Used(r) == rows[r].state # "absent"

\* The remote table never holds, nor ever held, two rows of one cycle: no
\* lost response, late POST, crash between the POST and its binding or
\* deletion by hand makes reserve_external_post allow a second one.
OneRowPerCycle ==
    \A r, s \in Rows : Used(r) /\ Used(s) /\ rows[r].key = rows[s].key => r = s

\* When cycles share a row, every one but the newest is closed, superseded
\* and owes the row nothing: bind_external_record hands the row over whole.
SharedRowHasOneOwner ==
    \A e, f \in Cycles :
        e < f /\ Bound(e) /\ cycle[e].link = cycle[f].link =>
            /\ cycle[e].superseded
            /\ cycle[e].status = "CLOSED"
            /\ ~cycle[e].recovery
            /\ ~cycle[e].update

\* No step writes the recovery of a cycle to a row a later cycle is bound to:
\* a delayed MARK_ALARM_RECOVERED finds its cycle superseded, even when the
\* take-over happened between two of its attempts.
NoOlderRecoveryWritten ==
    [][\A r \in Rows, e, f \in Cycles :
        rows'[r].recovered = e /\ rows[r].recovered # e /\ cycle[f].link = r
            => f <= e]_vars

\* While a POST of a cycle is under way, or its row exists, the local event
\* says so: the reservation is durable before the request leaves.
EvidenceComesFirst ==
    /\ pc.at = "post" => cycle[pc.e].create = "IN_FLIGHT"
    /\ \A e \in wire : cycle[e].create \notin {"NEW", "RETRYABLE"}
    /\ \A r \in Rows : Used(r) => cycle[rows[r].key].create \notin {"NEW", "RETRYABLE"}

\* Every row is accounted for by the cycle it belongs to.
RowsAreAccountedFor ==
    /\ TypeOK
    /\ OneRowPerCycle
    /\ SharedRowHasOneOwner
    /\ EvidenceComesFirst

\* The rows ever stored, each with the cycle its key names, and for each key
\* the cycle its row is projected from: the bound one nobody superseded.
Made == {<<r, rows[r].key>> : r \in {s \in Rows : Used(s)}}

OwnersOf(k) == {e \in Cycles : Bound(e) /\ ~cycle[e].superseded
                                        /\ rows[cycle[e].link].key = k}

Owner == [k \in Cycles |->
            IF OwnersOf(k) = {} THEN 0 ELSE CHOOSE e \in OwnersOf(k) : TRUE]

Promise == INSTANCE BindingPromise WITH made <- Made, owner <- Owner

\* The writer and its reconciliation implement BindingPromise: one row per
\* cycle, and a row's owner only moves to a later cycle.
KeepsBindingPromise == Promise!Spec

\* A cycle whose own row is visible, not yet bound to it, and not reused by
\* a later cycle.
Stranded(e) ==
    /\ ~Bound(e)
    /\ Keyed(e) # {}
    /\ \A r \in Keyed(e) : Others(e, r) = {}

\* A row that was stored although its response was lost, its binding crashed
\* or its POST came late is found again and bound, once calls succeed.
StrandedIsBound == \A e \in Cycles : Stranded(e) ~> ~Stranded(e)

\* A recovery the local event owes a bound, visible row, and that no effect
\* marker says was written, reaches the row (or the row goes away, or a later
\* cycle takes it over).
OwesRecovery(e) ==
    /\ cycle[e].recovery
    /\ "recover" \notin effects[e]
    /\ Bound(e)
    /\ Visible(cycle[e].link)
    /\ rows[cycle[e].link].recovered # e

RecoveryLands == \A e \in Cycles : OwesRecovery(e) ~> ~OwesRecovery(e)

=============================================================================
