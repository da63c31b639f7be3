----------------------------- MODULE Projection -----------------------------
(***************************************************************************)
(* From POST /temperature to the alarm runtime, for one device: the sample *)
(* is stored, its Feishu row is updated and only then is it handed to the  *)
(* runtime (services/projection.py, services/devices.py, the projection    *)
(* part of services/db.py and routes/temperature.py).                      *)
(*                                                                         *)
(* Several HTTP threads and the one scheduler thread share the device's    *)
(* row of sample_projection_state without any lock: every helper of        *)
(* services/db.py is a transaction of its own, and every change of status  *)
(* reads the row in one transaction and writes it in a later one.          *)
(*                                                                         *)
(* A sample is named by its millisecond time stamp; temperatures are left  *)
(* out.  Whether a report repeats the content of the previous one, and     *)
(* whether the inline suppression window has passed, are free choices.     *)
(***************************************************************************)
EXTENDS Naturals, Sequences, Functions, FiniteSetsExt

CONSTANTS
    Requests,     \* HTTP threads
    Scheduler,    \* the scheduler thread
    InlineModes,  \* values FEISHU_PROJECTION_INLINE_ENABLED may have
    MaxRetries,   \* FEISHU_PROJECTION_MAX_RETRIES
    MaxSamples,   \* bound: reports received
    MaxCrashes,   \* bound: process crashes
    MaxFaults     \* bound: remote calls, inserts and dispatches that fail

Processes == Requests \cup {Scheduler}
Times == 1..MaxSamples

ASSUME SchedulerAssumption == Scheduler \notin Requests
ASSUME InlineAssumption == InlineModes \subseteq BOOLEAN
ASSUME RetriesAssumption == MaxRetries \in Nat \ {0}
ASSUME BoundsAssumption ==
    MaxSamples \in Nat /\ MaxCrashes \in Nat /\ MaxFaults \in Nat

VARIABLES
    inline,    \* the HTTP threads write to Feishu as well
    clock,     \* time stamps handed out
    stored,    \* device_samples, in the order of their insertion
    row,       \* the device's row of sample_projection_state
    task,      \* an unfinished FEISHU_PROJECTION task exists
    remote,    \* the sample the Feishu row shows; Deleted after its deletion
    tombstone, \* the client knows that the Feishu row is deleted
    proc,      \* what each thread is doing
    heard,     \* samples the runtime acknowledged, in order
    shown,     \* samples the Feishu row has shown
    tries,     \* failed scheduled attempts since the device became pending
    crashes, faults

vars == <<inline, clock, stored, row, task, remote, tombstone, proc, heard,
          shown, tries, crashes, faults>>

Deleted == MaxSamples + 1

Statuses == {"ok", "pending", "failed", "deleted"}
Verdict == [status : Statuses, retries : Nat,
            attempt : {"none", "recent", "old"}]
DeviceRow == [last : 0..MaxSamples, projected : 0..MaxSamples,
              dispatched : 0..MaxSamples, state : Verdict]

Labels == {"idle", "store", "note", "replay", "gate", "queue", "fetch", "put",
           "project", "succeeded", "failed", "gone", "write", "dispatch",
           "deliver", "mark", "scan"}
Thread == [at : Labels, s : 0..MaxSamples, new : BOOLEAN, kept : BOOLEAN,
           verdict : Verdict]

Fresh == [status |-> "ok", retries |-> 0, attempt |-> "none"]
Idle == [at |-> "idle", s |-> 0, new |-> FALSE, kept |-> FALSE,
         verdict |-> Fresh]

Init ==
    /\ inline \in InlineModes
    /\ clock = 0
    /\ stored = <<>>
    /\ row = [last |-> 0, projected |-> 0, dispatched |-> 0, state |-> Fresh]
    /\ task = FALSE
    /\ remote = 0
    /\ tombstone = FALSE
    /\ proc = [p \in Processes |-> Idle]
    /\ heard = <<>>
    /\ shown = {}
    /\ tries = 0
    /\ crashes = 0 /\ faults = 0

Goto(p, label) == proc' = [proc EXCEPT ![p].at = label]
Larger(a, b) == IF a < b THEN b ELSE a
NewestInserted == stored[Len(stored)]
Newest == Max(Range(stored))
Durable(p) == proc[p].kept \/ ~proc[p].new
Unprojected == row.last > row.projected

\* How long a device has been pending is history: an episode starts when it
\* becomes pending and ends when it no longer is.
Rewrite(v) ==
    /\ row' = [row EXCEPT !.state = v]
    /\ tries' = IF row.state.status = "pending" /\ v.status = "pending"
                THEN tries ELSE 0
------------------------------------------------------------------------------
(* The statuses each helper writes, from the row it read.                  *)

Requeued == [status |-> "pending", retries |-> 0, attempt |-> "none"]

\* mark_projection_queued: a device that is already pending, or deleted, is
\* left alone.
Queues(new) == \/ row.state.status = "ok"
               \/ row.state.status = "failed" /\ new /\ Unprojected

HasNewerNever(s) == FALSE

\* Success without a sample (0) compares with nothing.
HasNewer(s) == s # 0 /\ row.last > s

Succeeded(s) ==
    IF HasNewer(s) THEN Requeued ELSE [Fresh EXCEPT !.attempt = row.state.attempt]

InlineFailed(new) ==
    IF Queues(new)
    THEN [status |-> "pending", retries |-> 0, attempt |-> "recent"]
    ELSE [row.state EXCEPT !.attempt = "recent"]

RetryFailedEarly ==
    LET n == row.state.retries + 1
    IN [status |-> IF n + 1 >= MaxRetries THEN "failed" ELSE "pending",
        retries |-> n, attempt |-> "recent"]

RetryFailed ==
    LET n == row.state.retries + 1
    IN [status |-> IF n >= MaxRetries THEN "failed" ELSE "pending",
        retries |-> n, attempt |-> "recent"]

Gone == [row.state EXCEPT !.status = "deleted", !.attempt = "recent"]
------------------------------------------------------------------------------
(* POST /temperature, phase A: the local store.                            *)

\* The receipt time is read before the store's lock is taken.
Receive(p) ==
    /\ proc[p].at = "idle"
    /\ clock < MaxSamples
    /\ clock' = clock + 1
    /\ proc' = [proc EXCEPT ![p] = [Idle EXCEPT !.at = "store", !.s = clock + 1]]
    /\ UNCHANGED <<inline, stored, row, task, remote, tombstone, heard, shown,
                   tries, crashes, faults>>

Store(p) ==
    /\ proc[p].at = "store"
    /\ stored' = Append(stored, proc[p].s)
    /\ proc' = [proc EXCEPT ![p].at = "note", ![p].new = TRUE, ![p].kept = TRUE]
    /\ UNCHANGED <<inline, clock, row, task, remote, tombstone, heard, shown,
                   tries, crashes, faults>>

\* A repeat of the newest stored content takes that sample's identity; a
\* clock that stepped back is never a repeat.
Collapse(p) ==
    /\ proc[p].at = "store"
    /\ stored # <<>> /\ Newest < proc[p].s
    /\ proc' = [proc EXCEPT ![p].at = "note", ![p].s = Newest]
    /\ UNCHANGED <<inline, clock, stored, row, task, remote, tombstone, heard,
                   shown, tries, crashes, faults>>

\* save_device_sample swallows the error of a failed insert.
StoreFails(p) ==
    /\ proc[p].at = "store"
    /\ faults < MaxFaults
    /\ faults' = faults + 1
    /\ proc' = [proc EXCEPT ![p].at = "note", ![p].new = TRUE]
    /\ UNCHANGED <<inline, clock, stored, row, task, remote, tombstone, heard,
                   shown, tries, crashes>>

Note(p) ==
    /\ proc[p].at = "note"
    /\ row' = [row EXCEPT !.last = Larger(row.last, proc[p].s)]
    /\ Goto(p, IF proc[p].new THEN "gate" ELSE "replay")
    /\ UNCHANGED <<inline, clock, stored, task, remote, tombstone, heard,
                   shown, tries, crashes, faults>>

\* A repeated report that is already projected is answered at once.
Replay(p) ==
    /\ proc[p].at = "replay"
    /\ proc' = IF row.projected >= proc[p].s
               THEN [proc EXCEPT ![p] = Idle]
               ELSE [proc EXCEPT ![p].at = "gate"]
    /\ UNCHANGED <<inline, clock, stored, row, task, remote, tombstone, heard,
                   shown, tries, crashes, faults>>
------------------------------------------------------------------------------
(* Phase B: the projection, inline or left to the scheduler.               *)

Suppressible(p) ==
    /\ Durable(p)
    /\ \/ row.state.status = "deleted"
       \/ row.state.status \in {"pending", "failed"} /\ row.state.attempt # "none"

\* Only a stored sample is deferred; otherwise the answer is 502.
Defer(p) ==
    /\ proc[p].at = "gate"
    /\ inline => Suppressible(p)
    /\ proc' = IF Durable(p) THEN [proc EXCEPT ![p].at = "queue"]
                             ELSE [proc EXCEPT ![p] = Idle]
    /\ UNCHANGED <<inline, clock, stored, row, task, remote, tombstone, heard,
                   shown, tries, crashes, faults>>

Attempt(p) ==
    /\ proc[p].at = "gate"
    /\ inline
    /\ ~(Durable(p) /\ row.state.status = "deleted")
    /\ Goto(p, "put")
    /\ UNCHANGED <<inline, clock, stored, row, task, remote, tombstone, heard,
                   shown, tries, crashes, faults>>

Queue(p) ==
    /\ proc[p].at = "queue"
    /\ proc' = IF Queues(proc[p].new)
               THEN [proc EXCEPT ![p].at = "write", ![p].verdict = Requeued]
               ELSE [proc EXCEPT ![p] = Idle]
    /\ UNCHANGED <<inline, clock, stored, row, task, remote, tombstone, heard,
                   shown, tries, crashes, faults>>

\* update_feishu_fields, by either kind of thread.
Put(p) ==
    /\ proc[p].at = "put"
    /\ remote # Deleted
    /\ remote' = proc[p].s
    /\ shown' = shown \cup {proc[p].s}
    /\ Goto(p, "project")
    /\ UNCHANGED <<inline, clock, stored, row, task, tombstone, heard, tries,
                   crashes, faults>>

\* A call that times out may still have been applied.
PutFails(p) ==
    /\ proc[p].at = "put"
    /\ faults < MaxFaults
    /\ faults' = faults + 1
    /\ \/ remote # Deleted /\ remote' = proc[p].s /\ shown' = shown \cup {proc[p].s}
       \/ UNCHANGED <<remote, shown>>
    /\ Goto(p, "failed")
    /\ tries' = IF p = Scheduler THEN tries + 1 ELSE tries
    /\ UNCHANGED <<inline, clock, stored, row, task, tombstone, heard,
                   crashes>>

\* Feishu answers 1254043: the tombstone marks the device's row as well.
\* With the tombstone in place the call is refused without being sent.
PutRefused(p) ==
    /\ proc[p].at = "put"
    /\ remote = Deleted
    /\ tombstone' = TRUE
    /\ IF tombstone THEN UNCHANGED <<row, tries>> ELSE Rewrite(Gone)
    /\ Goto(p, IF p = Scheduler THEN "gone" ELSE "failed")
    /\ UNCHANGED <<inline, clock, stored, task, remote, heard, shown, crashes,
                   faults>>

\* mark_projection_success: the watermark first, then the status.
Project(p) ==
    /\ proc[p].at = "project"
    /\ row' = [row EXCEPT !.projected = Larger(row.projected, proc[p].s)]
    /\ Goto(p, "succeeded")
    /\ UNCHANGED <<inline, clock, stored, task, remote, tombstone, heard,
                   shown, tries, crashes, faults>>

Succeed(p) ==
    /\ proc[p].at = "succeeded"
    /\ proc' = [proc EXCEPT ![p].at = "write", ![p].verdict = Succeeded(proc[p].s)]
    /\ UNCHANGED <<inline, clock, stored, row, task, remote, tombstone, heard,
                   shown, tries, crashes, faults>>

\* mark_projection_failure for a stored sample; a lost one is answered 502.
FailInline(p) ==
    /\ p # Scheduler
    /\ proc[p].at = "failed"
    /\ proc' = IF Durable(p) /\ row.state.status # "deleted"
               THEN [proc EXCEPT ![p].at = "write",
                                 ![p].verdict = InlineFailed(proc[p].new)]
               ELSE [proc EXCEPT ![p] = Idle]
    /\ UNCHANGED <<inline, clock, stored, row, task, remote, tombstone, heard,
                   shown, tries, crashes, faults>>

Answer(p) ==
    /\ p # Scheduler
    /\ proc[p].at = "write"
    /\ Rewrite(proc[p].verdict)
    /\ proc' = [proc EXCEPT ![p] = Idle]
    /\ UNCHANGED <<inline, clock, stored, task, remote, tombstone, heard,
                   shown, crashes, faults>>
------------------------------------------------------------------------------
(* The scheduler's tick: at most one task, then the dispatch of what is    *)
(* projected, then the scan for retries that are due.                      *)

At(label) == proc[Scheduler].at = label

\* retry_device_projection skips a device that is no longer pending.
Claim ==
    /\ At("idle")
    /\ Goto(Scheduler, IF task /\ row.state.status = "pending" THEN "fetch"
                                                               ELSE "dispatch")
    /\ task' = (task /\ row.state.status = "pending")
    /\ UNCHANGED <<inline, clock, stored, row, remote, tombstone, heard, shown,
                   tries, crashes, faults>>

\* The newest stored sample; a pending device without one is done.
Fetch ==
    /\ At("fetch")
    /\ proc' = IF stored = <<>>
               THEN [proc EXCEPT ![Scheduler].at = "succeeded"]
               ELSE [proc EXCEPT ![Scheduler].at = "put", ![Scheduler].s = Newest]
    /\ UNCHANGED <<inline, clock, stored, row, task, remote, tombstone, heard,
                   shown, tries, crashes, faults>>

FailRetry ==
    /\ At("failed")
    /\ proc' = [proc EXCEPT ![Scheduler].at = "write",
                            ![Scheduler].verdict = RetryFailed]
    /\ UNCHANGED <<inline, clock, stored, row, task, remote, tombstone, heard,
                   shown, tries, crashes, faults>>

GiveUpDeleted ==
    /\ At("gone")
    /\ proc' = [proc EXCEPT ![Scheduler].at = "write",
                            ![Scheduler].verdict = Gone]
    /\ UNCHANGED <<inline, clock, stored, row, task, remote, tombstone, heard,
                   shown, tries, crashes, faults>>

\* The status is written and the task finishes, failed or succeeded.
Conclude ==
    /\ At("write")
    /\ Rewrite(proc[Scheduler].verdict)
    /\ task' = FALSE
    /\ proc' = [proc EXCEPT ![Scheduler] = [Idle EXCEPT !.at = "dispatch"]]
    /\ UNCHANGED <<inline, clock, stored, remote, tombstone, heard, shown,
                   crashes, faults>>

UndispatchedAgain == row.projected >= row.dispatched
UndispatchedWhenOk ==
    row.projected > row.dispatched /\ row.state.status = "ok"

Undispatched == row.projected > row.dispatched

\* recover_pending_dispatches; a watermark without its sample is skipped.
Dispatch ==
    /\ At("dispatch")
    /\ proc' = IF Undispatched
               THEN [proc EXCEPT ![Scheduler].s = row.projected,
                                 ![Scheduler].at =
                                    IF row.projected \in Range(stored)
                                    THEN "deliver" ELSE "mark"]
               ELSE [proc EXCEPT ![Scheduler] = [Idle EXCEPT !.at = "scan"]]
    /\ UNCHANGED <<inline, clock, stored, row, task, remote, tombstone, heard,
                   shown, tries, crashes, faults>>

\* The runtime takes the sample; until then it is offered at every tick.
Deliver ==
    /\ At("deliver")
    /\ heard' = Append(heard, proc[Scheduler].s)
    /\ Goto(Scheduler, "mark")
    /\ UNCHANGED <<inline, clock, stored, row, task, remote, tombstone, shown,
                   tries, crashes, faults>>

Refuse ==
    /\ At("deliver")
    /\ proc' = [proc EXCEPT ![Scheduler] = [Idle EXCEPT !.at = "scan"]]
    /\ UNCHANGED <<inline, clock, stored, row, task, remote, tombstone, heard,
                   shown, tries, crashes, faults>>

Mark ==
    /\ At("mark")
    /\ row' = [row EXCEPT !.dispatched = Larger(row.dispatched, proc[Scheduler].s)]
    /\ proc' = [proc EXCEPT ![Scheduler] = [Idle EXCEPT !.at = "scan"]]
    /\ UNCHANGED <<inline, clock, stored, task, remote, tombstone, heard,
                   shown, tries, crashes, faults>>

\* The handler of the runtime raised after its transaction, or the watermark
\* was not written: the sample will be offered again.
MarkFails ==
    /\ At("mark")
    /\ faults < MaxFaults
    /\ faults' = faults + 1
    /\ proc' = [proc EXCEPT ![Scheduler] = [Idle EXCEPT !.at = "scan"]]
    /\ UNCHANGED <<inline, clock, stored, row, task, remote, tombstone, heard,
                   shown, tries, crashes>>

RetryDue == row.state.status = "pending" /\ row.state.attempt # "recent"

\* ensure_projection_tasks.
Scan ==
    /\ At("scan")
    /\ task' = (task \/ RetryDue)
    /\ Goto(Scheduler, "idle")
    /\ UNCHANGED <<inline, clock, stored, row, remote, tombstone, heard, shown,
                   tries, crashes, faults>>
------------------------------------------------------------------------------
(* Time, people and crashes.                                               *)

\* The backoff since the last attempt has passed.
Cool ==
    /\ row.state.attempt = "recent"
    /\ row' = [row EXCEPT !.state.attempt = "old"]
    /\ UNCHANGED <<inline, clock, stored, task, remote, tombstone, proc, heard,
                   shown, tries, crashes, faults>>

DeleteRow ==
    /\ remote # Deleted
    /\ remote' = Deleted
    /\ UNCHANGED <<inline, clock, stored, row, task, tombstone, proc, heard,
                   shown, tries, crashes, faults>>

\* Every thread is lost.  Startup puts a task that was running back in the
\* queue and requeues a device that gave up on an unsent sample.
Crash ==
    /\ crashes < MaxCrashes
    /\ crashes' = crashes + 1
    /\ IF row.state.status = "failed" /\ Unprojected
       THEN Rewrite(Requeued) ELSE UNCHANGED <<row, tries>>
    /\ proc' = [p \in Processes |-> Idle]
    /\ UNCHANGED <<inline, clock, stored, task, remote, tombstone, heard,
                   shown, faults>>

Request(p) ==
    \/ Receive(p) \/ Store(p) \/ Collapse(p) \/ StoreFails(p) \/ Note(p)
    \/ Replay(p) \/ Defer(p) \/ Attempt(p) \/ Queue(p) \/ FailInline(p)
    \/ Answer(p)

Remote(p) ==
    Put(p) \/ PutFails(p) \/ PutRefused(p) \/ Project(p) \/ Succeed(p)

Tick ==
    \/ Claim \/ Fetch \/ FailRetry \/ GiveUpDeleted \/ Conclude
    \/ Dispatch \/ Deliver \/ Refuse \/ Mark \/ MarkFails \/ Scan

Next ==
    \/ \E p \in Requests : Request(p)
    \/ \E p \in Processes : Remote(p)
    \/ Tick
    \/ Cool \/ DeleteRow \/ Crash

Spec == Init /\ [][Next]_vars

\* The scheduler's loop never ends and contains every failure of a phase;
\* its runtime does not refuse a sample for ever; time passes.
Fairness ==
    /\ WF_vars(Tick \/ Remote(Scheduler))
    /\ SF_vars(Deliver)
    /\ WF_vars(Cool)

FairSpec == Spec /\ Fairness
------------------------------------------------------------------------------
(* Properties.                                                             *)

\* The shape of every variable: the durable row of the device, the threads
\* in their handlers and the history of what was shown and heard.
TypeOK ==
    /\ inline \in InlineModes
    /\ clock \in 0..MaxSamples
    /\ stored \in Seq(Times)
    /\ row \in DeviceRow
    /\ task \in BOOLEAN
    /\ remote \in 0..Deleted
    /\ tombstone \in BOOLEAN
    /\ proc \in [Processes -> Thread]
    /\ heard \in Seq(Times)
    /\ shown \subseteq Times
    /\ tries \in Nat
    /\ crashes \in Nat /\ faults \in Nat

\* A stored sample at the dispatched watermark was acknowledged by the
\* runtime: no crash, refusal or newer sample between the delivery and
\* mark_projection_dispatched makes the scheduler believe it was.
AcknowledgedWasHeard ==
    row.dispatched \in Range(stored) => row.dispatched \in Range(heard)

\* The runtime hears the samples in the order of their times, and hears one
\* again only when a crash or a failure fell between the delivery and its
\* watermark.
HeardInOrder ==
    /\ \A i, j \in DOMAIN heard : i < j => heard[i] <= heard[j]
    /\ Len(heard) - Cardinality(Range(heard)) <= crashes + faults

\* The runtime hears only what the Feishu row has shown: a failed, deferred
\* or suppressed projection never reaches it.
HeardWasShown == Range(heard) \subseteq shown

\* What the runtime knows of the device: what was shown, in order, and never
\* less than the dispatched watermark says.
HearingIsAccountedFor ==
    /\ TypeOK
    /\ AcknowledgedWasHeard
    /\ HeardInOrder
    /\ HeardWasShown

\* The Feishu row, a projection of the current state, never goes back to a
\* superseded sample as long as the scheduler alone writes it.
RemoteNeverRegresses == [][~inline => remote' >= remote]_remote

\* A device is given up only after MaxRetries scheduled attempts failed
\* since it last became pending, as long as the scheduler alone projects.
GivesUpOnlyAfterCap ==
    [][~inline /\ row'.state.status = "failed" /\ row.state.status # "failed"
        => tries >= MaxRetries]_row

\* A projected sample is dispatched, whatever the projection status says
\* by then and whichever crash came in between.
ProjectedIsDispatched ==
    \A s \in Times : (row.projected = s) ~> (row.dispatched >= s)

Concluding == \E p \in Processes :
    proc[p].at \in {"succeeded", "write"} /\ proc[p].verdict.status = "ok"

\* The newest sample of a pending device, when no thread is about to write
\* the outcome of an earlier one, is projected unless the device is given up.
OwedIsProjected ==
    \A s \in Times :
        (/\ s \in Range(stored) /\ row.last = s
         /\ row.state.status = "pending" /\ ~Concluding)
            ~> (row.projected >= s \/ row.state.status \in {"failed", "deleted"})

Quiet == /\ \A p \in Requests : proc[p].at = "idle"
         /\ proc[Scheduler].at \notin {"fetch", "put", "project", "succeeded",
                                       "failed", "gone", "write"}

\* services/projection.py:32 says of the status: "ok -- latest local sample
\* is projected".
OkMeansProjected ==
    Quiet /\ row.state.status = "ok" => ~Unprojected
==============================================================================
