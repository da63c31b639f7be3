--------------------------- MODULE HeartbeatOutbox ---------------------------
(***************************************************************************)
(* Heartbeats on their way to the alarm runtime: POST /temperature/        *)
(* heartbeat commits the presence and an outbox row in one transaction     *)
(* (services/devices.py, services/db.py), and the scheduler delivers the   *)
(* rows and deletes each one the runtime took (services/projection.py,     *)
(* recover_pending_heartbeats).                                            *)
(*                                                                         *)
(* A heartbeat is named by the outbox id it is given.  The runtime refuses *)
(* a device's observation when its listener is gone, returns False or      *)
(* raises before its transaction; AcceptedInTheEnd names the devices it    *)
(* does not refuse for ever.                                               *)
(***************************************************************************)
EXTENDS Naturals, Sequences, FiniteSets, SequencesExt

CONSTANTS
    Devices,
    Limit,             \* rows one tick fetches
    AcceptedInTheEnd,  \* devices whose observations are not refused for ever
    MaxBeats,          \* bound: heartbeats received
    MaxRestarts,        \* bound: process crashes
    MaxLostAcks          \* bound: heartbeats taken but not acknowledged

Beats == 1..MaxBeats

ASSUME LimitAssumption == Limit \in Nat \ {0}
ASSUME AcceptedAssumption == AcceptedInTheEnd \subseteq Devices
ASSUME BeatBoundsAssumption ==
    MaxBeats \in Nat /\ MaxRestarts \in Nat /\ MaxLostAcks \in Nat

VARIABLES
    outbox,    \* heartbeat_dispatch_outbox: rows [id, device]
    issued,    \* AUTOINCREMENT: the id of a deleted row is never given again
    sent,      \* per device, the heartbeats accepted so far
    received,  \* per device, the heartbeats the runtime took, in order
    batch,     \* the rows this tick still has to look at
    blocked,   \* devices this tick no longer delivers
    phase,     \* "deliver", or "acknowledge" the first row of batch
    restarts, lostAcks

outboxVars ==
    <<outbox, issued, sent, received, batch, blocked, phase, restarts, lostAcks>>

OutboxRow == [id : Beats, device : Devices]

OutboxInit ==
    /\ outbox = {} /\ issued = 0
    /\ sent = [d \in Devices |-> {}]
    /\ received = [d \in Devices |-> <<>>]
    /\ batch = {} /\ blocked = {} /\ phase = "deliver"
    /\ restarts = 0 /\ lostAcks = 0

\* save_device_heartbeat: one transaction, whatever the scheduler is doing.
Post(d) ==
    /\ issued < MaxBeats
    /\ issued' = issued + 1
    /\ outbox' = outbox \cup {[id |-> issued', device |-> d]}
    /\ sent' = [sent EXCEPT ![d] = @ \cup {issued'}]
    /\ UNCHANGED <<received, batch, blocked, phase, restarts, lostAcks>>

\* ORDER BY id LIMIT.
Oldest(rows) ==
    {r \in rows : Cardinality({q \in rows : q.id < r.id}) < Limit}

FetchKeepingBlocked ==
    /\ batch = {}
    /\ outbox # {}
    /\ batch' = Oldest(outbox)
    /\ UNCHANGED <<outbox, issued, sent, received, blocked, phase,
                   restarts, lostAcks>>

\* A tick begins: fetch_pending_heartbeats.
FetchBeats ==
    /\ batch = {}
    /\ outbox # {}
    /\ batch' = Oldest(outbox)
    /\ blocked' = {}
    /\ UNCHANGED <<outbox, issued, sent, received, phase, restarts, lostAcks>>

\* The loop has come to row r.
Turn(r) == r \in batch /\ \A q \in batch : r.id <= q.id

Offered(r) == phase = "deliver" /\ Turn(r) /\ r.device \notin blocked

Skip(r) ==
    /\ phase = "deliver" /\ Turn(r) /\ r.device \in blocked
    /\ batch' = batch \ {r}
    /\ UNCHANGED <<outbox, issued, sent, received, blocked, phase,
                   restarts, lostAcks>>

DeliverBeat(r) ==
    /\ Offered(r)
    /\ received' = [received EXCEPT ![r.device] = Append(@, r.id)]
    /\ phase' = "acknowledge"
    /\ UNCHANGED <<outbox, issued, sent, batch, blocked, restarts, lostAcks>>

RefuseDropping(r) ==
    /\ Offered(r)
    /\ outbox' = outbox \ {r}
    /\ batch' = batch \ {r}
    /\ UNCHANGED <<issued, sent, received, blocked, phase, restarts, lostAcks>>

RefuseUnblocked(r) ==
    /\ Offered(r)
    /\ batch' = batch \ {r}
    /\ UNCHANGED <<outbox, issued, sent, received, blocked, phase,
                   restarts, lostAcks>>

\* A refused or failed delivery keeps the row and the order of its device.
RefuseBeat(r) ==
    /\ Offered(r)
    /\ blocked' = blocked \cup {r.device}
    /\ batch' = batch \ {r}
    /\ UNCHANGED <<outbox, issued, sent, received, phase, restarts, lostAcks>>

Acknowledge(r) ==
    /\ phase = "acknowledge" /\ Turn(r)
    /\ outbox' = outbox \ {r}
    /\ batch' = batch \ {r}
    /\ phase' = "deliver"
    /\ UNCHANGED <<issued, sent, received, blocked, restarts, lostAcks>>

\* The deletion failed, or the runtime raised after its transaction.
AcknowledgeFails(r) ==
    /\ phase = "acknowledge" /\ Turn(r)
    /\ lostAcks < MaxLostAcks
    /\ lostAcks' = lostAcks + 1
    /\ blocked' = blocked \cup {r.device}
    /\ batch' = batch \ {r}
    /\ phase' = "deliver"
    /\ UNCHANGED <<outbox, issued, sent, received, restarts>>

\* The scheduler is lost with what it fetched; outbox and presence stay.
LoseTick ==
    /\ restarts < MaxRestarts
    /\ restarts' = restarts + 1
    /\ batch' = {} /\ blocked' = {} /\ phase' = "deliver"
    /\ UNCHANGED <<outbox, issued, sent, received, lostAcks>>

DeliveryTick ==
    \/ FetchBeats
    \/ \E r \in batch : \/ Skip(r) \/ DeliverBeat(r) \/ RefuseBeat(r)
                        \/ Acknowledge(r) \/ AcknowledgeFails(r)

OutboxNext == (\E d \in Devices : Post(d)) \/ DeliveryTick \/ LoseTick

OutboxSpec == OutboxInit /\ [][OutboxNext]_outboxVars

\* The tick never ends for good, whatever it meets; and the runtime takes
\* the observations of some devices in the end.
OutboxFairness ==
    /\ WF_outboxVars(DeliveryTick)
    /\ \A d \in AcceptedInTheEnd :
        SF_outboxVars(\E r \in batch : r.device = d /\ DeliverBeat(r))

FairOutboxSpec == OutboxSpec /\ OutboxFairness
------------------------------------------------------------------------------
(* Properties.                                                             *)

\* The shape of every variable: outbox rows, histories and the tick's batch.
OutboxTypeOK ==
    /\ outbox \subseteq OutboxRow
    /\ issued \in 0..MaxBeats
    /\ sent \in [Devices -> SUBSET Beats]
    /\ received \in [Devices -> Seq(Beats)]
    /\ batch \subseteq OutboxRow
    /\ blocked \subseteq Devices
    /\ phase \in {"deliver", "acknowledge"}
    /\ restarts \in Nat /\ lostAcks \in Nat

\* An accepted heartbeat waits in the outbox until the runtime has taken it:
\* a refusal, a failed acknowledgement or a crash never loses one.
NothingLost ==
    \A d \in Devices : \A b \in sent[d] :
        [id |-> b, device |-> d] \in outbox \/ b \in ToSet(received[d])

Relay == INSTANCE HeartbeatRelay WITH heard <- received

\* The outbox implements HeartbeatRelay: per device in order, none skipped.
KeepsRelay == Relay!Spec

Heard(d) == \A b \in Beats : (b \in sent[d]) ~> (b \in ToSet(received[d]))

\* When no device is refused for ever, every heartbeat reaches the runtime.
EveryBeatIsHeard == \A d \in Devices : Heard(d)

==============================================================================
