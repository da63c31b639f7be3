----------------------------- MODULE Standards -----------------------------
(***************************************************************************)
(* The synchronisation of the standards from their Feishu table into       *)
(* immutable local versions and snapshots: application/standard_sync.py    *)
(* and repositories/standard_resolver.py.                                  *)
(*                                                                         *)
(* One sync is a fetch, a validation and one transaction, under the        *)
(* runtime's execution lock; people edit the table meanwhile, and the      *)
(* process may die between the steps.  A failed sync writes an audit row   *)
(* and nothing else.                                                       *)
(***************************************************************************)
EXTENDS StandardSelection, Sequences

CONSTANTS
  Legacy,     \* versions an older release may have left behind
  Devices,    \* the configured devices
  Contexts,   \* what may be asked of the resolver
  MaxEdits,   \* bound: rows people add, change or remove
  MaxTroubles \* bound: failed fetches and activations, deaths of the process

ASSUME BoundsAssumption ==
  /\ {MaxEdits, MaxTroubles} \subseteq Nat
  /\ Legacy \subseteq Standards
  /\ \A c \in Contexts : c.at \in Nat

VARIABLES
  table,     \* the rows people keep
  versions,  \* standard_versions: the contents stored under each identity
  snapshots, \* standard_snapshots with their members, oldest first
  active,    \* active_snapshot_id, which is last_known_good_snapshot_id as well
  syncing,   \* a sync has fetched the rows
  fetched,   \* and these are they
  read,      \* history: what the last successful sync had read
  edits, troubles

vars == <<table, versions, snapshots, active, syncing, fetched, read, edits, troubles>>

Identities(S) == {Identity(s) : s \in S}

\* The standards of one snapshot, as its members name them now.
Contents(n) == {v \in versions : Identity(v) \in snapshots[n]}

\* list_active
Active == IF active = 0 THEN {} ELSE Contents(active)

\* readiness: what the gate for every remote write asks.
Ready == active # 0 /\ Devices # {} /\ {Device(s) : s \in Active} = Devices

\* Faulty: new limits are not taken for another content.
ChangedSelector(rows) ==
  \E s \in rows, v \in versions : Identity(v) = Identity(s) /\ Selector(v) # Selector(s)

\* A known revision was edited in place.
Changed(rows) == \E s \in rows, v \in versions : Identity(v) = Identity(s) /\ v # s

\* Faulty: rows that are already active are taken for the whole snapshot.
MatchesLoosely(rows) == active # 0 /\ rows \subseteq Contents(active)

\* _snapshot_matches_active: a repeated snapshot is not stored again.
Matches(rows) == active # 0 /\ Contents(active) = rows

-----------------------------------------------------------------------------

\* fetch_standards: all rows, or none when one cannot be read.
Fetch ==
  /\ ~syncing
  /\ syncing' = TRUE /\ fetched' = table
  /\ UNCHANGED <<table, versions, snapshots, active, read, edits, troubles>>

\* Faulty: a failed sync forgets what is active.
KeepStandardsNot == active' = 0 /\ UNCHANGED <<versions, snapshots, read>>

KeepStandards == UNCHANGED <<versions, snapshots, active, read>>

FetchFails ==
  /\ ~syncing /\ troubles < MaxTroubles
  /\ troubles' = troubles + 1
  /\ KeepStandards
  /\ UNCHANGED <<table, syncing, fetched, edits>>

Done == syncing' = FALSE /\ fetched' = {}

\* The snapshot is invalid, or a known revision in it has another content.
Reject ==
  /\ syncing
  /\ ~Valid(fetched) \/ Changed(fetched)
  /\ Done
  /\ KeepStandards
  /\ UNCHANGED <<table, edits, troubles>>

\* The transaction fails and is rolled back.
ActivationFails ==
  /\ syncing /\ Valid(fetched) /\ troubles < MaxTroubles
  /\ Done /\ troubles' = troubles + 1
  /\ KeepStandards
  /\ UNCHANGED <<table, edits>>

\* Faulty: the pointer of a first snapshot is left for the next sync.
ActivateLater(rows) ==
  /\ snapshots' = Append(snapshots, Identities(rows))
  /\ active' = Len(snapshots)

Activate(rows) ==
  /\ snapshots' = Append(snapshots, Identities(rows))
  /\ active' = Len(snapshots) + 1

\* apply_snapshot: versions, snapshot and pointers in one transaction.
Apply ==
  /\ syncing /\ Valid(fetched) /\ ~Changed(fetched)
  /\ versions' = versions \cup fetched
  /\ IF Matches(fetched) THEN UNCHANGED <<snapshots, active>> ELSE Activate(fetched)
  /\ read' = fetched
  /\ Done
  /\ UNCHANGED <<table, edits, troubles>>

Crash ==
  /\ syncing /\ troubles < MaxTroubles
  /\ Done /\ troubles' = troubles + 1
  /\ UNCHANGED <<table, versions, snapshots, active, read, edits>>

\* People add, remove or rewrite a row.
Edit(rows) ==
  /\ edits < MaxEdits
  /\ edits' = edits + 1
  /\ table' = rows
  /\ UNCHANGED <<versions, snapshots, active, syncing, fetched, read, troubles>>

\* One row is added, one is removed, or one takes the place of another.
Edited ==
  {table \cup {s} : s \in Standards} \cup {table \ {s} : s \in table}
    \cup {(table \ {s}) \cup {t} : s \in table, t \in Standards}

Init ==
  /\ table \in {{}} \cup {{s} : s \in Standards}
  /\ versions \in SUBSET Legacy
  /\ \A v, w \in versions : Identity(v) = Identity(w) => v = w
  /\ snapshots = <<>> /\ active = 0 /\ syncing = FALSE /\ fetched = {}
  /\ read = {} /\ edits = 0 /\ troubles = 0

Sync == Fetch \/ Reject \/ Apply

Next ==
  \/ Sync \/ FetchFails \/ ActivationFails \/ Crash
  \/ \E rows \in Edited \ {table} : Edit(rows)

Spec == Init /\ [][Next]_vars

\* SYNC_STANDARD is a periodic task, and each run of it comes to an end.
Fairness == WF_vars(Sync)

FairSpec == Spec /\ Fairness

-----------------------------------------------------------------------------
(* Invariants.                                                             *)

TypeOK ==
  /\ table \subseteq Standards /\ versions \subseteq Standards
  /\ snapshots \in Seq(SUBSET Identities(versions))
  /\ active = Len(snapshots)
  /\ syncing \in BOOLEAN /\ fetched \subseteq Standards
  /\ read \subseteq Standards
  /\ edits \in 0..MaxEdits /\ troubles \in 0..MaxTroubles

\* An identity never has two contents, so that a decision's standard and
\* revision name what it was judged by.
OneContent == \A v, w \in versions : Identity(v) = Identity(w) => v = w

\* What decisions are made by is what the last successful sync has read: no
\* failure, no repetition and no detour over an older content changes it.
ActiveIsLastRead == Active = read /\ (active # 0 => Valid(read))

\* No context finds the active standards ambiguous, unless two of them spell one
\* device differently: the validation compares the spellings, the resolver the
\* devices.  A conflict is not caught by the monitor.
AmbiguityIsSpelling ==
  \A c \in Contexts :
    /\ ~BrokenChain(Active, c)
    /\ \A s, t \in Winners(Active, c) : s # t => s.device # t.device

-----------------------------------------------------------------------------
(* What no step may do.                                                    *)

\* The gate of all remote writes opens and closes by a successful sync that read
\* something else, never by a failure, a death or an edit alone.
GateMovesBySync == [][Ready' # Ready => syncing /\ read' = fetched /\ read' # read]_vars

-----------------------------------------------------------------------------
(* Liveness.                                                               *)

Adoptable == Valid(table) /\ ~Changed(table)

\* Once the table stays valid and revises by new revisions only, the monitor
\* comes to judge by it, whatever failed before.
ValidTableIsAdopted == <>[]Adoptable => <>[](Active = table)

=============================================================================
