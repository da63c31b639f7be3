------------------------- MODULE StandardSelection -------------------------
(***************************************************************************)
(* Which standard a sample is judged by, and which sets of standards the   *)
(* strict validation lets through: domain/standard_resolver.py and         *)
(* validate_standard_snapshot of application/standard_sync.py.             *)
(*                                                                         *)
(* A standard is a record; its limits, source and clause only tell one     *)
(* content from another.  Instants are natural numbers.                    *)
(***************************************************************************)
EXTENDS Integers

CONSTANTS
  Standards,  \* the rows there can be
  Spellings,  \* how device identifiers are written in the table
  DeviceOf,   \* the device a spelling means: str.strip().upper()
  AnyDevice,  \* no device is named
  AnyKind,    \* no operation is named
  NoEnd       \* effective_to is empty

ASSUME StandardAssumption ==
  \A s \in Standards :
    /\ s.priority \in Int /\ s.from \in Nat
    /\ s.to \in Nat \cup {NoEnd}
    /\ s.enabled \in BOOLEAN /\ s.complete \in BOOLEAN

ASSUME SpellingAssumption ==
  /\ AnyDevice \notin Spellings
  /\ NoEnd \notin Int
  /\ \A s \in Standards : s.device \in Spellings \cup {AnyDevice}

Identity(s) == <<s.id, s.revision>>

Device(s) == IF s.device = AnyDevice THEN AnyDevice ELSE DeviceOf[s.device]

\* logical_selector_key
Selector(s) == <<s.area, Device(s), s.operation, s.control>>

-----------------------------------------------------------------------------
(* select_standard.  A context c asks for an area, a device, the operation *)
(* that goes on there and an instant.                                      *)

\* An interval contains its start and not its end.
Effective(s, at) == s.from <= at /\ (s.to = NoEnd \/ at < s.to)

Applies(s, c) ==
  /\ s.enabled
  /\ s.area = c.area
  /\ s.device = AnyDevice \/ Device(s) = c.device
  /\ Effective(s, c.at)
  /\ s.operation \in {AnyKind, c.operation}

Candidates(S, c) == {s \in S : Applies(s, c)}

\* Of the revisions of one logical standard the latest counts.
Latest(S, c) ==
  {s \in Candidates(S, c) : \A r \in Candidates(S, c) : r.id = s.id => r.from <= s.from}

\* The revisions in effect that do not form a chain.
BrokenChain(S, c) ==
  \E r, s \in Candidates(S, c) :
    /\ r # s /\ r.id = s.id
    /\ Selector(r) # Selector(s) \/ ({r, s} \subseteq Latest(S, c))

DeviceExact(s, c)    == s.device # AnyDevice /\ Device(s) = c.device
OperationExact(s, c) == c.operation # AnyKind /\ s.operation = c.operation

\* precedence: the device, then the operation, then the priority.
Outranks(s, t, c) ==
  \/ DeviceExact(s, c) /\ ~DeviceExact(t, c)
  \/ /\ DeviceExact(s, c) = DeviceExact(t, c)
     /\ \/ OperationExact(s, c) /\ ~OperationExact(t, c)
        \/ /\ OperationExact(s, c) = OperationExact(t, c)
           /\ s.priority > t.priority

Winners(S, c) == {s \in Latest(S, c) : \A t \in Latest(S, c) : ~Outranks(t, s, c)}

\* The outcome: NOT_FOUND, which the monitor turns into UNKNOWN; CONFLICT, which
\* it does not catch; or the one standard.
Resolve(S, c) ==
  IF Candidates(S, c) = {} THEN {"NOT_FOUND"}
  ELSE IF BrokenChain(S, c) \/ \E s, t \in Winners(S, c) : s # t THEN {"CONFLICT"}
  ELSE Winners(S, c)

-----------------------------------------------------------------------------
(* validate_standard_snapshot.                                             *)

\* Faulty: an interval without an end overlaps nothing.
OverlapOfClosed(l, r) ==
  \A a, b \in {l, r} : b.to # NoEnd /\ a.from < b.to

Overlap(l, r) == \A a, b \in {l, r} : b.to = NoEnd \/ a.from < b.to

\* Every field the validation requires is there, is of its type and in order.
Complete(s) == s.complete /\ s.device # AnyDevice

Chained(l, r) == Selector(l) = Selector(r) /\ l.from # r.from

SameRank(l, r) ==
  /\ l.device = r.device /\ l.area = r.area
  /\ l.operation = r.operation /\ l.priority = r.priority

Valid(S) ==
  /\ S # {}
  /\ \A s \in S : Complete(s)
  /\ \A l, r \in S : Identity(l) = Identity(r) => l = r
  /\ \A l, r \in {s \in S : s.enabled} :
       l # r /\ Overlap(l, r) =>
         IF l.id = r.id THEN Chained(l, r) ELSE ~SameRank(l, r)

=============================================================================
