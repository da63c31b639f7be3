-------------------------- MODULE StandardsProofs --------------------------
(***************************************************************************)
(* Proofs about StandardSelection and Standards, for every set of          *)
(* standards, devices and contexts.                                        *)
(***************************************************************************)
EXTENDS Standards, SequenceTheorems, TLAPS

(***************************************************************************)
(* Two rows in effect at one instant overlap.                              *)
(***************************************************************************)
LEMMA EffectiveOverlap ==
  ASSUME NEW l \in Standards, NEW r \in Standards, NEW at \in Nat,
         Effective(l, at), Effective(r, at)
  PROVE  Overlap(l, r)
<1> SUFFICES ASSUME NEW a \in {l, r}, NEW b \in {l, r}, b.to # NoEnd
             PROVE  a.from < b.to
  BY DEF Overlap
<1>1. a.from \in Nat /\ b.to \in Nat
  BY StandardAssumption
<1>2. a.from <= at /\ at < b.to
  BY DEF Effective
<1> QED
  BY <1>1, <1>2

(***************************************************************************)
(* Two rows of which neither outranks the other agree in what is compared. *)
(***************************************************************************)
LEMMA TieMeansSameRank ==
  ASSUME NEW s \in Standards, NEW t \in Standards, NEW c,
         Applies(s, c), Applies(t, c), Complete(s), Complete(t),
         ~Outranks(s, t, c), ~Outranks(t, s, c), s.device = t.device
  PROVE  SameRank(s, t)
<1>1. DeviceExact(s, c) = DeviceExact(t, c)
  BY DEF DeviceExact, Device
<1>2. OperationExact(s, c) = OperationExact(t, c)
  BY <1>1, Zenon DEF Outranks, OperationExact
<1>3. s.priority = t.priority
  <2>1. s.priority \in Int /\ t.priority \in Int
    BY StandardAssumption
  <2>2. ~(s.priority > t.priority) /\ ~(t.priority > s.priority)
    BY <1>1, <1>2, Zenon DEF Outranks
  <2> QED
    BY <2>1, <2>2
<1>4. s.operation = t.operation
  BY <1>2 DEF OperationExact, Applies
<1>5. s.area = t.area
  BY DEF Applies
<1> QED
  BY <1>3, <1>4, <1>5 DEF SameRank

(***************************************************************************)
(* What the validation lets through, the resolver finds unambiguous: the   *)
(* revisions in effect form chains, and two standards that tie spell the   *)
(* device differently.                                                     *)
(***************************************************************************)
THEOREM ValidatedIsUnambiguous ==
  ASSUME NEW S, S \subseteq Standards, Valid(S), NEW c, c.at \in Nat
  PROVE  /\ ~BrokenChain(S, c)
         /\ \A s, t \in Winners(S, c) : s # t => s.device # t.device
<1>1. ASSUME NEW l \in Candidates(S, c), NEW r \in Candidates(S, c), l # r
      PROVE  IF l.id = r.id THEN Chained(l, r) ELSE ~SameRank(l, r)
  <2>1. l \in Standards /\ r \in Standards /\ l \in S /\ r \in S
    BY DEF Candidates
  <2>2. l.enabled /\ r.enabled /\ Effective(l, c.at) /\ Effective(r, c.at)
    BY DEF Candidates, Applies
  <2>3. Overlap(l, r)
    BY <2>1, <2>2, EffectiveOverlap
  <2> QED
    BY <1>1, <2>1, <2>2, <2>3, Zenon DEF Valid
<1>2. ASSUME NEW l \in Latest(S, c), NEW r \in Latest(S, c), l.id = r.id
      PROVE  l.from = r.from
  <2>1. l \in Standards /\ r \in Standards
    BY DEF Latest, Candidates
  <2>2. l.from \in Nat /\ r.from \in Nat
    BY <2>1, StandardAssumption
  <2>3. l.from <= r.from /\ r.from <= l.from
    BY <1>2 DEF Latest
  <2> QED
    BY <2>2, <2>3
<1>3. ~BrokenChain(S, c)
  <2> SUFFICES ASSUME NEW r \in Candidates(S, c), NEW s \in Candidates(S, c),
                      r # s, r.id = s.id,
                      Selector(r) # Selector(s) \/ {r, s} \subseteq Latest(S, c)
               PROVE  FALSE
    BY Zenon DEF BrokenChain
  <2>1. Chained(r, s)
    BY <1>1, Zenon
  <2>2. r \in Latest(S, c) /\ s \in Latest(S, c)
    BY <2>1 DEF Chained
  <2> QED
    BY <1>2, <2>1, <2>2, Zenon DEF Chained
<1>4. ASSUME NEW s \in Winners(S, c), NEW t \in Winners(S, c), s # t, s.device = t.device
      PROVE  FALSE
  <2>1. s \in Latest(S, c) /\ t \in Latest(S, c) /\ ~Outranks(s, t, c) /\ ~Outranks(t, s, c)
    BY DEF Winners
  <2>2. s \in Candidates(S, c) /\ t \in Candidates(S, c)
    BY <2>1 DEF Latest
  <2>3. s \in S /\ t \in S /\ s \in Standards /\ t \in Standards /\ Applies(s, c) /\ Applies(t, c)
    BY <2>2 DEF Candidates
  <2>4. Complete(s) /\ Complete(t)
    BY <2>3, Zenon DEF Valid
  <2>5. SameRank(s, t)
    BY <1>4, <2>1, <2>3, <2>4, TieMeansSameRank
  <2>6. s.id = t.id /\ Chained(s, t)
    BY <1>1, <1>4, <2>2, <2>5, Zenon
  <2> QED
    BY <1>2, <2>1, <2>6, Zenon DEF Chained
<1> QED
  BY <1>3, <1>4, Zenon

-----------------------------------------------------------------------------
(***************************************************************************)
(* The inductive invariant: types, one content per identity, and what is   *)
(* active is what was read.                                                *)
(***************************************************************************)
StandardInv == TypeOK /\ OneContent /\ ActiveIsLastRead

LEMMA InitInv == Init => StandardInv
<1> SUFFICES ASSUME Init PROVE StandardInv
  OBVIOUS
<1>1. table \subseteq Standards /\ versions \subseteq Standards
  BY BoundsAssumption DEF Init
<1>2. snapshots = << >> /\ << >> \in Seq(SUBSET Identities(versions)) /\ Len(<< >>) = 0
  BY EmptySeq DEF Init
<1>3. TypeOK
  <2>1. snapshots \in Seq(SUBSET Identities(versions)) /\ active = Len(snapshots)
    BY <1>2 DEF Init
  <2>2. edits \in 0..MaxEdits /\ troubles \in 0..MaxTroubles
    BY BoundsAssumption DEF Init
  <2>3. syncing \in BOOLEAN /\ fetched \subseteq Standards /\ read \subseteq Standards
    BY DEF Init
  <2> QED
    BY <1>1, <2>1, <2>2, <2>3 DEF TypeOK
<1>4. ActiveIsLastRead
  BY DEF Init, ActiveIsLastRead, Active
<1> QED
  BY <1>3, <1>4 DEF StandardInv, Init, OneContent

(***************************************************************************)
(* Steps that leave versions, snapshots and pointer alone.                 *)
(***************************************************************************)
LEMMA KeptInv ==
  ASSUME StandardInv, KeepStandards,
         table' \subseteq Standards, syncing' \in BOOLEAN, fetched' \subseteq Standards,
         edits' \in 0..MaxEdits, troubles' \in 0..MaxTroubles
  PROVE  StandardInv' /\ Ready' = Ready
<1>1. UNCHANGED <<versions, snapshots, active, read>>
  BY DEF KeepStandards
<1>2. TypeOK' /\ OneContent'
  BY <1>1 DEF StandardInv, TypeOK, OneContent, Identities
<1>3. Active' = Active
  BY <1>1 DEF Active, Contents
<1>4. ActiveIsLastRead' /\ Ready' = Ready
  BY <1>1, <1>3 DEF StandardInv, ActiveIsLastRead, Ready
<1> QED
  BY <1>2, <1>4 DEF StandardInv

(***************************************************************************)
(* A successful sync.                                                      *)
(***************************************************************************)
LEMMA ApplyInv ==
  ASSUME StandardInv, Apply
  PROVE  StandardInv' /\ (Ready' # Ready => read' # read)
<1>1. /\ versions \subseteq Standards /\ fetched \subseteq Standards
      /\ snapshots \in Seq(SUBSET Identities(versions)) /\ active = Len(snapshots)
  BY DEF StandardInv, TypeOK
<1>2. /\ versions' = versions \cup fetched /\ read' = fetched /\ Valid(fetched)
      /\ \A s \in fetched, v \in versions : Identity(v) = Identity(s) => v = s
  BY DEF Apply, Changed
<1>3. OneContent'
  <2>1. \A v, w \in fetched : Identity(v) = Identity(w) => v = w
    BY <1>2 DEF Valid
  <2> QED
    BY <1>2, <2>1 DEF StandardInv, OneContent
<1>4. Identities(versions) \subseteq Identities(versions') /\ Identities(fetched) \subseteq Identities(versions')
  BY <1>2 DEF Identities
<1>5. CASE Matches(fetched)
  <2>1. UNCHANGED <<snapshots, active>>
    BY <1>5 DEF Apply
  <2>2. active # 0 /\ fetched = Contents(active)
    BY <1>5 DEF Matches
  <2>3. versions' = versions
    BY <1>2, <2>2 DEF Contents
  <2>4. Active' = fetched /\ Active = fetched
    BY <2>1, <2>2, <2>3 DEF Active, Contents
  <2>5. ActiveIsLastRead'
    BY <1>2, <2>4 DEF ActiveIsLastRead
  <2>6. TypeOK'
    BY <1>1, <1>2, <2>1, <2>3 DEF StandardInv, TypeOK, Apply, Done, Identities
  <2>7. Ready' = Ready
    BY <2>1, <2>4 DEF Ready
  <2> QED
    BY <1>3, <2>5, <2>6, <2>7 DEF StandardInv
<1>6. CASE ~Matches(fetched)
  <2>1. snapshots' = Append(snapshots, Identities(fetched)) /\ active' = Len(snapshots) + 1
    BY <1>6 DEF Apply, Activate
  <2>2. snapshots \in Seq(SUBSET Identities(versions'))
    BY <1>1, <1>4
  <2>3. /\ snapshots' \in Seq(SUBSET Identities(versions'))
        /\ Len(snapshots') = Len(snapshots) + 1
        /\ snapshots'[Len(snapshots) + 1] = Identities(fetched)
    BY <1>4, <2>1, <2>2, AppendProperties
  <2>4. active' # 0
    BY <1>1, <2>1, LenProperties
  <2>5. Active' = {v \in versions' : Identity(v) \in Identities(fetched)}
    BY <2>1, <2>3, <2>4 DEF Active, Contents
  <2>6. Active' = fetched
    BY <1>2, <1>3, <2>5 DEF Identities, OneContent
  <2>7. ActiveIsLastRead'
    BY <1>2, <2>6 DEF ActiveIsLastRead
  <2>8. TypeOK'
    BY <1>1, <1>2, <2>1, <2>3 DEF StandardInv, TypeOK, Apply, Done
  <2>9. Active # fetched \/ active = 0
    BY <1>6 DEF Matches, Active
  <2>10. read' # read
    <3>1. CASE active = 0
      <4>1. read = {} /\ fetched # {}
        BY <1>2, <3>1 DEF StandardInv, ActiveIsLastRead, Active, Valid
      <4> QED
        BY <1>2, <4>1
    <3>2. CASE active # 0
      BY <1>2, <2>9, <3>2 DEF StandardInv, ActiveIsLastRead
    <3> QED
      BY <3>1, <3>2
  <2> QED
    BY <1>3, <2>7, <2>8, <2>10 DEF StandardInv
<1> QED
  BY <1>5, <1>6

(***************************************************************************)
(* Every step keeps the invariant, and the gate moves by a sync only.      *)
(***************************************************************************)
LEMMA StepInv ==
  ASSUME StandardInv, [Next]_vars
  PROVE  /\ StandardInv'
         /\ Ready' # Ready => syncing /\ read' = fetched /\ read' # read
<1> USE DEF StandardInv
<1>0. /\ table \subseteq Standards /\ syncing \in BOOLEAN /\ fetched \subseteq Standards
      /\ edits \in 0..MaxEdits /\ troubles \in 0..MaxTroubles
      /\ MaxEdits \in Nat /\ MaxTroubles \in Nat
  BY BoundsAssumption DEF TypeOK
<1>1. CASE Apply
  BY <1>1, ApplyInv DEF Apply
<1>2. CASE Fetch
  BY <1>0, <1>2, KeptInv DEF Fetch, KeepStandards
<1>3. CASE FetchFails
  BY <1>0, <1>3, KeptInv DEF FetchFails
<1>4. CASE Reject
  <2>1. /\ KeepStandards /\ syncing' = FALSE /\ fetched' = {}
        /\ UNCHANGED <<table, edits, troubles>>
    BY <1>4 DEF Reject, Done
  <2> QED
    BY <1>0, <2>1, KeptInv
<1>5. CASE ActivationFails
  <2>1. /\ KeepStandards /\ syncing' = FALSE /\ fetched' = {}
        /\ troubles < MaxTroubles /\ troubles' = troubles + 1
        /\ UNCHANGED <<table, edits>>
    BY <1>5 DEF ActivationFails, Done
  <2>2. troubles' \in 0..MaxTroubles
    BY <1>0, <2>1
  <2> QED
    BY <1>0, <2>1, <2>2, KeptInv
<1>6. CASE Crash
  <2>1. /\ KeepStandards /\ syncing' = FALSE /\ fetched' = {}
        /\ troubles < MaxTroubles /\ troubles' = troubles + 1
        /\ UNCHANGED <<table, edits>>
    BY <1>6 DEF Crash, Done, KeepStandards
  <2>2. troubles' \in 0..MaxTroubles
    BY <1>0, <2>1
  <2> QED
    BY <1>0, <2>1, <2>2, KeptInv
<1>7. ASSUME NEW rows \in Edited, Edit(rows)
      PROVE  StandardInv' /\ Ready' = Ready
  <2>1. rows \subseteq Standards
    BY <1>0 DEF Edited
  <2> QED
    BY <1>0, <1>7, <2>1, KeptInv DEF Edit, KeepStandards
<1>8. CASE UNCHANGED vars
  BY <1>0, <1>8, KeptInv DEF vars, KeepStandards
<1> QED
  BY <1>1, <1>2, <1>3, <1>4, <1>5, <1>6, <1>7, <1>8, Zenon DEF Next, Sync

LEMMA StandardSafe == Spec => []StandardInv
<1>1. StandardInv /\ [Next]_vars => StandardInv'
  BY StepInv
<1> QED
  BY InitInv, <1>1, PTL DEF Spec

(***************************************************************************)
(* Types: snapshots refer to stored versions and the pointer to a snapshot *)
(* (repositories/standard_resolver.py).                                    *)
(***************************************************************************)
THEOREM TypeCorrect == Spec => []TypeOK
<1>1. StandardInv => TypeOK
  BY DEF StandardInv
<1> QED
  BY StandardSafe, <1>1, PTL

(***************************************************************************)
(* Decisions are made by what the last successful sync has read            *)
(* (apply_snapshot, record_sync_failure).                                  *)
(***************************************************************************)
THEOREM ActiveSafe == Spec => []ActiveIsLastRead
<1>1. StandardInv => ActiveIsLastRead
  BY DEF StandardInv
<1> QED
  BY StandardSafe, <1>1, PTL

(***************************************************************************)
(* The resolver meets no ambiguity the validation could have seen          *)
(* (validate_standard_snapshot, select_standard).                          *)
(***************************************************************************)
THEOREM UnambiguousActive == Spec => []AmbiguityIsSpelling
<1>1. StandardInv => AmbiguityIsSpelling
  <2> SUFFICES ASSUME StandardInv, NEW c \in Contexts
               PROVE  /\ ~BrokenChain(Active, c)
                      /\ \A s, t \in Winners(Active, c) : s # t => s.device # t.device
    BY DEF AmbiguityIsSpelling
  <2>1. c.at \in Nat
    BY BoundsAssumption
  <2>2. CASE active = 0
    <3>1. Active = {}
      BY <2>2 DEF Active
    <3> QED
      BY <3>1 DEF BrokenChain, Winners, Latest, Candidates
  <2>3. CASE active # 0
    <3>1. Valid(Active) /\ Active \subseteq Standards
      BY <2>3 DEF StandardInv, ActiveIsLastRead, TypeOK
    <3> QED
      BY <2>1, <3>1, ValidatedIsUnambiguous
  <2> QED
    BY <2>2, <2>3
<1> QED
  BY StandardSafe, <1>1, PTL

(***************************************************************************)
(* No failed sync, death or edit moves the gate of the remote writes       *)
(* (readiness).                                                            *)
(***************************************************************************)
THEOREM GateSafe == Spec => GateMovesBySync
<1>1. StandardInv /\ [Next]_vars =>
        [Ready' # Ready => syncing /\ read' = fetched /\ read' # read]_vars
  BY StepInv
<1> QED
  BY StandardSafe, <1>1, PTL DEF Spec, GateMovesBySync

=============================================================================
