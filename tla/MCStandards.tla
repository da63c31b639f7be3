---------------------------- MODULE MCStandards ----------------------------
(***************************************************************************)
(* Rows for Standards: a chain of two revisions, a changed content, a      *)
(* second revision that is for a device which is not configured, a rival   *)
(* of the same rank, one that spells the device differently, a row for an  *)
(* operation, an incomplete one.                                           *)
(***************************************************************************)
EXTENDS Standards

Row(id, revision, device, operation, from, to, limits) ==
  [id |-> id, revision |-> revision, area |-> "hall", device |-> device,
   operation |-> operation, control |-> "ALL_DAY", priority |-> 0,
   from |-> from, to |-> to, enabled |-> TRUE, limits |-> limits, complete |-> TRUE]

first  == Row("s1", 1, "TH1", AnyKind, 0, NoEnd, "wide")
second == Row("s1", 2, "TH1", AnyKind, 1, 2, "narrow")

MCSpellings == {"TH1", "th1", "TH2"}
MCDeviceOf  == [x \in MCSpellings |-> IF x = "TH2" THEN "TH2" ELSE "TH1"]

MCStandards ==
  { first, second,
    [first EXCEPT !.limits = "narrow"],
    [second EXCEPT !.device = "TH2"],
    Row("s2", 1, "TH1", AnyKind, 1, NoEnd, "wide"),
    Row("s3", 1, "th1", AnyKind, 0, NoEnd, "wide"),
    Row("s4", 1, "TH1", "drying", 0, 1, "wide"),
    [Row("s5", 1, "TH1", AnyKind, 0, NoEnd, "wide") EXCEPT !.complete = FALSE] }

MCLegacy == {first, [first EXCEPT !.limits = "narrow"]}

MCContexts ==
  [area : {"hall"}, device : {"TH1"}, operation : {AnyKind, "drying"}, at : 0..2]

=============================================================================
