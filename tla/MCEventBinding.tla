--------------------------- MODULE MCEventBinding ---------------------------
(* EventBinding on small instances.                                        *)
EXTENDS EventBinding, TLC

\* Row identities are interchangeable.
RowSymmetry == Permutations(Rows)
=============================================================================
