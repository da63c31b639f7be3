---------------------------- MODULE MCProjection ----------------------------
(* The HTTP threads are interchangeable. *)
EXTENDS Projection, TLC

RequestSymmetry == Permutations(Requests)
==============================================================================
