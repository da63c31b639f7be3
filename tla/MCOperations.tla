---------------------------- MODULE MCOperations ----------------------------
(***************************************************************************)
(* Three registrations for Operations: an operation starts, and in one     *)
(* instant it is ended and another one starts.                             *)
(***************************************************************************)
EXTENDS Operations

MCCreatedAt == [r \in Records |-> IF r = 1 THEN 1 ELSE 2]

=============================================================================
