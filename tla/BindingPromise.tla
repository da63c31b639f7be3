--------------------------- MODULE BindingPromise ---------------------------
(***************************************************************************)
(* What projecting local alarm cycles to remote rows promises, whatever    *)
(* calls fail and whenever the process dies: a cycle puts at most one row  *)
(* of its own into the table, and the cycle a row is projected from only   *)
(* ever changes to a later cycle.  A row is named by the cycle that made   *)
(* it, since its business key is that cycle's start.                       *)
(***************************************************************************)
EXTENDS Naturals

CONSTANTS NCycles, Rows

Cycles == 1..NCycles

VARIABLES
    made,   \* each row ever stored, deleted ones included, with its cycle
    owner   \* the cycle each cycle's row is projected from, 0 if none

Init == made = {} /\ owner = [k \in Cycles |-> 0]

Make(r, k) ==
    /\ \A m \in made : m[1] # r /\ m[2] # k
    /\ made' = made \cup {<<r, k>>}
    /\ UNCHANGED owner

Own(k, e) ==
    /\ \E r \in Rows : <<r, k>> \in made
    /\ owner[k] < e
    /\ owner' = [owner EXCEPT ![k] = e]
    /\ UNCHANGED made

Next == \E k \in Cycles : \/ \E r \in Rows : Make(r, k)
                           \/ \E e \in Cycles : Own(k, e)

Spec == Init /\ [][Next]_<<made, owner>>
=============================================================================
