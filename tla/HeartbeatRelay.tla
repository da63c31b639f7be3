--------------------------- MODULE HeartbeatRelay ---------------------------
(***************************************************************************)
(* What the heartbeat outbox promises: the runtime hears the heartbeats of *)
(* each device in the order they were accepted, skips none, and may only   *)
(* hear the last one again.  Heartbeats are numbered as they are accepted. *)
(***************************************************************************)
EXTENDS Naturals, Sequences

CONSTANTS Devices, Beats

VARIABLES sent, heard   \* accepted: a set per device; heard: a history
vars == <<sent, heard>>

Init == sent = [d \in Devices |-> {}] /\ heard = [d \in Devices |-> <<>>]

Latest(d) == IF heard[d] = <<>> THEN 0 ELSE heard[d][Len(heard[d])]

Accept(d, b) ==
    /\ \A c \in sent[d] : c < b
    /\ sent' = [sent EXCEPT ![d] = @ \cup {b}]
    /\ UNCHANGED heard

\* The next one after the last that was heard, none left out.
Follows(d, b) ==
    /\ b \in sent[d] /\ b > Latest(d)
    /\ \A c \in sent[d] : c > Latest(d) => c >= b

Hear(d, b) ==
    /\ b = Latest(d) \/ Follows(d, b)
    /\ heard' = [heard EXCEPT ![d] = Append(@, b)]
    /\ UNCHANGED sent

Next == \E d \in Devices, b \in Beats : Accept(d, b) \/ Hear(d, b)

Spec == Init /\ [][Next]_vars
==============================================================================
