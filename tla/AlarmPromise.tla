---------------------------- MODULE AlarmPromise ----------------------------
(***************************************************************************)
(* What the alarm lifecycle promises the operators of one device, without  *)
(* timers, tasks or records: an alarm is raised only by a violation no     *)
(* normal reading interrupted for VerifyAfter, and withdrawn only by a     *)
(* normal condition no violation interrupted for RecoveryAfter.  Unknown   *)
(* readings (device offline, no standard, no work in progress) neither     *)
(* raise nor withdraw anything.                                            *)
(***************************************************************************)
EXTENDS Integers

CONSTANTS
  VerifyAfter,    \* the continuous-violation debounce window
  RecoveryAfter   \* the consecutive-normal confirmation window

VARIABLES
  raised,   \* an alarm cycle is open for the device
  violated, \* time since the violation began, None while there is none
  normal    \* time since the condition became normal, None while it is not

vars == <<raised, violated, normal>>

None == -1

Verdicts == {"VIOLATION", "NORMAL", "UNKNOWN"}

\* A verdict starts one clock, or lets it run, and stops the other.
Violated(v) == CASE v = "NORMAL"                      -> None
                 [] v = "VIOLATION" /\ violated = None -> 0
                 [] OTHER                              -> violated

Normal(v) == CASE v = "VIOLATION"                -> None
               [] v = "NORMAL" /\ normal = None -> 0
               [] OTHER                          -> normal

Observe(v) ==
  /\ violated' = Violated(v)
  /\ normal' = Normal(v)
  /\ \/ raised' = raised
     \/ ~raised /\ v = "VIOLATION" /\ violated' >= VerifyAfter /\ raised' = TRUE
     \/ raised /\ v = "NORMAL" /\ normal' >= RecoveryAfter /\ raised' = FALSE

\* Clocks stop where nothing depends on them any more.
Later(t, limit) == IF t = None \/ t >= limit THEN t ELSE t + 1

Pass ==
  /\ violated' = Later(violated, VerifyAfter)
  /\ normal' = Later(normal, RecoveryAfter)
  /\ UNCHANGED raised

Init == raised = FALSE /\ violated = None /\ normal = None

Next == (\E v \in Verdicts : Observe(v)) \/ Pass

Spec == Init /\ [][Next]_vars
=============================================================================
