---------------------------- MODULE MCTaskQueue ----------------------------
(* Small instances of TaskQueue.                                           *)
EXTENDS TaskQueue, TLC

Request(type, entity, key, unfinished) ==
  [type |-> type, entity |-> entity, key |-> key, unfinished |-> unfinished]

\* An alarm cycle to reconcile and the periodic synchronisation.
ClaimRequests ==
  {Request("RECONCILE_ALARM_EVENT", "d1", "e1", TRUE),
   Request("SYNC_STANDARD", "standards", "sync", TRUE)}

\* Comparisons of one device and their retries; reminders of one device, whose
\* key changes with the sequence number; the cycles of one device.
IdentityRequests ==
  {Request("SHADOW_COMPARE", "d1", "latest", TRUE),
   Request("SHADOW_COMPARE", "d1", "retry", FALSE),
   Request("NOTIFY_OPERATION_OVERDUE", "d1", "s0", TRUE),
   Request("NOTIFY_OPERATION_OVERDUE", "d1", "s1", TRUE),
   Request("RECONCILE_ALARM_EVENT", "d1", "e1", TRUE),
   Request("RECONCILE_ALARM_EVENT", "d1", "e2", TRUE)}

Symmetric == Permutations(TaskIds) \cup Permutations(Workers)
=============================================================================
