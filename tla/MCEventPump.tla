---------------------------- MODULE MCEventPump ----------------------------
(* EventPump on a small instance: one startup wait and one ordinary timer.  *)
EXTENDS EventPump

CONSTANTS wait1, wait2

MCDelay == [t \in Timers |-> IF t = wait1 THEN MaxTime ELSE 1]
=============================================================================
