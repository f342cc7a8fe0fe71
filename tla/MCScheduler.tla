---------------------------- MODULE MCScheduler ----------------------------
(* Three threads beside idle, of two priorities.                           *)
EXTENDS Scheduler

CONSTANTS t1, t2, t3

MCThread == {Idle, t1, t2, t3}
MCPrio == [t \in MCThread |-> IF t = t3 THEN 2 ELSE 1]
=============================================================================
