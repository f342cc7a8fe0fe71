---------------------------- MODULE MCTimerSync ----------------------------
(* Two processes, a lock and an alarm.                                     *)
EXTENDS TimerSync

CONSTANTS p1, p2, l1

MCThread == {Idle, p1, p2}
MCPrio == [t \in Thread |-> 1]
MCKThread == {Idle}
MCLock == {l1}
=============================================================================
