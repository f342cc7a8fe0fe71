------------------------------ MODULE MCTimer ------------------------------
(* Two processes that sleep, pause and set alarms.                         *)
EXTENDS Timer

CONSTANTS t1, t2

MCThread == {Idle, t1, t2}
MCPrio == [t \in Thread |-> 1]
=============================================================================
