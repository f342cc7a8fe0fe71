------------------------------- MODULE MCSync -------------------------------
(* One kernel thread and two processes share a lock and a semaphore.       *)
EXTENDS Sync

CONSTANTS k1, p1, p2, l1, s1

MCThread == {Idle, k1, p1, p2}
MCPrio == [t \in Thread |-> 1]
MCKThread == {Idle, k1}
MCLock == {l1}
MCCSema == {s1}
=============================================================================
