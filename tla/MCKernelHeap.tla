---------------------------- MODULE MCKernelHeap -----------------------------
(* A pool that starts and ends off alignment, arenas of 2 and 3 blocks.     *)
EXTENDS KernelHeap

MCBlockPerArena == [d \in Desc |-> IF d = 0 THEN 3 ELSE 2]
==============================================================================
