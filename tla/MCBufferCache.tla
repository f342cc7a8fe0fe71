---------------------------- MODULE MCBufferCache ----------------------------
(* BufferCache on three sectors.  With a small cache and one process there  *)
(* is eviction; with room for every sector there are two processes, each    *)
(* with sectors of its own, or both only reading the same ones.             *)
EXTENDS BufferCache

CONSTANTS p1, p2

MCKThread == {Sync}
CallOf(op, lba, n) == [op |-> op, lba |-> lba, n |-> n]
TwiceFirst == [s \in Lba |-> IF s = 0 THEN 2 ELSE 1]

Tight == [max |-> 3, dma |-> {TRUE}, maxVer |-> TwiceFirst,
          calls |-> [p \in {p1} |->
                       {CallOf("modify", 0, 1), CallOf("modify", 2, 1), CallOf("bread", 2, 1),
                        CallOf("bread_multi", 0, 2), CallOf("bwrite_multi", 0, 2)}]]
Roomy == [max |-> 5, dma |-> {FALSE}, maxVer |-> TwiceFirst,
          calls |-> [p \in {p1, p2} |->
                       IF p = p1 THEN {CallOf("modify", 0, 1), CallOf("bwrite_multi", 0, 1)}
                       ELSE {CallOf("modify", 1, 1), CallOf("bread_multi", 1, 1)}]]
Readers == [max |-> 5, dma |-> {TRUE}, maxVer |-> [s \in Lba |-> 0],
            calls |-> [p \in {p1, p2} |-> {CallOf("bread", 0, 1), CallOf("bread_multi", 0, 2)}]]
MCSetups == {Tight, Roomy, Readers}

\* The same sector used by both processes.
MCShared == {[Roomy EXCEPT !.calls = [p \in {p1, p2} |-> {CallOf("modify", 0, 1)}]]}
==============================================================================
