------------------------------- MODULE MCMemory -------------------------------
EXTENDS Memory

CONSTANTS p1, p2, text, lib

\* The program fills its page; the library has ten bytes on a second one.
MCSize == [f \in {text, lib} |-> IF f = text THEN PG_SIZE ELSE PG_SIZE + 10]
MCMmapProts == {{"READ", "WRITE"}}
MCBrks == {3 * PG_SIZE, 3 * PG_SIZE + 1, 5 * PG_SIZE}
Machine(frames, slots, touch, values, calls) ==
    [frames |-> frames, slots |-> slots, dyn |-> TRUE, touch |-> touch,
     values |-> values, calls |-> calls, early |-> TRUE, onefile |-> TRUE]

\* Areas in one process with memory enough; memory pressure in one process;
\* copy on write with memory enough; copy on write under pressure.
MCSetups ==
    {Machine(3, 0, {3, 4, 7}, {1}, {"brk", "mmap", "munmap"}),
     Machine(2, 0, {7}, {1}, {"mmap", "mmapfile", "munmap", "mprotect"}),
     Machine(2, 2, {2, 3, 8}, {1, 2}, {"exit"}),
     Machine(4, 0, {3, 8}, {1}, {"fork", "exit"}),
     Machine(2, 2, {3, 8}, {1}, {"fork", "exit"})}

\* A child of fork grows its heap.
MCForkBrk == {Machine(2, 0, {3}, {1}, {"fork", "brk"})}

\* A statically linked program under memory pressure.
MCSwapClean == {[Machine(1, 2, {3, 8}, {1}, {}) EXCEPT !.dyn = FALSE]}
================================================================================
