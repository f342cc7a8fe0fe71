------------------------------- MODULE MCPipe -------------------------------
(* Two processes share a pipe, or open a FIFO.  Those that share a pipe    *)
(* fork and use dup2; those that open a FIFO do not.                       *)
EXTENDS Pipe

CONSTANTS p1, p2

MCProc == {p1, p2}
MCCalls == [PIPE |-> {"dup2", "fork"}, FIFO |-> {}]
MCNoCalls == [PIPE |-> {}]
MCFork == [PIPE |-> {"fork"}]
=============================================================================
