------------------------------ MODULE Channel ------------------------------
(***************************************************************************)
(* What a pipe promises: the bytes read are the bytes written, in order    *)
(* and each once; at most Capacity of them are in between; a reader is     *)
(* told "end of file" only when everything was read and nobody can write   *)
(* any more; a writer is told "broken pipe" only when nobody can read.     *)
(***************************************************************************)
EXTENDS Integers, SequencesExt

CONSTANT Capacity

VARIABLES written,  \* every byte written so far
          read,     \* every byte read so far
          readers,  \* open descriptors of the read end
          writers,  \* open descriptors of the write end
          answer    \* what the last call that moved no byte returned

chanVars == <<written, read, readers, writers, answer>>

ChanInit ==
  /\ written = <<>> /\ read = <<>>
  /\ readers = 0 /\ writers = 0
  /\ answer = "none"

InTransit == Len(written) - Len(read)

\* A write (of the part that fits).
Write ==
  /\ readers > 0 /\ writers > 0
  /\ IsStrictPrefix(written, written')
  /\ Len(written') - Len(read) <= Capacity
  /\ answer' = "none"
  /\ UNCHANGED <<read, readers, writers>>

\* A read of n bytes.
Read(n) ==
  /\ readers > 0
  /\ n \in 1 .. InTransit
  /\ read' = SubSeq(written, 1, Len(read) + n)
  /\ answer' = "none"
  /\ UNCHANGED <<written, readers, writers>>

EndOfFile ==
  /\ writers = 0 /\ InTransit = 0
  /\ answer' = "eof"
  /\ UNCHANGED <<written, read, readers, writers>>

BrokenPipe ==
  /\ readers = 0
  /\ answer' = "epipe"
  /\ UNCHANGED <<written, read, readers, writers>>

\* Descriptors are opened, copied and closed; the bytes nobody has read go
\* with the last of them.
Descriptors ==
  /\ readers' \in Nat /\ writers' \in Nat
  /\ answer' = "none"
  /\ written' = IF readers' + writers' = 0 THEN read ELSE written
  /\ UNCHANGED read

ChanNext ==
  \/ Write
  \/ \E n \in 1 .. Capacity : Read(n)
  \/ EndOfFile
  \/ BrokenPipe
  \/ Descriptors

ChanSpec == ChanInit /\ [][ChanNext]_chanVars
=============================================================================
