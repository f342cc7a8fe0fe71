-------------------------------- MODULE Pipe --------------------------------
(***************************************************************************)
(* One pipe or FIFO: the ring buffer of device/ioqueue.c, reads, writes    *)
(* and closes of fs/pipe.c, the open of fs/fifo.c, and everything that     *)
(* copies or drops a descriptor of it (sys_pipe, sys_dup2, F_DUPFD, fork,  *)
(* exit).                                                                  *)
(*                                                                         *)
(* A system call runs with interrupts off, so it is one step up to the     *)
(* point where it sleeps in ioq_wait; a process that has been woken        *)
(* continues its loop in a later step, after whatever else ran first.      *)
(***************************************************************************)
EXTENDS Integers, SequencesExt, FiniteSetsExt

CONSTANTS Proc,       \* processes
          Root,       \* the process that is there first
          Fd,         \* local descriptors of a process
          GFile,      \* entries of the global file_table
          Kinds,      \* the i_types there are: "PIPE", "FIFO"
          BUFSIZE,    \* slots of the ring; one of them stays empty
          COUNT_MOD,  \* reader_count is a uint32_t: 2^32
          Counts,     \* byte counts passed to read and write
          Modes,      \* flags passed to open a FIFO
          Calls,      \* for each kind, which of "dup2", "fork" processes use
          MaxBytes,   \* bound on the bytes written in a run
          None

ASSUME PipeAssumption ==
  /\ Root \in Proc
  /\ Kinds \subseteq {"PIPE", "FIFO"}
  /\ BUFSIZE \in Nat /\ BUFSIZE >= 2
  /\ COUNT_MOD \in Nat \ {0}
  /\ Counts \subseteq Nat \ {0}
  /\ Modes \subseteq {"RDONLY", "WRONLY", "RDWR"}
  /\ Calls \in [Kinds -> SUBSET {"dup2", "fork"}]
  /\ Fd \subseteq Nat /\ GFile \subseteq Nat
  /\ None \notin Proc \cup GFile

VARIABLES kind,          \* i_type of the inode
          live,          \* processes that exist
          fds,           \* fd_table: local descriptor -> global entry
          flag,          \* file.fd_flag of a global entry
          f_count,       \* file.f_count
          i_open_cnts,   \* global entries that refer to the inode
          base,          \* is the buffer page allocated?
          reader_count, writer_count,
          buf, head, tail,
          consumer, producer,  \* the process asleep at each end, or None
          pc,            \* where a process is: "user" or inside a call
          left,          \* bytes its call has still to move
          panic,         \* an ASSERT has failed and the kernel has stopped
          written, delivered, answer  \* history: see Channel

ring  == <<buf, head, tail>>
files == <<kind, live, fds, flag, f_count, i_open_cnts>>
ends  == <<reader_count, writer_count>>
hist  == <<written, delivered, answer>>
pipeVars == <<files, base, ends, ring, consumer, producer, pc, left, panic, hist>>

PipeInit ==
  /\ kind \in Kinds
  /\ live = {Root}
  /\ fds = [p \in Proc |-> [d \in Fd |-> None]]
  /\ flag = [g \in GFile |-> "none"]
  /\ f_count = [g \in GFile |-> 0]
  /\ i_open_cnts = 0
  /\ base = FALSE
  /\ reader_count = 0 /\ writer_count = 0
  /\ buf = [i \in 0 .. BUFSIZE - 1 |-> 0]
  /\ head = 0 /\ tail = 0
  /\ consumer = None /\ producer = None
  /\ pc = [p \in Proc |-> "user"]
  /\ left = [p \in Proc |-> 0]
  /\ panic = FALSE
  /\ written = <<>> /\ delivered = <<>> /\ answer = "none"

-----------------------------------------------------------------------------
(***************************************************************************)
(* ioqueue.c.                                                              *)
(***************************************************************************)
NextPos(i) == (i + 1) % BUFSIZE
IoqFull == NextPos(head) = tail
IoqEmpty == head = tail
IoqLength == IF head >= tail THEN head - tail ELSE BUFSIZE - (tail - head)

\* Mutant: no slot stays empty.
CapacityWhole == BUFSIZE

Capacity == BUFSIZE - 1

\* The bytes of the queue, oldest first.
Queue == [i \in 1 .. IoqLength |-> buf[(tail + i - 1) % BUFSIZE]]

\* k calls of ioq_get_raw in a row, each of which wakes the producer.
GetRaw(k) ==
  /\ tail' = (tail + k) % BUFSIZE
  /\ producer' = None
  /\ UNCHANGED <<buf, head, consumer>>

\* Mutant: the consumer is not woken.
PutRawQuiet(b) ==
  /\ buf' = [i \in DOMAIN buf |->
               LET k == (i - head + BUFSIZE) % BUFSIZE
               IN  IF k < Len(b) THEN b[k + 1] ELSE buf[i]]
  /\ head' = (head + Len(b)) % BUFSIZE
  /\ UNCHANGED <<consumer, tail>>

\* The bytes b put by ioq_put_raw in a row, each of which wakes the consumer.
PutRaw(b) ==
  /\ buf' = [i \in DOMAIN buf |->
               LET k == (i - head + BUFSIZE) % BUFSIZE
               IN  IF k < Len(b) THEN b[k + 1] ELSE buf[i]]
  /\ head' = (head + Len(b)) % BUFSIZE
  /\ consumer' = IF b = <<>> THEN consumer ELSE None
  /\ UNCHANGED tail

Asleep(p) == p \in {consumer, producer}

\* A process can make a call, or go on with the one it is in.
InUser(p) == ~ panic /\ p \in live /\ pc[p] = "user"
Resumes(p, where) == ~ panic /\ pc[p] = where /\ ~ Asleep(p)

Return(p) ==
  /\ pc' = [pc EXCEPT ![p] = "user"]
  /\ left' = [left EXCEPT ![p] = 0]

-----------------------------------------------------------------------------
(***************************************************************************)
(* pipe_read and pipe_write: from the start, or from where the process     *)
(* woke up, to the return or the next sleep.                               *)
(***************************************************************************)
ReadTurn(p, n) ==
  \/ /\ ~ IoqEmpty
     /\ LET k == Min({n, IoqLength}) IN
          /\ GetRaw(k)
          /\ delivered' = delivered \o SubSeq(Queue, 1, k)
     /\ answer' = "none"
     /\ Return(p)
     /\ UNCHANGED <<panic, written>>
  \/ /\ IoqEmpty /\ writer_count = 0
     /\ answer' = "eof"
     /\ Return(p)
     /\ UNCHANGED <<ring, consumer, producer, panic, written, delivered>>
  \/ /\ IoqEmpty /\ writer_count # 0
     /\ pc' = [pc EXCEPT ![p] = "read"]
     /\ left' = [left EXCEPT ![p] = n]
     /\ IF consumer = None
        THEN consumer' = p /\ UNCHANGED panic
        ELSE panic' = TRUE /\ UNCHANGED consumer
     /\ answer' = "none"
     /\ UNCHANGED <<ring, producer, written, delivered>>

WriteTurn(p, n) ==
  \/ /\ reader_count = 0
     /\ answer' = "epipe"
     /\ Return(p)
     /\ UNCHANGED <<ring, consumer, producer, panic, written, delivered>>
  \/ /\ reader_count # 0
     /\ LET k == Min({n, Capacity - IoqLength})
            b == [i \in 1 .. k |-> Len(written) + i]
        IN  /\ PutRaw(b)
            /\ written' = written \o b
            /\ IF k = n
               THEN Return(p) /\ UNCHANGED <<producer, panic>>
               ELSE /\ pc' = [pc EXCEPT ![p] = "write"]
                    /\ left' = [left EXCEPT ![p] = n - k]
                    /\ IF producer = None
                       THEN producer' = p /\ UNCHANGED panic
                       ELSE panic' = TRUE /\ UNCHANGED producer
     /\ answer' = "none"
     /\ UNCHANGED delivered

CanRead(g) == g # None /\ flag[g] \in {"RDONLY", "RDWR"}
CanWrite(g) == g # None /\ flag[g] \in {"WRONLY", "RDWR"}

SysRead(p, d, n) ==
  /\ InUser(p) /\ CanRead(fds[p][d])
  /\ ReadTurn(p, n)
  /\ UNCHANGED <<files, base, ends>>

ReadResumes(p) ==
  /\ Resumes(p, "read")
  /\ ReadTurn(p, left[p])
  /\ UNCHANGED <<files, base, ends>>

SysWrite(p, d, n) ==
  /\ InUser(p) /\ CanWrite(fds[p][d])
  /\ Len(written) + n <= MaxBytes
  /\ WriteTurn(p, n)
  /\ UNCHANGED <<files, base, ends>>

WriteResumes(p) ==
  /\ Resumes(p, "write")
  /\ WriteTurn(p, left[p])
  /\ UNCHANGED <<files, base, ends>>

-----------------------------------------------------------------------------
(***************************************************************************)
(* Descriptors.  dropped and added say how many local descriptors of each  *)
(* global entry a call closes and creates; counted says whether the call   *)
(* also counts the new ones as readers and writers.                        *)
(***************************************************************************)
CountOf(table, g) == Cardinality({d \in Fd : table[d] = g})
One(g) == [h \in GFile |-> IF h = g THEN 1 ELSE 0]
Zero == [h \in GFile |-> 0]
EndSum(mode, m) == MapThenSumSet(LAMBDA g : m[g], {g \in GFile : flag[g] = mode})

\* Mutant: only the writer is woken.
CloseWakesWriter(dropped) ==
  /\ producer' = IF dropped = Zero THEN producer ELSE None
  /\ UNCHANGED consumer

\* The wake-ups of pipe_release: both ends.
CloseWakes(dropped) ==
  /\ producer' = IF dropped = Zero THEN producer ELSE None
  /\ consumer' = IF dropped = Zero THEN consumer ELSE None

\* sys_close for each dropped descriptor (pipe_release, file_close and
\* inode_close, which frees the buffer with the last entry), then the new
\* descriptors.
UpdateFiles(dropped, added, counted) ==
  LET fc   == [g \in GFile |-> f_count[g] - dropped[g] + added[g]]
      gone == {g \in GFile : f_count[g] > 0 /\ fc[g] = 0}
      more(mode) == IF counted THEN EndSum(mode, added) ELSE 0
      open == i_open_cnts - Cardinality(gone)
  IN  /\ f_count' = fc
      /\ flag' = [g \in GFile |-> IF g \in gone THEN "none" ELSE flag[g]]
      /\ i_open_cnts' = open
      /\ base' = (base /\ open > 0)
      /\ reader_count' =
           (reader_count - EndSum("RDONLY", dropped) + more("RDONLY")) % COUNT_MOD
      /\ writer_count' =
           (writer_count - EndSum("WRONLY", dropped) + more("WRONLY")) % COUNT_MOD
      /\ CloseWakes(dropped)
      /\ answer' = "none"
      /\ written' = IF open = 0 THEN delivered ELSE written
      /\ UNCHANGED <<ring, pc, left, panic, delivered>>

\* pcb_fd_install and get_free_slot_in_global take the first free slot.
FreeFds(p) == {d \in Fd : fds[p][d] = None}
FreeSlots == {g \in GFile : f_count[g] = 0}
SecondMin(S) == Min(S \ {Min(S)})

\* sys_pipe: two entries, one descriptor for each; it panics when there is
\* no slot for them.
SysPipe(p) ==
  /\ kind = "PIPE" /\ InUser(p)
  /\ i_open_cnts = 0 /\ written = <<>>
  /\ Cardinality(FreeFds(p)) >= 2 /\ Cardinality(FreeSlots) >= 2
  /\ LET r  == Min(FreeSlots)   w  == SecondMin(FreeSlots)
         dr == Min(FreeFds(p))  dw == SecondMin(FreeFds(p))
     IN  /\ fds' = [fds EXCEPT ![p][dr] = r, ![p][dw] = w]
         /\ flag' = [flag EXCEPT ![r] = "RDONLY", ![w] = "WRONLY"]
         /\ f_count' = [f_count EXCEPT ![r] = 1, ![w] = 1]
  /\ i_open_cnts' = 2
  /\ base' = TRUE
  /\ reader_count' = 1 /\ writer_count' = 1
  /\ head' = 0 /\ tail' = 0
  /\ consumer' = None /\ producer' = None
  /\ answer' = "none"
  /\ UNCHANGED <<kind, live, buf, pc, left, panic, written, delivered>>

SysClose(p, d) ==
  /\ InUser(p) /\ fds[p][d] # None
  /\ fds' = [fds EXCEPT ![p][d] = None]
  /\ UpdateFiles(One(fds[p][d]), Zero, FALSE)
  /\ UNCHANGED <<kind, live>>

\* Mutant: the copy is not counted as a reader or writer.
SysDup2Uncounted(p, old, new) ==
  /\ "dup2" \in Calls[kind]
  /\ InUser(p) /\ old # new /\ fds[p][old] # None
  /\ fds' = [fds EXCEPT ![p][new] = fds[p][old]]
  /\ UpdateFiles(One(fds[p][new]), One(fds[p][old]), FALSE)
  /\ UNCHANGED <<kind, live>>

\* sys_dup2: new is closed first if it is open.
SysDup2(p, old, new) ==
  /\ "dup2" \in Calls[kind]
  /\ InUser(p) /\ old # new /\ fds[p][old] # None
  /\ fds' = [fds EXCEPT ![p][new] = fds[p][old]]
  /\ UpdateFiles(One(fds[p][new]), One(fds[p][old]), kind = "PIPE")
  /\ UNCHANGED <<kind, live>>

\* fcntl(F_DUPFD).
FcntlDupFd(p, old, new) ==
  /\ InUser(p) /\ fds[p][old] # None /\ fds[p][new] = None
  /\ fds' = [fds EXCEPT ![p][new] = fds[p][old]]
  /\ UpdateFiles(Zero, One(fds[p][old]), FALSE)
  /\ UNCHANGED <<kind, live>>

\* copy_process without CLONE_FILES: the child q gets a copy of the table,
\* and update_f_cnts counts its descriptors.
Fork(p, q) ==
  /\ "fork" \in Calls[kind]
  /\ InUser(p) /\ q \notin live
  /\ live' = live \cup {q}
  /\ fds' = [fds EXCEPT ![q] = fds[p]]
  /\ UpdateFiles(Zero, [g \in GFile |-> CountOf(fds[p], g)], kind = "PIPE")
  /\ UNCHANGED kind

\* sys_exit: release_files closes every descriptor.
Exit(p) ==
  /\ InUser(p)
  /\ live' = live \ {p}
  /\ fds' = [fds EXCEPT ![p] = [d \in Fd |-> None]]
  /\ UpdateFiles([g \in GFile |-> CountOf(fds[p], g)], Zero, FALSE)
  /\ UNCHANGED kind

-----------------------------------------------------------------------------
(***************************************************************************)
(* fifo_open.                                                              *)
(***************************************************************************)

\* The loop of fifo_open with the counts rc and wc and the sleepers c and w:
\* the opener of one end waits for the other end, and wakes it.
OpenTurn(p, mode, rc, wc, c, w) ==
  \/ /\ mode = "WRONLY" /\ rc # 0
     /\ consumer' = None /\ producer' = w
     /\ Return(p) /\ UNCHANGED panic
  \/ /\ mode = "WRONLY" /\ rc = 0
     /\ consumer' = None
     /\ pc' = [pc EXCEPT ![p] = "openw"]
     /\ IF w = None THEN producer' = p /\ UNCHANGED panic
                    ELSE producer' = w /\ panic' = TRUE
     /\ UNCHANGED left
  \/ /\ mode # "WRONLY" /\ wc # 0
     /\ producer' = None /\ consumer' = c
     /\ Return(p) /\ UNCHANGED panic
  \/ /\ mode # "WRONLY" /\ wc = 0
     /\ producer' = None
     /\ pc' = [pc EXCEPT ![p] = "openr"]
     /\ IF c = None THEN consumer' = p /\ UNCHANGED panic
                    ELSE consumer' = c /\ panic' = TRUE
     /\ UNCHANGED left

\* sys_open of the FIFO: the first open allocates the buffer.
FifoOpen(p, mode) ==
  LET old(n) == IF base THEN n ELSE 0
      rc == old(reader_count) + (IF mode # "WRONLY" THEN 1 ELSE 0)
      wc == old(writer_count) + (IF mode # "RDONLY" THEN 1 ELSE 0)
  IN  /\ kind = "FIFO" /\ InUser(p)
      /\ FreeSlots # {} /\ FreeFds(p) # {}
      /\ LET g == Min(FreeSlots) IN
           /\ fds' = [fds EXCEPT ![p][Min(FreeFds(p))] = g]
           /\ flag' = [flag EXCEPT ![g] = mode]
           /\ f_count' = [f_count EXCEPT ![g] = 1]
      /\ i_open_cnts' = i_open_cnts + 1
      /\ base' = TRUE
      /\ head' = old(head) /\ tail' = old(tail)
      /\ reader_count' = rc /\ writer_count' = wc
      /\ OpenTurn(p, mode, rc, wc, consumer, producer)
      /\ answer' = "none"
      /\ UNCHANGED <<kind, live, buf, written, delivered>>

OpenResumes(p) ==
  /\ \/ Resumes(p, "openr")
        /\ OpenTurn(p, "RDONLY", reader_count, writer_count, consumer, producer)
     \/ Resumes(p, "openw")
        /\ OpenTurn(p, "WRONLY", reader_count, writer_count, consumer, producer)
  /\ answer' = "none"
  /\ UNCHANGED <<files, base, ends, ring, written, delivered>>

\* Another process, not related to the ones there are, for a FIFO.
Stranger(q) ==
  /\ kind = "FIFO" /\ ~ panic /\ q \notin live
  /\ live' = live \cup {q}
  /\ UNCHANGED <<kind, fds, flag, f_count, i_open_cnts, base, ends, ring, consumer,
                 producer, pc, left, panic, hist>>

-----------------------------------------------------------------------------
PipeNext ==
  \E p \in Proc :
    \/ SysPipe(p)
    \/ \E d \in Fd, n \in Counts : SysRead(p, d, n) \/ SysWrite(p, d, n)
    \/ ReadResumes(p) \/ WriteResumes(p) \/ OpenResumes(p)
    \/ \E d \in Fd : SysClose(p, d)
    \/ \E d, e \in Fd : SysDup2(p, d, e)
    \/ \E q \in Proc : Fork(p, q)
    \/ Exit(p)
    \/ \E mode \in Modes : FifoOpen(p, mode)
    \/ Stranger(p)

\* The scheduler starves no ready process, and every process ends.
PipeFairness ==
  \A p \in Proc :
    /\ WF_pipeVars(ReadResumes(p) \/ WriteResumes(p) \/ OpenResumes(p))
    /\ WF_pipeVars(Exit(p))

PipeSpec == PipeInit /\ [][PipeNext]_pipeVars /\ PipeFairness

\* The same when processes also use F_DUPFD.
DupFdNext == PipeNext \/ \E p \in Proc, d, e \in Fd : FcntlDupFd(p, d, e)

DupFdSpec == PipeInit /\ [][DupFdNext]_pipeVars /\ PipeFairness

-----------------------------------------------------------------------------
(***************************************************************************)
(* Properties.                                                             *)
(***************************************************************************)
Wheres == {"user", "read", "write", "openr", "openw"}

\* Every variable has its type.
PipeTypeOK ==
  /\ kind \in Kinds /\ live \subseteq Proc
  /\ fds \in [Proc -> [Fd -> GFile \cup {None}]]
  /\ flag \in [GFile -> {"none", "RDONLY", "WRONLY", "RDWR"}]
  /\ f_count \in [GFile -> Nat]
  /\ i_open_cnts \in Nat
  /\ base \in BOOLEAN /\ panic \in BOOLEAN
  /\ {reader_count, writer_count} \subseteq 0 .. COUNT_MOD - 1
  /\ buf \in [0 .. BUFSIZE - 1 -> Nat]
  /\ {head, tail} \subseteq 0 .. BUFSIZE - 1
  /\ {consumer, producer} \subseteq Proc \cup {None}
  /\ pc \in [Proc -> Wheres]
  /\ left \in [Proc -> Nat]

\* The local descriptors, of all processes, that pass the test.
Descriptors(Test(_)) ==
  Cardinality({<<p, d>> \in Proc \X Fd : fds[p][d] # None /\ Test(flag[fds[p][d]])})

Readers == Descriptors(LAMBDA f : f \in {"RDONLY", "RDWR"})
Writers == Descriptors(LAMBDA f : f \in {"WRONLY", "RDWR"})

\* pipe_release counts one reader or writer off for every descriptor that is
\* closed, so dup2 and fork must have counted each of them: otherwise, as
\* the comment in sys_dup2 says, the reader gets an end of file while a
\* write end is still open.
CountsAreDescriptors ==
  base => reader_count = Readers /\ writer_count = Writers

\* f_count and i_open_cnts are the references there really are, and the
\* buffer is there while anybody can use it.
ReferencesCounted ==
  /\ \A g \in GFile :
       f_count[g] = Cardinality({<<p, d>> \in Proc \X Fd : fds[p][d] = g})
  /\ i_open_cnts = Cardinality({g \in GFile : f_count[g] > 0})
  /\ base <=> i_open_cnts > 0
  /\ \A p \in Proc : pc[p] # "user" => base

\* Through dup2, fork, close and exit in any order every count of the pipe, of
\* its files and of its inode is the number of references there are.
CountsAgree == CountsAreDescriptors /\ ReferencesCounted

\* Nobody sleeps who could go on: a reader sleeps on an empty queue that can
\* still get data, a writer on a full one that can still be drained, and an
\* opener while the other end is not open.
SleepersHaveReason ==
  /\ consumer # None =>
       IF pc[consumer] = "read" THEN IoqEmpty /\ writer_count > 0
                                ELSE pc[consumer] = "openr" /\ writer_count = 0
  /\ producer # None =>
       IF pc[producer] = "write" THEN IoqFull /\ reader_count > 0
                                 ELSE pc[producer] = "openw" /\ reader_count = 0

\* The ASSERT of ioq_wait: nobody else sleeps at this end of the queue.
OneSleeperPerEnd == ~ panic

\* The pipe is a channel: see Channel.
Chan == INSTANCE Channel WITH
          read <- delivered, readers <- Readers, writers <- Writers

PipeIsChannel == Chan!ChanSpec

\* A reader that has no write end itself is not left asleep in read: it gets
\* bytes or the end of file.
SleepingReaderWakes ==
  \A p \in Proc :
    (consumer = p /\ pc[p] = "read" /\ \A d \in Fd : ~ CanWrite(fds[p][d]))
      ~> (consumer # p \/ panic)
=============================================================================
