----------------------------- MODULE IdeChannel -----------------------------
(***************************************************************************)
(* One IDE channel with one disk: ide_read and ide_write of                *)
(* device/block/ide.c by programmed I/O, and of device/pci/ide_dma.c by    *)
(* bus-master DMA, the interrupt handler of the channel, and the drive.    *)
(*                                                                         *)
(* A process is in a system call with interrupts off: it runs from one     *)
(* point where it sleeps to the next in one step.  The kernel threads run  *)
(* with interrupts on, so that the interrupt may come between any two of   *)
(* their statements; they have one more stop, "issued".                    *)
(*                                                                         *)
(* A buffer is a sequence of addresses of mem, one for each sector.  No    *)
(* call moves more than SECTORS_PER_OP_BLOCK sectors (see OneChunk), so    *)
(* that the loops of ide_read_pio and ide_write_pio have one round.        *)
(***************************************************************************)
EXTENDS Integers, SequencesExt

CONSTANTS Proc,     \* processes that call the driver
          KThread,  \* kernel threads that call it
          NSec,     \* sectors of the disk
          SECTORS_PER_OP_BLOCK,  \* sectors moved for one interrupt
          None

Thread == Proc \cup KThread
Lba == 0 .. NSec - 1

ASSUME ChannelAssumption ==
  /\ NSec \in Nat \ {0}
  /\ SECTORS_PER_OP_BLOCK \in Nat \ {0}
  /\ Proc \cap KThread = {}
  /\ None \notin Thread

VARIABLES mem,        \* contents of memory, a sector for each address
          disk,       \* contents of the disk, a value for each sector
          dma,        \* chan->dma_enabled
          holder,     \* thread that holds chan->lock
          expecting,  \* chan->expecting_intr
          wait_disk,  \* value of chan->wait_disk
          irq,        \* an interrupt is pending at the PIC
          drive,      \* the drive: what it does, and on which sectors
          ph,         \* where a thread is in ide_read or ide_write
          req         \* the arguments of its call

chanVars == <<mem, disk, dma, holder, expecting, wait_disk, irq, drive, ph, req>>

NoReq == [op |-> "none", lba |-> 0, buf |-> <<>>]
Idle  == [st |-> "idle", op |-> "none", lba |-> 0, buf |-> <<>>, data |-> <<>>]

ChanInit ==
  /\ disk = [s \in Lba |-> 0]
  /\ dma \in BOOLEAN
  /\ holder = None
  /\ expecting = FALSE
  /\ wait_disk = 0
  /\ irq = FALSE
  /\ drive = Idle
  /\ ph = [t \in Thread |-> "none"]
  /\ req = [t \in Thread |-> NoReq]

-----------------------------------------------------------------------------
\* The contents of the addresses of buf, and memory with v copied to them.
Load(buf) == [i \in 1 .. Len(buf) |-> mem[buf[i]]]
Store(buf, v) ==
  [a \in DOMAIN mem |-> IF Contains(buf, a)
                        THEN v[CHOOSE i \in 1 .. Len(buf) : buf[i] = a] ELSE mem[a]]

\* The n sectors of the disk from lba on, and the disk with v written there.
Sectors(lba, n) == [i \in 1 .. n |-> disk[lba + i - 1]]
DiskWith(lba, v) ==
  [s \in Lba |-> IF s \in lba .. lba + Len(v) - 1 THEN v[s - lba + 1] ELSE disk[s]]

-----------------------------------------------------------------------------
(***************************************************************************)
(* The driver.                                                             *)
(***************************************************************************)
\* The call: thread t is about to take chan->lock.
Call(t, op, lba, buf) ==
  /\ ph' = [ph EXCEPT ![t] = "lock"]
  /\ req' = [req EXCEPT ![t] = [op |-> op, lba |-> lba, buf |-> buf]]

\* expecting_intr = true; sema_wait(&wait_disk), left by Return.
SleepOnDisk(t) ==
  /\ expecting' = TRUE
  /\ ph' = [ph EXCEPT ![t] = "asleep"]

\* Mutant: the lock of the channel is not taken.
ChannelFreeAlways == TRUE

ChannelFree == holder = None

\* lock_acquire, ide_dma_setup, select_sector, cmd_out and BM_CMD_START.  A
\* write by PIO goes on to busy_wait, everything else to sema_wait.
Issue(t) ==
  /\ ph[t] = "lock"
  /\ ChannelFree
  /\ holder' = t
  /\ drive' = [st |-> "busy", op |-> req[t].op, lba |-> req[t].lba,
               buf |-> req[t].buf, data |-> <<>>]
  /\ LET pioWrite == ~dma /\ req[t].op = "write"
     IN  IF pioWrite \/ t \in KThread
         THEN /\ expecting' = TRUE
              /\ ph' = [ph EXCEPT ![t] = IF pioWrite THEN "busy_wait" ELSE "issued"]
         ELSE SleepOnDisk(t)
  /\ UNCHANGED <<mem, disk, dma, wait_disk, irq, req>>

\* A kernel thread, after an interrupt or none, gets to sema_wait.
IssuedSleeps(t) ==
  /\ ph[t] = "issued"
  /\ SleepOnDisk(t)
  /\ UNCHANGED <<mem, disk, dma, holder, wait_disk, irq, drive, req>>

\* busy_wait has seen BSY clear and DRQ set; write2sector, then sema_wait.
Write2Sector(t) ==
  /\ ph[t] = "busy_wait"
  /\ drive.st = "drq"
  /\ drive' = [drive EXCEPT !.st = "busy", !.data = Load(req[t].buf)]
  /\ IF t \in KThread
     THEN ph' = [ph EXCEPT ![t] = "issued"] /\ UNCHANGED expecting
     ELSE SleepOnDisk(t)
  /\ UNCHANGED <<mem, disk, dma, holder, wait_disk, irq, req>>

\* Memory when ide_read or ide_write returns: a read by PIO has taken the
\* sectors from the drive (read_from_sector).
MemRead(t) ==
  IF ~dma /\ req[t].op = "read" THEN Store(req[t].buf, drive.data) ELSE mem

\* sema_wait returns; stop the DMA engine, release chan->lock.  The caller
\* goes on in the same step, with the memory MemRead(t).
Return(t) ==
  /\ ph[t] = "asleep"
  /\ wait_disk > 0
  /\ wait_disk' = wait_disk - 1
  /\ holder' = None
  /\ drive' = Idle
  /\ UNCHANGED <<disk, dma, expecting, irq>>

-----------------------------------------------------------------------------
(***************************************************************************)
(* The interrupt handler and the drive (the latter external).              *)
(***************************************************************************)
\* intr_handler_hd.
IntrHandlerHd ==
  /\ irq
  /\ irq' = FALSE
  /\ IF expecting THEN expecting' = FALSE /\ wait_disk' = wait_disk + 1
                  ELSE UNCHANGED <<expecting, wait_disk>>
  /\ UNCHANGED <<mem, disk, dma, holder, drive, ph, req>>

\* With DMA the drive moves the sectors to or from memory itself.
DriveDma ==
  /\ dma /\ drive.st = "busy"
  /\ IF drive.op = "read"
     THEN /\ mem' = Store(drive.buf, Sectors(drive.lba, Len(drive.buf)))
          /\ UNCHANGED disk
     ELSE /\ disk' = DiskWith(drive.lba, Load(drive.buf))
          /\ UNCHANGED mem
  /\ drive' = [drive EXCEPT !.st = "idle"]
  /\ irq' = TRUE
  /\ UNCHANGED <<dma, holder, expecting, wait_disk, ph, req>>

\* With PIO it has the sectors ready to be read, and interrupts.
DriveRead ==
  /\ ~dma /\ drive.st = "busy" /\ drive.op = "read"
  /\ drive' = [drive EXCEPT !.st = "drq", !.data = Sectors(drive.lba, Len(drive.buf))]
  /\ irq' = TRUE
  /\ UNCHANGED <<mem, disk, dma, holder, expecting, wait_disk, ph, req>>

\* With PIO it asks for the sectors to write without an interrupt, and
\* interrupts when it has written them.
DriveWrite ==
  /\ ~dma /\ drive.st = "busy" /\ drive.op = "write"
  /\ IF drive.data = <<>>
     THEN /\ drive' = [drive EXCEPT !.st = "drq"]
          /\ UNCHANGED <<disk, irq>>
     ELSE /\ disk' = DiskWith(drive.lba, drive.data)
          /\ drive' = [drive EXCEPT !.st = "idle"]
          /\ irq' = TRUE
  /\ UNCHANGED <<mem, dma, holder, expecting, wait_disk, ph, req>>

\* The steps of the channel that are not the end of a call.
ChanStep ==
  \/ \E t \in Thread : \/ Issue(t)
                       \/ Write2Sector(t)
  \/ \E t \in KThread : IssuedSleeps(t)
  \/ IntrHandlerHd
  \/ DriveDma
  \/ DriveRead
  \/ DriveWrite

-----------------------------------------------------------------------------
\* Every call fits in one chunk: the bound bread_multi and the synchroniser
\* keep (ide_buffer.c:330 and :418) is what makes one interrupt end a call.
OneChunk == \A t \in Thread : Len(req[t].buf) <= SECTORS_PER_OP_BLOCK

\* The interrupt a thread sleeps for is its own: there is no signal left
\* over when a command is issued, never more than one, and a thread that is
\* let past sema_wait finds the drive done with the sectors it asked for.
OwnInterrupt ==
  /\ OneChunk
  /\ wait_disk <= 1
  /\ holder = None => wait_disk = 0 /\ ~irq /\ drive = Idle
  /\ \A t \in Thread :
       ph[t] = "asleep" /\ wait_disk > 0 =>
         /\ holder = t
         /\ drive.st # "busy"
         /\ drive.lba = req[t].lba /\ drive.op = req[t].op
=============================================================================
