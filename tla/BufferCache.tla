----------------------------- MODULE BufferCache -----------------------------
(***************************************************************************)
(* The block cache of device/block/ide_buffer.c over one disk: getblk with *)
(* its eviction, _bread, bread_multi, bwrite, bwrite_multi, brelse, and    *)
(* the kernel thread sync_ide_buffer that writes dirty blocks back.        *)
(*                                                                         *)
(* What is done under global_ide_buffer.lock is one step: the lock guards  *)
(* all of the lists and counts.  A process gives way only where it waits   *)
(* for that lock or for the disk, so the statements from one such place to *)
(* the next are part of the step.  kmalloc is such a place, because it may *)
(* have to swap a page out.                                                *)
(*                                                                         *)
(* The contents of a sector are a version number: how many times it has    *)
(* been written.                                                           *)
(***************************************************************************)
EXTENDS IdeChannel, FiniteSetsExt

CONSTANTS Bh,      \* memory for buffer_heads
          Sync,    \* the synchroniser
          Setups   \* cache sizes, with or without DMA, the processes and what
                   \* they call, and the bound on the writes of a sector

ASSUME CacheAssumption ==
  /\ KThread = {Sync}
  /\ \A s \in Setups : s.max \in Nat /\ DOMAIN s.calls \subseteq Proc

VARIABLES setup,         \* max, which is max_blk_num, and the calls of each process
          blk, ref, dirty, valid,  \* b_blocknr, b_ref_count, b_dirty, b_valid
          hash,          \* buffer_heads in the hash table
          lru,           \* lru_list
          dirty_lists, active,  \* dirty_lists and active_dirty_idx of the disk
          sorted, batch, \* sorted_list and batch of the synchroniser
          spc,           \* where the synchroniser is
          pc, job,       \* where a process is, and what for
          mine, victim,  \* the buffer_heads it holds a pointer to
          panic,         \* why the kernel has stopped
          latest         \* history: the version last stored in each sector

hw    == <<disk, dma, holder, expecting, wait_disk, irq, drive>>
heads == <<blk, ref, dirty, valid>>
lists == <<hash, lru, dirty_lists, active>>
syncVars == <<sorted, batch, spc>>
procVars == <<pc, job, mine, victim>>
cacheVars == <<chanVars, setup, heads, lists, syncVars, procVars, panic, latest>>

NoJob == [op |-> "none", lba |-> 0, n |-> 0, i |-> 0, bulk |-> 0, j |-> 0]

\* The buffer of a process, and io_buffer of the synchroniser.
OutBuf(p, from, n) == [k \in 1 .. n |-> <<p, from + k>>]
IoBuf(n) == [k \in 1 .. n |-> <<Sync, k>>]
Addr == Bh \cup (Thread \X (1 .. SECTORS_PER_OP_BLOCK))

CacheInit ==
  /\ ChanInit
  /\ mem = [a \in Addr |-> 0]
  /\ setup \in Setups /\ dma \in setup.dma
  /\ blk = [h \in Bh |-> 0]
  /\ ref = [h \in Bh |-> 0]
  /\ dirty = [h \in Bh |-> FALSE]
  /\ valid = [h \in Bh |-> FALSE]
  /\ hash = {} /\ lru = <<>>
  /\ dirty_lists = [x \in 0 .. 1 |-> <<>>] /\ active = 0
  /\ sorted = <<>> /\ batch = <<>> /\ spc = "run"
  /\ pc = [p \in Proc |-> "user"]
  /\ job = [p \in Proc |-> NoJob]
  /\ mine = [p \in Proc |-> None]
  /\ victim = [p \in Proc |-> None]
  /\ panic = "no"
  /\ latest = [s \in Lba |-> 0]

-----------------------------------------------------------------------------
(***************************************************************************)
(* getblk.  "get" is its entry, "room" the while loop that evicts, which   *)
(* holds the lock, "evict" the write of a dirty victim, "alloc" kmalloc.   *)
(***************************************************************************)
\* global_ide_buffer.lock is free for thread t.
Unlocked(t) == \A q \in Proc \ {t} : pc[q] # "room"

\* The sector the process is calling getblk for.
Target(p) == job[p].lba + job[p].i + job[p].j

\* hash_find.
Cached(b) == {h \in hash : blk[h] = b}

\* What the caller of getblk does with head h, up to the next lock.  v says
\* whether h holds valid data.
Got(p, h, v) ==
  LET r == job[p]
      out == <<p, r.i + r.j + 1>>
      Continue(where, m, now) ==
        /\ mine' = [mine EXCEPT ![p] = h]
        /\ pc' = [pc EXCEPT ![p] = where]
        /\ mem' = m
        /\ valid' = [valid EXCEPT ![h] = now]
      Version == latest' = [latest EXCEPT ![Target(p)] = @ + 1]
  IN  CASE r.op = "bread" /\ v -> Continue("brelse", mem, v) /\ UNCHANGED <<latest, ph, req>>
        [] r.op = "modify" /\ v ->
             /\ Continue("bwrite", [mem EXCEPT ![h] = @ + 1], v)
             /\ Version
             /\ UNCHANGED <<ph, req>>
        [] r.op \in {"bread", "modify"} /\ ~v ->
             /\ Continue("load", mem, v)
             /\ Call(p, "read", Target(p), <<h>>)
             /\ UNCHANGED latest
        [] r.op = "bread_multi" /\ r.bulk = 0 ->
             /\ Continue(IF v THEN "brelse" ELSE "scan",
                         IF v THEN [mem EXCEPT ![out] = mem[h]] ELSE mem, v)
             /\ UNCHANGED <<latest, ph, req>>
        [] r.op = "bread_multi" /\ r.bulk > 0 ->
             /\ Continue("brelse", IF v THEN mem ELSE [mem EXCEPT ![h] = mem[out]], TRUE)
             /\ UNCHANGED <<latest, ph, req>>
        [] r.op = "bwrite_multi" ->
             /\ Continue("bwrite", [mem EXCEPT ![h] = latest[Target(p)] + 1], TRUE)
             /\ Version
             /\ UNCHANGED <<ph, req>>

\* A hit; the head moves to the back of lru_list.
GetHit(p) ==
  /\ pc[p] = "get" /\ Unlocked(p)
  /\ \E h \in Cached(Target(p)) :
       /\ ref' = [ref EXCEPT ![h] = @ + 1]
       /\ lru' = Append(Remove(lru, h), h)
       /\ Got(p, h, valid[h])
  /\ UNCHANGED <<hw, blk, dirty, hash, dirty_lists, active, syncVars, job, victim, panic>>

\* A miss; above 80% the synchroniser is woken.
GetMiss(p) ==
  /\ pc[p] = "get" /\ Unlocked(p)
  /\ Cached(Target(p)) = {}
  /\ spc' = IF Cardinality(hash) > (setup.max * 8) \div 10 /\ spc = "sleep" THEN "run" ELSE spc
  /\ pc' = [pc EXCEPT ![p] = "room"]
  /\ UNCHANGED <<chanVars, heads, lists, sorted, batch, job, mine, victim, panic, latest>>

\* find_victim: the first head of lru_list nobody holds, as a sequence.
FindVictim == SelectSeq(lru, LAMBDA h : ref[h] = 0)

\* blk_evict(h), but for its assertion.  What the freed memory holds does
\* not matter.
BlkEvict(h) ==
  /\ hash' = hash \ {h}
  /\ lru' = Remove(lru, h)
  /\ blk' = [blk EXCEPT ![h] = 0]
  /\ valid' = [valid EXCEPT ![h] = FALSE]
  /\ mem' = [mem EXCEPT ![h] = 0]

\* Mutant: a dirty victim is dropped like a clean one.
WriteFirstNever(h) == FALSE

\* A dirty victim is written before it goes.
WriteFirst(h) == dirty[h]

Unlink(h) == [x \in 0 .. 1 |-> Remove(dirty_lists[x], h)]

\* Below 90% the loop ends.
RoomEnds(p) ==
  /\ pc[p] = "room"
  /\ Cardinality(hash) < (setup.max * 9) \div 10
  /\ pc' = [pc EXCEPT ![p] = "alloc"]
  /\ UNCHANGED <<chanVars, heads, lists, syncVars, job, mine, victim, panic, latest>>

\* One round of the loop.
RoomRound(p) ==
  /\ pc[p] = "room"
  /\ Cardinality(hash) >= (setup.max * 9) \div 10
  /\ IF FindVictim = <<>>
     THEN /\ panic' = "exhausted"
          /\ UNCHANGED <<hash, lru, blk, valid, mem, dirty_lists, pc, victim, ph, req>>
     ELSE LET h == Head(FindVictim)
          IN  /\ dirty_lists' = Unlink(h)
              /\ UNCHANGED panic
              /\ IF WriteFirst(h)
                 THEN /\ victim' = [victim EXCEPT ![p] = h]
                      /\ pc' = [pc EXCEPT ![p] = "evict"]
                      /\ Call(p, "write", blk[h], <<h>>)
                      /\ UNCHANGED <<hash, lru, blk, valid, mem>>
                 ELSE /\ BlkEvict(h)
                      /\ UNCHANGED <<victim, pc, ph, req>>
  /\ UNCHANGED <<hw, ref, dirty, active, syncVars, job, mine, latest>>

\* The victim is on the disk: the lock is taken again, and blk_evict asserts
\* that nobody holds it.
EvictDone(p) ==
  /\ pc[p] = "evict" /\ Unlocked(p)
  /\ Return(p)
  /\ ph' = [ph EXCEPT ![p] = "none"]
  /\ req' = [req EXCEPT ![p] = NoReq]
  /\ dirty' = [dirty EXCEPT ![victim[p]] = FALSE]
  /\ IF ref[victim[p]] = 0
     THEN BlkEvict(victim[p]) /\ dirty_lists' = Unlink(victim[p]) /\ UNCHANGED panic
     ELSE panic' = "assert" /\ UNCHANGED <<hash, lru, blk, valid, mem, dirty_lists>>
  /\ pc' = [pc EXCEPT ![p] = "room"]
  /\ victim' = [victim EXCEPT ![p] = None]
  /\ UNCHANGED <<ref, active, syncVars, job, mine, latest>>

\* The second hash_find of getblk.
Recheck(b) == Cached(b)

\* Somebody has created the block meanwhile.
AllocLost(p) ==
  /\ pc[p] = "alloc" /\ Unlocked(p)
  /\ \E h \in Recheck(Target(p)) :
       /\ ref' = [ref EXCEPT ![h] = @ + 1]
       /\ Got(p, h, valid[h])
  /\ UNCHANGED <<hw, blk, dirty, lists, syncVars, job, victim, panic>>

\* The new head goes into the table, with no valid data.
AllocInsert(p) ==
  /\ pc[p] = "alloc" /\ Unlocked(p)
  /\ Recheck(Target(p)) = {}
  /\ LET h == CHOOSE x \in Bh : x \notin hash
     IN  /\ blk' = [blk EXCEPT ![h] = Target(p)]
         /\ ref' = [ref EXCEPT ![h] = 1]
         /\ dirty' = [dirty EXCEPT ![h] = FALSE]
         /\ hash' = hash \cup {h}
         /\ lru' = Append(lru, h)
         /\ Got(p, h, FALSE)
  /\ UNCHANGED <<hw, dirty_lists, active, syncVars, job, victim, panic>>

-----------------------------------------------------------------------------
(***************************************************************************)
(* The calls of the upper layers.  "modify" is what ext2_write_inode and   *)
(* ide_dev_write do: _bread, change the sector in place, bwrite, brelse.   *)
(***************************************************************************)
Start(p) ==
  /\ pc[p] = "user"
  /\ \E c \in setup.calls[p] :
       /\ c.op \in {"modify", "bwrite_multi"} =>
            \A s \in c.lba .. c.lba + c.n - 1 : latest[s] < setup.maxVer[s]
       /\ job' = [job EXCEPT ![p] = [NoJob EXCEPT !.op = c.op, !.lba = c.lba, !.n = c.n]]
  /\ pc' = [pc EXCEPT ![p] = "get"]
  /\ UNCHANGED <<chanVars, heads, lists, syncVars, mine, victim, panic, latest>>

\* ide_read returns to _bread; the caller goes on with the valid head.
LoadDone(p) ==
  /\ pc[p] = "load"
  /\ Return(p)
  /\ ph' = [ph EXCEPT ![p] = "none"]
  /\ req' = [req EXCEPT ![p] = NoReq]
  /\ valid' = [valid EXCEPT ![mine[p]] = TRUE]
  /\ dirty' = [dirty EXCEPT ![mine[p]] = FALSE]
  /\ IF job[p].op = "modify"
     THEN /\ mem' = [MemRead(p) EXCEPT ![mine[p]] = @ + 1]
          /\ latest' = [latest EXCEPT ![Target(p)] = @ + 1]
          /\ pc' = [pc EXCEPT ![p] = "bwrite"]
     ELSE /\ mem' = MemRead(p)
          /\ pc' = [pc EXCEPT ![p] = "brelse"]
          /\ UNCHANGED latest
  /\ UNCHANGED <<blk, ref, lists, syncVars, job, mine, victim, panic>>

\* Mutant: the list the synchroniser is emptying.
ActiveOld == 1 - active

ActiveIdx == active

\* Only a head that is not dirty is put on the list.
Marks(h) == ~dirty[h]

\* bwrite, and the same lines of bwrite_multi.
BWrite(p) ==
  /\ pc[p] = "bwrite" /\ Unlocked(p)
  /\ IF Marks(mine[p])
     THEN /\ dirty' = [dirty EXCEPT ![mine[p]] = TRUE]
          /\ dirty_lists' = [dirty_lists EXCEPT ![ActiveIdx] = Append(@, mine[p])]
     ELSE UNCHANGED <<dirty, dirty_lists>>
  /\ pc' = [pc EXCEPT ![p] = "brelse"]
  /\ UNCHANGED <<chanVars, blk, ref, valid, hash, lru, active, syncVars, job, mine, victim,
                 panic, latest>>

\* The cursors of the loops after a sector, or after the last one of a bulk.
Advance(r) ==
  IF r.j + 1 < r.bulk THEN [r EXCEPT !.j = @ + 1]
  ELSE [r EXCEPT !.i = @ + (IF r.bulk = 0 THEN 1 ELSE r.bulk), !.j = 0, !.bulk = 0]

\* brelse.
Relse(h) == [ref EXCEPT ![h] = @ - 1]

\* brelse, and on to the next sector of the call.
BRelse(p) ==
  /\ pc[p] = "brelse" /\ Unlocked(p)
  /\ ref' = Relse(mine[p])
  /\ mine' = [mine EXCEPT ![p] = None]
  /\ LET r == Advance(job[p])
     IN  IF r.i < r.n
         THEN pc' = [pc EXCEPT ![p] = "get"] /\ job' = [job EXCEPT ![p] = r] /\ UNCHANGED mem
         ELSE /\ pc' = [pc EXCEPT ![p] = "user"]
              /\ job' = [job EXCEPT ![p] = NoJob]
              /\ mem' = [a \in Addr |-> IF a \in Bh \/ a[1] # p THEN mem[a] ELSE 0]
  /\ UNCHANGED <<hw, ph, req, blk, dirty, valid, lists, syncVars, victim, panic, latest>>

\* bulk_cnt: this sector and those after it that are not in the cache.
BulkCnt(r) ==
  Max({k \in 1 .. Min({r.n - r.i, SECTORS_PER_OP_BLOCK}) :
         \A d \in 1 .. k - 1 : Cached(r.lba + r.i + d) = {}})

\* bread_multi has a head without data: brelse it, count the sectors to read
\* with it, and read them into the caller's buffer.
BreadScan(p) ==
  /\ pc[p] = "scan" /\ Unlocked(p)
  /\ ref' = Relse(mine[p])
  /\ mine' = [mine EXCEPT ![p] = None]
  /\ LET r == job[p]
         k == BulkCnt(r)
     IN  /\ job' = [job EXCEPT ![p].bulk = k]
         /\ Call(p, "read", r.lba + r.i, OutBuf(p, r.i, k))
  /\ pc' = [pc EXCEPT ![p] = "bulk"]
  /\ UNCHANGED <<hw, mem, blk, dirty, valid, lists, syncVars, victim, panic, latest>>

\* ide_read returns to bread_multi, which goes on to fill the cache.
BulkDone(p) ==
  /\ pc[p] = "bulk"
  /\ Return(p)
  /\ mem' = MemRead(p)
  /\ ph' = [ph EXCEPT ![p] = "none"]
  /\ req' = [req EXCEPT ![p] = NoReq]
  /\ pc' = [pc EXCEPT ![p] = "get"]
  /\ UNCHANGED <<heads, lists, syncVars, job, mine, victim, panic, latest>>

ProcStep(p) ==
  \/ Start(p) \/ GetHit(p) \/ GetMiss(p) \/ RoomEnds(p) \/ RoomRound(p) \/ EvictDone(p)
  \/ AllocLost(p) \/ AllocInsert(p) \/ LoadDone(p) \/ BWrite(p) \/ BRelse(p)
  \/ BreadScan(p) \/ BulkDone(p)

-----------------------------------------------------------------------------
(***************************************************************************)
(* sync_ide_buffer, for the one disk there is.                             *)
(***************************************************************************)
\* sys_milsleep ends, by its timer or because sys_sync has woken the thread.
SyncWakes ==
  /\ spc = "sleep"
  /\ spc' = "run"
  /\ UNCHANGED <<chanVars, heads, lists, sorted, batch, procVars, panic, latest>>

\* Nothing on the active list, or bwrite is sent to the other list.
SyncSwitch ==
  /\ spc = "run"
  /\ IF dirty_lists[active] = <<>>
     THEN spc' = "sleep" /\ UNCHANGED active
     ELSE spc' = "drain" /\ active' = 1 - active
  /\ UNCHANGED <<chanVars, heads, hash, lru, dirty_lists, sorted, batch, procVars, panic, latest>>

\* Mutant: the synchroniser takes no reference.
PinNone(old) == ref

\* b_ref_count++ for every block of the old list.
Pin(old) == [h \in Bh |-> IF Contains(old, h) THEN ref[h] + 1 ELSE ref[h]]

\* The old list is emptied into sorted_list, every block held meanwhile.
SyncDrain ==
  /\ spc = "drain" /\ Unlocked(Sync)
  /\ LET old == dirty_lists[1 - active]
     IN  /\ ref' = Pin(old)
         /\ sorted' = SortSeq(old, LAMBDA g, h : blk[g] < blk[h])
  /\ dirty_lists' = [dirty_lists EXCEPT ![1 - active] = <<>>]
  /\ spc' = "batch"
  /\ UNCHANGED <<chanVars, blk, dirty, valid, hash, lru, active, batch, procVars, panic, latest>>

\* Blocks at the front of sorted_list that are neighbours on the disk.
Neighbours ==
  Max({k \in 1 .. Min({Len(sorted), SECTORS_PER_OP_BLOCK}) :
         \A d \in 1 .. k - 1 : blk[sorted[d + 1]] = blk[sorted[d]] + 1})

\* A batch is taken off the list and marked clean, or the round is over.
SyncBatch ==
  /\ spc = "batch" /\ Unlocked(Sync)
  /\ IF sorted = <<>>
     THEN spc' = "sleep" /\ UNCHANGED <<dirty, sorted, batch>>
     ELSE /\ batch' = SubSeq(sorted, 1, Neighbours)
          /\ sorted' = SubSeq(sorted, Neighbours + 1, Len(sorted))
          /\ dirty' = [h \in Bh |-> dirty[h] /\ ~Contains(batch', h)]
          /\ spc' = "copy"
  /\ UNCHANGED <<chanVars, blk, ref, valid, lists, procVars, panic, latest>>

\* The batch is copied to io_buffer and ide_write called.
SyncCopy ==
  /\ spc = "copy"
  /\ mem' = Store(IoBuf(Len(batch)), Load(batch))
  /\ Call(Sync, "write", blk[batch[1]], IoBuf(Len(batch)))
  /\ spc' = "write"
  /\ UNCHANGED <<hw, heads, lists, sorted, batch, procVars, panic, latest>>

\* The batch is on the disk; its blocks are let go.
SyncDone ==
  /\ spc = "write" /\ Unlocked(Sync)
  /\ Return(Sync)
  /\ mem' = [a \in Addr |-> IF a \in Bh \/ a[1] # Sync THEN mem[a] ELSE 0]
  /\ ph' = [ph EXCEPT ![Sync] = "none"]
  /\ req' = [req EXCEPT ![Sync] = NoReq]
  /\ ref' = [h \in Bh |-> IF Contains(batch, h) THEN ref[h] - 1 ELSE ref[h]]
  /\ batch' = <<>>
  /\ spc' = "batch"
  /\ UNCHANGED <<blk, dirty, valid, lists, sorted, procVars, panic, latest>>

SyncStep == SyncWakes \/ SyncSwitch \/ SyncDrain \/ SyncBatch \/ SyncCopy \/ SyncDone

\* A stopped kernel stays stopped.
Stopped == panic # "no" /\ UNCHANGED cacheVars

Running(A) == panic = "no" /\ A /\ UNCHANGED setup
InChan(A) == Running(A /\ UNCHANGED <<heads, lists, syncVars, procVars, panic, latest>>)
CacheNext ==
  \/ InChan(ChanStep)
  \/ \E p \in DOMAIN setup.calls : Running(ProcStep(p))
  \/ Running(SyncStep)
  \/ Stopped

\* A thread in the kernel goes on when it can; the locks and the semaphore
\* have queues, so that a thread that is let in again and again gets in.
CacheFairness ==
  /\ \A t \in Thread : /\ SF_cacheVars(InChan(Issue(t)))
                       /\ WF_cacheVars(InChan(Write2Sector(t)))
  /\ WF_cacheVars(InChan(IssuedSleeps(Sync)))
  /\ WF_cacheVars(InChan(IntrHandlerHd \/ DriveDma \/ DriveRead \/ DriveWrite))
  /\ SF_cacheVars(Running(SyncStep))
  /\ \A p \in Proc : WF_cacheVars(p \in DOMAIN setup.calls /\ pc[p] # "user" /\ Running(ProcStep(p)))

CacheSpec == CacheInit /\ [][CacheNext]_cacheVars /\ CacheFairness

-----------------------------------------------------------------------------
\* The assertion of blk_evict (ide_buffer.c:113): a block whose write-back
\* getblk has waited for is still held by nobody.
VictimUnheld == panic # "assert"

\* There is one head for a sector, and no thread has a pointer to a head
\* that has been freed: the reference counts and the second look of getblk
\* (ide_buffer.c:221) see to it.  A head is held as often as threads hold
\* it, a victim by nobody.
HeadsAlive ==
  /\ VictimUnheld
  /\ \A b \in Lba : Cardinality(Cached(b)) <= 1
  /\ \A p \in Proc : {mine[p], victim[p]} \subseteq hash \cup {None}
  /\ ToSet(sorted) \cup ToSet(batch) \cup ToSet(dirty_lists[0]) \cup ToSet(dirty_lists[1])
       \subseteq hash
  /\ \A h \in hash :
       ref[h] = Cardinality({p \in Proc : mine[p] = h})
                + Cardinality({i \in DOMAIN (sorted \o batch) : (sorted \o batch)[i] = h})

\* The cache and the disk together hold what was last stored in a sector: the
\* head of the sector if it has valid data, or else the disk (ide_buffer.c:284
\* says of a block just read that it "is the latest data").  So are the
\* sectors bread_multi has put in the buffer of its caller.
Delivered(p) == job[p].i + (IF job[p].bulk = 0 THEN 1 ELSE job[p].bulk)
Coherent ==
  /\ \A b \in Lba :
       LET valids == {h \in Cached(b) : valid[h]}
       IN  latest[b] = IF valids = {} THEN disk[b] ELSE mem[CHOOSE h \in valids : TRUE]
  /\ \A p \in Proc :
       pc[p] = "brelse" /\ job[p].op = "bread_multi" =>
         \A k \in 1 .. Delivered(p) : mem[<<p, k>>] = latest[job[p].lba + k - 1]

\* Whenever the disk is behind what was stored in a sector it catches up
\* (sync_ide_buffer's promise, ide_buffer.c:431), unless the kernel stops.
WrittenBack ==
  \A b \in Lba : disk[b] # latest[b] ~> (disk[b] = latest[b] \/ panic # "no")
=============================================================================
