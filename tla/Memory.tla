-------------------------------- MODULE Memory --------------------------------
(***************************************************************************)
(* The user memory of mm/memory.c and mm/swap.c: page tables, the faults   *)
(* that fill them, copy on write, eviction to the swap partition, and the  *)
(* calls brk, mmap, munmap, mprotect, fork and exit.                       *)
(*                                                                         *)
(* Addresses are page numbers, but for mm->brk, which counts bytes.  A     *)
(* page holds zeros, bytes of a file, or what was written to it last.      *)
(* Every handler runs with interrupts off and is one step, except that     *)
(* swap_page sleeps while it reads a file.  Reads and writes of the swap   *)
(* partition go through the block cache and are taken not to sleep.        *)
(*                                                                         *)
(* A set-up says how many frames and slots there are, whether programs are *)
(* dynamically linked, which pages they touch, what they write, which      *)
(* calls they make, and two bounds on them (see Fork and MmapFile).        *)
(***************************************************************************)
EXTENDS Vma

CONSTANTS Proc,        \* processes; one of them starts
          None,        \* no process
          File,        \* inodes that can be mapped
          Text,        \* the inode of the program
          i_size,      \* bytes of each inode
          PteNr,       \* pages that a page table maps (USER_PTE_NR)
          Brks,        \* byte addresses asked of brk
          Lens,        \* pages asked of mmap
          MmapProts,   \* protections asked of mmap
          Offsets,     \* offsets asked of mmap with a file, in bytes
          Setups       \* machines and programs to look at, see below

VARIABLES setup,   \* frames, slots, and what the programs do; never changes
          mm,      \* mm_struct: vmas, brk, end_data, pde (tables there are)
          ram,     \* struct page, activate_list, page table entries, swap
          asleep,  \* what swap_page is reading, for which frame
          want,    \* history: what each page of a process should hold
          panic    \* which ASSERT or PANIC stopped the kernel

vars == <<setup, mm, ram, asleep, want, panic>>

\* The pages programs can name.
Page == USER_VADDR_START .. USER_STACK_BASE - 1

(***************************************************************************)
(* What a page can hold: <<file, offset, bytes read>>, zeros, or a value.  *)
(***************************************************************************)
Zeros == <<NoFile, 0, 0>>
FileData(f, off, n) == IF n = 0 THEN Zeros ELSE <<f, off, n>>
Written(x) == <<"written", x, 0>>

\* The caller sees nothing at a page that is not mapped.
Unmapped == <<"unmapped", 0, 0>>

\* A page table entry: nothing, a frame with its W, A and D bits, or a slot.
NoPte == [at |-> "none", n |-> 0, w |-> FALSE, a |-> FALSE, d |-> FALSE]
RamPte(f, w) == [NoPte EXCEPT !.at = "ram", !.n = f, !.w = w]
SwapPte(s) == [NoPte EXCEPT !.at = "swap", !.n = s]

Free == <<"free", 0, 0>>

PdeOf(v) == v \div PteNr

PageAlignUp(bytes) == (bytes + PG_SIZE - 1) \div PG_SIZE

(***************************************************************************)
(* Physical pages.  r is the record ram; frames are alike, so palloc takes *)
(* the lowest one.                                                         *)
(***************************************************************************)
FreeFrames(r) == {f \in DOMAIN r.ref : r.ref[f] = 0}

Unlinked(list, f) == SelectSeq(list, LAMBDA g : g # f)

\* Mutant: the first owner that leaves a shared page stays its owner.
PfreeKeepsOwner(r, f, cur) ==
    LET left == r.ref[f] - 1
    IN  [r EXCEPT !.ref[f] = left,
                  !.owner[f] = IF left = 0 THEN None ELSE @,
                  !.vaddr[f] = IF left = 0 THEN 0 ELSE @,
                  !.data[f] = IF left = 0 THEN Zeros ELSE @,
                  !.active = IF left = 0 THEN Unlinked(@, f) ELSE @]

\* pfree, called by process cur.  What a free frame holds is not told apart:
\* whoever gets it fills it.
Pfree(r, f, cur) ==
    LET left   == r.ref[f] - 1
        orphan == left = 1 /\ r.owner[f] = cur
    IN  [r EXCEPT !.ref[f] = left,
                  !.owner[f] = IF left = 0 \/ orphan THEN None ELSE @,
                  !.vaddr[f] = IF left = 0 THEN 0 ELSE @,
                  !.data[f] = IF left = 0 THEN Zeros ELSE @,
                  !.active = IF left = 0 \/ orphan THEN Unlinked(@, f) ELSE @]

\* pfree of the frames that process p maps in pages, and their entries.
Drop(r, p, pages) ==
    LET Step(s, v) == [Pfree(s, s.pte[p][v].n, p) EXCEPT !.pte[p][v] = NoPte]
    IN  FoldSet(LAMBDA v, s : Step(s, v), r,
                {v \in pages : r.pte[p][v].at = "ram"})

\* mapping_v2p with page_table_add: the page is writable, whatever its area.
MappingV2P(r, p, v, f, content) ==
    [r EXCEPT !.pte[p][v] = RamPte(f, TRUE),
              !.ref[f] = 1, !.owner[f] = p, !.vaddr[f] = v,
              !.active = Append(@, f),
              !.data[f] = content]

(***************************************************************************)
(* Eviction.                                                               *)
(***************************************************************************)
PteOfFrame(r, f) == r.pte[r.owner[f]][r.vaddr[f]]

\* A scan of activate_list for a page of one user with its A bit clear and
\* its D bit in bits.
Scan(r, bits) ==
    SelectInSeq(r.active, LAMBDA f : /\ r.ref[f] = 1
                                     /\ ~ PteOfFrame(r, f).a
                                     /\ PteOfFrame(r, f).d \in bits)

\* The second pass takes the A bit from the pages it goes past.
ClearA(r, upto) ==
    FoldLeft(LAMBDA s, f : [s EXCEPT !.pte[s.owner[f]][s.vaddr[f]].a = FALSE],
             r, SubSeq(r.active, 1, upto))

Clean == {FALSE}
Dirty == {TRUE}

\* The last passes, over a list without A bits: a clean page, or any.
PickIdle(r, third) ==
    LET i == IF third # 0 THEN third ELSE Scan(r, Clean \cup Dirty)
    IN  [r |-> r, f |-> IF i = 0 THEN 0 ELSE r.active[i]]

\* The passes in turn, given what the first and the second one find.
PickFrom(r, first, second) ==
    IF first # 0 THEN [r |-> r, f |-> r.active[first]]
    ELSE IF second # 0 THEN [r |-> ClearA(r, second - 1), f |-> r.active[second]]
    ELSE LET cleared == ClearA(r, Len(r.active))
         IN  PickIdle(cleared, Scan(cleared, Clean))

\* pick_page_from_activate_list: the frame or 0, and the A bits it leaves.
PickPage(r) == PickFrom(r, Scan(r, Clean), Scan(r, Dirty))

FreeSlots(r) == {s \in DOMAIN r.slot : r.slot[s] = Free}

\* Mutant: only the D bit counts, for every program.
MustWriteDirty(e) == e.d

\* Does an entry have to be saved?  owner->is_dyn_link is the set-up's.
MustWrite(e) == e.d \/ (setup.dyn /\ e.w)

\* swap_out of frame f of memory q, which has entry e, by process cur.
Evict(q, f, e, cur) ==
    LET s == Min(FreeSlots(q))
        Gone(t, pte) == Pfree([t EXCEPT !.pte[q.owner[f]][q.vaddr[f]] = pte], f, cur)
    IN  IF ~ MustWrite(e) THEN [ok |-> TRUE, r |-> Gone(q, NoPte)]
        ELSE IF FreeSlots(q) = {} THEN [ok |-> FALSE, r |-> q]
        ELSE [ok |-> TRUE, r |-> Gone([q EXCEPT !.slot[s] = q.data[f]], SwapPte(s))]

EvictPick(pick, cur) ==
    IF pick.f = 0 THEN [ok |-> FALSE, r |-> pick.r]
    ELSE Evict(pick.r, pick.f, PteOfFrame(pick.r, pick.f), cur)

\* swap_out: whether it succeeds, and the memory after it.
SwapOut(r, cur) == EvictPick(PickPage(r), cur)

\* palloc, after a swap_out that returned out.
Palloc(out) ==
    IF out.ok THEN [ok |-> TRUE, r |-> out.r, f |-> Min(FreeFrames(out.r))]
    ELSE [ok |-> FALSE, r |-> out.r, f |-> 0]

\* The loops of swap_page and swap_in: palloc, with one swap_out if need be.
GetFrame(r, cur) ==
    Palloc(IF FreeFrames(r) # {} THEN [ok |-> TRUE, r |-> r] ELSE SwapOut(r, cur))

(***************************************************************************)
(* What a page of an area holds before anybody writes to it.               *)
(***************************************************************************)
PageContent(vma, v) ==
    LET off == (v - vma.start) * PG_SIZE
    IN  IF vma.inode = NoFile \/ off >= vma.filesz THEN Zeros
        ELSE FileData(vma.inode, vma.pgoff + off, Min({PG_SIZE, vma.filesz - off}))

VmaAt(p, v) == mm[p].vmas[FindVma(mm[p].vmas, v)]
Mapped(p, v) == FindVma(mm[p].vmas, v) # 0

-------------------------------------------------------------------------------
Awake == [f |-> 0, content |-> Zeros]

Alive(p) == mm[p].vmas # <<>>

\* p can run: the kernel is up and p does not sleep in the kernel.
Runs(p) == panic = "none" /\ Alive(p) /\ asleep[p] = Awake

NoMm == [vmas |-> <<>>, brk |-> 0, end_data |-> 0, pde |-> {}]
NoPages == [v \in Page |-> NoPte]
NothingWanted == [v \in Page |-> Unmapped]

\* The areas exec leaves: the program, a heap of a page, the stack.
HeapStart == USER_VADDR_START + 1
ExecVmas ==
    << Area(USER_VADDR_START, HeapStart, 0, Text, {"READ", "EXEC"}, i_size[Text]),
       Area(HeapStart, HeapStart + 1, 0, NoFile, HeapFlags, 0),
       Area(USER_MMAP_SEARCH_TOP, USER_STACK_BASE, 0, NoFile,
            {"READ", "WRITE", "GROWSDOWN", "ANON"}, 0) >>

\* What the program of a new process expects of its pages.
Fresh(list) ==
    [v \in Page |-> LET i == FindVma(list, v)
                    IN  IF i = 0 THEN Unmapped ELSE PageContent(list[i], v)]

Init ==
    /\ setup \in Setups
    /\ \E first \in Proc :
         /\ first = CHOOSE p \in Proc : TRUE
         /\ mm = [p \in Proc |->
                    IF p = first
                    THEN [vmas |-> ExecVmas, brk |-> HeapStart * PG_SIZE,
                          end_data |-> HeapStart * PG_SIZE, pde |-> {}]
                    ELSE NoMm]
         /\ want = [p \in Proc |-> IF p = first THEN Fresh(ExecVmas) ELSE NothingWanted]
    /\ ram = [pte |-> [p \in Proc |-> NoPages],
              ref |-> [f \in 1 .. setup.frames |-> 0],
              owner |-> [f \in 1 .. setup.frames |-> None],
              vaddr |-> [f \in 1 .. setup.frames |-> 0],
              data |-> [f \in 1 .. setup.frames |-> Zeros],
              active |-> <<>>,
              slot |-> [s \in 1 .. setup.slots |-> Free]]
    /\ asleep = [p \in Proc |-> Awake]
    /\ panic = "none"

(***************************************************************************)
(* The instructions of a program.                                          *)
(***************************************************************************)
\* A read of a page that is present.  The A bit matters to eviction only.
Read(p, v) ==
    /\ Runs(p) /\ v \in setup.touch /\ setup.slots > 0
    /\ ram.pte[p][v].at = "ram" /\ ~ ram.pte[p][v].a
    /\ ram' = [ram EXCEPT !.pte[p][v].a = TRUE]
    /\ UNCHANGED <<setup, mm, asleep, want, panic>>

\* Programs write to pages of areas they may write to.
Write(p, v, x) ==
    /\ Runs(p) /\ v \in setup.touch
    /\ ram.pte[p][v].at = "ram" /\ ram.pte[p][v].w
    /\ "WRITE" \in VmaAt(p, v).flags
    /\ ram' = [ram EXCEPT !.pte[p][v].a = TRUE, !.pte[p][v].d = TRUE,
                          !.data[ram.pte[p][v].n] = Written(x)]
    /\ want' = [want EXCEPT ![p][v] = Written(x)]
    /\ UNCHANGED <<setup, mm, asleep, panic>>

(***************************************************************************)
(* sys_exit and a fatal signal, as far as memory goes: clear_vma_list and  *)
(* release_pg_block, from memory r.                                        *)
(***************************************************************************)
Released(r, p) ==
    LET dropped == Drop(r, p, Page)
        slots   == {r.pte[p][v].n : v \in {u \in Page : r.pte[p][u].at = "swap"}}
    IN  [dropped EXCEPT !.pte[p] = NoPages,
                        !.slot = [s \in DOMAIN @ |-> IF s \in slots THEN Free ELSE @[s]]]

ExitFrom(r, p) ==
    /\ ram' = Released(r, p)
    /\ mm' = [mm EXCEPT ![p] = NoMm]
    /\ want' = [want EXCEPT ![p] = NothingWanted]
    /\ UNCHANGED <<setup, asleep, panic>>

Exit(p) == Runs(p) /\ "exit" \in setup.calls /\ ExitFrom(ram, p)

(***************************************************************************)
(* swap_page: a page that is not present.                                  *)
(***************************************************************************)
\* swap_in puts the page into frame f of memory r and frees its slot.
SwapIn(r, p, v, f) ==
    LET s == r.pte[p][v].n
        t == MappingV2P(r, p, v, f, r.slot[s])
    IN  [t EXCEPT !.slot[s] = Free,
                  !.pte[p][v].w = "WRITE" \in VmaAt(p, v).flags]

\* A page of an area that has a frame now: a new table if need be, and
\* zeros; a file is read after that, asleep.
LazyLoad(r, p, v, f) ==
    LET content == PageContent(VmaAt(p, v), v)
    IN  /\ ram' = MappingV2P(r, p, v, f, Zeros)
        /\ mm' = [mm EXCEPT ![p].pde = @ \cup {PdeOf(v)}]
        /\ asleep' = [asleep EXCEPT ![p] = IF content = Zeros THEN Awake
                                           ELSE [f |-> f, content |-> content]]

SwapPage(p, v) ==
    /\ Runs(p) /\ v \in setup.touch /\ ram.pte[p][v].at # "ram"
    /\ \E got \in {GetFrame(ram, p)} :
           IF ~ Mapped(p, v) THEN ExitFrom(ram, p)
           ELSE IF ~ got.ok THEN ExitFrom(got.r, p)
           ELSE /\ IF ram.pte[p][v].at = "swap"
                   THEN ram' = SwapIn(got.r, p, v, got.f) /\ UNCHANGED <<mm, asleep>>
                   ELSE LazyLoad(got.r, p, v, got.f)
                /\ UNCHANGED <<setup, want, panic>>

\* inode_read_data returns: the bytes are in the frame that was mapped then.
FileRead(p) ==
    /\ panic = "none" /\ asleep[p] # Awake
    /\ ram' = [ram EXCEPT !.data[asleep[p].f] = asleep[p].content]
    /\ asleep' = [asleep EXCEPT ![p] = Awake]
    /\ UNCHANGED <<setup, mm, want, panic>>

(***************************************************************************)
(* write_protect: a write to a page that is present and not writable.      *)
(***************************************************************************)
\* Mutant: the old frame keeps its count.
CopyOnWriteKeeps(r, p, v, f) ==
    [r EXCEPT !.pte[p][v] = RamPte(f, TRUE),
              !.ref[f] = 1, !.owner[f] = p, !.vaddr[f] = v,
              !.data[f] = r.data[r.pte[p][v].n]]

\* do_copy_on_write: the copy is not put on activate_list.
CopyOnWrite(r, p, v, f) ==
    LET old == r.pte[p][v].n
    IN  Pfree([r EXCEPT !.pte[p][v] = RamPte(f, TRUE),
                        !.ref[f] = 1, !.owner[f] = p, !.vaddr[f] = v,
                        !.data[f] = r.data[old]],
              old, p)

\* The last user of a page gets it back.
Reclaim(r, p, v) ==
    LET f == r.pte[p][v].n
    IN  [r EXCEPT !.pte[p][v].w = TRUE, !.owner[f] = p, !.vaddr[f] = v,
                  !.active = IF f \in ToSet(@) THEN @ ELSE Append(@, f)]

Shared(r, p, v) == r.ref[r.pte[p][v].n] > 1

WriteProtect(p, v) ==
    /\ Runs(p) /\ v \in setup.touch
    /\ ram.pte[p][v].at = "ram" /\ ~ ram.pte[p][v].w
    /\ IF ~ Mapped(p, v)
       THEN panic' = "write_protect" /\ UNCHANGED <<setup, mm, ram, asleep, want>>
       ELSE IF "WRITE" \notin VmaAt(p, v).flags THEN ExitFrom(ram, p)
       ELSE IF ~ Shared(ram, p, v)
            THEN /\ ram' = Reclaim(ram, p, v)
                 /\ UNCHANGED <<setup, mm, asleep, want, panic>>
       ELSE IF FreeFrames(ram) = {}
            THEN panic' = "cow" /\ UNCHANGED <<setup, mm, ram, asleep, want>>
       ELSE /\ ram' = CopyOnWrite(ram, p, v, Min(FreeFrames(ram)))
            /\ UNCHANGED <<setup, mm, asleep, want, panic>>

(***************************************************************************)
(* fork: copy_vma_list, copy_page_tables.  init_mm_struct leaves brk and   *)
(* end_data of the child 0; pages in the swap partition are not copied.    *)
(***************************************************************************)
CopiedTables(r, p, q) ==
    LET ro == [v \in Page |-> IF r.pte[p][v].at = "ram"
                              THEN [r.pte[p][v] EXCEPT !.w = FALSE] ELSE r.pte[p][v]]
        Users(f) == Cardinality({v \in Page : ro[v].at = "ram" /\ ro[v].n = f})
    IN  [r EXCEPT !.pte[p] = ro,
                  !.pte[q] = [v \in Page |-> IF ro[v].at = "ram" THEN ro[v] ELSE NoPte],
                  !.ref = [f \in DOMAIN @ |-> @[f] + Users(f)]]

\* A bound of the runs with swap: the parent has nothing in the swap
\* partition, and what it has not dirtied can be loaded again.
ForkKeepsData(p) ==
    \A v \in Page : LET e == ram.pte[p][v]
                    IN  /\ e.at # "swap"
                        /\ e.at = "ram" /\ ~ e.d => ram.data[e.n] = PageContent(VmaAt(p, v), v)

Fork(p, q) ==
    /\ Runs(p) /\ "fork" \in setup.calls /\ ~ Alive(q) /\ asleep[q] = Awake
    /\ setup.early => ForkKeepsData(p)
    /\ ram' = CopiedTables(ram, p, q)
    /\ mm' = [mm EXCEPT ![q] = [NoMm EXCEPT !.vmas = mm[p].vmas, !.pde = mm[p].pde]]
    /\ want' = [want EXCEPT ![q] = want[p]]
    /\ UNCHANGED <<setup, asleep, panic>>

(***************************************************************************)
(* The calls that change areas.                                            *)
(***************************************************************************)
\* mfree_physical_pages reads the entry of every page, and faults in the
\* kernel where there is no page table; the fault ends the process.
HasTables(p, pages) == \A v \in pages : PdeOf(v) \in mm[p].pde

\* sys_brk.
Brk(p, b) ==
    /\ Runs(p) /\ "brk" \in setup.calls
    /\ b >= mm[p].end_data /\ PageAlignUp(b) < USER_STACK_BASE
    /\ LET list == mm[p].vmas
           heap == FindHeapVma(list, mm[p].end_data \div PG_SIZE)
           old  == PageAlignUp(mm[p].brk)
           new  == PageAlignUp(b)
           gone == new .. old - 1
           Moved(end) == /\ mm' = [mm EXCEPT ![p].brk = b, ![p].vmas[heap].end = end]
                         /\ UNCHANGED <<setup, asleep, panic>>
       IN  IF heap = 0
           THEN panic' = "sys_brk" /\ UNCHANGED <<setup, mm, ram, asleep, want>>
           ELSE \/ /\ b < mm[p].brk /\ new < old
                   /\ IF HasTables(p, gone)
                      THEN /\ Moved(new)
                           /\ ram' = Drop(ram, p, gone)
                           /\ want' = [want EXCEPT ![p] = [v \in Page |->
                                         IF v \in gone THEN Unmapped ELSE @[v]]]
                      ELSE ExitFrom(ram, p)
                \/ /\ new = old
                   /\ Moved(list[heap].end) /\ UNCHANGED <<ram, want>>
                \/ /\ new > old
                   /\ heap < Len(list) => new <= list[heap + 1].start
                   /\ Moved(new)
                   /\ want' = [want EXCEPT ![p] = [v \in Page |->
                                 IF v \in old .. new - 1 /\ @[v] = Unmapped
                                 THEN Zeros ELSE @[v]]]
                   /\ UNCHANGED ram

\* do_mmap of n pages: the area of a gap, and what its pages should hold.
MmapArea(p, n, inode, off, flags, filesz, content) ==
    LET start == FindGapReverse(mm[p].vmas, n)
    IN  /\ start # 0
        /\ mm' = [mm EXCEPT ![p].vmas =
                    AddVmaSorted(@, Area(start, start + n, off, inode, flags, filesz))]
        /\ want' = [want EXCEPT ![p] = [v \in Page |->
                     IF v \in start .. start + n - 1 THEN content[v - start] ELSE @[v]]]
        /\ UNCHANGED <<setup, ram, asleep, panic>>

Prots == {{"READ"}, {"READ", "WRITE"}}

MmapAnon(p, n, prot) ==
    /\ Runs(p) /\ "mmap" \in setup.calls
    /\ MmapArea(p, n, NoFile, 0, prot \cup {"ANON"}, 0,
                [k \in 0 .. n - 1 |-> Zeros])

\* ext2_file_mmap: vma_pgoff is the offset in bytes.  With onefile, a bound,
\* a process has one mapping of a file at a time, of one page: add_vma_sorted
\* and vma_split do not keep the offsets of neighbours and parts.
MmapFile(p, n, f, off, prot) ==
    /\ Runs(p) /\ "mmapfile" \in setup.calls
    /\ setup.onefile => n = 1 /\ \A i \in DOMAIN mm[p].vmas : mm[p].vmas[i].inode # f
    /\ LET Bytes(o) == Min({PG_SIZE, Max({0, i_size[f] - o})})
           visible == Min({Max({0, i_size[f] - off}), n * PG_SIZE})
       IN  MmapArea(p, n, f, off, prot, visible,
                    [k \in 0 .. n - 1 |->
                       FileData(f, off + k * PG_SIZE, Bytes(off + k * PG_SIZE))])

\* sys_munmap: both of its passes, with mfree_page for each area in turn.
Munmap(p, start, end) ==
    /\ Runs(p) /\ "munmap" \in setup.calls
    /\ LET list  == mm[p].vmas
           areas == {list[i] : i \in Visited(list, start, end)}
           segs  == {<<Max({start, a.start}), Min({end, a.end})>> : a \in areas}
           pages == UNION {s[1] .. s[2] - 1 : s \in segs}
           tops  == {s[1] * PG_SIZE : s \in {t \in segs : t[2] * PG_SIZE >= mm[p].brk}}
       IN  /\ \A a \in areas : a.flags \cap {"GROWSUP", "GROWSDOWN"} = {}
           /\ IF HasTables(p, pages)
              THEN /\ ram' = Drop(ram, p, pages)
                   /\ mm' = [mm EXCEPT
                        ![p].vmas = FoldSet(LAMBDA s, l : VaddrRemove(l, s[1], s[2]), @, segs),
                        ![p].brk = Min({@} \cup tops)]
                   /\ want' = [want EXCEPT ![p] = [v \in Page |->
                                 IF v \in start .. end - 1 THEN Unmapped ELSE @[v]]]
                   /\ UNCHANGED <<setup, asleep, panic>>
              ELSE ExitFrom(ram, p)

\* sys_mprotect goes from area to area up to the end or a hole, with
\* update_page_tables_permission, which drops the A and D bits.
Cut(list, page) ==
    LET i == FindVma(list, page)
    IN  IF i # 0 /\ list[i].start < page THEN VmaSplit(list, i, page) ELSE list

Mprotect(p, start, end, prot) ==
    /\ Runs(p) /\ "mprotect" \in setup.calls
    /\ LET stop  == Min({end} \cup {v \in start .. end - 1 : ~ Mapped(p, v)})
           cut   == Cut(Cut(mm[p].vmas, start), stop)
           flags == prot \cup {"USER"}
           Inside(a) == start <= a.start /\ a.end <= stop
           Entry(v, e) == IF v \in start .. stop - 1 /\ e.at = "ram"
                          THEN RamPte(e.n, "WRITE" \in prot /\ ram.ref[e.n] = 1)
                          ELSE e
       IN  /\ mm' = [mm EXCEPT ![p].vmas =
                       [i \in DOMAIN cut |-> IF Inside(cut[i])
                                             THEN [cut[i] EXCEPT !.flags = flags]
                                             ELSE cut[i]]]
           /\ ram' = [ram EXCEPT !.pte[p] = [v \in Page |-> Entry(v, @[v])]]
    /\ UNCHANGED <<setup, asleep, want, panic>>

-------------------------------------------------------------------------------
\* The pages mmap hands out, which munmap and mprotect are asked for.
MmapPage == HeapStart + 1 .. USER_MMAP_SEARCH_TOP

\* A bound: the runs do not mprotect the heap, whose area would no longer
\* be one of a heap.
NotHeap(p, pages) ==
    \A v \in pages : Mapped(p, v) => "GROWSUP" \notin VmaAt(p, v).flags

Calls(p) ==
    \/ \E b \in Brks : Brk(p, b)
    \/ \E n \in Lens, prot \in MmapProts : MmapAnon(p, n, prot)
    \/ \E n \in Lens, f \in File, off \in Offsets, prot \in MmapProts :
           MmapFile(p, n, f, off, prot)
    \/ \E start, end \in MmapPage : start < end /\ Munmap(p, start, end)
    \/ \E start, end \in MmapPage, prot \in Prots :
           start < end /\ NotHeap(p, start .. end - 1) /\ Mprotect(p, start, end, prot)

Next ==
    \E p \in Proc :
        \/ \E v \in Page : Read(p, v) \/ SwapPage(p, v) \/ WriteProtect(p, v)
        \/ \E v \in Page, x \in setup.values : Write(p, v, x)
        \/ FileRead(p)
        \/ Calls(p)
        \/ \E q \in Proc \ {p} : Fork(p, q)
        \/ Exit(p)

Spec == Init /\ [][Next]_vars

-------------------------------------------------------------------------------
(***************************************************************************)
(* Properties.                                                             *)
(***************************************************************************)
\* What process p would read at page v: a frame, the swap partition, or
\* what the next fault would load.  While swap_page sleeps for the page, p
\* does too.
View(p, v) ==
    LET e == ram.pte[p][v]
    IN  CASE e.at = "ram" -> IF asleep[p].f = e.n THEN asleep[p].content ELSE ram.data[e.n]
          [] e.at = "swap" -> ram.slot[e.n]
          [] OTHER -> PageContent(VmaAt(p, v), v)

\* Memory is memory: through faults, eviction, copy on write, and the calls
\* that move areas, every page a process has reads as it last wrote it, or
\* as its file or zeros if it never did, whatever the others do; and a page
\* it gave back is gone.
MemoryHolds ==
    \A p \in Proc : Alive(p) =>
        \A v \in Page : IF want[p][v] = Unmapped THEN ~ Mapped(p, v)
                        ELSE Mapped(p, v) /\ View(p, v) = want[p][v]

Holders(at, n) ==
    {<<p, v>> \in Proc \X Page : ram.pte[p][v].at = at /\ ram.pte[p][v].n = n}

\* ref_count of a frame is the number of entries that map it, a frame with
\* several is writable through none, and a slot in use has exactly one entry:
\* nothing is freed under a user and nothing leaks.
FramesCounted ==
    /\ \A f \in DOMAIN ram.ref :
         LET users == Holders("ram", f)
         IN  /\ ram.ref[f] = Cardinality(users)
             /\ ram.ref[f] > 1 => \A u \in users : ~ ram.pte[u[1]][u[2]].w
    /\ \A s \in DOMAIN ram.slot :
         Cardinality(Holders("swap", s)) = (IF ram.slot[s] = Free THEN 0 ELSE 1)

\* pick_page_from_activate_list follows first_owner and first_vaddr of every
\* page on the list: they lead to an entry of a live process that maps it.
VictimsReachable ==
    /\ IsInjective(ram.active)
    /\ \A i \in DOMAIN ram.active :
         LET f == ram.active[i]
         IN  /\ ram.owner[f] # None /\ Alive(ram.owner[f])
             /\ PteOfFrame(ram, f).at = "ram" /\ PteOfFrame(ram, f).n = f

\* The areas of a process are in order and apart, all its entries lie in
\* them under a page table, and the area that exec made the heap still ends
\* where brk does (or at its first page).
AreasAgree ==
    \A p \in Proc : Alive(p) =>
        LET list == mm[p].vmas
            heap == FindHeapVma(list, HeapStart)
        IN  /\ \A i \in 1 .. Len(list) - 1 : list[i].end <= list[i + 1].start
            /\ \A v \in Page : ram.pte[p][v].at # "none" =>
                                   Mapped(p, v) /\ PdeOf(v) \in mm[p].pde
            /\ heap # 0
            /\ mm[p].end_data # 0 =>
                 list[heap].end \in {PageAlignUp(mm[p].brk), HeapStart + 1}

\* swap_out drops a page it need not write, because the disk holds the same:
\* a page that could be dropped now reads as the next fault would load it.
CleanIsOnDisk ==
    \A i \in DOMAIN ram.active :
        LET f == ram.active[i]
        IN  ram.ref[f] = 1 /\ ~ MustWrite(PteOfFrame(ram, f)) =>
                View(ram.owner[f], ram.vaddr[f])
                    = PageContent(VmaAt(ram.owner[f], ram.vaddr[f]), ram.vaddr[f])

\* sys_brk asserts that it finds the heap of the process.
HeapFound == panic # "sys_brk"
==============================================================================
