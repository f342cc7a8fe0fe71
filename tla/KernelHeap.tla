----------------------------- MODULE KernelHeap ------------------------------
(***************************************************************************)
(* Kernel memory: get_kernel_pages / mfree_page and kmalloc / kfree        *)
(* (mm/memory.c) over the buddy allocator.                                 *)
(*                                                                         *)
(*   pool     kernel_pool                                                  *)
(*   slab     slab_desc, slab_cnt and slab_large of struct page            *)
(*   blocks   k_block_descs[d].free_list: pairs <<arena page, index>>      *)
(*   live     the blocks kmalloc has handed out (history)                  *)
(*   chunks   the runs <<page, n>> get_kernel_pages has handed out         *)
(*            (history)                                                    *)
(*   panic    "kernel lowmem exhausted": the number of pages asked for     *)
(*                                                                         *)
(* Sizes appear as what do_alloc makes of them: an index of k_block_descs, *)
(* or a number of pages for more than 1024 bytes.  All of it runs under    *)
(* the lock of kernel_pool, so an operation is one step.                   *)
(***************************************************************************)
EXTENDS Buddy

CONSTANTS Desc,           \* indices of k_block_descs
          BlockPerArena,  \* block_per_arena of each
          Sizes,          \* numbers of pages get_kernel_pages is called with
          LargeSizes,     \* and large kmallocs
          MaxArenas,      \* bound: arenas at a time
          NoDesc

ASSUME HeapAssumption ==
    /\ BlockPerArena \in [Desc -> Nat \ {0}]
    /\ Sizes \cup LargeSizes \subseteq Nat \ {0}
    /\ MaxArenas \in Nat
    /\ NoDesc \notin Desc

VARIABLES pool, slab, blocks, live, chunks, panic

heapVars == <<pool, slab, blocks, live, chunks, panic>>

NoSlab == [desc |-> NoDesc, cnt |-> 0, large |-> FALSE]

HeapInit ==
    /\ pool = BuddyInit
    /\ slab = [pg \in Pfn |-> NoSlab]
    /\ blocks = [d \in Desc |-> <<>>]
    /\ live = {}
    /\ chunks = {}
    /\ panic = 0

Arenas == {pg \in Pfn : slab[pg].desc # NoDesc}
Large  == {pg \in Pfn : slab[pg].large}

CanSupply(n) == PgCntToOrder(n) < MAX_ORDER /\ Supply(pool, PgCntToOrder(n)) # {}

First(n) == PallocPage(pool, PgCntToOrder(n))

\* malloc_page(PF_KERNEL, n) on an empty supply.
MallocPanics(n) ==
    /\ panic = 0 /\ ~CanSupply(n)
    /\ panic' = n
    /\ UNCHANGED <<pool, slab, blocks, live, chunks>>

GetKernelPages(n) ==
    /\ panic = 0 /\ CanSupply(n)
    /\ chunks' = chunks \cup {<<First(n), n>>}
    /\ pool' = PallocPagesExact(pool, n)
    /\ UNCHANGED <<slab, blocks, live, panic>>

FreeKernelPages(c) ==
    /\ panic = 0
    /\ chunks' = chunks \ {c}
    /\ pool' = MfreePage(pool, c[1], c[2])
    /\ UNCHANGED <<slab, blocks, live, panic>>

(***************************************************************************)
(* do_alloc                                                                *)
(***************************************************************************)
KmallocLarge(n) ==
    /\ panic = 0 /\ CanSupply(n)
    /\ slab' = [slab EXCEPT ![First(n)] = [desc |-> NoDesc, cnt |-> n, large |-> TRUE]]
    /\ live' = live \cup {<<First(n), 0>>}
    /\ pool' = PallocPagesExact(pool, n)
    /\ UNCHANGED <<blocks, chunks, panic>>

\* A block off the free list.
Kmalloc(d) ==
    LET b == Head(blocks[d])
    IN  /\ panic = 0 /\ blocks[d] # <<>>
        /\ blocks' = [blocks EXCEPT ![d] = Tail(@)]
        /\ slab' = [slab EXCEPT ![b[1]].cnt = @ - 1]
        /\ live' = live \cup {b}
        /\ UNCHANGED <<pool, chunks, panic>>

\* The free list is empty: a new arena, all of whose blocks but the first
\* stay on it.
KmallocArena(d) ==
    LET a == First(1)
        n == BlockPerArena[d]
    IN  /\ panic = 0 /\ blocks[d] = <<>> /\ CanSupply(1)
        /\ Cardinality(Arenas) < MaxArenas
        /\ pool' = PallocPagesExact(pool, 1)
        /\ slab' = [slab EXCEPT ![a] = [desc |-> d, cnt |-> n - 1, large |-> FALSE]]
        /\ blocks' = [blocks EXCEPT ![d] = [i \in 1 .. n - 1 |-> <<a, i>>]]
        /\ live' = live \cup {<<a, 0>>}
        /\ UNCHANGED <<chunks, panic>>

(***************************************************************************)
(* do_free                                                                 *)
(***************************************************************************)
KfreeLarge(b) ==
    /\ panic = 0 /\ slab[b[1]].large
    /\ live' = live \ {b}
    /\ slab' = [slab EXCEPT ![b[1]] = NoSlab]
    /\ pool' = MfreePage(pool, b[1], slab[b[1]].cnt)
    /\ UNCHANGED <<blocks, chunks, panic>>

\* Mutant: an arena goes back with one block still in use.
LastBlockEarly(a) == slab[a].cnt + 2 >= BlockPerArena[slab[a].desc]

\* Whether this free empties the arena.
LastBlock(a) == slab[a].cnt + 1 = BlockPerArena[slab[a].desc]

KfreeBlock(b) ==
    LET d == slab[b[1]].desc
    IN  /\ panic = 0 /\ d # NoDesc /\ ~LastBlock(b[1])
        /\ live' = live \ {b}
        /\ blocks' = [blocks EXCEPT ![d] = Append(@, b)]
        /\ slab' = [slab EXCEPT ![b[1]].cnt = @ + 1]
        /\ UNCHANGED <<pool, chunks, panic>>

KfreeArena(b) ==
    LET d == slab[b[1]].desc
    IN  /\ panic = 0 /\ d # NoDesc /\ LastBlock(b[1])
        /\ live' = live \ {b}
        /\ blocks' = [blocks EXCEPT ![d] = SelectSeq(@, LAMBDA x : x[1] # b[1])]
        /\ slab' = [slab EXCEPT ![b[1]] = NoSlab]
        /\ pool' = MfreePage(pool, b[1], 1)
        /\ UNCHANGED <<chunks, panic>>

HeapNext ==
    \/ \E n \in Sizes : GetKernelPages(n)
    \/ \E n \in LargeSizes : KmallocLarge(n)
    \/ \E n \in Sizes \cup LargeSizes : MallocPanics(n)
    \/ \E c \in chunks : FreeKernelPages(c)
    \/ \E d \in Desc : Kmalloc(d) \/ KmallocArena(d)
    \/ \E b \in live : KfreeLarge(b) \/ KfreeBlock(b) \/ KfreeArena(b)

HeapSpec == HeapInit /\ [][HeapNext]_heapVars
------------------------------------------------------------------------------
(***************************************************************************)
(* Properties                                                              *)
(***************************************************************************)
\* Every run of pages somebody owns: <<first page, number of pages>>.
Owned == chunks \cup {<<pg, slab[pg].cnt>> : pg \in Large} \cup {<<pg, 1>> : pg \in Arenas}

Run(c) == c[1] .. c[1] + c[2] - 1

\* No page is lost, handed out twice, or both free and in use: the runs that
\* kmalloc and get_kernel_pages own and the blocks on the free lists of the
\* buddy allocator cut the pool into disjoint pieces, in whatever order runs
\* of any length were given back, page by page (palloc_pages, pfree_pages,
\* palloc_pages_exact).
PagesPartitioned ==
    LET pieces == {Run(c) : c \in Owned} \cup {Block(x[1], x[2]) : x \in FreeBlocks(pool)}
    IN  /\ UNION pieces = Pfn
        /\ \A r, s \in pieces : r = s \/ r \cap s = {}
        /\ Cardinality(pieces) = Cardinality(Owned) + Cardinality(FreeBlocks(pool))
        /\ \A k \in Order : IsInjective(pool.free[k])

\* The kernel runs out of memory only when it is out: if the pool has 2^k
\* free pages that are aligned and in a row, palloc_pages finds a block of
\* order k.  This is what merging in pfree_pages is for; a pair of buddies
\* that is left apart would make malloc_page panic with memory to spare.
NoFalseExhaustion ==
    \A k \in Order : \A pg \in Pfn :
        (pg % 2^k = 0 /\ Block(pg, k) \subseteq FreePages(pool)) => Supply(pool, k) # {}

\* The heap's books agree: the blocks of the arenas are in use or on the
\* free list of their size, once; slab_cnt says how many are free; and an
\* arena all of whose blocks are free is given back (do_alloc, do_free).
HeapAgrees ==
    LET of(d) == Range(blocks[d])
        all(a) == {a} \X (0 .. BlockPerArena[slab[a].desc] - 1)
    IN  /\ \A d \in Desc :
            /\ IsInjective(blocks[d])
            /\ of(d) \subseteq UNION {all(a) : a \in {x \in Arenas : slab[x].desc = d}}
        /\ \A a \in Arenas :
            LET unused == {b \in of(slab[a].desc) : b[1] = a}
            IN  /\ slab[a].cnt = Cardinality(unused)
                /\ {b \in live : b[1] = a} = all(a) \ unused
                /\ unused # all(a)
        /\ {b[1] : b \in live} = Arenas \cup Large
==============================================================================
