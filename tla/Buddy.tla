-------------------------------- MODULE Buddy --------------------------------
(***************************************************************************)
(* The buddy allocator of mm/buddy.c and its exact form palloc_pages_exact *)
(* (mm/memory.c), as operators on the state of one buddy_pool:             *)
(*                                                                         *)
(*   free[k]   areas[k].free_list, a sequence of first page numbers        *)
(*   order[p]  page.order, and  flag[p] == page.flags & 1 ("allocated")    *)
(*                                                                         *)
(* Both fields of a page are only meaningful while it heads a block: the   *)
(* code leaves stale values in the pages that a merge swallows, and so do  *)
(* these operators.  Every operation runs under the lock of the pool.      *)
(* nr_free is Len(free[k]).                                                *)
(***************************************************************************)
EXTENDS Integers, Sequences, SequencesExt, FiniteSets, FiniteSetsExt

CONSTANTS MAX_ORDER,     \* number of orders
          StartPfn,      \* phy_addr_start >> 12
          EndPfn         \* (phy_addr_start + pool_size) >> 12

ASSUME BuddyAssumption ==
    /\ MAX_ORDER \in Nat \ {0}
    /\ StartPfn \in Nat /\ EndPfn \in Nat /\ StartPfn < EndPfn

Pfn == StartPfn .. EndPfn - 1
Order == 0 .. MAX_ORDER - 1

Block(pg, k) == pg .. pg + 2^k - 1

(***************************************************************************)
(* buddy_init: from the start, the largest aligned block that fits.        *)
(***************************************************************************)
InitOrder(pg) ==
    Max({k \in Order : k = 0 \/ (pg % 2^k = 0 /\ pg + 2^k <= EndPfn)})

BuddyInit ==
    LET heads[pg \in StartPfn .. EndPfn] ==
            IF pg = EndPfn THEN <<>> ELSE <<pg>> \o heads[pg + 2^InitOrder(pg)]
        first == heads[StartPfn]
    IN  [free  |-> [k \in Order |-> SelectSeq(first, LAMBDA pg : InitOrder(pg) = k)],
         order |-> [pg \in Pfn |-> IF pg \in Range(first) THEN InitOrder(pg) ELSE 0],
         flag  |-> [pg \in Pfn |-> FALSE]]

(***************************************************************************)
(* palloc_pages: the first block of the lowest order that has one; its     *)
(* upper halves go to the back of the lists below.                         *)
(***************************************************************************)
Supply(b, order) == {k \in order .. MAX_ORDER - 1 : b.free[k] # <<>>}

PallocPage(b, order) == Head(b.free[Min(Supply(b, order))])

PallocPages(b, order) ==
    LET k    == Min(Supply(b, order))
        pg   == PallocPage(b, order)
        half == {j \in order .. k - 1 : pg + 2^j < EndPfn}
    IN  [free  |-> [j \in Order |-> IF j \in half THEN Append(b.free[j], pg + 2^j)
                                    ELSE IF j = k THEN Tail(b.free[k])
                                    ELSE b.free[j]],
         order |-> [p \in Pfn |-> IF p = pg THEN order
                                  ELSE IF \E j \in half : p = pg + 2^j
                                       THEN CHOOSE j \in half : p = pg + 2^j
                                  ELSE b.order[p]],
         flag  |-> [p \in Pfn |-> \/ p = pg
                                  \/ b.flag[p] /\ \A j \in half : p # pg + 2^j]]

(***************************************************************************)
(* get_buddy_page flips bit k; the block of order k that pg merges into    *)
(* starts at pg with its low k bits cleared.  A page outside the pool is   *)
(* no buddy.                                                               *)
(***************************************************************************)
GetBuddyPage(pg, k) == IF (pg \div 2^k) % 2 = 0 THEN pg + 2^k ELSE pg - 2^k

Curr(pg, k) == pg - (pg % 2^k)

CanMerge(b, pg, k) ==
    LET buddy == GetBuddyPage(Curr(pg, k), k)
    IN  buddy \in Pfn /\ ~b.flag[buddy] /\ b.order[buddy] = k

\* Mutant: the loop stops one order early.
MergeOrderEarly(b, pg, order) ==
    Max({m \in order .. MAX_ORDER - 1 :
            m < MAX_ORDER - 1 /\ \A k \in order .. m - 1 : CanMerge(b, pg, k)})

\* The order at which the loop of pfree_pages stops.
MergeOrder(b, pg, order) ==
    Max({m \in order .. MAX_ORDER - 1 : \A k \in order .. m - 1 : CanMerge(b, pg, k)})

PfreePages(b, pg, order) ==
    LET top  == MergeOrder(b, pg, order)
        curr == Curr(pg, top)
        set(p) == {k \in order + 1 .. top : p = Curr(pg, k)}
    IN  [free  |-> [k \in Order |->
                       IF k = top THEN <<curr>> \o b.free[k]
                       ELSE IF k \in order .. top - 1
                            THEN Remove(b.free[k], GetBuddyPage(Curr(pg, k), k))
                       ELSE b.free[k]],
         order |-> [p \in Pfn |-> IF p = curr THEN top
                                  ELSE IF set(p) # {} THEN Max(set(p)) ELSE b.order[p]],
         flag  |-> [b.flag EXCEPT ![curr] = FALSE]]

(***************************************************************************)
(* palloc_pages_exact: a block of 2^order pages, every page of it marked,  *)
(* and the surplus given back page by page.                                *)
(***************************************************************************)
PgCntToOrder(n) == CHOOSE k \in 0 .. n : 2^k >= n /\ \A j \in 0 .. k - 1 : 2^j < n

Pages(pg, i, n) == [j \in 1 .. n - i |-> pg + i + j - 1]

Unlock(b, pg) == [b EXCEPT !.flag[pg] = FALSE, !.order[pg] = 0]

\* Mutant: only the first page is marked, as palloc_pages does it.
LockHead(b, pg, k) == b

Lock(b, pg, k) == [b EXCEPT !.flag = [p \in Pfn |-> @[p] \/ p \in Block(pg, k)]]

PallocPagesExact(b, n) ==
    LET k     == PgCntToOrder(n)
        first == PallocPage(b, k)
    IN  FoldLeft(LAMBDA c, p : PfreePages(Unlock(c, p), p, 0),
                 Lock(PallocPages(b, k), first, k),
                 Pages(first, n, 2^k))

\* mfree_page on directly mapped pages: n calls of pfree, count 1 -> 0.
MfreePage(b, pg, n) == FoldLeft(LAMBDA c, p : PfreePages(c, p, 0), b, Pages(pg, 0, n))
------------------------------------------------------------------------------
\* The pages on the free lists.
FreeBlocks(b) == UNION {{<<pg, k>> : pg \in Range(b.free[k])} : k \in Order}

FreePages(b) == UNION {Block(x[1], x[2]) : x \in FreeBlocks(b)}
==============================================================================
