--------------------------------- MODULE Vma ---------------------------------
(***************************************************************************)
(* The list of virtual memory areas of mm/vma.c, as operators on a         *)
(* sequence of records.  Addresses are page numbers, since every area is   *)
(* page aligned; vma_pgoff and vma_filesz keep the unit the code reads     *)
(* them in when it loads a page: bytes.  Flags are sets of names.          *)
(***************************************************************************)
EXTENDS Integers, Sequences, SequencesExt, FiniteSets, FiniteSetsExt

CONSTANTS PG_SIZE,               \* bytes of a page
          USER_VADDR_START,      \* first page of user space
          USER_MMAP_SEARCH_TOP,  \* page after the area of mmap
          USER_STACK_BASE,       \* page after the stack
          NoFile                 \* vma_inode == NULL

ASSUME VmaAssumption ==
    /\ PG_SIZE \in Nat \ {0}
    /\ {USER_VADDR_START, USER_MMAP_SEARCH_TOP, USER_STACK_BASE} \subseteq Nat
    /\ 0 < USER_VADDR_START
    /\ USER_VADDR_START < USER_MMAP_SEARCH_TOP
    /\ USER_MMAP_SEARCH_TOP < USER_STACK_BASE

Area(start, end, pgoff, inode, flags, filesz) ==
    [start |-> start, end |-> end, pgoff |-> pgoff, inode |-> inode,
     flags |-> flags, filesz |-> filesz]

\* vma_contains_address, find_vma: the index of the area, or 0.
Covers(vma, page) == vma.start <= page /\ page < vma.end

FindVma(list, page) == SelectInSeq(list, LAMBDA vma : Covers(vma, page))

(***************************************************************************)
(* add_vma_sorted.  Only a merge with the area before looks at the offset  *)
(* in the file, and it compares bytes with pages.                          *)
(***************************************************************************)
\* vma_after_address: where a new area goes.
Place(list, start) ==
    LET i == SelectInSeq(list, LAMBDA vma : vma.start > start)
    IN  IF i = 0 THEN Len(list) + 1 ELSE i

Alike(vma, new) == vma.flags = new.flags /\ vma.inode = new.inode

JoinsPrev(list, i, new) ==
    /\ i > 1
    /\ LET prev == list[i - 1]
       IN  /\ prev.end = new.start
           /\ Alike(prev, new)
           /\ new.inode = NoFile \/ prev.pgoff + (prev.end - prev.start) = new.pgoff

JoinsNext(list, i, new) ==
    i <= Len(list) /\ list[i].start = new.end /\ Alike(list[i], new)

AddVmaSorted(list, new) ==
    LET i == Place(list, new.start)
    IN  IF JoinsPrev(list, i, new)
        THEN IF JoinsNext(list, i, new)
             THEN RemoveAt([list EXCEPT ![i - 1].end = list[i].end], i)
             ELSE [list EXCEPT ![i - 1].end = new.end]
        ELSE IF JoinsNext(list, i, new)
             THEN [list EXCEPT ![i].start = new.start]
             ELSE InsertAt(list, i, new)

(***************************************************************************)
(* vma_find_gap_reverse: the highest gap of n pages below                  *)
(* USER_MMAP_SEARCH_TOP, or 0.  SearchEnd(list, i) is search_end when the  *)
(* scan from the back comes to area i.                                     *)
(***************************************************************************)
SearchEnd(list, i) ==
    Min({USER_MMAP_SEARCH_TOP} \cup {list[k].start : k \in i + 1 .. Len(list)})

\* Mutant: the start of the area below.
GapFloorStart(list, i) == IF i = 0 THEN USER_VADDR_START ELSE list[i].start

\* The end of what lies below: area i, or the start of user space.
GapFloor(list, i) == IF i = 0 THEN USER_VADDR_START ELSE list[i].end

FindGapReverse(list, n) ==
    LET fits == {i \in 0 .. Len(list) : SearchEnd(list, i) - GapFloor(list, i) >= n}
    IN  IF fits = {} THEN 0 ELSE SearchEnd(list, Max(fits)) - n

(***************************************************************************)
(* vma_split at page addr: the upper part's offset grows by pages, and it  *)
(* keeps the lower part's file size.  The offset of an area without a file *)
(* is never read, and stays 0 here.                                        *)
(***************************************************************************)
VmaSplit(list, i, addr) ==
    LET vma == list[i]
        off == IF vma.inode = NoFile THEN 0 ELSE vma.pgoff + (addr - vma.start)
        new == [vma EXCEPT !.start = addr, !.pgoff = off]
    IN  InsertAt([list EXCEPT ![i].end = addr], i + 1, new)

(***************************************************************************)
(* The areas of vaddr_remove(PF_USER, start, end - start) in mm/memory.c:  *)
(* whole, head, tail or hole.                                              *)
(***************************************************************************)
VaddrRemove(list, start, end) ==
    LET i   == FindVma(list, start)
        vma == list[i]
    IN  IF i = 0 \/ end > vma.end THEN list
        ELSE IF start = vma.start
             THEN IF end = vma.end THEN RemoveAt(list, i)
                  ELSE [list EXCEPT ![i].start = end,
                                    ![i].pgoff = IF vma.inode = NoFile THEN @
                                                 ELSE @ + (end - start)]
             ELSE IF end = vma.end THEN [list EXCEPT ![i].end = start]
                  ELSE [VmaSplit(list, i, end) EXCEPT ![i].end = start]

\* find_heap_vma: index of the heap's area, or 0.
HeapFlags == {"READ", "WRITE", "GROWSUP", "ANON"}

FindHeapVma(list, end_data) ==
    SelectInSeq(list, LAMBDA vma : /\ vma.start = end_data
                                   /\ vma.inode = NoFile
                                   /\ vma.flags = HeapFlags)

\* The areas that the loops of sys_munmap come to, through
\* find_covering_or_next_vma.
Visited(list, start, end) ==
    {i \in 1 .. Len(list) : /\ list[i].start < end
                            /\ list[i].end > start
                            /\ \A k \in 1 .. i - 1 : list[k].end < list[i].end}
==============================================================================
