------------------------------ MODULE Ext2File ------------------------------
(***************************************************************************)
(* The blocks of one regular file of fs/ext2: the block bitmaps            *)
(* (ext2_resource_alloc, ext2_resource_free), the tree of direct and       *)
(* indirect blocks (ext2_bmap, ext2_append_block_to_inode,                 *)
(* recursive_free_blocks, ext2_truncate), and read, write and lseek.       *)
(*                                                                         *)
(* A block holds PNTS words of 32 bits, and a word is the unit of file     *)
(* data too, so that a word can be a block number for one reader and data  *)
(* for another.  The system call is the unit of interleaving: the file is  *)
(* written by one process (file_open's write_deny).  write_inode, sync_gdt *)
(* and write_super, which end every operation, copy the state below to     *)
(* the buffer cache (BufferCache).                                         *)
(***************************************************************************)
EXTENDS Integers, SequencesExt, FiniteSetsExt

CONSTANTS NDIR,      \* direct blocks (12)
          PNTS,      \* words in a block (256 to 1024)
          GROUPS, BPG, FIRST,  \* block groups, blocks in each, s_first_data_block
          Meta,      \* blocks of bitmaps, descriptors and inode tables
          Word,      \* words that are written
          Counts, Sizes,
          MaxOps,    \* bound: calls in a behaviour
          HoleWrites, PastEnd  \* do programs write into holes, use a position past the end?

Block == FIRST .. FIRST + GROUPS * BPG - 1
group(b) == (b - FIRST) \div BPG

ASSUME Ext2FileAssumption ==
  /\ NDIR \in Nat /\ PNTS \in Nat /\ PNTS > 0
  /\ FIRST \in Nat \ {0} /\ Meta \subseteq Block
  /\ 0 \notin Word

VARIABLES fs,     \* the disk's blocks, the bitmaps, the descriptors, the inode
          i_size,
          other,  \* blocks of other files
          fd_pos, out,
          ops,
          panic

vars == <<fs, i_size, other, fd_pos, out, ops, panic>>

Zero == [i \in 0 .. PNTS - 1 |-> 0]

Init ==
  /\ fs = [disk |-> [b \in Block \cup {0} |-> Zero],   \* block 0 is the boot block
           used |-> Meta,                              \* set bits of the bitmaps
           free |-> [g \in 0 .. GROUPS - 1 |->
                       Cardinality({b \in Block \ Meta : group(b) = g})],
           i_block |-> [i \in 0 .. NDIR + 2 |-> 0],
           i_blocks |-> 0]
  /\ i_size = 0 /\ other = {} /\ fd_pos = 0 /\ out = <<>> /\ ops = 0 /\ panic = FALSE

-----------------------------------------------------------------------------
(* The bitmaps.                                                            *)

\* ext2_resource_alloc: the groups in turn from start on, those whose
\* descriptor says that they are full left out, the first clear bit.
Candidates(f, start) ==
  LET g(i) == (start + i) % GROUPS
      clear(i) == {b \in Block \ f.used : group(b) = g(i)}
      hits == {i \in 0 .. GROUPS - 1 : f.free[g(i)] > 0 /\ clear(i) # {}}
  IN IF hits = {} THEN {} ELSE {Min(clear(Min(hits)))}

Take(f, b) ==
  [f EXCEPT !.used = @ \cup {b}, !.free[group(b)] = @ - 1]

\* ext2_resource_free: nothing happens to a bit that is clear already.
ResourceFree(f, b) ==
  IF b \notin f.used THEN f
  ELSE [f EXCEPT !.used = @ \ {b}, !.free[group(b)] = @ + 1]

-----------------------------------------------------------------------------
(* The tree of blocks.                                                     *)

P1 == NDIR + PNTS
P2 == NDIR + PNTS + PNTS * PNTS

\* The way to a logical block: the slot of i_block, then a slot of an index
\* block per level.
Path(idx) ==
  IF idx < NDIR THEN <<idx>>
  ELSE IF idx < P1 THEN <<NDIR, idx - NDIR>>
  ELSE IF idx < P2 THEN <<NDIR + 1, (idx - P1) \div PNTS, (idx - P1) % PNTS>>
  ELSE <<NDIR + 2, (idx - P2) \div (PNTS * PNTS),
         ((idx - P2) % (PNTS * PNTS)) \div PNTS, (idx - P2) % PNTS>>

\* ext2_bmap.  The double-indirect way does not look for a hole, but reads
\* the boot block, which is zero, instead.
Bmap(f, idx) ==
  LET p == Path(idx)
      Step(b, slot) == IF b = 0 /\ Len(p) # 3 THEN 0 ELSE f.disk[b][slot]
  IN FoldLeft(Step, f.i_block[p[1]], Tail(p))

\* get_or_alloc_index on the slot of an index block, or of the inode (b = 0):
\* the block it leads to, a new one if there is none, which is zeroed.
SlotOf(f, b, slot) == IF b = 0 THEN f.i_block[slot] ELSE f.disk[b][slot]

SetSlot(f, b, slot, to) ==
  IF b = 0 THEN [f EXCEPT !.i_block[slot] = to] ELSE [f EXCEPT !.disk[b][slot] = to]

GetOrAllocIndex(f, b, slot) ==
  IF SlotOf(f, b, slot) # 0 THEN {[f |-> f, b |-> SlotOf(f, b, slot)]}
  ELSE {[f |-> [SetSlot(Take(f, new), b, slot, new)
                  EXCEPT !.i_blocks = @ + 1, !.disk[new] = Zero], b |-> new] :
          new \in Candidates(f, 0)}

\* The index blocks on the way p from block b of f; none when the disk is full.
RECURSIVE IndexBlocks(_, _, _)
IndexBlocks(f, b, p) ==
  IF Len(p) = 1 THEN {[f |-> f, b |-> b]}
  ELSE UNION {IndexBlocks(r.f, r.b, Tail(p)) : r \in GetOrAllocIndex(f, b, p[1])}

\* ext2_append_block_to_inode: the block becomes the one after the end of the
\* file, wherever the caller is going to write.
AppendBlock(f, size, b) ==
  LET p == Path(size \div PNTS)
  IN {[SetSlot(r.f, r.b, Last(p), b) EXCEPT !.i_blocks = @ + 1] : r \in IndexBlocks(f, 0, p)}

RECURSIVE FreeBlocks(_, _, _, _, _)

\* The loop over the slots i.. of an index block.
RECURSIVE FreeSlots(_, _, _, _, _, _)
FreeSlots(f, b, i, level, first, start) ==
  IF i = PNTS THEN f
  ELSE LET step  == PNTS ^ (level - 1)
           child == first + i * step
       IN FreeSlots(
            IF f.disk[b][i] # 0 /\ child + step > start
            THEN [FreeBlocks(f, f.disk[b][i], level - 1, child, start)
                    EXCEPT !.disk[b][i] = IF child >= start THEN 0 ELSE @]
            ELSE f,
            b, i + 1, level, first, start)

\* recursive_free_blocks.
FreeBlocks(f, b, level, first, start) ==
  LET g == IF level = 0 THEN f ELSE FreeSlots(f, b, 0, level, first, start)
  IN IF first < start THEN g
     ELSE [ResourceFree(g, b) EXCEPT !.i_blocks = IF @ >= 1 THEN @ - 1 ELSE 0]

\* ext2_truncate: one slot of i_block after the other.
FirstOf(slot) == CASE slot < NDIR -> slot [] slot = NDIR -> NDIR
                   [] slot = NDIR + 1 -> P1 [] slot = NDIR + 2 -> P2
LevelOf(slot) == IF slot < NDIR THEN 0 ELSE slot - NDIR + 1

\* Mutant: the root of a tree that is cut off keeps its slot in the inode.
FreeSlotKeeps(f, slot, start) ==
  IF f.i_block[slot] # 0 /\ FirstOf(slot) + PNTS ^ LevelOf(slot) > start
  THEN [FreeBlocks(f, f.i_block[slot], LevelOf(slot), FirstOf(slot), start)
          EXCEPT !.i_block[slot] = IF start < FirstOf(slot) THEN 0 ELSE @]
  ELSE f

FreeSlot(f, slot, start) ==
  IF f.i_block[slot] # 0 /\ FirstOf(slot) + PNTS ^ LevelOf(slot) > start
  THEN [FreeBlocks(f, f.i_block[slot], LevelOf(slot), FirstOf(slot), start)
          EXCEPT !.i_block[slot] = IF start <= FirstOf(slot) THEN 0 ELSE @]
  ELSE f

Ceil(n) == (n + PNTS - 1) \div PNTS

\* What lies behind the new end in the last block is zeroed.
ClearTail(f, size) ==
  LET b == Bmap(f, size \div PNTS) IN
  IF size % PNTS = 0 \/ b = 0 THEN f
  ELSE [f EXCEPT !.disk[b] = [i \in 0 .. PNTS - 1 |-> IF i < size % PNTS THEN @[i] ELSE 0]]

TruncateTo(f, size) ==
  FoldLeft(LAMBDA h, slot : FreeSlot(h, slot - 1, Ceil(size)),
           ClearTail(f, size), [i \in 1 .. NDIR + 3 |-> i])

-----------------------------------------------------------------------------
(* The operations on an open file.                                         *)

\* One turn of ext2_file_write's loop: to the end of the block, into the
\* block that is there or one that is appended, which starts as zeros.
Chunk(p, left) == Min({left, PNTS - (p % PNTS)})

Patch(block, p, n, w) ==
  [i \in 0 .. PNTS - 1 |-> IF i \in (p % PNTS) .. (p % PNTS) + n - 1 THEN w ELSE block[i]]

\* Mutant: a new block is not cleared before a part of it is written.
WriteChunkStale(f, size, p, n, w) ==
  LET b == Bmap(f, p \div PNTS) IN
  IF b # 0
  THEN {[f EXCEPT !.disk[b] = Patch(@, p, n, w)]}
  ELSE UNION {{[h EXCEPT !.disk[new] = Patch(@, p, n, w)] :
                 h \in AppendBlock(Take(f, new), size, new)} : new \in Candidates(f, 0)}

WriteChunk(f, size, p, n, w) ==
  LET b == Bmap(f, p \div PNTS) IN
  IF b # 0
  THEN {[f EXCEPT !.disk[b] = Patch(@, p, n, w)]}
  ELSE UNION {{[h EXCEPT !.disk[new] = Patch(Zero, p, n, w)] :
                 h \in AppendBlock(Take(f, new), size, new)} : new \in Candidates(f, 0)}

\* ext2_file_write; no result when the disk is full, where it panics.
RECURSIVE WriteAll(_, _, _, _, _)
WriteAll(f, size, p, left, w) ==
  IF left = 0 THEN {[f |-> f, size |-> size]}
  ELSE LET n == Chunk(p, left) IN
       UNION {WriteAll(h, Max({size, p + n}), p + n, left - n, w) :
                h \in WriteChunk(f, size, p, n, w)}

Call == ~ panic /\ ops < MaxOps /\ ops' = ops + 1

Dense == \A i \in 0 .. Ceil(i_size) - 1 : Bmap(fs, i) # 0

Write(n, w) ==
  /\ Call
  /\ HoleWrites \/ Dense
  /\ PastEnd \/ fd_pos <= i_size
  /\ LET result == WriteAll(fs, i_size, fd_pos, n, w) IN
     \/ /\ result = {}
        /\ panic' = TRUE
        /\ UNCHANGED <<fs, i_size, fd_pos>>
     \/ \E r \in result :
          /\ fs' = r.f /\ i_size' = r.size
          /\ fd_pos' = fd_pos + n
          /\ UNCHANGED panic
  /\ UNCHANGED <<other, out>>

WordAt(p) == LET b == Bmap(fs, p \div PNTS) IN IF b = 0 THEN 0 ELSE fs.disk[b][p % PNTS]

\* ext2_file_read, and ext2_inode_read_data at a position.  The length is
\* unsigned: past the end of the file there is no bound to it.
Read(n) ==
  /\ Call
  /\ PastEnd \/ fd_pos <= i_size
  /\ LET len == IF fd_pos + n > i_size THEN i_size - fd_pos ELSE n IN
     IF len < 0
     THEN panic' = TRUE /\ UNCHANGED <<out, fd_pos>>
     ELSE /\ out' = [i \in 1 .. len |-> WordAt(fd_pos + i - 1)]
          /\ fd_pos' = fd_pos + len
          /\ UNCHANGED panic
  /\ UNCHANGED <<fs, i_size, other>>

\* ext2_generic_lseek: not past the end.
Lseek(p) ==
  /\ Call
  /\ p <= i_size
  /\ fd_pos' = p
  /\ UNCHANGED <<fs, i_size, other, out, panic>>

\* do_truncate: the size is set first, and the blocks follow it.
DoTruncate(n) ==
  /\ i_size' = n
  /\ fs' = TruncateTo(fs, n)

\* sys_ftruncate, and sys_truncate on a path.
Truncate(n) ==
  /\ Call
  /\ PastEnd \/ fd_pos <= n
  /\ DoTruncate(n)
  /\ UNCHANGED <<other, fd_pos, out, panic>>

\* Another file gets a block, or loses one.
OtherTakes ==
  /\ Call
  /\ \E start \in 0 .. GROUPS - 1, b \in Block :
       /\ b \in Candidates(fs, start)
       /\ fs' = [Take(fs, b) EXCEPT !.disk[b] = [i \in 0 .. PNTS - 1 |-> FIRST]]
       /\ other' = other \cup {b}
  /\ UNCHANGED <<i_size, fd_pos, out, panic>>

OtherFrees ==
  /\ Call
  /\ \E b \in other : fs' = ResourceFree(fs, b) /\ other' = other \ {b}
  /\ UNCHANGED <<i_size, fd_pos, out, panic>>

Next ==
  \/ \E n \in Counts : Read(n) \/ \E w \in Word : Write(n, w)
  \/ \E n \in Sizes : Lseek(n) \/ Truncate(n)
  \/ OtherTakes \/ OtherFrees

Spec == Init /\ [][Next]_vars

-----------------------------------------------------------------------------
(* Properties.                                                             *)

Flat == INSTANCE FlatFile WITH
          content <- [i \in 1 .. i_size |-> WordAt(i - 1)], pos <- fd_pos

\* What is read is what was written: through the tree of blocks, over its
\* levels, after any truncation and whatever was in the blocks before, the
\* file is a sequence of words (ext2_bmap against append and truncate).
FileIsFlat == Flat!Spec

\* The slots that lead to block b from the inode and from index blocks.
RECURSIVE BlocksBelow(_, _)
BlocksBelow(b, level) ==
  IF b = 0 THEN <<>>
  ELSE <<b>> \o (IF level = 0 THEN <<>>
                 ELSE FlattenSeq([i \in 1 .. PNTS |-> BlocksBelow(fs.disk[b][i - 1], level - 1)]))

Tree == FlattenSeq([i \in 1 .. NDIR + 3 |-> BlocksBelow(fs.i_block[i - 1], LevelOf(i - 1))])

\* Every block is accounted for: a bit is set for the metadata, the other
\* files' blocks and the blocks of this file's tree, which are all different;
\* the descriptors count the clear bits; and i_blocks counts the tree.
BlocksAccounted ==
  ~ panic =>
    /\ fs.used = Meta \cup other \cup ToSet(Tree)
    /\ Cardinality(fs.used) = Cardinality(Meta) + Cardinality(other) + Len(Tree)
    /\ \A g \in 0 .. GROUPS - 1 :
         fs.free[g] = Cardinality({b \in Block \ fs.used : group(b) = g})
    /\ fs.i_blocks = Len(Tree)

=============================================================================
