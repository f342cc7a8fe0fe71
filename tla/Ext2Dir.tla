------------------------------ MODULE Ext2Dir ------------------------------
(***************************************************************************)
(* The directory blocks of ext2 (fs/ext2/inode.c).  A directory is a       *)
(* sequence of blocks, a block the chain of entries that rec_len links     *)
(* together.  Lengths are counted in units of 12 bytes, the space of an    *)
(* entry whose name has at most four characters, which every name here     *)
(* has: EXT2_DIR_REC_LEN is 1.                                             *)
(***************************************************************************)
EXTENDS Integers, Sequences, FiniteSets, SequencesExt

CONSTANT BLOCK      \* s_block_size in units: the length of a directory block

ASSUME Ext2DirAssumption == BLOCK \in Nat /\ BLOCK > 2

DirEntry(ino, name, rec) == [ino |-> ino, name |-> name, rec |-> rec]

\* ext2_init_dir_block: "." and a ".." that takes the rest of the block.
InitDirBlock(self, parent) ==
  << <<DirEntry(self, ".", 1), DirEntry(parent, "..", BLOCK - 1)>> >>

\* The entries a scan by rec_len meets that are in use (ext2_readdir).
Entries(dir) == SelectSeq(FlattenSeq(dir), LAMBDA e : e.ino # 0)

\* ext2_lookup and ext2_find_entry_ino: the inode of the first entry called
\* name, 0 when there is none.
Lookup(dir, name) ==
  LET i == SelectInSeq(Entries(dir), LAMBDA e : e.name = name)
  IN  IF i = 0 THEN 0 ELSE Entries(dir)[i].ino

\* vfs_get_name_from_dir: the name of the first entry for inode ino.
NameFromDir(dir, ino) ==
  LET i == SelectInSeq(Entries(dir), LAMBDA e : e.ino = ino)
  IN  IF i = 0 THEN "" ELSE Entries(dir)[i].name

\* The first place <<block, index>> of a set of places, in scan order.
FirstPlace(S) ==
  CHOOSE p \in S : \A q \in S : p[1] < q[1] \/ (p[1] = q[1] /\ p[2] <= q[2])

Places(dir) == UNION {{b} \X DOMAIN dir[b] : b \in DOMAIN dir}

\* ext2_add_entry: split the first entry longer than its name needs (a deleted
\* entry at the head of a block still counts its old name), else a new block.
AddEntry(dir, ino, name) ==
  LET free == {p \in Places(dir) : dir[p[1]][p[2]].rec > 1}
      at   == FirstPlace(free)
  IN  IF free = {} THEN Append(dir, <<DirEntry(ino, name, BLOCK)>>)
      ELSE [dir EXCEPT ![at[1]] =
              InsertAt([@ EXCEPT ![at[2]].rec = 1], at[2] + 1,
                       DirEntry(ino, name, @[at[2]].rec - 1))]

\* ext2_remove_entry: merge the entry into the one before it, or mark the
\* first entry of a block unused.
RemoveEntry(dir, name) ==
  LET hits == {p \in Places(dir) : /\ dir[p[1]][p[2]].ino # 0
                                   /\ dir[p[1]][p[2]].name = name}
      at   == FirstPlace(hits)
  IN  IF hits = {} THEN dir
      ELSE [dir EXCEPT ![at[1]] =
              IF at[2] = 1 THEN [@ EXCEPT ![1].ino = 0]
              ELSE RemoveAt([@ EXCEPT ![at[2] - 1].rec = @ + dir[at[1]][at[2]].rec],
                            at[2])]

\* ext2_update_dotdot: the second entry of the first block is "..".
UpdateDotdot(dir, parent) == [dir EXCEPT ![1][2].ino = parent]

\* ext2_is_dir_empty.
IsDirEmpty(dir) == \A e \in ToSet(Entries(dir)) : e.name \in {".", ".."}

----------------------------------------------------------------------------
\* The entries of a block fill it exactly, and no name is used twice.
WellFormed(dir) ==
  /\ \A b \in DOMAIN dir : FoldLeft(LAMBDA n, e : n + e.rec, 0, dir[b]) = BLOCK
  /\ \A i, j \in DOMAIN Entries(dir) :
       Entries(dir)[i].name = Entries(dir)[j].name => i = j
============================================================================
