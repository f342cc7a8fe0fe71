----------------------------- MODULE Ext2Names -----------------------------
(***************************************************************************)
(* The inode operations of an ext2 directory (fs/ext2/inode.c): create,    *)
(* mknod, symlink, mkdir, link, unlink, rmdir and rename, as functions     *)
(* from the inode table d of one partition to the table they leave.  The   *)
(* blocks of a file's data belong to Ext2File; here an inode is its type,  *)
(* its link count, and the blocks of a directory, the path of a symbolic   *)
(* link or the device of a special file.                                   *)
(*                                                                         *)
(* An operation also opens, closes and evicts in-memory inodes.  Those     *)
(* calls are returned as a sequence, in the order they are made, for the   *)
(* inode cache to perform.                                                 *)
(***************************************************************************)
EXTENDS Ext2Dir

CONSTANTS ROOT,     \* s_root_ino
          Ino       \* the inode numbers that may be allocated, and ROOT

ASSUME Ext2NamesAssumption == Ino \subseteq Nat \ {0} /\ ROOT \in Ino

NoPath == [abs |-> TRUE, names |-> <<>>]

Inode(type, nlink, dir, to, rdev) ==
  [type |-> type, nlink |-> nlink, dir |-> dir, to |-> to, rdev |-> rdev]

FreeInode == Inode("free", 0, <<>>, NoPath, 0)

\* ext2_resource_alloc on the inode bitmap: the first clear bit.
FreeInos(d) == {i \in Ino : d[i].type = "free"}
InodeAlloc(d) == CHOOSE i \in FreeInos(d) : \A j \in FreeInos(d) : i <= j

\* ext2_create, ext2_mknod and ext2_symlink: a new inode with one link, and
\* its entry in the directory.
Create(d, dir, name, type, to, rdev) ==
  [d EXCEPT ![dir].dir = AddEntry(@, InodeAlloc(d), name),
            ![InodeAlloc(d)] = Inode(type, 1, <<>>, to, rdev)]

\* ext2_mkdir: the new directory starts with two links and adds one to its
\* parent.
Mkdir(d, dir, name) ==
  [d EXCEPT ![dir].dir = AddEntry(@, InodeAlloc(d), name),
            ![dir].nlink = @ + 1,
            ![InodeAlloc(d)] =
               Inode("dir", 2, InitDirBlock(InodeAlloc(d), dir), NoPath, 0)]

\* ext2_link.
Link(d, ino, dir, name) ==
  [d EXCEPT ![ino].nlink = @ + 1, ![dir].dir = AddEntry(@, ino, name)]

\* ext2_unlink on the inode ino that name leads to: the last link frees it.
Unlink(d, dir, name, ino) ==
  [d EXCEPT ![dir].dir = RemoveEntry(@, name),
            ![ino] = IF @.nlink = 1 THEN FreeInode
                     ELSE [@ EXCEPT !.nlink = @ - 1]]

\* Mutant: the parent keeps the link that the removed ".." was.
RmdirKeepsLink(d, dir, name, ino) ==
  [d EXCEPT ![dir].dir = RemoveEntry(@, name), ![ino] = FreeInode]

\* ext2_rmdir on the empty directory ino.
Rmdir(d, dir, name, ino) ==
  [d EXCEPT ![dir].dir = RemoveEntry(@, name),
            ![dir].nlink = @ - 1,
            ![ino] = FreeInode]

----------------------------------------------------------------------------
\* The calls on in-memory inodes of partition v.
OpenOf(v, ino)  == [op |-> "open",  id |-> <<v, ino>>]
CloseOf(v, ino) == [op |-> "close", id |-> <<v, ino>>]
EvictOf(v, ino) == [op |-> "evict", id |-> <<v, ino>>]

\* ext2_unlink and ext2_rmdir: the target is looked up (opened); the last link
\* evicts it whoever else has it open, otherwise it is closed.
UnlinkCalls(v, d, ino) ==
  <<OpenOf(v, ino), IF d[ino].nlink = 1 THEN EvictOf(v, ino) ELSE CloseOf(v, ino)>>
RmdirCalls(v, ino) == <<OpenOf(v, ino), EvictOf(v, ino)>>

\* is_ancestor: from directory cur follow ".." to the root, looking for ino.
RECURSIVE Ancestors(_, _, _)
Ancestors(d, ino, cur) ==
  IF cur \in {ino, ROOT, 0} THEN <<cur>>
  ELSE <<cur>> \o Ancestors(d, ino, Lookup(d[cur].dir, ".."))

IsAncestor(d, ino, dir) == Last(Ancestors(d, ino, dir)) = ino

AncestorCalls(v, d, ino, dir) ==
  FlattenSeq([i \in 1 .. Len(Ancestors(d, ino, dir)) - 1 |->
    <<OpenOf(v, Ancestors(d, ino, dir)[i]), CloseOf(v, Ancestors(d, ino, dir)[i])>>])

\* Mutant: ".." of the moved directory is left at the old parent.
MoveStaleDotdot(d, odir, oname, ino, ndir, nname) ==
  LET e == [d EXCEPT ![ndir].dir = AddEntry(@, ino, nname)]
      f == [e EXCEPT ![odir].dir = RemoveEntry(@, oname)]
  IN  IF d[ino].type = "dir" /\ odir # ndir
      THEN [f EXCEPT ![ndir].nlink = @ + 1, ![odir].nlink = @ - 1]
      ELSE f

\* The rest of ext2_rename once the target's place is free: add the new entry,
\* remove the old one, and for a directory that changes parent ".." and the
\* parents' link counts.
Move(d, odir, oname, ino, ndir, nname) ==
  LET e == [d EXCEPT ![ndir].dir = AddEntry(@, ino, nname)]
      f == [e EXCEPT ![odir].dir = RemoveEntry(@, oname)]
  IN  IF d[ino].type = "dir" /\ odir # ndir
      THEN [f EXCEPT ![ino].dir = UpdateDotdot(@, ndir),
                     ![ndir].nlink = @ + 1, ![odir].nlink = @ - 1]
      ELSE f

\* The target new is removed by rmdir or unlink.
Replaced(d, ndir, nname, new) ==
  IF new = 0 THEN d
  ELSE IF d[new].type = "dir" THEN Rmdir(d, ndir, nname, new)
       ELSE Unlink(d, ndir, nname, new)

ReplacedCalls(v, d, new) ==
  IF new = 0 THEN <<>>
  ELSE <<OpenOf(v, new)>>
       \o (IF d[new].type = "dir" THEN RmdirCalls(v, new) ELSE UnlinkCalls(v, d, new))
       \o <<CloseOf(v, new)>>

\* ext2_rename with the inodes ino and new of the two names already looked up.
RenameAs(v, d, odir, oname, ino, ndir, nname, new) ==
  LET loops   == d[ino].type = "dir" /\ IsAncestor(d, ino, ndir)
      climb   == IF d[ino].type = "dir" THEN AncestorCalls(v, d, ino, ndir) ELSE <<>>
      refused == \/ d[ino].type # d[new].type
                 \/ d[new].type = "dir" /\ ~IsDirEmpty(d[new].dir)
  IN  IF loops
      THEN [d |-> d, calls |-> <<OpenOf(v, ino)>> \o climb \o <<CloseOf(v, ino)>>]
      ELSE IF new # 0 /\ refused
      THEN [d |-> d, calls |-> <<OpenOf(v, ino)>> \o climb
                        \o <<OpenOf(v, new), CloseOf(v, new), CloseOf(v, ino)>>]
      ELSE [d |-> Move(Replaced(d, ndir, nname, new), odir, oname, ino, ndir, nname),
            calls |-> <<OpenOf(v, ino)>> \o climb \o ReplacedCalls(v, d, new)
                        \o <<CloseOf(v, ino)>>]

\* ext2_rename: a rename of a name to itself and one whose source is missing
\* do nothing.
Rename(v, d, odir, oname, ndir, nname) ==
  IF (odir = ndir /\ oname = nname) \/ Lookup(d[odir].dir, oname) = 0
  THEN [d |-> d, calls |-> <<>>]
  ELSE RenameAs(v, d, odir, oname, Lookup(d[odir].dir, oname),
                ndir, nname, Lookup(d[ndir].dir, nname))
============================================================================
