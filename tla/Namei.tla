------------------------------- MODULE Namei -------------------------------
(***************************************************************************)
(* Path resolution (fs/namei.c search_file, fs/fs.c sys_getcwd) over the   *)
(* inode cache (fs/inode.c).                                               *)
(*                                                                         *)
(* An inode is named <<partition, number>>.  The cache is the LRU list of  *)
(* in-memory inodes, oldest first; the hash table only finds them.  The    *)
(* mount tunnels i_mount and i_mount_at are fields of in-memory inodes.    *)
(* A search changes nothing but open counts and LRU order, so it returns   *)
(* its result with the inode_open and inode_close calls it makes, and the  *)
(* system call performs them all.                                          *)
(***************************************************************************)
EXTENDS Ext2Names

CONSTANTS Part,         \* partitions; the first one holds the root
          MAX_CACHE,    \* MAX_INODE_CACHE_SIZE
          MAX_LINKS,    \* symbolic links a search follows
          UMAX,         \* stands for UINT_MAX in an open count
          NoInode       \* a null inode pointer

ASSUME NameiAssumption ==
  /\ Part \subseteq Nat /\ 1 \in Part
  /\ MAX_CACHE \in Nat /\ MAX_LINKS \in Nat /\ UMAX \in Nat

VARIABLES fs,       \* the inode table of each partition
          cache,    \* the inode cache, in LRU order
          sbs       \* part->sb: the number of the superblock, 0 for none

RootId == <<1, ROOT>>       \* root_dir_inode

Disk(id) == fs[id[1]][id[2]]

----------------------------------------------------------------------------
(* The inode cache. *)

Cached(c, id) == \E i \in DOMAIN c : c[i].id = id
Index(c, id) == CHOOSE i \in DOMAIN c : c[i].id = id
InCore(c, id) == c[Index(c, id)]

NewInCore(id, sb) ==
  [id |-> id, cnt |-> 1, deny |-> FALSE, mount |-> NoInode, at |-> NoInode,
   sb |-> sb]

\* inode_register_to_cache: insert, and when the table is over its size drop
\* the oldest inode nobody has open.
InodeRegister(c, new) ==
  LET idle == {i \in DOMAIN c : c[i].cnt = 0}
  IN  IF Len(c) + 1 > MAX_CACHE /\ idle # {}
      THEN Append(RemoveAt(c, CHOOSE i \in idle : \A j \in idle : i <= j), new)
      ELSE Append(c, new)

\* inode_open: a hit counts one more holder and becomes the youngest; a miss
\* reads the inode under the partition's superblock of the moment.
InodeOpen(c, id) ==
  IF Cached(c, id)
  THEN Append(RemoveAt(c, Index(c, id)),
              [InCore(c, id) EXCEPT !.cnt = @ + 1])
  ELSE InodeRegister(c, NewInCore(id, sbs[id[1]]))

\* inode_close: one holder less; the inode stays cached.  A close of an inode
\* that was evicted writes to freed memory and does not reach the cache.
InodeClose(c, id) ==
  IF Cached(c, id)
  THEN [c EXCEPT ![Index(c, id)].cnt = IF @ = 0 THEN UMAX ELSE @ - 1]
  ELSE c

\* inode_evict.
InodeEvict(c, id) == IF Cached(c, id) THEN RemoveAt(c, Index(c, id)) ELSE c

Perform(c, call) ==
  IF call.op = "open" THEN InodeOpen(c, call.id)
  ELSE IF call.op = "close" THEN InodeClose(c, call.id)
  ELSE InodeEvict(c, call.id)

\* The cache after a sequence of calls.
After(c, calls) == FoldLeft(Perform, c, calls)

Opened(id) == [op |-> "open",  id |-> id]
Closed(id) == [op |-> "close", id |-> id]

\* Where search_file and some system calls close an inode unless it is the root.
UnlessRoot(id) == IF id = RootId THEN <<>> ELSE <<Closed(id)>>

\* i_mount_at of a partition's root, i_mount of a mount point.
MountedAt(id) == IF Cached(cache, id) THEN InCore(cache, id).at ELSE NoInode
MountOf(id) == IF Cached(cache, id) THEN InCore(cache, id).mount ELSE NoInode

----------------------------------------------------------------------------
(* search_file. *)

Found(err, id, parent, depth, calls) ==
  [err |-> err, id |-> id, parent |-> parent, depth |-> depth, calls |-> calls]

\* ".." at the root of a mounted partition goes through the tunnel first.
Above(id, name) ==
  IF name = ".." /\ id[2] = ROOT /\ MountedAt(id) # NoInode
  THEN MountedAt(id) ELSE id

AboveCalls(id, name) ==
  IF Above(id, name) = id THEN <<>> ELSE <<Opened(Above(id, name))>> \o UnlessRoot(id)

\* A mount point leads to the root mounted on it.  (The code loops; sys_mount
\* refuses to mount on the root of a mounted partition, so once is enough.)
Below(id) == IF MountOf(id) = NoInode THEN id ELSE MountOf(id)

BelowCalls(id) ==
  <<Opened(id)>>
  \o (IF Below(id) = id THEN <<>> ELSE <<Opened(Below(id)), Closed(id)>>)

RECURSIVE Walk(_, _, _, _, _, _)

\* STATE_CHECK_TYPE and STATE_FOLLOW_LINK: dir's entry for the first name of
\* rest leads to next; calls includes what it took to open it.
WalkNext(dir, next, rest, links, depth, follow, calls) ==
  IF Disk(next).type = "lnk" /\ (Len(rest) > 1 \/ follow)
  THEN IF links = MAX_LINKS
       THEN Found("ELOOP", NoInode, dir, depth + 1, calls)
       ELSE IF Disk(next).to.abs
       THEN Walk(RootId, Disk(next).to.names \o Tail(rest), links + 1, 0, follow,
                 calls \o <<Closed(next)>> \o UnlessRoot(dir) \o <<Opened(RootId)>>)
       ELSE Walk(dir, Disk(next).to.names \o Tail(rest), links + 1, depth, follow,
                 calls \o <<Closed(next)>>)
  ELSE IF Len(rest) = 1
  THEN Found("ok", next, dir, depth + 1, calls \o <<Closed(next)>>)
  ELSE Walk(next, Tail(rest), links, depth + 1, follow, calls \o UnlessRoot(dir))

\* STATE_LOOKUP in directory dir, below or above the tunnels.
WalkIn(dir, rest, links, depth, follow, calls) ==
  IF Lookup(Disk(dir).dir, Head(rest)) = 0
  THEN Found("ENOENT", NoInode, dir, depth + 1, calls)
  ELSE LET first == <<dir[1], Lookup(Disk(dir).dir, Head(rest))>>
       IN  WalkNext(dir, Below(first), rest, links, depth, follow,
                    calls \o BelowCalls(first))

\* The components of rest one by one, from cur, which is open.  depth is the
\* number of components in searched_path.  A file has no lookup operation: the
\* kernel calls a null pointer.
Walk(cur, rest, links, depth, follow, calls) ==
  IF rest = <<>> THEN Found("ok", cur, cur, depth, calls)
  ELSE IF Disk(cur).type # "dir" THEN Found("fault", NoInode, cur, depth, calls)
  ELSE WalkIn(Above(cur, Head(rest)), rest, links, depth, follow,
              calls \o AboveCalls(cur, Head(rest)))

SearchFile(names, follow) == Walk(RootId, names, 0, 0, follow, <<Opened(RootId)>>)

----------------------------------------------------------------------------
(* sys_getcwd. *)

\* The inode whose ".." and whose name are looked for: a mounted root's mount
\* point, and otherwise the directory itself.
CwdBase(cur) == IF cur[2] = ROOT THEN MountedAt(cur) ELSE cur

RECURSIVE Climb(_, _, _)
Climb(cur, names, calls) ==
  IF cur[2] = ROOT /\ MountedAt(cur) = NoInode
  THEN [names |-> names, calls |-> Append(calls, Closed(cur))]
  ELSE LET base == CwdBase(cur)
           up   == <<base[1], Lookup(Disk(base).dir, "..")>>
       IN  IF up[2] = 0
           THEN [names |-> <<>>, calls |-> Append(calls, Closed(cur))]
           ELSE IF NameFromDir(Disk(up).dir, base[2]) = ""
           THEN [names |-> <<>>, calls |-> calls \o <<Opened(up), Closed(cur)>>]
           ELSE Climb(up, <<NameFromDir(Disk(up).dir, base[2])>> \o names,
                      calls \o <<Opened(up), Closed(cur)>>)

\* The path of directory id, and the calls made to find it.  After an error
\* the path is empty and the caller goes on from the root.
GetCwd(id) == Climb(id, <<>>, <<Opened(id)>>)

\* make_abs_pathname for a process whose working directory is id.
AbsPath(id, path) ==
  IF path.abs THEN [names |-> path.names, calls |-> <<>>]
  ELSE [names |-> GetCwd(id).names \o path.names, calls |-> GetCwd(id).calls]

\* A search with the length and the last name of the path it was for.
Searched(abs, found) ==
  [err |-> found.err, id |-> found.id, parent |-> found.parent,
   whole |-> found.depth = Len(abs.names),
   last |-> IF abs.names = <<>> THEN "" ELSE Last(abs.names),
   climb |-> abs.calls, walk |-> found.calls, calls |-> abs.calls \o found.calls]

\* A call on two paths makes both absolute before it searches either.
BothCalls(o, r) == o.climb \o r.climb \o o.walk \o r.walk

\* What every system call on a path begins with.
Resolve(id, path, follow) ==
  Searched(AbsPath(id, path), SearchFile(AbsPath(id, path).names, follow))
============================================================================
