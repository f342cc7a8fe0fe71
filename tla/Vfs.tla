-------------------------------- MODULE Vfs --------------------------------
(***************************************************************************)
(* The system calls on names, descriptors and mounts (fs/fs.c, fs/file.c,  *)
(* fs/file_table.c), with the ext2 directory operations below them and the *)
(* inode cache beside them.  Interrupts are off in a system call and the   *)
(* metadata is in the buffer cache, so a call is one step.                 *)
(*                                                                         *)
(* Careless is the set of things programs are allowed to do that the code  *)
(* does not handle; each tag names a guard below.                          *)
(***************************************************************************)
EXTENDS Namei, TLC

CONSTANTS Proc,         \* processes
          NFILES,       \* MAX_FILE_OPEN_IN_SYSTEM
          NFDS,         \* MAX_FILES_OPEN_PER_PROC
          Formatted,    \* partitions that hold an ext2 file system
          Careless,     \* what programs may get wrong
          Setups        \* by name: an initial file system and the calls made on it

ASSUME VfsAssumption ==
  /\ NFILES \in Nat /\ NFDS \in Nat /\ Formatted \subseteq Part
  /\ \A s \in DOMAIN Setups : Setups[s].ops \in Nat

VARIABLES setup,    \* the setup of this behaviour
          files,    \* file_table
          fds,      \* fd_table of each process: a slot of file_table, 0 for -1
          pwd,      \* working directory of each process, NoInode: no process
          made,     \* superblocks allocated so far
          ops,      \* calls made so far
          panic     \* a null pointer was called or a freed one followed

vars == <<fs, cache, sbs, setup, files, fds, pwd, made, ops, panic>>

FreeFile == [id |-> NoInode, n |-> 0, write |-> FALSE]

This == Setups[setup]

Init ==
  \E s \in DOMAIN Setups :
    /\ setup = s
    /\ fs = Setups[s].fs
    \* Booting leaves more references to the root than it has holders.
    /\ cache = <<[NewInCore(RootId, 1) EXCEPT !.cnt = Setups[s].rootcnt]>>
    /\ sbs = [v \in Part |-> IF v = 1 THEN 1 ELSE 0]
    /\ files = [f \in 1 .. NFILES |-> FreeFile]
    /\ fds = [p \in Proc |-> [l \in 1 .. NFDS |-> 0]]
    /\ pwd = [p \in Proc |-> IF p \in Setups[s].procs THEN RootId ELSE NoInode]
    /\ made = 1
    /\ ops = 0
    /\ panic = FALSE

\* A process makes a call; ops bounds the behaviour.
Call(p, name) ==
  /\ pwd[p] # NoInode /\ ~panic
  /\ name \in This.calls
  /\ ops < This.ops
  /\ ops' = ops + 1
  /\ UNCHANGED setup

May(tag) == tag \in Careless

\* Every call on a path starts with a search.  Programs name no path through a
\* file, for which the kernel calls a null pointer, or round a loop of links.
Search(r) == /\ r.err = "fault" => May("notdir")
             /\ r.err = "ELOOP" => May("eloop")
             /\ panic' = (r.err = "fault")

\* A call whose only effects are on the inode cache.
OnlyCache(calls) ==
  /\ cache' = After(cache, calls)
  /\ UNCHANGED <<fs, sbs, files, fds, pwd, made>>

\* A call that also changes the names of partition v.
Names(v, d, calls) ==
  /\ fs' = [fs EXCEPT ![v] = d]
  /\ cache' = After(cache, calls)
  /\ UNCHANGED <<sbs, files, fds, pwd, made>>

----------------------------------------------------------------------------
(* Who holds an in-memory inode, and what programs must not do to it. *)

SlotsOf(id) == {f \in 1 .. NFILES : files[f].id = id}
CwdsOf(id) == {p \in Proc : pwd[p] = id}
MountPointOf(id) == {v \in Part : MountedAt(<<v, ROOT>>) = id}
RootOf(id) == {v \in Part : sbs[v] # 0 /\ id = <<v, ROOT>>}

Holders(id) == Cardinality(SlotsOf(id)) + Cardinality(CwdsOf(id))
               + Cardinality(MountPointOf(id)) + Cardinality(RootOf(id))

\* Programs remove no directory, and rename nothing over an inode, in use.
Idle(id) == Holders(id) = 0 \/ May("busy")

\* Programs create a name only in the directory the path says, once.
Placed(r) == (r.whole /\ Lookup(Disk(r.parent).dir, r.last) = 0) \/ May("misplaced")

\* Programs rename neither "." nor "..", which are entries like any other.
NoDots(r) == r.last \notin {".", ".."} \/ May("dots")

\* A lost path: some calls forget the parent that the search left open.
Present(r) == r.err = "ok" \/ May("lost")

\* A partition has an inode left (bound: Ino; without one mkdir and mknod panic).
Room(v) == FreeInos(fs[v]) # {}

----------------------------------------------------------------------------
(* Descriptors: file_open, file_close, dup2, fcntl, fork and exit. *)

Writer(f) == files[f].write
FreeSlots == {f \in 1 .. NFILES : files[f].id = NoInode}
FreeFds(p) == {l \in 1 .. NFDS : fds[p][l] = 0}
Least(S) == CHOOSE i \in S : \A j \in S : i <= j

Deny(c, id, b) ==
  IF Cached(c, id) THEN [c EXCEPT ![Index(c, id)].deny = b] ELSE c

\* file_open and pcb_fd_install after the inode was opened in slot f.  A second
\* writer and a full descriptor table leave the slot in use for good.
FileOpened(p, id, type, write, f, c) ==
  LET excl   == write /\ type = "reg"
      denied == excl /\ Cached(c, id) /\ InCore(c, id).deny
  IN  /\ denied => May("writer2")
      /\ FreeFds(p) = {} => May("fdfull")
      /\ files' = [files EXCEPT ![f] = [id |-> id, n |-> 1, write |-> write]]
      /\ cache' = IF excl /\ ~denied THEN Deny(c, id, TRUE) ELSE c
      /\ fds' = IF denied \/ FreeFds(p) = {} THEN fds
                ELSE [fds EXCEPT ![p][Least(FreeFds(p))] = f]

\* Mutant: the writer's protection outlives the descriptor.
FileCloseKeepsDeny(st, f) ==
  IF st.files[f].n > 1
  THEN [st EXCEPT !.files[f].n = @ - 1]
  ELSE [st EXCEPT !.files[f] = FreeFile, !.cache = InodeClose(@, st.files[f].id)]

\* file_close on slot f: the count goes down; with one holder of the inode and
\* one descriptor left, and when a writer's slot is freed, write_deny is cleared.
FileClose(st, f) ==
  LET id == st.files[f].id
  IN  IF st.files[f].n > 1
      THEN [st EXCEPT !.files[f].n = @ - 1,
                      !.cache = IF /\ st.files[f].n = 2
                                   /\ Cached(@, id) /\ InCore(@, id).cnt = 1
                                THEN Deny(@, id, FALSE) ELSE @]
      ELSE [st EXCEPT !.files[f] = FreeFile,
                      !.cache = InodeClose(IF st.files[f].write
                                           THEN Deny(@, id, FALSE) ELSE @, id)]

\* sys_close on descriptor l of p.
Close(st, p, l) ==
  IF st.fds[p][l] = 0 THEN st
  ELSE [FileClose(st, st.fds[p][l]) EXCEPT !.fds[p][l] = 0]

Table == [files |-> files, fds |-> fds, cache |-> cache]

SetTable(st) == files' = st.files /\ fds' = st.fds /\ cache' = st.cache

SysClose(p, l) ==
  /\ Call(p, "close")
  /\ fds[p][l] # 0
  /\ SetTable(Close(Table, p, l))
  /\ UNCHANGED <<fs, sbs, pwd, made, panic>>

\* sys_dup2: l is closed first if it is in use.
Dup(st, p, k, l) ==
  [st EXCEPT !.fds[p][l] = st.fds[p][k], !.files[st.fds[p][k]].n = @ + 1]

SysDup2(p, k, l) ==
  /\ Call(p, "dup")
  /\ fds[p][k] # 0 /\ k # l
  /\ SetTable(Dup(Close(Table, p, l), p, k, l))
  /\ UNCHANGED <<fs, sbs, pwd, made, panic>>

\* sys_fcntl(F_DUPFD): the first free descriptor from l on.
SysDupfd(p, k, l) ==
  /\ Call(p, "dup")
  /\ fds[p][k] # 0
  /\ \E m \in FreeFds(p) :
       /\ m >= l /\ \A i \in FreeFds(p) : i >= l => m <= i
       /\ SetTable(Dup(Table, p, k, m))
  /\ UNCHANGED <<fs, sbs, pwd, made, panic>>

\* copy_process opens the working directory again for the child.
ForkCalls(p) == <<Opened(pwd[p])>>

\* sys_fork: the child q shares the descriptors and the working directory.
SysFork(p, q) ==
  /\ Call(p, "fork")
  /\ pwd[q] = NoInode
  /\ pwd' = [pwd EXCEPT ![q] = pwd[p]]
  /\ fds' = [fds EXCEPT ![q] = fds[p]]
  /\ files' = [f \in 1 .. NFILES |->
       [files[f] EXCEPT !.n = @ + Cardinality({l \in 1 .. NFDS : fds[p][l] = f})]]
  /\ cache' = After(cache, ForkCalls(p))
  /\ UNCHANGED <<fs, sbs, made, panic>>

\* sys_exit, release_prog_resource: every descriptor, then the directory.
Closing(p) == FoldLeft(LAMBDA st, l : Close(st, p, l), Table, [l \in 1 .. NFDS |-> l])

SysExit(p) ==
  /\ Call(p, "exit")
  /\ \E st \in {Closing(p)} :
       /\ files' = st.files /\ fds' = st.fds
       /\ cache' = InodeClose(st.cache, pwd[p])
  /\ pwd' = [pwd EXCEPT ![p] = NoInode]
  /\ UNCHANGED <<fs, sbs, made, panic>>

\* The existing or just created inode id is opened; then the parent is closed.
OpenInode(p, id, type, write, calls, parent) ==
  IF FreeSlots = {}
  THEN cache' = After(cache, Append(calls, Closed(parent))) /\ UNCHANGED <<files, fds>>
  ELSE FileOpened(p, id, type, write, Least(FreeSlots),
                  After(cache, calls \o <<Opened(id), Closed(parent)>>))

\* sys_open's errors before anything is opened.
OpenRefused(r, fl) ==
  \/ r.err # "ok" /\ ~(r.err = "ENOENT" /\ fl.create)
  \/ r.err = "ok" /\ Disk(r.id).type = "dir" /\ (fl.write \/ fl.create)
  \/ r.err = "ok" /\ fl.create /\ fl.excl

\* O_TRUNC opens the inode and closes it again; what it does to the blocks is in
\* Ext2File.
TruncCalls(r, fl) ==
  r.calls \o (IF fl.trunc THEN <<Opened(r.id), Closed(r.id)>> ELSE <<>>)

\* sys_open with a search that ended in r.
Opening(p, r, fl) ==
  IF OpenRefused(r, fl)
  THEN /\ cache' = After(cache, Append(r.calls, Closed(r.parent)))
       /\ UNCHANGED <<fs, files, fds>>
  ELSE IF r.err = "ok" /\ fl.trunc /\ ~fl.write
  THEN /\ cache' = After(cache, Append(TruncCalls(r, fl), Closed(r.parent)))
       /\ UNCHANGED <<fs, files, fds>>
  ELSE IF r.err = "ok"
  THEN /\ OpenInode(p, r.id, Disk(r.id).type, fl.write, TruncCalls(r, fl), r.parent)
       /\ UNCHANGED fs
  ELSE /\ Room(r.parent[1]) /\ Placed(r)
       /\ fs' = [fs EXCEPT ![r.parent[1]] =
                   Create(@, r.parent[2], r.last, "reg", NoPath, 0)]
       /\ OpenInode(p, <<r.parent[1], InodeAlloc(fs[r.parent[1]])>>, "reg", fl.write,
                    r.calls, r.parent)

SysOpen(p, path, fl) ==
  /\ Call(p, "open") /\ path \in This.paths /\ fl \in This.flags
  /\ \E r \in {Resolve(pwd[p], path, TRUE)} : Search(r) /\ Opening(p, r, fl)
  /\ UNCHANGED <<sbs, pwd, made>>

----------------------------------------------------------------------------
(* Names. *)

\* mkdir, mknod, rmdir and unlink close the parent unless it is the root.
LeaveParent(r) == r.calls \o UnlessRoot(r.parent)

SysMkdir(p, path) ==
  /\ Call(p, "mkdir") /\ path \in This.paths
  /\ \E r \in {Resolve(pwd[p], path, FALSE)} :
       /\ Search(r)
       /\ IF r.err = "ok" \/ ~r.whole
          THEN OnlyCache(LeaveParent(r))
          ELSE /\ Room(r.parent[1])
               /\ Names(r.parent[1], Mkdir(fs[r.parent[1]], r.parent[2], r.last),
                        LeaveParent(r))

SysMknod(p, path, dev) ==
  /\ Call(p, "mknod") /\ path \in This.paths
  /\ \E r \in {Resolve(pwd[p], path, FALSE)} :
       /\ Search(r)
       /\ IF r.err = "ok" \/ ~r.whole
          THEN OnlyCache(LeaveParent(r))
          ELSE /\ Room(r.parent[1])
               /\ Names(r.parent[1],
                        Create(fs[r.parent[1]], r.parent[2], r.last, "blk", NoPath, dev),
                        LeaveParent(r))

\* sys_symlink closes the parent in any case, and does not compare depths.
SysSymlink(p, to, path) ==
  /\ Call(p, "symlink") /\ path \in This.paths /\ to \in This.targets
  /\ \E r \in {Resolve(pwd[p], path, FALSE)} :
       /\ Search(r)
       /\ IF r.err = "ok"
          THEN OnlyCache(Append(r.calls, Closed(r.parent)))
          ELSE /\ Room(r.parent[1]) /\ Placed(r)
               /\ Names(r.parent[1],
                        Create(fs[r.parent[1]], r.parent[2], r.last, "lnk", to, 0),
                        Append(r.calls, Closed(r.parent)))

\* sys_link once both paths are searched: o leads to the file, r to its new name.
Linking(o, r) ==
  IF r.err = "ok" \/ o.id[1] # r.parent[1]
  THEN OnlyCache(BothCalls(o, r) \o <<Closed(o.parent), Closed(r.parent)>>)
  ELSE /\ Placed(r)
       /\ Names(o.id[1], Link(fs[o.id[1]], o.id[2], r.parent[2], r.last),
                BothCalls(o, r)
                \o <<Opened(o.id), Closed(o.id), Closed(o.parent), Closed(r.parent)>>)

SysLink(p, old, new) ==
  /\ Call(p, "link") /\ {old, new} \subseteq This.paths
  /\ \E o \in {Resolve(pwd[p], old, TRUE)}, r \in {Resolve(pwd[p], new, TRUE)} :
       /\ Search(o)
       /\ IF o.err # "ok" \/ (o.err = "ok" /\ Disk(o.id).type = "dir")
          THEN OnlyCache(o.climb \o r.climb \o o.walk \o <<Closed(o.parent)>>)
          ELSE Search(r) /\ Linking(o, r)

\* Mutant: an open file can be removed.
InUseNever(id) == FALSE

\* sys_unlink refuses a file with an inode number some open file has.
InUse(id) == \E f \in 1 .. NFILES : files[f].id # NoInode /\ files[f].id[2] = id[2]

\* What name leads to in the parent that the search left.
Entry(r) == Lookup(Disk(r.parent).dir, r.last)

SysUnlink(p, path) ==
  /\ Call(p, "unlink") /\ path \in This.paths
  /\ \E r \in {Resolve(pwd[p], path, FALSE)} :
       /\ Search(r)
       /\ IF \/ r.err # "ok" \/ Entry(r) = 0
             \/ Disk(r.id).type = "dir" \/ InUse(r.id)
          THEN OnlyCache(LeaveParent(r))
          ELSE Names(r.parent[1],
                     Unlink(fs[r.parent[1]], r.parent[2], r.last, Entry(r)),
                     r.calls \o UnlinkCalls(r.parent[1], fs[r.parent[1]], Entry(r))
                     \o UnlessRoot(r.parent))

\* sys_rmdir: a partition's root is never removed; nothing else in use is
\* looked for.
SysRmdir(p, path) ==
  /\ Call(p, "rmdir") /\ path \in This.paths
  /\ path \notin {[abs |-> FALSE, names |-> <<n>>] : n \in {".", ".."}}
  /\ \E r \in {Resolve(pwd[p], path, FALSE)} :
       /\ Search(r)
       /\ IF \/ r.err # "ok" \/ r.id[2] = ROOT \/ Disk(r.id).type # "dir"
          THEN OnlyCache(LeaveParent(r))
          ELSE IF ~IsDirEmpty(Disk(r.id).dir)
          THEN OnlyCache(r.calls \o <<Opened(r.id), Closed(r.id)>> \o UnlessRoot(r.parent))
          ELSE /\ Idle(r.id)
               /\ Names(r.id[1], Rmdir(fs[r.id[1]], r.parent[2], r.last, r.id[2]),
                        r.calls \o RmdirCalls(r.id[1], r.id[2]) \o UnlessRoot(r.parent))

\* sys_rename once both paths are searched.  Programs rename no mount point
\* into what is mounted on it: the code would mix the two partitions.
Renaming(o, r, x) ==
  /\ Idle(<<r.parent[1], Entry(r)>>) /\ o.parent[1] = r.parent[1]
  /\ Names(o.parent[1], x.d,
           BothCalls(o, r) \o x.calls \o <<Closed(o.parent), Closed(r.parent)>>)

\* sys_rename: the device of an existing target, or of the parent of a missing
\* one, must be the source's.  With a missing source the code closes an inode
\* pointer it never set.
SysRename(p, old, new) ==
  /\ Call(p, "rename") /\ {old, new} \subseteq This.paths
  /\ \E o \in {Resolve(pwd[p], old, FALSE)} :
       /\ Search(o) /\ o.err = "ok" /\ NoDots(o)
       /\ \E r \in {Resolve(pwd[p], new, FALSE)} :
            /\ Search(r) /\ NoDots(r)
            /\ IF o.id[1] # (IF r.err = "ok" THEN r.id ELSE r.parent)[1]
               THEN OnlyCache(BothCalls(o, r) \o <<Closed(o.parent), Closed(r.parent)>>)
               ELSE Renaming(o, r, Rename(o.parent[1], fs[o.parent[1]], o.parent[2], o.last,
                                          r.parent[2], r.last))

\* Calls that only look open the inode found and close it again.
Looked(r, id) == r.calls \o <<Opened(id), Closed(id), Closed(r.parent)>>

\* sys_stat and sys_lstat, through do_stat.
SysStat(p, path, follow) ==
  /\ Call(p, "stat") /\ path \in This.paths
  /\ path # [abs |-> TRUE, names |-> <<>>]
  /\ \E r \in {Resolve(pwd[p], path, follow)} :
       /\ Search(r) /\ r.err # "ELOOP"
       /\ OnlyCache(IF r.err = "ok" THEN Looked(r, r.id)
                    ELSE Append(r.calls, Closed(r.parent)))

SysStatfs(p, path) ==
  /\ Call(p, "stat") /\ path \in This.paths
  /\ \E r \in {Resolve(pwd[p], path, TRUE)} :
       /\ Search(r) /\ r.err # "ELOOP"
       /\ OnlyCache(IF r.err = "ok" THEN Looked(r, r.id)
                    ELSE Append(r.calls, Closed(r.parent)))

\* sys_readlink and sys_truncate compare the result of the search with -1, which
\* it never is: programs call them for paths that exist.
SysReadlink(p, path) ==
  /\ Call(p, "stat") /\ path \in This.paths
  /\ \E r \in {Resolve(pwd[p], path, FALSE)} :
       /\ Search(r) /\ r.err = "ok"
       /\ OnlyCache(Looked(r, r.id))

\* sys_truncate takes the device from the parent; what it does to the blocks is
\* in Ext2File.
SysTruncate(p, path) ==
  /\ Call(p, "stat") /\ path \in This.paths
  /\ \E r \in {Resolve(pwd[p], path, TRUE)} :
       /\ Search(r) /\ r.err = "ok"
       /\ OnlyCache(Looked(r, <<r.parent[1], r.id[2]>>))

SysAccess(p, path) ==
  /\ Call(p, "stat") /\ path \in This.paths
  /\ \E r \in {Resolve(pwd[p], path, TRUE)} :
       Search(r) /\ OnlyCache(Append(r.calls, Closed(r.parent)))

\* Mutant: the old working directory is not closed.
ChdirCallsKeepOld(p, r) ==
  IF r.err = "ENOENT" THEN r.calls
  ELSE IF r.err # "ok" \/ Disk(r.id).type # "dir" THEN Append(r.calls, Closed(r.parent))
  ELSE r.calls \o <<Opened(r.id), Closed(r.parent)>>

\* sys_chdir: a missing path leaves the parent of the search open.
ChdirCalls(p, r) ==
  IF r.err = "ENOENT" THEN r.calls
  ELSE IF r.err # "ok" \/ Disk(r.id).type # "dir" THEN Append(r.calls, Closed(r.parent))
  ELSE r.calls \o <<Opened(r.id), Closed(pwd[p]), Closed(r.parent)>>

SysChdir(p, path) ==
  /\ Call(p, "chdir") /\ path \in This.paths
  /\ \E r \in {Resolve(pwd[p], path, TRUE)} :
       /\ Search(r) /\ Present(r)
       /\ cache' = After(cache, ChdirCalls(p, r))
       /\ pwd' = IF r.err = "ok" /\ Disk(r.id).type = "dir"
                 THEN [pwd EXCEPT ![p] = r.id] ELSE pwd
  /\ UNCHANGED <<fs, sbs, files, fds, made>>

----------------------------------------------------------------------------
(* Mounts. *)

\* Mutant: the mounted root does not learn where it is mounted.
TunnelDown(c, mp, root) ==
  [i \in DOMAIN c |-> [c[i] EXCEPT !.mount = IF c[i].id = mp THEN root ELSE @]]

\* i_mount of the mount point and i_mount_at of the root, set and cut together.
Tunnel(c, mp, root) ==
  [i \in DOMAIN c |-> [c[i] EXCEPT
     !.mount = IF c[i].id = mp THEN root ELSE @,
     !.at    = IF c[i].id = root THEN mp ELSE @]]

Cut(c, mp, root) ==
  [i \in DOMAIN c |-> [c[i] EXCEPT
     !.mount = IF c[i].id = mp THEN NoInode ELSE @,
     !.at    = IF c[i].id = root THEN NoInode ELSE @]]

\* back_to_mountpoint: from the root of a mounted partition to its mount point.
BackToMountpoint(id) ==
  IF id[2] = ROOT /\ MountedAt(id) # NoInode THEN MountedAt(id) ELSE id

\* ext2_read_super opens the partition's root inode: a cached one keeps the
\* superblock it was read under.
ReadSuper(c, v, sb) ==
  IF Cached(c, <<v, ROOT>>) THEN InodeOpen(c, <<v, ROOT>>)
  ELSE InodeRegister(c, NewInCore(<<v, ROOT>>, sb))

\* The rest of sys_mount once partition v may be mounted on directory mp, which
\* stays open.  When the partition holds no file system, mp is closed twice
\* though it was opened once more only.
MountOn(v, mp, c) ==
  IF v \notin Formatted
  THEN cache' = After(c, <<Closed(mp), Closed(mp)>>) /\ UNCHANGED <<sbs, made>>
  ELSE /\ made' = made + 1
       /\ sbs' = [sbs EXCEPT ![v] = made + 1]
       /\ cache' = Tunnel(ReadSuper(c, v, made + 1), mp, <<v, ROOT>>)

\* The mount point is refused (a mount is there already) or is no directory; in
\* the second case it is left open.
Mounting(v, r) ==
  LET back == BackToMountpoint(r.id)
      seen == r.calls \o <<Opened(r.id), Opened(back), Closed(r.parent), Closed(back)>>
  IN  IF r.err # "ok"
      THEN Present(r) /\ cache' = After(cache, r.calls) /\ UNCHANGED <<sbs, made>>
      ELSE IF MountOf(back) # NoInode
      THEN cache' = After(cache, Append(seen, Closed(r.id))) /\ UNCHANGED <<sbs, made>>
      ELSE IF Disk(r.id).type # "dir"
      THEN May("mountfile") /\ cache' = After(cache, seen) /\ UNCHANGED <<sbs, made>>
      ELSE MountOn(v, r.id, After(cache, seen))

\* sys_mount of the device that path dev leads to.  A partition whose root has
\* a mount point is refused; the root's own partition has none.
SysMount(p, dev, path) ==
  /\ Call(p, "mount") /\ path \in This.paths /\ dev \in This.devs
  /\ \E o \in {Resolve(pwd[p], dev, TRUE)} :
       /\ Search(o) /\ o.err = "ok"
       /\ IF Disk(o.id).rdev = 0 \/ MountedAt(<<Disk(o.id).rdev, ROOT>>) # NoInode
          THEN /\ cache' = After(cache, o.calls \o <<Opened(o.id), Closed(o.id)>>)
               /\ UNCHANGED <<sbs, made>>
          ELSE \E r \in {Resolve(pwd[p], path, TRUE)} :
                 /\ r.err \notin {"fault", "ELOOP"}
                 /\ Disk(o.id).rdev = 1 => May("rootdev")
                 /\ Disk(o.id).rdev \notin Formatted => May("badfs")
                 /\ (\E i \in DOMAIN cache : cache[i].id[1] = Disk(o.id).rdev)
                      => May("remount")
                 /\ Mounting(Disk(o.id).rdev,
                             [r EXCEPT !.calls = o.calls \o <<Opened(o.id), Closed(o.id)>> \o @])
  /\ UNCHANGED <<fs, files, fds, pwd>>

\* Files below the root of a mounted partition are in use.
UsedBelow(v) == \E id \in {v} \X (Ino \ {ROOT}) : Holders(id) > 0

\* sys_umount of mount point mp, c being the cache with mp opened once more.
\* Only holders of the partition's root count as use of it.
UmountFrom(mp, c) ==
  LET root == MountOf(mp)
  IN  IF InCore(c, root).cnt > 1
      THEN cache' = InodeClose(c, mp) /\ UNCHANGED sbs
      ELSE /\ UsedBelow(root[1]) => May("umountbusy")
           /\ sbs' = [sbs EXCEPT ![root[1]] = 0]
           /\ cache' = After(Cut(c, mp, root), <<Closed(root), Closed(mp), Closed(mp)>>)

Umounting(r) ==
  LET mp   == BackToMountpoint(r.id)
      seen == r.calls \o <<Opened(r.id)>>
              \o (IF mp = r.id THEN <<>> ELSE <<Opened(mp), Closed(r.id)>>)
              \o <<Closed(r.parent)>>
  IN  IF MountOf(mp) = NoInode
      THEN cache' = After(cache, Append(seen, Closed(mp))) /\ UNCHANGED sbs
      ELSE UmountFrom(mp, After(cache, seen))

SysUmount(p, path) ==
  /\ Call(p, "umount") /\ path \in This.paths
  /\ \E r \in {Resolve(pwd[p], path, TRUE)} :
       /\ Search(r) /\ r.err = "ok"
       /\ Umounting(r)
  /\ UNCHANGED <<fs, files, fds, pwd, made>>

----------------------------------------------------------------------------
\* The paths, flags, link targets and devices that occur in some setup.
Paths   == UNION {Setups[s].paths : s \in DOMAIN Setups}
Flags   == UNION {Setups[s].flags : s \in DOMAIN Setups}
Targets == UNION {Setups[s].targets : s \in DOMAIN Setups}
Devs    == UNION {Setups[s].devs : s \in DOMAIN Setups}

Next ==
  \E p \in Proc :
    \/ \E path \in Paths :
         \/ \E fl \in Flags : SysOpen(p, path, fl)
         \/ SysMkdir(p, path)
         \/ \E v \in Part \ {1} : SysMknod(p, path, v)
         \/ \E to \in Targets : SysSymlink(p, to, path)
         \/ SysUnlink(p, path)
         \/ SysRmdir(p, path)
         \/ \E new \in Paths : SysLink(p, path, new)
         \/ \E new \in Paths : SysRename(p, path, new)
         \/ \E follow \in BOOLEAN : SysStat(p, path, follow)
         \/ SysStatfs(p, path)
         \/ SysReadlink(p, path)
         \/ SysTruncate(p, path)
         \/ SysAccess(p, path)
         \/ SysChdir(p, path)
         \/ \E dev \in Devs : SysMount(p, dev, path)
         \/ SysUmount(p, path)
    \/ \E l \in 1 .. NFDS : SysClose(p, l)
    \/ \E k, l \in 1 .. NFDS : SysDup2(p, k, l)
    \/ \E k, l \in 1 .. NFDS : SysDupfd(p, k, l)
    \/ \E q \in Proc : SysFork(p, q)
    \/ SysExit(p)

Spec == Init /\ [][Next]_vars

----------------------------------------------------------------------------
(* Properties. *)

\* The names of partition v: <<directory, name, inode>>, "." and ".." included.
AllNames(v) ==
  UNION {{<<i, e.name, e.ino>> : e \in ToSet(Entries(fs[v][i].dir))} : i \in Ino}

Bindings(v) == {b \in AllNames(v) : b[2] \notin {".", ".."}}

\* The link count of an inode is the number of names it has, in every order of
\* create, link, mkdir, rename, unlink and rmdir; an inode without names is
\* free, and the entries of a directory fill its blocks with no name twice.
LinksCounted ==
  \A v \in Formatted, i \in Ino :
    /\ fs[v][i].nlink = Cardinality({b \in AllNames(v) : b[3] = i})
    /\ fs[v][i].type = "free" <=> fs[v][i].nlink = 0
    /\ WellFormed(fs[v][i].dir)

\* Directories form a tree: each but the root has one name, ".." is the directory
\* that name is in, and going up from any directory ends at the root (what
\* is_ancestor is to keep true across renames).
DirectoryTree ==
  \A v \in Formatted, i \in Ino :
    fs[v][i].type = "dir" /\ i # ROOT =>
      /\ {b[1] : b \in {x \in Bindings(v) : x[3] = i}} = {Lookup(fs[v][i].dir, "..")}
      /\ Cardinality({x \in Bindings(v) : x[3] = i}) = 1
      /\ Last(Ancestors(fs[v], ROOT, i)) = ROOT

\* Every descriptor, working directory, mount point and mounted root keeps its
\* inode allocated, in memory, and under the superblock of its partition.
HeldIsAlive ==
  \A v \in Part, i \in Ino :
    Holders(<<v, i>>) > 0 =>
      /\ Disk(<<v, i>>).type # "free"
      /\ Cached(cache, <<v, i>>)
      /\ InCore(cache, <<v, i>>).sb = sbs[v]
      /\ sbs[v] # 0

\* i_open_cnts is the number of holders: system calls return every reference
\* their searches take, on all their paths.  The root alone collects more.
OpensCounted ==
  \A i \in DOMAIN cache :
    IF cache[i].id = RootId THEN cache[i].cnt > 0
    ELSE cache[i].cnt = Holders(cache[i].id)

\* f_count is the number of descriptors of an open file, through dup, fork, exit
\* and failed opens, and a file is write-protected only while someone writes it.
FilesCounted ==
  /\ \A f \in 1 .. NFILES :
       /\ files[f].n = Cardinality({x \in Proc \X (1 .. NFDS) : fds[x[1]][x[2]] = f})
       /\ files[f].id = NoInode <=> files[f].n = 0
  /\ \A i \in DOMAIN cache :
       cache[i].deny => \E f \in SlotsOf(cache[i].id) : Writer(f)

\* A directory at or above id is a mount point: no path leads to id any more.
Covered(id) ==
  \E i \in ToSet(Ancestors(fs[id[1]], ROOT, id[2])) : MountPointOf(<<id[1], i>>) # {}

\* sys_getcwd names the working directory: searching the path it returns leads
\* back to it, across mounts and after any rename above it, unless a partition
\* was mounted over it since.
CwdLeadsBack ==
  \A p \in Proc : pwd[p] # NoInode /\ ~Covered(pwd[p]) =>
    SearchFile(GetCwd(pwd[p]).names, TRUE).id = pwd[p]

============================================================================
