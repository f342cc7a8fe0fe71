------------------------------- MODULE MCVfs -------------------------------
(***************************************************************************)
(* Instances of Vfs: four small file systems, each with the calls of one   *)
(* group, from one process that may fork a second.                         *)
(***************************************************************************)
EXTENDS Vfs

Abs(names) == [abs |-> TRUE, names |-> names]
Rel(names) == [abs |-> FALSE, names |-> names]

MCIno == 2 .. 6
MCPart == {1, 2}

NoFs == [i \in MCIno |-> FreeInode]
EmptyFs == [NoFs EXCEPT ![ROOT] = Inode("dir", 2, InitDirBlock(ROOT, ROOT), NoPath, 0)]

WithDir(d, name) == Mkdir(d, ROOT, name)
WithFile(d, name) == Create(d, ROOT, name, "reg", NoPath, 0)
WithDev(d, name, v) == Create(d, ROOT, name, "blk", NoPath, v)

Disks(one, two) == [v \in MCPart |-> IF v = 1 THEN one ELSE two]

Flag(write, create, excl, trunc) ==
  [write |-> write, create |-> create, excl |-> excl, trunc |-> trunc]
RdOnly  == Flag(FALSE, FALSE, FALSE, FALSE)
RdTrunc == Flag(FALSE, FALSE, FALSE, TRUE)
WrCreat == Flag(TRUE, TRUE, FALSE, TRUE)
CreatEx == Flag(FALSE, TRUE, TRUE, FALSE)

\* Directories made, moved, left and removed.
Trees ==
  [fs |-> Disks(EmptyFs, NoFs), procs |-> {"p"}, rootcnt |-> 3, ops |-> 5,
   calls |-> {"mkdir", "rmdir", "rename", "chdir"},
   paths |-> {Abs(<<"a">>), Abs(<<"b">>), Abs(<<"a", "b">>), Rel(<<"c">>), Rel(<<"..">>)},
   flags |-> {}, targets |-> {}, devs |-> {}]

\* Files with several names.
Links ==
  [fs |-> Disks(WithDir(EmptyFs, "d"), NoFs), procs |-> {"p"}, rootcnt |-> 3, ops |-> 4,
   calls |-> {"open", "close", "link", "symlink", "unlink", "rename"},
   paths |-> {Abs(<<"a">>), Abs(<<"b">>), Abs(<<"d", "a">>)},
   flags |-> {RdOnly, WrCreat}, targets |-> {Abs(<<"d">>), Rel(<<"b">>)}, devs |-> {}]

\* A partition mounted on a directory, used and unmounted.
Mounts ==
  [fs |-> Disks(WithDev(WithDir(EmptyFs, "a"), "h", 2), WithDir(EmptyFs, "b")),
   procs |-> {"p"}, rootcnt |-> 3, ops |-> 5,
   calls |-> {"mount", "umount", "chdir", "open", "close", "rename", "fork"},
   paths |-> {Abs(<<"a">>), Abs(<<"c">>), Abs(<<"a", "b">>), Rel(<<"..">>)},
   flags |-> {RdOnly}, targets |-> {}, devs |-> {Abs(<<"h">>)}]

\* Descriptors shared, copied and closed.
Descriptors ==
  [fs |-> Disks(WithDir(WithFile(EmptyFs, "a"), "d"), NoFs), procs |-> {"p"},
   rootcnt |-> 3, ops |-> 5,
   calls |-> {"open", "close", "dup", "fork", "exit", "unlink", "chdir", "mknod", "stat"},
   paths |-> {Abs(<<"a">>), Abs(<<"d">>)},
   flags |-> {RdOnly, RdTrunc, WrCreat, CreatEx}, targets |-> {}, devs |-> {}]

MCSetups == [trees |-> Trees, links |-> Links, mounts |-> Mounts,
             descriptors |-> Descriptors]
============================================================================
