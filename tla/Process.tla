------------------------------ MODULE Process ------------------------------
(***************************************************************************)
(* The life of processes: fork and clone (userprog/fork.c), exit, wait and *)
(* waitpid (userprog/wait_exit.c), and thread_exit, which frees what is    *)
(* left of a zombie and its pid (thread/thread.c).                         *)
(*                                                                         *)
(* These calls run with interrupts off and give up the CPU only where they *)
(* sleep, so each is one step up to that point.  A process is named by its *)
(* pid, which is free for reuse once the process has been reaped.          *)
(***************************************************************************)
EXTENDS Integers, FiniteSetsExt, SequencesExt

CONSTANTS Pid,    \* 1 .. n; the pid bitmap has MAX_PID_NUM
          Mm,     \* mm_struct objects
          Calls,  \* whether programs use "clone"
          Tidy,   \* whether programs keep to the discipline stated below
          None

INIT_PID == 1
SHELL_PID == 2

ASSUME ProcessAssumption ==
  /\ Pid \subseteq Nat /\ {INIT_PID, SHELL_PID} \subseteq Pid
  /\ Calls \subseteq {"clone"} /\ Tidy \in BOOLEAN
  /\ None \notin Pid \cup Mm
  /\ IsFiniteSet(Pid) /\ IsFiniteSet(Mm)
  /\ Cardinality(Mm) >= Cardinality(Pid)

VARIABLES all_list,   \* thread_all_list
          state,      \* task_struct.status, with "NONE" for no such process
          parent,     \* parent_pid
          mm,         \* task_struct.mm
          mm_users,   \* how many threads use an mm_struct
          mmState,    \* "free", "used", or "torn": its pages are released
          pc,         \* "user", "wait" (in the loop of waitpid), "dead", or
                      \* "halted": init after its user-level panic
          target,     \* whom it waits for: a pid, or None for any child
          panic       \* a parent that does not exist was dereferenced

mms == <<mm, mm_users, mmState>>
procVars == <<all_list, state, parent, mms, pc, target, panic>>

\* init has started and has forked the shell; from here on it only waits.
ProcInit ==
  LET own == CHOOSE f \in [{INIT_PID, SHELL_PID} -> Mm] : f[INIT_PID] # f[SHELL_PID]
      used == {own[INIT_PID], own[SHELL_PID]}
  IN  /\ all_list = <<INIT_PID, SHELL_PID>>
      /\ state = [p \in Pid |-> IF p \in DOMAIN own THEN "READY" ELSE "NONE"]
      /\ parent = [p \in Pid |-> IF p = SHELL_PID THEN INIT_PID ELSE None]
      /\ mm = [p \in Pid |-> IF p \in DOMAIN own THEN own[p] ELSE None]
      /\ mm_users = [m \in Mm |-> IF m \in used THEN 1 ELSE 0]
      /\ mmState = [m \in Mm |-> IF m \in used THEN "used" ELSE "free"]
      /\ pc = [p \in Pid |-> "user"]
      /\ target = [p \in Pid |-> None]
      /\ panic = FALSE

Exists(p) == state[p] # "NONE"
Children(p) == {c \in Pid : Exists(c) /\ parent[c] = p}
Zombies(p) == {c \in Children(p) : state[c] = "HANGING"}

\* The opts of waitpid: any child (None) or one.
Matching(S, t) == IF t = None THEN S ELSE S \cap {t}

Runs(p) == ~ panic /\ state[p] = "READY"
InUser(p) == Runs(p) /\ pc[p] = "user"

-----------------------------------------------------------------------------
(***************************************************************************)
(* A discipline of user programs that the kernel does not ask for.  A      *)
(* thread made with CLONE_VM makes no children.  Its creator does not      *)
(* sleep in wait for it but polls, and has reaped it before it exits.      *)
(***************************************************************************)
Threads(p) == {c \in Children(p) : mm[c] = mm[p]}
MaySpawn(p) == Tidy => p \notin UNION {Threads(q) : q \in Pid}
MayExit(p) == Tidy => Threads(p) = {}
MaySleep(p, t) == Tidy => Matching(Threads(p), t) = {}

-----------------------------------------------------------------------------
\* allocate_pid: the first free bit of the bitmap.
FreePids == {p \in Pid : ~ Exists(p)}

\* sys_clone: with CLONE_VM the child shares the mm, otherwise it has its own.
\* The timers of the parent are not the child's.
Spawn(p, shared) ==
  /\ InUser(p) /\ p # INIT_PID /\ MaySpawn(p)
  /\ \E c \in FreePids :
       /\ \A q \in FreePids : c <= q
       /\ all_list' = Append(all_list, c)
       /\ state' = [state EXCEPT ![c] = "READY"]
       /\ parent' = [parent EXCEPT ![c] = p]
       /\ pc' = [pc EXCEPT ![c] = "user"]
       /\ target' = [target EXCEPT ![c] = None]
       /\ LET m == IF shared THEN mm[p] ELSE CHOOSE n \in Mm : mmState[n] = "free" IN
            /\ mm' = [mm EXCEPT ![c] = m]
            /\ mm_users' = [mm_users EXCEPT ![m] = @ + 1]
            /\ mmState' = [mmState EXCEPT ![m] = "used"]
  /\ UNCHANGED <<panic>>

SysFork(p) == Spawn(p, FALSE)
SysClone(p) == "clone" \in Calls /\ Spawn(p, TRUE)

-----------------------------------------------------------------------------
\* Mutant: the first thread to exit releases the pages.
AnyOfMm(p) == TRUE

\* release_mm_space: the last user of the mm releases its pages.
MmUsersAfter(p) == [mm_users EXCEPT ![mm[p]] = @ - 1]
LastOfMm(p) == mm_users[mm[p]] = 1

\* A sleeper that is told of a SIGCHLD runs again; the signal itself is
\* ignored by default and is left out.
Roused(st, who) == [q \in Pid |-> IF q \in who /\ st[q] = "WAITING"
                                  THEN "READY" ELSE st[q]]

\* Mutant: no child is adopted.
AdoptedNone(p) == parent

\* Mutant: only the children still alive are adopted.
AdoptedAlive(p) ==
  [q \in Pid |-> IF parent[q] = p /\ state[q] # "HANGING" THEN INIT_PID ELSE parent[q]]

\* init_adopt_a_child for the whole of thread_all_list.
Adopted(p) == [q \in Pid |-> IF parent[q] = p THEN INIT_PID ELSE parent[q]]

\* sys_exit.  Only the last thread of an mm gives its children to init, tells
\* its parent, and tells init if there is a zombie for it.
SysExit(p) ==
  /\ InUser(p) /\ p # INIT_PID /\ MayExit(p)
  /\ mm_users' = MmUsersAfter(p)
  /\ mmState' = IF LastOfMm(p) THEN [mmState EXCEPT ![mm[p]] = "torn"] ELSE mmState
  /\ pc' = [pc EXCEPT ![p] = "dead"]
  /\ IF LastOfMm(p)
     THEN LET adopted == Adopted(p)
              forInit == \E q \in Pid : state[q] = "HANGING" /\ adopted[q] = INIT_PID
              told    == {parent[p]} \cup (IF forInit THEN {INIT_PID} ELSE {})
          IN  /\ parent' = adopted
              /\ state' = [Roused(state, told) EXCEPT ![p] = "HANGING"]
              /\ panic' = ~ Exists(parent[p])
     ELSE /\ state' = [state EXCEPT ![p] = "HANGING"]
          /\ UNCHANGED <<parent, panic>>
  /\ UNCHANGED <<all_list, mm, target>>

-----------------------------------------------------------------------------
\* What is left of the zombie c goes: page tables and mm if no thread uses
\* the mm any more, its place on alarm_list, its PCB and its pid.
Reap(p, c) ==
  /\ all_list' = SelectSeq(all_list, LAMBDA q : q # c)
  /\ state' = [state EXCEPT ![c] = "NONE"]
  /\ parent' = [parent EXCEPT ![c] = None]
  /\ mm' = [mm EXCEPT ![c] = None]
  /\ mmState' = IF mm_users[mm[c]] = 0
                THEN [mmState EXCEPT ![mm[c]] = "free"] ELSE mmState
  /\ pc' = [pc EXCEPT ![p] = "user", ![c] = "user"]
  /\ target' = [target EXCEPT ![p] = None]
  /\ UNCHANGED <<mm_users, panic>>

\* dlist_traversal: the first of S on the list.
IsFirst(c, S) ==
  \E i \in DOMAIN all_list :
    all_list[i] = c /\ \A j \in 1 .. i - 1 : all_list[j] \notin S

\* One turn of the loop of sys_wait and sys_waitpid, for any child (t = None)
\* or for the child t.  It returns -1 if there is no such child, and 0 if
\* there is and the caller does not want to sleep.
WaitTurn(p, t, wnohang) ==
  LET zs == Matching(Zombies(p), t)
      cs == Matching(Children(p), t)
  IN  \/ \E c \in zs : IsFirst(c, zs) /\ Reap(p, c)
      \/ /\ zs = {} /\ (cs = {} \/ wnohang)
         /\ pc' = [pc EXCEPT ![p] = IF p = INIT_PID THEN "halted" ELSE "user"]
         /\ target' = [target EXCEPT ![p] = None]
         /\ UNCHANGED <<all_list, state, parent, mms, panic>>
      \/ /\ zs = {} /\ cs # {} /\ ~ wnohang
         /\ state' = [state EXCEPT ![p] = "WAITING"]
         /\ pc' = [pc EXCEPT ![p] = "wait"]
         /\ target' = [target EXCEPT ![p] = t]
         /\ UNCHANGED <<all_list, parent, mms, panic>>

\* init waits for any child and does nothing else.
SysWait(p, t) ==
  /\ InUser(p) /\ (p = INIT_PID => t = None) /\ MaySleep(p, t)
  /\ WaitTurn(p, t, FALSE)

SysWaitNoHang(p, t) ==
  /\ InUser(p) /\ p # INIT_PID
  /\ WaitTurn(p, t, TRUE)

WaitResumes(p) == Runs(p) /\ pc[p] = "wait" /\ WaitTurn(p, target[p], FALSE)

-----------------------------------------------------------------------------
\* Any other signal: send_signal wakes a WAITING process.
SendSignal(p) ==
  /\ ~ panic /\ state[p] = "WAITING"
  /\ state' = [state EXCEPT ![p] = "READY"]
  /\ UNCHANGED <<all_list, parent, mms, pc, target, panic>>

ProcNext ==
  \E p \in Pid :
    \/ SysFork(p) \/ SysClone(p) \/ SysExit(p)
    \/ \E t \in Pid \cup {None} : SysWait(p, t) \/ SysWaitNoHang(p, t)
    \/ WaitResumes(p)
    \/ SendSignal(p)

\* init waits for its children for ever; a process that is ready gets the
\* CPU; a process that made a thread polls for it; and every process but
\* init ends in the end.
ProcFairness ==
  /\ WF_procVars(SysWait(INIT_PID, None))
  /\ \A p \in Pid : SF_procVars(WaitResumes(p))
  /\ \A c \in Pid \ {INIT_PID} :
       SF_procVars(\E p \in Pid : c \in Threads(p) \cap Zombies(p) /\ SysWaitNoHang(p, c))
  /\ \A p \in Pid \ {INIT_PID} : SF_procVars(SysExit(p))

ProcSpec == ProcInit /\ [][ProcNext]_procVars /\ ProcFairness

-----------------------------------------------------------------------------
(***************************************************************************)
(* Properties.                                                             *)
(***************************************************************************)

\* Every variable has its type.
ProcTypeOK ==
  /\ all_list \in Seq(Pid)
  /\ state \in [Pid -> {"NONE", "READY", "WAITING", "HANGING"}]
  /\ parent \in [Pid -> Pid \cup {None}]
  /\ mm \in [Pid -> Mm \cup {None}]
  /\ mm_users \in [Mm -> Nat]
  /\ mmState \in [Mm -> {"free", "used", "torn"}]
  /\ pc \in [Pid -> {"user", "wait", "dead", "halted"}]
  /\ target \in [Pid -> Pid \cup {None}]
  /\ panic \in BOOLEAN

\* Whoever may still have to be reaped has a parent that can do it: the
\* parent exists and is not a zombie itself.  (sys_exit dereferences it.)
ParentCanReap ==
  \A p \in Pid \ {INIT_PID} :
    Exists(p) => /\ parent[p] \in Pid
                 /\ state[parent[p]] \in {"READY", "WAITING"}
                 /\ pc[parent[p]] # "dead"

\* Nobody sleeps in wait or waitpid while a zombie it waits for is there.
WaiterHasReason ==
  \A p \in Pid : state[p] = "WAITING" => Matching(Zombies(p), target[p]) = {}

\* An exit, in whatever order with forks, waits and the parent's own exit,
\* leaves a zombie to somebody who can reap it, and nobody sleeping on it.
ZombieIsKnown == ParentCanReap /\ WaiterHasReason

\* An mm_struct is counted by the threads alive in it, its pages go with the
\* last of them, and the structure itself is not freed under anybody.
MmAccounting ==
  \A m \in Mm :
    LET users == {p \in Pid : mm[p] = m}
        alive == {p \in users : pc[p] # "dead"}
    IN  /\ mm_users[m] = Cardinality(alive)
        /\ mmState[m] = IF users = {} THEN "free"
                        ELSE IF alive = {} THEN "torn" ELSE "used"

\* Every zombie is reaped: by its parent if that waits, and otherwise by init
\* when the parent has ended.
ZombieIsReaped ==
  \A p \in Pid : state[p] = "HANGING" ~> state[p] # "HANGING"
=============================================================================
