-------------------------------- MODULE Sync --------------------------------
(***************************************************************************)
(* Semaphores and recursive locks of thread/sync.c on top of the           *)
(* scheduler.                                                              *)
(*                                                                         *)
(* sema_wait and sema_signal disable interrupts, so each is one step       *)
(* between two context switches.  lock_acquire and lock_release do not:    *)
(* a kernel thread (which runs with interrupts on) can be preempted        *)
(* between taking the semaphore and writing holder, and between clearing   *)
(* holder and signalling.  A process makes its system calls through an     *)
(* interrupt gate, and loses the CPU there only when it blocks or yields.  *)
(***************************************************************************)
EXTENDS Scheduler, FiniteSets

CONSTANTS Lock,       \* struct lock objects, each with its own semaphore
          CSema,      \* plain semaphores: wait_disk, a tty's line count
          KThread,    \* the threads of thread_start, interrupts on
          SEMA_MOD,   \* value is a uint8_t: 256
          MaxRepeat,  \* bound on the nesting of lock_acquire
          None

ASSUME SyncAssumption ==
  /\ Lock \cap CSema = {}
  /\ KThread \subseteq Thread
  /\ SEMA_MOD \in Nat /\ SEMA_MOD >= 2
  /\ MaxRepeat \in Nat
  /\ None \notin Thread \cup Lock \cup CSema
  /\ IsFiniteSet(Thread)

Sema == Lock \cup CSema

VARIABLES value,    \* semaphore.value
          waiters,  \* semaphore.waiters, linked by general_tag
          holder,   \* lock.holder
          repeat,   \* lock.holder_repeat_nr
          pc,       \* where in sync.c a thread is
          at        \* the semaphore it is there for

syncVars == <<value, waiters, holder, repeat, pc, at>>
vars == <<schedVars, syncVars>>

\* "run": elsewhere; "wait": in the loop of sema_wait; "own": in
\* lock_acquire, the semaphore taken and holder not yet written; "signal":
\* in lock_release, holder cleared and the semaphore not yet signalled.
PC == {"run", "wait", "own", "signal"}

SyncInit ==
  /\ SchedInit
  /\ value = [s \in Sema |-> IF s \in Lock THEN 1 ELSE 0]
  /\ waiters = [s \in Sema |-> <<>>]
  /\ holder = [l \in Lock |-> None]
  /\ repeat = [l \in Lock |-> 0]
  /\ pc = [t \in Thread |-> "run"]
  /\ at = [t \in Thread |-> None]

Held(t) == {l \in Lock : holder[l] = t}

\* May an interrupt arrive now?  A process that holds a lock is inside a
\* system call; a thread in the loop of sema_wait has interrupts off.
Interruptible ==
  IF cur \in KThread
  THEN pc[cur] # "wait"
  ELSE pc[cur] = "run" /\ Held(cur) = {}

-----------------------------------------------------------------------------
\* One turn of the loop of sema_wait: sleep at the end of the queue, or take
\* the semaphore and leave.
SemaWaitTurn(s) ==
  \/ /\ value[s] = 0
     /\ waiters' = [waiters EXCEPT ![s] = Append(@, cur)]
     /\ pc' = [pc EXCEPT ![cur] = "wait"]
     /\ at' = [at EXCEPT ![cur] = s]
     /\ ThreadBlock("BLOCKED")
     /\ UNCHANGED value
  \/ /\ value[s] > 0
     /\ value' = [value EXCEPT ![s] = @ - 1]
     /\ pc' = [pc EXCEPT ![cur] = IF s \in Lock THEN "own" ELSE "run"]
     /\ at' = [at EXCEPT ![cur] = IF s \in Lock THEN s ELSE None]
     /\ UNCHANGED <<waiters, schedVars>>

\* Mutant: a waiter is woken only when the value was 0.
SemaSignalAtZero(s) ==
  /\ value' = [value EXCEPT ![s] = (@ + 1) % SEMA_MOD]
  /\ IF waiters[s] = <<>> \/ value[s] # 0
     THEN UNCHANGED <<waiters, schedVars>>
     ELSE /\ waiters' = [waiters EXCEPT ![s] = Tail(@)]
          /\ ThreadUnblock(Head(waiters[s]))

\* Mutant: the waiter goes to the back of the ready list.
SemaSignalToBack(s) ==
  /\ value' = [value EXCEPT ![s] = (@ + 1) % SEMA_MOD]
  /\ IF waiters[s] = <<>>
     THEN UNCHANGED <<waiters, schedVars>>
     ELSE /\ waiters' = [waiters EXCEPT ![s] = Tail(@)]
          /\ ready' = Append(ready, Head(waiters[s]))
          /\ status' = [status EXCEPT ![Head(waiters[s])] = "READY"]
          /\ UNCHANGED <<cur, ticks>>

\* sema_signal: the front waiter is made ready, but the value is not handed
\* to it: whoever runs sema_wait first gets it.
SemaSignalStep(s) ==
  /\ value' = [value EXCEPT ![s] = (@ + 1) % SEMA_MOD]
  /\ IF waiters[s] = <<>>
     THEN UNCHANGED <<waiters, schedVars>>
     ELSE /\ waiters' = [waiters EXCEPT ![s] = Tail(@)]
          /\ ThreadUnblock(Head(waiters[s]))

-----------------------------------------------------------------------------
\* sema_wait, called by a thread.
SemaWait(s) ==
  /\ cur # Idle /\ pc[cur] = "run"
  /\ SemaWaitTurn(s)
  /\ UNCHANGED <<holder, repeat>>

\* Mutant: the value is not tested again ("if" for "while").
SemaWaitOnce ==
  /\ pc[cur] = "wait"
  /\ value' = [value EXCEPT ![at[cur]] = @ - 1]
  /\ pc' = [pc EXCEPT ![cur] = IF at[cur] \in Lock THEN "own" ELSE "run"]
  /\ at' = [at EXCEPT ![cur] = IF at[cur] \in Lock THEN at[cur] ELSE None]
  /\ UNCHANGED <<waiters, holder, repeat, schedVars>>

\* A thread that has been woken, and now runs, tests the value again.
SemaWaitAgain ==
  /\ pc[cur] = "wait"
  /\ SemaWaitTurn(at[cur])
  /\ UNCHANGED <<holder, repeat>>

\* sema_try_wait.
SemaTryWait(s) ==
  /\ cur # Idle /\ pc[cur] = "run"
  /\ value[s] > 0
  /\ value' = [value EXCEPT ![s] = @ - 1]
  /\ UNCHANGED <<waiters, holder, repeat, pc, at, schedVars>>

\* sema_signal, called by a thread or by the handler of an interrupt.
SemaSignal(s) ==
  /\ pc[cur] = "run" \/ Interruptible
  /\ SemaSignalStep(s)
  /\ UNCHANGED <<holder, repeat, pc, at>>

\* lock_acquire, up to and including sema_wait.
LockAcquire(l) ==
  /\ cur # Idle /\ pc[cur] = "run"
  /\ \/ /\ holder[l] # cur
        /\ SemaWaitTurn(l)
        /\ UNCHANGED <<holder, repeat>>
     \/ /\ holder[l] = cur
        /\ repeat[l] < MaxRepeat
        /\ repeat' = [repeat EXCEPT ![l] = @ + 1]
        /\ UNCHANGED <<schedVars, value, waiters, holder, pc, at>>

\* The rest of lock_acquire.
LockOwn ==
  /\ pc[cur] = "own"
  /\ holder' = [holder EXCEPT ![at[cur]] = cur]
  /\ repeat' = [repeat EXCEPT ![at[cur]] = 1]
  /\ pc' = [pc EXCEPT ![cur] = "run"]
  /\ at' = [at EXCEPT ![cur] = None]
  /\ UNCHANGED <<schedVars, value, waiters>>

\* lock_release, up to sema_signal.
LockRelease(l) ==
  /\ pc[cur] = "run"
  /\ holder[l] = cur
  /\ IF repeat[l] > 1
     THEN /\ repeat' = [repeat EXCEPT ![l] = @ - 1]
          /\ UNCHANGED <<holder, pc, at>>
     ELSE /\ holder' = [holder EXCEPT ![l] = None]
          /\ repeat' = [repeat EXCEPT ![l] = 0]
          /\ pc' = [pc EXCEPT ![cur] = "signal"]
          /\ at' = [at EXCEPT ![cur] = l]
  /\ UNCHANGED <<schedVars, value, waiters>>

\* The sema_signal at the end of lock_release.
LockSignal ==
  /\ pc[cur] = "signal"
  /\ SemaSignalStep(at[cur])
  /\ pc' = [pc EXCEPT ![cur] = "run"]
  /\ at' = [at EXCEPT ![cur] = None]
  /\ UNCHANGED <<holder, repeat>>

\* The steps of the scheduler a thread outside sync.c can be in.
SyncTick == Interruptible /\ Tick /\ UNCHANGED syncVars
SyncIdle == IdleLoop /\ UNCHANGED syncVars
SyncYield == pc[cur] = "run" /\ Yield /\ UNCHANGED syncVars
SyncStart(t) == Interruptible /\ ThreadStart(t) /\ UNCHANGED syncVars

\* What the code of sync.c itself does next, once a thread is in it.
Continue == SemaWaitAgain \/ LockOwn \/ LockSignal

SyncNext ==
  \/ SyncTick
  \/ SyncIdle
  \/ SyncYield
  \/ Continue
  \/ \E t \in Thread : SyncStart(t)
  \/ \E l \in Lock : LockAcquire(l) \/ LockRelease(l)
  \/ \E s \in CSema : SemaWait(s) \/ SemaTryWait(s) \/ SemaSignal(s)

SyncSafety == SyncInit /\ [][SyncNext]_vars

(***************************************************************************)
(* Fairness.  The timer interrupt stays latched until interrupts are on;   *)
(* a thread that gets the CPU again and again executes the next few        *)
(* instructions of sync.c, and every critical section of the kernel ends   *)
(* with its last release.                                                  *)
(***************************************************************************)
SyncFairness ==
  /\ SF_vars(SyncTick)
  /\ WF_vars(SyncIdle)
  /\ \A t \in Thread \ {Idle} :
       /\ SF_vars(cur = t /\ Continue)
       /\ SF_vars(cur = t /\ \E l \in Lock : repeat[l] = 1 /\ LockRelease(l))

SyncSpec == SyncSafety /\ SyncFairness

-----------------------------------------------------------------------------
(***************************************************************************)
(* Properties.                                                             *)
(***************************************************************************)

\* Every variable has its type; value is a uint8_t.
SyncTypeOK ==
  /\ SchedTypeOK
  /\ value \in [Sema -> 0 .. SEMA_MOD - 1]
  /\ waiters \in [Sema -> Seq(Thread)]
  /\ holder \in [Lock -> Thread \cup {None}]
  /\ repeat \in [Lock -> Nat]
  /\ pc \in [Thread -> PC]
  /\ at \in [Thread -> Sema \cup {None}]

\* general_tag is in one list at a time: a thread is queued on the semaphore
\* it sleeps on, once, exactly while it is BLOCKED, and so never while it is
\* also on thread_ready_list.
BlockedIsQueued ==
  \A s \in Sema :
    /\ IsInjective(waiters[s])
    /\ \A t \in Thread :
         t \in Range(waiters[s]) <=> (status[t] = "BLOCKED" /\ at[t] = s)

\* The threads between sema_wait and sema_signal of a lock.
Owners(l) ==
  {t \in Thread : holder[l] = t \/ (at[t] = l /\ pc[t] \in {"own", "signal"})}

\* Mutual exclusion: at most one thread is past the lock, the semaphore is
\* free exactly when none is, and the ASSERTs on holder_repeat_nr hold.
MutualExclusion ==
  \A l \in Lock :
    /\ \A t, u \in Owners(l) : t = u
    /\ value[l] = IF Owners(l) = {} THEN 1 ELSE 0
    /\ repeat[l] > 0 <=> holder[l] # None

\* The threads that were woken for s and have not tested its value yet.
Woken(s) ==
  {t \in Thread : at[t] = s /\ pc[t] = "wait" /\ status[t] # "BLOCKED"}

\* No lost wake-up: while a thread sleeps on a semaphore, every unit of its
\* value has a woken thread on the way to take it.  (sema_signal wakes one
\* thread only, and a thread that is not queued can take the unit first.)
NoLostWakeup ==
  \A s \in Sema : waiters[s] # <<>> => value[s] <= Cardinality(Woken(s))

\* Nobody sleeps for ever on a lock: every thread queued on it is woken in
\* its turn.  (Woken, it may still find the lock taken and queue again.)
WaiterIsWoken ==
  \A l \in Lock, t \in Thread :
    t \in Range(waiters[l]) ~> t \notin Range(waiters[l])
=============================================================================
