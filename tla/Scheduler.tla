----------------------------- MODULE Scheduler -----------------------------
(***************************************************************************)
(* The scheduler of thread/thread.c and the time slice of device/timer.c.  *)
(*                                                                         *)
(* There is one CPU, and schedule() runs with interrupts off, so a call of *)
(* thread_block, thread_unblock, thread_yield or of the timer interrupt is *)
(* one step.  thread_ready_list is a sequence of threads; thread_all_list  *)
(* is the set of threads whose status is not "NONE", because only whether  *)
(* a thread is on it matters to schedule().                                *)
(***************************************************************************)
EXTENDS Integers, SequencesExt

CONSTANTS Thread,   \* every task_struct there can be
          Idle,     \* idle_thread
          Prio      \* task_struct.priority, fixed when the thread is created

ASSUME IdleAssumption == Idle \in Thread

\* init.c and process.c start threads with priorities 3, 5, 31 and 32.
ASSUME PrioAssumption == Prio \in [Thread -> Nat \ {0}]

VARIABLES cur,      \* tss.cur_task, the running thread
          status,   \* task_struct.status; "NONE": no such thread
          ready,    \* thread_ready_list
          ticks     \* task_struct.ticks, what is left of the time slice

schedVars == <<cur, status, ready, ticks>>

Asleep == {"BLOCKED", "WAITING", "HANGING"}
Status == {"RUNNING", "READY", "NONE"} \cup Asleep

-----------------------------------------------------------------------------
(***************************************************************************)
(* schedule().  st and rd are the statuses and the ready list its caller   *)
(* leaves behind.                                                          *)
(***************************************************************************)

\* A running thread that loses the CPU goes to the back of the ready list.
RequeueStatus(st) ==
  IF st[cur] = "RUNNING" THEN [st EXCEPT ![cur] = "READY"] ELSE st

RequeueReady(st, rd) ==
  IF st[cur] = "RUNNING" THEN Append(rd, cur) ELSE rd

\* Mutant: the ticks a thread has left are not halved.
ReplenishWhole(st, tk) ==
  [t \in Thread |-> IF st[t] = "NONE" THEN tk[t] ELSE tk[t] + Prio[t]]

\* The compensation round: every thread on thread_all_list, blocked ones
\* included, keeps half of its ticks and gets its priority on top.
Replenish(st, tk) ==
  [t \in Thread |-> IF st[t] = "NONE" THEN tk[t] ELSE (tk[t] \div 2) + Prio[t]]

\* Mutant: zero does not count as used up.
SpentBelowZero(rd, tk) == rd # <<>> /\ \A i \in DOMAIN rd : tk[rd[i]] < 0

\* Mutant: every call of schedule() is a round.
SpentAlways(rd, tk) == rd # <<>>

\* The round happens when every ready thread has used up its ticks.
Spent(rd, tk) == rd # <<>> /\ \A i \in DOMAIN rd : tk[rd[i]] = 0

\* The scan keeps the first thread with strictly more ticks than those
\* before it.
IsPick(rd, tk, i) ==
  /\ \A j \in DOMAIN rd : tk[rd[j]] <= tk[rd[i]]
  /\ \A j \in DOMAIN rd : j < i => tk[rd[j]] < tk[rd[i]]

RunIdle(st) ==
  /\ cur' = Idle
  /\ status' = [st EXCEPT ![Idle] = "RUNNING"]
  /\ ready' = <<>>
  /\ ticks' = [ticks EXCEPT ![Idle] = IF @ = 0 THEN 1 ELSE @]

RunPicked(st, rd, tk) ==
  \E i \in DOMAIN rd :
    /\ IsPick(rd, tk, i)
    /\ cur' = rd[i]
    /\ status' = [st EXCEPT ![rd[i]] = "RUNNING"]
    /\ ready' = RemoveAt(rd, i)
    /\ ticks' = tk

Schedule(st, rd) ==
  LET st1 == RequeueStatus(st)
      rd1 == RequeueReady(st, rd)
  IN  IF rd1 = <<>>
      THEN RunIdle(st1)
      ELSE RunPicked(st1, rd1,
                     IF Spent(rd1, ticks) THEN Replenish(st1, ticks) ELSE ticks)

-----------------------------------------------------------------------------
(***************************************************************************)
(* What the rest of the kernel calls.                                      *)
(***************************************************************************)

\* thread_block(stat), called by the running thread.
ThreadBlock(stat) == Schedule([status EXCEPT ![cur] = stat], ready)

\* Mutant: the status stays what it was.
ThreadUnblockStatusKept(t) ==
  /\ ready' = <<t>> \o ready
  /\ UNCHANGED <<cur, status, ticks>>

\* thread_unblock(t): t goes to the front; the caller keeps the CPU.
ThreadUnblock(t) ==
  /\ ready' = <<t>> \o ready
  /\ status' = [status EXCEPT ![t] = "READY"]
  /\ UNCHANGED <<cur, ticks>>

\* thread_yield().
ThreadYield == Schedule([status EXCEPT ![cur] = "READY"], Append(ready, cur))

\* The end of intr_handler_timer: the slice is checked before it is charged.
\* st and rd are what the expired timers leave behind.
TimeSlice(st, rd) ==
  IF ticks[cur] = 0
  THEN Schedule(st, rd)
  ELSE /\ ticks' = [ticks EXCEPT ![cur] = @ - 1]
       /\ status' = st
       /\ ready' = rd
       /\ UNCHANGED cur

\* thread_start, and what process_execute and copy_process do like it.
ThreadStart(t) ==
  /\ status[t] = "NONE"
  /\ status' = [status EXCEPT ![t] = "READY"]
  /\ ready' = Append(ready, t)
  /\ ticks' = [ticks EXCEPT ![t] = Prio[t]]
  /\ UNCHANGED cur

\* if (dlist_find(&list, &tag)) dlist_remove(&tag)
Unlink(list, t) ==
  IF t \in Range(list)
  THEN RemoveAt(list, CHOOSE i \in DOMAIN list : list[i] = t)
  ELSE list

\* thread_exit(t, FALSE), called by the parent that reaps t.
ThreadExit(t) ==
  /\ status[t] = "HANGING"
  /\ status' = [status EXCEPT ![t] = "NONE"]
  /\ ready' = Unlink(ready, t)
  /\ UNCHANGED <<cur, ticks>>

-----------------------------------------------------------------------------
(***************************************************************************)
(* The scheduler under any workload: threads run, yield, sleep in each of  *)
(* the three ways, are woken, created and reaped in any order, and the     *)
(* timer interrupts them.                                                  *)
(***************************************************************************)

\* after_init: main has become the idle thread and nothing else runs yet.
SchedInit ==
  /\ cur = Idle
  /\ status = [t \in Thread |-> IF t = Idle THEN "RUNNING" ELSE "NONE"]
  /\ ready = <<>>
  /\ ticks = Prio

Tick == TimeSlice(status, ready)

\* idle(): while(1) { thread_block(TASK_WAITING); sti; hlt }
IdleLoop == cur = Idle /\ ThreadBlock("WAITING")

Yield == cur # Idle /\ ThreadYield

Sleep(stat) == cur # Idle /\ ThreadBlock(stat)

\* The callers of thread_unblock wake sleepers that are not zombies, and
\* none of them knows the idle thread.
Wake(t) ==
  /\ t # Idle
  /\ status[t] \in {"BLOCKED", "WAITING"}
  /\ ThreadUnblock(t)

Reap(t) == cur # Idle /\ ThreadExit(t)

SchedNext ==
  \/ Tick
  \/ IdleLoop
  \/ Yield
  \/ \E stat \in Asleep : Sleep(stat)
  \/ \E t \in Thread : Wake(t) \/ ThreadStart(t) \/ Reap(t)

SchedSafety == SchedInit /\ [][SchedNext]_schedVars

\* The timer interrupt is periodic, and hlt returns after every interrupt.
SchedFairness == WF_schedVars(Tick) /\ WF_schedVars(IdleLoop)

SchedSpec == SchedSafety /\ SchedFairness

-----------------------------------------------------------------------------
(***************************************************************************)
(* Properties.                                                             *)
(***************************************************************************)

\* Every variable has its type; ticks, an int16, never goes below zero.
SchedTypeOK ==
  /\ cur \in Thread
  /\ status \in [Thread -> Status]
  /\ ready \in Seq(Thread)
  /\ ticks \in [Thread -> Nat]

\* general_tag is linked into thread_ready_list exactly while the status is
\* READY, and only once, and the thread tss.cur_task points to is the only
\* RUNNING one.  So the ASSERTs of schedule, thread_block, thread_yield and
\* thread_start and the PANIC of thread_unblock cannot fire.
ReadyListAgrees ==
  /\ Range(ready) = {t \in Thread : status[t] = "READY"}
  /\ IsInjective(ready)
  /\ \A t \in Thread : status[t] = "RUNNING" <=> t = cur

\* The comment in schedule(), thread.c:210-213: a thread that never spends
\* its ticks never has more than twice its priority.
TicksBounded == \A t \in Thread : ticks[t] <= 2 * Prio[t]

\* schedule() loops with interrupts off until it has found a thread with
\* ticks left: one compensation round is always enough.
SwitchHasSlice == [][cur' # cur => ticks'[cur'] > 0]_schedVars

\* No starvation: unless threads are created for ever, a ready thread gets
\* the CPU however the others yield, sleep and wake.
ReadyThreadRuns ==
  <>[][~ \E t \in Thread : ThreadStart(t)]_schedVars =>
     \A t \in Thread : status[t] = "READY" ~> status[t] # "READY"
=============================================================================
