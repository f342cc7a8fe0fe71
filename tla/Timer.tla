------------------------------- MODULE Timer -------------------------------
(***************************************************************************)
(* device/timer.c on top of the scheduler: the timer interrupt with its    *)
(* two queues of deadlines, sys_milsleep, sys_pause and sys_alarm.         *)
(*                                                                         *)
(* System calls and the interrupt handler run with interrupts off, so the  *)
(* interrupt arrives only while the running thread is in user mode         *)
(* (where[cur] = "user") or halted in the idle loop.                       *)
(***************************************************************************)
EXTENDS Scheduler

CONSTANTS TICK_MOD,        \* ticks is a uint32_t: 2^32
          MS_PER_INTR,     \* mil_seconds_per_intr: 1000 / IRQ0_FREQUENCY
          IRQ0_FREQUENCY,  \* interrupts per second
          MilSeconds,      \* arguments of sys_milsleep
          Seconds,         \* arguments of sys_alarm
          MaxNow,          \* bound on the interrupts of a run
          MaxAlarm         \* bound on now + seconds, before it wraps

ASSUME TimerAssumption ==
  /\ TICK_MOD \in Nat \ {0}
  /\ MS_PER_INTR \in Nat \ {0}
  /\ IRQ0_FREQUENCY \in Nat \ {0}
  /\ MilSeconds \subseteq 0 .. TICK_MOD - 1
  /\ Seconds \subseteq 0 .. TICK_MOD - 1
  /\ MaxNow \in Nat /\ MaxAlarm \in Nat

VARIABLES now,         \* ticks, the interrupts since boot
          timer_list,  \* sleepers, by wait_until
          alarm_list,  \* armed alarms, by alarm
          wait_until,  \* task_struct.wait_until
          alarm,       \* task_struct.alarm; 0: none
          where,       \* "user", or "sleep" / "pause" inside the call
          expire       \* expire_ticks, the local variable of sys_milsleep

timerVars == <<now, timer_list, alarm_list, wait_until, alarm, where, expire>>
timerAllVars == <<schedVars, timerVars>>

TimerInit ==
  /\ SchedInit
  /\ now = 0
  /\ timer_list = <<>>
  /\ alarm_list = <<>>
  /\ wait_until = [t \in Thread |-> 0]
  /\ alarm = [t \in Thread |-> 0]
  /\ where = [t \in Thread |-> "user"]
  /\ expire = [t \in Thread |-> 0]

-----------------------------------------------------------------------------
\* DIV_ROUND_UP on uint32_t.
DivRoundUp(a, b) == ((a + b - 1) % TICK_MOD) \div b

\* Mutant: the queue is not sorted.
InsertLast(list, due, t) == Append(list, t)

\* list_insert_ascend: before the first deadline that is strictly later.
InsertAscend(list, due, t) ==
  LET later == {i \in DOMAIN list : due[list[i]] > due[t]}
      p     == IF later = {} THEN Len(list) + 1 ELSE Min(later)
  IN  InsertAt(list, p, t)

\* Mutant: one tick early.
ExpiredEarly(list, due, n) ==
  LET early == {i \in DOMAIN list : ~ (due[list[i]] > 0 /\ due[list[i]] <= n + 1)}
  IN  IF early = {} THEN list ELSE SubSeq(list, 1, Min(early) - 1)

\* Mutant: one tick late.
ExpiredLate(list, due, n) ==
  LET early == {i \in DOMAIN list : ~ (due[list[i]] > 0 /\ due[list[i]] < n)}
  IN  IF early = {} THEN list ELSE SubSeq(list, 1, Min(early) - 1)

\* The heads the loop of the handler takes off: it stops at the first
\* deadline that is not due, and a deadline of 0 is never due.
Expired(list, due, n) ==
  LET early == {i \in DOMAIN list : ~ (due[list[i]] > 0 /\ due[list[i]] <= n)}
  IN  IF early = {} THEN list ELSE SubSeq(list, 1, Min(early) - 1)

Remaining(list, gone) == SubSeq(list, Len(gone) + 1, Len(list))

\* thread_unblock for each expired thread that sleeps, BLOCKED or WAITING or
\* HANGING alike; each is pushed in front of the ones before it.
WakeStatus(st, gone) ==
  [t \in {u \in Range(gone) : st[u] \in Asleep} |-> "READY"] @@ st

WakeReady(st, rd, gone) ==
  Reverse(SelectSeq(gone, LAMBDA t : st[t] \in Asleep)) \o rd

\* intr_handler_timer.  That it also makes SIGALRM pending has no effect on
\* the queues, and is left out.
TimerInterrupt ==
  LET n   == (now + 1) % TICK_MOD
      tg  == Expired(timer_list, wait_until, n)
      ag  == Expired(alarm_list, alarm, n)
      st1 == WakeStatus(status, tg)
      rd1 == WakeReady(status, ready, tg)
  IN  /\ now' = n
      /\ timer_list' = Remaining(timer_list, tg)
      /\ wait_until' = [t \in Thread |-> IF t \in Range(tg) THEN 0 ELSE wait_until[t]]
      /\ alarm_list' = Remaining(alarm_list, ag)
      /\ alarm' = [t \in Thread |-> IF t \in Range(ag) THEN 0 ELSE alarm[t]]
      /\ TimeSlice(WakeStatus(st1, ag), WakeReady(st1, rd1, ag))
      /\ UNCHANGED <<where, expire>>

\* expire_ticks: a deadline past the end of the counter is pulled back to
\* its last value.
ExpireTicks(n) ==
  LET sum == (now + n) % TICK_MOD
  IN  IF sum < now THEN TICK_MOD - 1 ELSE sum

\* sys_milsleep up to thread_block.
MilSleepStart(ms) ==
  LET n    == DivRoundUp(ms, MS_PER_INTR)
      till == ExpireTicks(n)
  IN  /\ n > 0
      /\ wait_until' = [wait_until EXCEPT ![cur] = till]
      /\ expire' = [expire EXCEPT ![cur] = till]
      /\ timer_list' = InsertAscend(timer_list, wait_until', cur)
      /\ where' = [where EXCEPT ![cur] = "sleep"]
      /\ ThreadBlock("WAITING")
      /\ UNCHANGED <<now, alarm_list, alarm>>

\* sys_milsleep after thread_block: a thread woken early takes itself off.
MilSleepEnd ==
  /\ where[cur] = "sleep"
  /\ timer_list' = Unlink(timer_list, cur)
  /\ where' = [where EXCEPT ![cur] = "user"]
  /\ expire' = [expire EXCEPT ![cur] = 0]
  /\ UNCHANGED <<schedVars, now, alarm_list, wait_until, alarm>>

\* What sys_milsleep returns: the time left, if it was woken early.
RemainingMs(t) ==
  IF t \in Range(timer_list) /\ expire[t] > now
  THEN (expire[t] - now) * MS_PER_INTR
  ELSE 0

\* sys_alarm: it takes the old alarm off the queue before it arms the new.
\* Nothing pulls back a deadline that passes the end of the counter.
AlarmStep(sec) ==
  LET due  == (now + sec * IRQ0_FREQUENCY) % TICK_MOD
      rest == Unlink(alarm_list, cur)
  IN  /\ alarm' = [alarm EXCEPT ![cur] = IF sec > 0 THEN due ELSE 0]
      /\ alarm_list' = IF sec > 0 THEN InsertAscend(rest, alarm', cur) ELSE rest
      /\ UNCHANGED <<schedVars, now, timer_list, wait_until, where, expire>>

-----------------------------------------------------------------------------
InUser == where[cur] = "user"

TimerTick == InUser /\ now < MaxNow /\ TimerInterrupt

MilSleep(ms) == cur # Idle /\ InUser /\ MilSleepStart(ms)

Alarm(sec) ==
  /\ cur # Idle /\ InUser
  /\ now + sec * IRQ0_FREQUENCY <= MaxAlarm
  /\ AlarmStep(sec)

\* sys_pause.
Pause ==
  /\ cur # Idle /\ InUser
  /\ where' = [where EXCEPT ![cur] = "pause"]
  /\ ThreadBlock("WAITING")
  /\ UNCHANGED <<now, timer_list, alarm_list, wait_until, alarm, expire>>

PauseEnd ==
  /\ where[cur] = "pause"
  /\ where' = [where EXCEPT ![cur] = "user"]
  /\ UNCHANGED <<schedVars, now, timer_list, alarm_list, wait_until, alarm, expire>>

\* send_signal by the running thread or by an interrupt handler: it wakes a
\* WAITING thread only.
Interrupted(t) ==
  /\ InUser
  /\ status[t] = "WAITING" /\ Wake(t)
  /\ UNCHANGED timerVars

TimerStart(t) == InUser /\ ThreadStart(t) /\ UNCHANGED timerVars
TimerIdle == IdleLoop /\ UNCHANGED timerVars

TimerNext ==
  \/ TimerTick
  \/ \E ms \in MilSeconds : MilSleep(ms)
  \/ MilSleepEnd
  \/ Pause
  \/ PauseEnd
  \/ \E sec \in Seconds : Alarm(sec)
  \/ \E t \in Thread : Interrupted(t) \/ TimerStart(t)
  \/ TimerIdle

\* The interrupt is periodic and stays latched while interrupts are off; a
\* thread on the CPU executes.
TimerFairness ==
  /\ SF_timerAllVars(TimerTick)
  /\ WF_timerAllVars(TimerIdle)
  /\ WF_timerAllVars(MilSleepEnd)
  /\ WF_timerAllVars(PauseEnd)

TimerSpec == TimerInit /\ [][TimerNext]_timerAllVars /\ TimerFairness

-----------------------------------------------------------------------------
(***************************************************************************)
(* Properties.                                                             *)
(***************************************************************************)

\* Every variable has its type.
TimerTypeOK ==
  /\ SchedTypeOK
  /\ now \in 0 .. TICK_MOD - 1
  /\ timer_list \in Seq(Thread)
  /\ alarm_list \in Seq(Thread)
  /\ wait_until \in [Thread -> 0 .. TICK_MOD - 1]
  /\ alarm \in [Thread -> 0 .. TICK_MOD - 1]
  /\ where \in [Thread -> {"user", "sleep", "pause"}]
  /\ expire \in [Thread -> 0 .. TICK_MOD - 1]

\* The comment in intr_handler_timer: the queue is ascending, so once its
\* head is not due nothing behind it is.  Every sleeper still queued has its
\* deadline in the future, also when ticks wraps round; a sleep that starts
\* on the last value of the counter has its deadline there.
SleepersNotDue ==
  \A t \in Range(timer_list) :
    wait_until[t] > now \/ wait_until[t] = TICK_MOD - 1

\* The same for the alarms.  (sys_alarm does not pull back a deadline past
\* the end of the counter: with MaxAlarm >= TICK_MOD one of 0 blocks the rest.)
AlarmsNotDue ==
  \A t \in Range(alarm_list) : alarm[t] > now

\* Each queue holds a thread once (the ASSERT of list_insert_ascend), only
\* threads inside sys_milsleep are sleepers, and exactly the armed alarms
\* are queued.
QueuesAgree ==
  /\ IsInjective(timer_list)
  /\ IsInjective(alarm_list)
  /\ Range(timer_list) \subseteq {t \in Thread : where[t] = "sleep"}
  /\ Range(alarm_list) = {t \in Thread : alarm[t] > 0}

\* No deadline is overlooked: neither queue holds one that has passed, and the
\* queues hold whom they should, also when sleeps and alarms are set again,
\* cut short by signals, or reach past the end of the counter.
DeadlinesKept == SleepersNotDue /\ AlarmsNotDue /\ QueuesAgree

\* sys_milsleep returns 0 only when its time is over: the interrupt, and not
\* the thread itself, took it off timer_list, and not before its deadline;
\* otherwise it is told how long it had still to sleep.
SleepIsNotShort ==
  [][\A t \in Range(timer_list) \ Range(timer_list') :
       expire[t] <= now' \/ (where'[t] = "user" /\ RemainingMs(t) > 0)]_timerAllVars

\* Every sleep ends, also the one whose deadline was pulled back to the end
\* of the counter.
SleepEnds ==
  \A t \in Thread : t \in Range(timer_list) ~> t \notin Range(timer_list)
=============================================================================
