----------------------------- MODULE TimerSync -----------------------------
(***************************************************************************)
(* The timer and the locks together: processes with an alarm armed, and    *)
(* asleep in sema_wait when it goes off.                                   *)
(***************************************************************************)
EXTENDS Sync, Timer

tsVars == <<schedVars, syncVars, timerVars>>

TSInit == SyncInit /\ TimerInit

\* sync.c as it is, with the timer's state left alone.
TSSync ==
  /\ \/ SyncIdle
     \/ SyncYield
     \/ Continue
     \/ \E t \in Thread : SyncStart(t)
     \/ \E l \in Lock : LockAcquire(l) \/ LockRelease(l)
  /\ UNCHANGED timerVars

\* The interrupt, and sys_alarm, which a process calls outside of any lock.
TSTick ==
  /\ Interruptible /\ now < MaxNow
  /\ TimerInterrupt
  /\ UNCHANGED syncVars

TSAlarm(sec) ==
  /\ cur # Idle /\ pc[cur] = "run" /\ Held(cur) = {}
  /\ AlarmStep(sec)
  /\ UNCHANGED syncVars

TSNext == TSSync \/ TSTick \/ \E sec \in Seconds : TSAlarm(sec)

TSSpec == TSInit /\ [][TSNext]_tsVars

-----------------------------------------------------------------------------
\* thread.h on TASK_BLOCKED: a sleep that is not interrupted.  A thread
\* stops being BLOCKED only when sema_signal has taken it off the waiters it
\* is queued on; general_tag is then free for thread_ready_list.
UninterruptibleSleep ==
  [][\A t \in Thread :
       status[t] = "BLOCKED" /\ status'[t] # "BLOCKED" =>
         \A s \in Sema : t \notin Range(waiters'[s])]_tsVars
=============================================================================
