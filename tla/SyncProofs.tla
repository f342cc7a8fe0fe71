----------------------------- MODULE SyncProofs -----------------------------
(***************************************************************************)
(* Proofs about Sync for any threads, locks and semaphores: mutual         *)
(* exclusion, a general_tag that is in one list only, no lost wake-up, and *)
(* that what sync.c does to the scheduler is what Scheduler allows.        *)
(***************************************************************************)
EXTENDS Sync, SchedulerProofs, FiniteSetTheorems

\* Where a thread is in sync.c, and what that says of the lock it is there
\* for.  The idle thread is never in it.
WhereOK ==
  /\ pc[Idle] = "run"
  /\ \A l \in Lock : holder[l] # Idle
  /\ \A t \in Thread :
       /\ pc[t] = "run" <=> at[t] = None
       /\ pc[t] \in {"own", "signal"} => at[t] \in Lock /\ holder[at[t]] = None
       /\ status[t] = "BLOCKED" => pc[t] = "wait"

SyncInv ==
  SchedInv /\ SyncTypeOK /\ WhereOK /\ BlockedIsQueued /\ MutualExclusion

\* A step puts nobody to sleep on a semaphore and wakes nobody from one.
SameBlocked ==
  \A t \in Thread : status'[t] = "BLOCKED" <=> status[t] = "BLOCKED"

-----------------------------------------------------------------------------
\* schedule() leaves sleepers asleep, and others awake.
LEMMA ScheduleBlocked ==
  ASSUME NEW st, NEW rd, Agree(st, rd), Schedule(st, rd), cur \in Thread,
         st[Idle] # "BLOCKED"
  PROVE  \A t \in Thread : status'[t] = "BLOCKED" <=> st[t] = "BLOCKED"
<1> DEFINE s1 == RequeueStatus(st)
           r1 == RequeueReady(st, rd)
<1>1. Agree(s1, r1)
  BY RequeueLemma
<1>2. \A t \in Thread : s1[t] = "BLOCKED" <=> st[t] = "BLOCKED"
  BY DEF RequeueStatus, Agree
<1>3. IF r1 = <<>> THEN RunIdle(s1) ELSE \E tk : RunPicked(s1, r1, tk)
  BY DEF Schedule
<1> HIDE DEF s1, r1
<1>4. CASE r1 = <<>>
  <2>1. status' = [s1 EXCEPT ![Idle] = "RUNNING"]
    BY <1>3, <1>4 DEF RunIdle
  <2> QED BY <1>1, <1>2, <2>1, IdleAssumption DEF Agree
<1>5. CASE r1 # <<>>
  <2>1. PICK i \in DOMAIN r1 : status' = [s1 EXCEPT ![r1[i]] = "RUNNING"]
    BY <1>3, <1>5 DEF RunPicked
  <2>2. r1[i] \in Range(r1)
    BY DEF Range
  <2>3. r1[i] \in Thread /\ s1[r1[i]] = "READY"
    BY <1>1, <2>2 DEF Agree
  <2> QED BY <1>1, <1>2, <2>1, <2>3 DEF Agree
<1> QED BY <1>4, <1>5

\* The idle thread does not sleep on a semaphore.
LEMMA IdleNotBlocked == SyncInv => status[Idle] # "BLOCKED"
BY IdleAssumption DEF SyncInv, WhereOK

\* A step of the scheduler that leaves sync.c and its sleepers alone.
LEMMA SchedulerOnly ==
  ASSUME SyncInv, UNCHANGED syncVars, SchedInv', SameBlocked
  PROVE  SyncInv'
<1>1. SyncTypeOK'
  BY DEF SyncInv, SyncTypeOK, SchedInv, syncVars
<1>2. WhereOK'
  BY DEF SyncInv, WhereOK, syncVars, SameBlocked
<1>3. BlockedIsQueued'
  BY DEF SyncInv, BlockedIsQueued, syncVars, SameBlocked
<1>4. MutualExclusion'
  BY DEF SyncInv, MutualExclusion, Owners, syncVars
<1> QED BY <1>1, <1>2, <1>3, <1>4 DEF SyncInv

\* The timer interrupt puts nobody to sleep and wakes nobody.
LEMMA TickBlocked ==
  ASSUME SyncInv, Tick
  PROVE  SameBlocked
<1>1. CASE ticks[cur] = 0
  <2>1. Schedule(status, ready)
    BY <1>1 DEF Tick, TimeSlice
  <2>2. Agree(status, ready) /\ cur \in Thread
    BY CallersAgree DEF SyncInv, SchedInv, SchedTypeOK
  <2> QED BY <2>1, <2>2, ScheduleBlocked, IdleNotBlocked DEF SameBlocked
<1>2. CASE ticks[cur] # 0
  BY <1>2 DEF Tick, TimeSlice, SameBlocked
<1> QED BY <1>1, <1>2

\* The idle loop waits, but not on a semaphore.
LEMMA IdleLoopBlocked ==
  ASSUME SyncInv, IdleLoop
  PROVE  SameBlocked
<1> DEFINE st == [status EXCEPT ![cur] = "WAITING"]
<1>1. Schedule(st, ready) /\ cur = Idle
  BY DEF IdleLoop, ThreadBlock
<1>2. Agree(st, ready) /\ cur \in Thread
  BY CallersAgree DEF SyncInv, SchedInv, SchedTypeOK, Asleep
<1>3. \A t \in Thread : st[t] = "BLOCKED" <=> status[t] = "BLOCKED"
  BY <1>1, IdleNotBlocked DEF SyncInv, SchedInv, SchedTypeOK
<1> HIDE DEF st
<1>4. st[Idle] # "BLOCKED"
  BY <1>3, IdleNotBlocked, IdleAssumption
<1>5. \A t \in Thread : status'[t] = "BLOCKED" <=> st[t] = "BLOCKED"
  BY <1>1, <1>2, <1>4, ScheduleBlocked
<1> QED BY <1>3, <1>5 DEF SameBlocked

\* thread_yield puts nobody to sleep and wakes nobody.
LEMMA YieldBlocked ==
  ASSUME SyncInv, Yield
  PROVE  SameBlocked
<1> DEFINE st == [status EXCEPT ![cur] = "READY"]
           rd == Append(ready, cur)
<1>1. Schedule(st, rd)
  BY DEF Yield, ThreadYield
<1>2. Agree(st, rd) /\ cur \in Thread
  BY CallersAgree DEF SyncInv, SchedInv, SchedTypeOK
<1>3. status[cur] = "RUNNING"
  BY DEF SyncInv, SchedInv, SchedTypeOK, ReadyListAgrees
<1>4. \A t \in Thread : st[t] = "BLOCKED" <=> status[t] = "BLOCKED"
  BY <1>3 DEF SyncInv, SchedInv, SchedTypeOK
<1> HIDE DEF st, rd
<1>5. st[Idle] # "BLOCKED"
  BY <1>4, IdleNotBlocked, IdleAssumption
<1>6. \A t \in Thread : status'[t] = "BLOCKED" <=> st[t] = "BLOCKED"
  BY <1>1, <1>2, <1>5, ScheduleBlocked
<1> QED BY <1>4, <1>6 DEF SameBlocked

-----------------------------------------------------------------------------
\* sema_wait goes to sleep: the caller is queued, and is now BLOCKED.
LEMMA WaitBlocks ==
  ASSUME SyncInv, NEW s \in Sema, cur # Idle,
         pc[cur] = "run" \/ (pc[cur] = "wait" /\ at[cur] = s),
         waiters' = [waiters EXCEPT ![s] = Append(@, cur)],
         pc' = [pc EXCEPT ![cur] = "wait"],
         at' = [at EXCEPT ![cur] = s],
         ThreadBlock("BLOCKED"),
         UNCHANGED <<value, holder, repeat>>
  PROVE  SyncInv' /\ \E stat \in Asleep : Sleep(stat)
<1> DEFINE st == [status EXCEPT ![cur] = "BLOCKED"]
<1>1. Schedule(st, ready) /\ "BLOCKED" \in Asleep
  BY DEF ThreadBlock, Asleep
<1>2. Agree(st, ready) /\ cur \in Thread /\ status \in [Thread -> Status]
  BY <1>1, CallersAgree DEF SyncInv, SchedInv, SchedTypeOK
<1>3. SchedInv'
  BY <1>1, <1>2, ScheduleLemma DEF SyncInv, SchedInv, SchedTypeOK
<1>4. st[Idle] # "BLOCKED"
  BY <1>2, IdleNotBlocked, IdleAssumption
<1>5. \A t \in Thread : status'[t] = "BLOCKED" <=> st[t] = "BLOCKED"
  BY <1>1, <1>2, <1>4, ScheduleBlocked
<1>6. \A t \in Thread : status'[t] = "BLOCKED" <=> (t = cur \/ status[t] = "BLOCKED")
  BY <1>2, <1>5
<1>7. status[cur] = "RUNNING"
  BY <1>2 DEF SyncInv, SchedInv, ReadyListAgrees
<1> HIDE DEF st
<1>8. \A r \in Sema : cur \notin Range(waiters[r])
  BY <1>2, <1>7 DEF SyncInv, BlockedIsQueued
<1>9. /\ waiters'[s] \in Seq(Thread) /\ IsInjective(waiters'[s])
      /\ Range(waiters'[s]) = Range(waiters[s]) \cup {cur}
  BY <1>2, <1>8, PushBackLemma DEF SyncInv, SyncTypeOK, BlockedIsQueued
<1>10. \A r \in Sema : r # s => waiters'[r] = waiters[r]
  BY DEF SyncInv, SyncTypeOK
<1>11. /\ pc'[cur] = "wait" /\ at'[cur] = s
       /\ \A t \in Thread : t # cur => pc'[t] = pc[t] /\ at'[t] = at[t]
  BY <1>2 DEF SyncInv, SyncTypeOK
<1>12. s # None
  BY SyncAssumption DEF Sema
<1>13. SyncTypeOK'
  BY <1>3, <1>2, <1>9, <1>10 DEF SyncInv, SyncTypeOK, SchedInv, PC
<1>14. WhereOK'
  BY <1>2, <1>6, <1>11, <1>12, IdleAssumption DEF SyncInv, WhereOK
<1>15. BlockedIsQueued'
  <2> SUFFICES ASSUME NEW r \in Sema
               PROVE  /\ IsInjective(waiters'[r])
                      /\ \A t \in Thread : t \in Range(waiters'[r])
                           <=> (status'[t] = "BLOCKED" /\ at'[t] = r)
    BY DEF BlockedIsQueued
  <2>1. CASE r = s
    BY <1>6, <1>9, <1>11, <2>1 DEF SyncInv, BlockedIsQueued
  <2>2. CASE r # s
    BY <1>6, <1>8, <1>10, <1>11, <2>2 DEF SyncInv, BlockedIsQueued
  <2> QED BY <2>1, <2>2
<1>16. MutualExclusion'
  <2>1. \A l \in Lock : Owners(l)' = Owners(l)
    BY <1>2, <1>11 DEF Owners
  <2> QED BY <2>1 DEF SyncInv, MutualExclusion
<1> QED BY <1>1, <1>3, <1>13, <1>14, <1>15, <1>16 DEF SyncInv, Sleep

\* sema_wait takes a unit of the semaphore, which opens the lock to nobody
\* else.
LEMMA WaitTakes ==
  ASSUME SyncInv, NEW s \in Sema, cur # Idle,
         pc[cur] = "run" \/ (pc[cur] = "wait" /\ at[cur] = s),
         value[s] > 0,
         value' = [value EXCEPT ![s] = @ - 1],
         pc' = [pc EXCEPT ![cur] = IF s \in Lock THEN "own" ELSE "run"],
         at' = [at EXCEPT ![cur] = IF s \in Lock THEN s ELSE None],
         UNCHANGED <<waiters, schedVars, holder, repeat>>
  PROVE  SyncInv'
<1>1. /\ cur \in Thread /\ cur' = cur /\ status' = status
      /\ status[cur] = "RUNNING"
  BY DEF SyncInv, SchedInv, SchedTypeOK, ReadyListAgrees, schedVars
<1>2. SchedInv'
  BY DEF SyncInv, SchedInv, SchedTypeOK, ReadyListAgrees, TicksBounded, schedVars
<1>3. /\ pc'[cur] = IF s \in Lock THEN "own" ELSE "run"
      /\ at'[cur] = IF s \in Lock THEN s ELSE None
      /\ \A t \in Thread : t # cur => pc'[t] = pc[t] /\ at'[t] = at[t]
  BY <1>1 DEF SyncInv, SyncTypeOK
<1>4. SEMA_MOD \in Nat /\ value[s] \in 0 .. SEMA_MOD - 1
  BY SyncAssumption DEF SyncInv, SyncTypeOK
<1>5. value[s] - 1 \in 0 .. SEMA_MOD - 1
  BY <1>4
<1>6. SyncTypeOK'
  BY <1>1, <1>2, <1>5 DEF SyncInv, SyncTypeOK, SchedInv, PC
<1>7. s \in Lock => Owners(s) = {} /\ value[s] = 1 /\ holder[s] = None
  <2> SUFFICES ASSUME s \in Lock PROVE Owners(s) = {} /\ value[s] = 1 /\ holder[s] = None
    OBVIOUS
  <2>1. Owners(s) = {} /\ value[s] = 1
    BY DEF SyncInv, MutualExclusion
  <2>2. holder[s] \in Thread => holder[s] \in Owners(s)
    BY DEF Owners
  <2> QED BY <2>1, <2>2 DEF SyncInv, SyncTypeOK
<1>8. WhereOK'
  <2>1. s # None
    BY SyncAssumption DEF Sema
  <2> QED BY <1>1, <1>3, <1>7, <2>1, IdleAssumption DEF SyncInv, WhereOK
<1>9. BlockedIsQueued'
  BY <1>1, <1>3 DEF SyncInv, BlockedIsQueued
<1>10. ASSUME NEW l \in Lock
       PROVE  /\ Owners(l)' = IF l = s THEN {cur} ELSE Owners(l)
              /\ value'[l] = IF l = s THEN 0 ELSE value[l]
  <2>1. \A t \in Thread : t \in Owners(l)' <=> (t \in Owners(l) \/ (t = cur /\ l = s))
    BY <1>1, <1>3, <1>7 DEF Owners
  <2>2. Owners(l) \subseteq Thread /\ Owners(l)' \subseteq Thread
    BY DEF Owners
  <2>3. Owners(l)' = IF l = s THEN {cur} ELSE Owners(l)
    BY <1>1, <1>7, <2>1, <2>2
  <2>4. value'[l] = IF l = s THEN 0 ELSE value[l]
    BY <1>7 DEF SyncInv, SyncTypeOK, Sema
  <2> QED BY <2>3, <2>4
<1>11. MutualExclusion'
  <2> SUFFICES ASSUME NEW l \in Lock
               PROVE  /\ \A t, u \in Owners(l)' : t = u
                      /\ value'[l] = IF Owners(l)' = {} THEN 1 ELSE 0
                      /\ repeat'[l] > 0 <=> holder'[l] # None
    BY DEF MutualExclusion
  <2> QED BY <1>10 DEF SyncInv, MutualExclusion
<1> QED BY <1>2, <1>6, <1>8, <1>9, <1>11 DEF SyncInv
\* sema_signal: its effect on the queues and on the scheduler.  No sleeper's
\* at changes, so that the caller may still change its own.
LEMMA SignalLemma ==
  ASSUME SyncInv, NEW s \in Sema, SemaSignalStep(s)
  PROVE  /\ SchedInv' /\ cur' = cur
         /\ [\E t \in Thread : Wake(t)]_schedVars
         /\ waiters' \in [Sema -> Seq(Thread)]
         /\ \A r \in Sema :
              /\ IsInjective(waiters'[r])
              /\ \A t \in Thread : t \in Range(waiters'[r])
                   <=> (status'[t] = "BLOCKED" /\ at[t] = r)
         /\ \A t \in Thread : status'[t] = "BLOCKED" => status[t] = "BLOCKED"
<1>1. CASE waiters[s] = <<>>
  <2>1. UNCHANGED <<waiters, schedVars>>
    BY <1>1 DEF SemaSignalStep
  <2>2. SchedInv'
    BY <2>1 DEF SyncInv, SchedInv, SchedTypeOK, ReadyListAgrees, TicksBounded, schedVars
  <2>3. cur' = cur /\ status' = status
    BY <2>1 DEF schedVars
  <2> QED BY <2>1, <2>2, <2>3 DEF SyncInv, SyncTypeOK, BlockedIsQueued
<1>2. CASE waiters[s] # <<>>
  <2> DEFINE h == Head(waiters[s])
  <2>1. waiters' = [waiters EXCEPT ![s] = Tail(@)] /\ ThreadUnblock(h)
    BY <1>2 DEF SemaSignalStep
  <2>2. waiters[s] \in Seq(Thread) /\ IsInjective(waiters[s])
    BY DEF SyncInv, SyncTypeOK, BlockedIsQueued
  <2>3. /\ h \in Range(waiters[s])
        /\ Tail(waiters[s]) \in Seq(Thread)
        /\ IsInjective(Tail(waiters[s]))
        /\ Range(Tail(waiters[s])) = Range(waiters[s]) \ {h}
    BY <1>2, <2>2, PopFrontLemma
  <2>4. h \in Thread /\ status[h] = "BLOCKED" /\ at[h] = s
    <3>1. h \in Thread
      BY <2>2, <2>3, RangeLemma
    <3> HIDE DEF h
    <3> QED BY <2>3, <3>1 DEF SyncInv, BlockedIsQueued
  <2> HIDE DEF h
  <2>5. SchedInv' /\ cur' = cur
    BY <2>1, <2>4, UnblockLemma DEF SyncInv, Asleep
  <2>6. h # Idle
    BY <2>4, IdleNotBlocked
  <2>7. Wake(h)
    BY <2>1, <2>4, <2>6 DEF Wake
  <2>8. status' = [status EXCEPT ![h] = "READY"] /\ status \in [Thread -> Status]
    BY <2>1 DEF ThreadUnblock, SyncInv, SchedInv, SchedTypeOK
  <2>9. \A t \in Thread : status'[t] = "BLOCKED" <=> (status[t] = "BLOCKED" /\ t # h)
    BY <2>4, <2>8
  <2>10. /\ waiters' \in [Sema -> Seq(Thread)]
         /\ waiters'[s] = Tail(waiters[s])
         /\ \A r \in Sema : r # s => waiters'[r] = waiters[r]
    BY <2>1, <2>3 DEF SyncInv, SyncTypeOK
  <2>11. ASSUME NEW r \in Sema
         PROVE  /\ IsInjective(waiters'[r])
                /\ \A t \in Thread : t \in Range(waiters'[r])
                     <=> (status'[t] = "BLOCKED" /\ at[t] = r)
    <3>1. CASE r = s
      BY <2>3, <2>9, <2>10, <3>1 DEF SyncInv, BlockedIsQueued
    <3>2. CASE r # s
      BY <2>4, <2>9, <2>10, <3>2 DEF SyncInv, BlockedIsQueued
    <3> QED BY <3>1, <3>2
  <2> QED BY <2>4, <2>5, <2>7, <2>9, <2>10, <2>11
<1> QED BY <1>1, <1>2

\* The value stays a uint8_t.
LEMMA SignalValue ==
  ASSUME SyncInv, NEW s \in Sema, SemaSignalStep(s)
  PROVE  /\ value' \in [Sema -> 0 .. SEMA_MOD - 1]
         /\ value'[s] = (value[s] + 1) % SEMA_MOD
         /\ value'[s] <= value[s] + 1
         /\ value[s] = 0 => value'[s] = 1
         /\ \A r \in Sema : r # s => value'[r] = value[r]
<1>1. /\ value' = [value EXCEPT ![s] = (@ + 1) % SEMA_MOD]
      /\ value \in [Sema -> 0 .. SEMA_MOD - 1]
  BY DEF SemaSignalStep, SyncInv, SyncTypeOK
<1>2. SEMA_MOD \in Nat /\ SEMA_MOD >= 2
  BY SyncAssumption
<1>3. /\ (value[s] + 1) % SEMA_MOD \in 0 .. SEMA_MOD - 1
      /\ (value[s] + 1) % SEMA_MOD <= value[s] + 1
      /\ value[s] = 0 => (value[s] + 1) % SEMA_MOD = 1
  <2>1. value[s] \in 0 .. SEMA_MOD - 1
    BY <1>1
  <2>2. CASE value[s] + 1 < SEMA_MOD
    <3>1. (value[s] + 1) % SEMA_MOD = value[s] + 1
      BY <1>2, <2>1, <2>2
    <3> QED BY <1>2, <2>1, <2>2, <3>1
  <2>3. CASE value[s] + 1 = SEMA_MOD
    <3>1. (value[s] + 1) % SEMA_MOD = 0
      BY <1>2, <2>3
    <3> QED BY <1>2, <2>1, <2>3, <3>1
  <2> QED BY <1>2, <2>1, <2>2, <2>3
<1> QED BY <1>1, <1>3

\* The last step of lock_release: the lock is free again.
LEMMA LockSignalStep ==
  ASSUME SyncInv, LockSignal
  PROVE  SyncInv' /\ [\E t \in Thread : Wake(t)]_schedVars
<1> DEFINE l == at[cur]
<1>1. cur \in Thread /\ status[cur] = "RUNNING"
  BY DEF SyncInv, SchedInv, SchedTypeOK, ReadyListAgrees
<1>2. /\ l \in Lock /\ l \in Sema /\ holder[l] = None /\ pc[cur] = "signal"
      /\ SemaSignalStep(l)
  BY <1>1 DEF LockSignal, SyncInv, WhereOK, Sema
<1>3. /\ pc' = [pc EXCEPT ![cur] = "run"] /\ at' = [at EXCEPT ![cur] = None]
      /\ holder' = holder /\ repeat' = repeat
  BY DEF LockSignal
<1> HIDE DEF l
<1>4. cur # Idle
  BY <1>2 DEF SyncInv, WhereOK
<1>5. /\ pc'[cur] = "run" /\ at'[cur] = None
      /\ \A t \in Thread : t # cur => pc'[t] = pc[t] /\ at'[t] = at[t]
  BY <1>1, <1>3 DEF SyncInv, SyncTypeOK
<1>6. /\ SchedInv' /\ cur' = cur
      /\ [\E t \in Thread : Wake(t)]_schedVars
      /\ waiters' \in [Sema -> Seq(Thread)]
      /\ \A r \in Sema :
           /\ IsInjective(waiters'[r])
           /\ \A t \in Thread : t \in Range(waiters'[r])
                <=> (status'[t] = "BLOCKED" /\ at[t] = r)
      /\ \A t \in Thread : status'[t] = "BLOCKED" => status[t] = "BLOCKED"
  BY <1>2, SignalLemma
<1>7. SyncTypeOK'
  BY <1>1, <1>2, <1>3, <1>6, SignalValue DEF SyncInv, SyncTypeOK, SchedInv, PC
<1>8. WhereOK'
  BY <1>1, <1>3, <1>4, <1>5, <1>6 DEF SyncInv, WhereOK
<1>9. BlockedIsQueued'
  <2>1. status'[cur] # "BLOCKED" /\ \A r \in Sema : r # None
    BY <1>1, <1>6, SyncAssumption DEF Sema
  <2> QED BY <1>1, <1>5, <1>6, <2>1 DEF BlockedIsQueued
<1>10. cur \in Owners(l)
  BY <1>1, <1>2 DEF Owners, l
<1>11. Owners(l) = {cur} /\ value[l] = 0
  BY <1>2, <1>10 DEF SyncInv, MutualExclusion
<1>12. ASSUME NEW m \in Lock
       PROVE  Owners(m)' = IF m = l THEN {} ELSE Owners(m)
  <2>1. \A t \in Thread : t \in Owners(m)' <=> (t \in Owners(m) /\ m # l)
    <3>1. \A t \in Thread : t # cur => (t \in Owners(m)' <=> t \in Owners(m))
      BY <1>3, <1>5 DEF Owners
    <3>2. cur \in Owners(m)' <=> holder[m] = cur
      BY <1>1, <1>3, <1>5 DEF Owners
    <3>3. m # l => (cur \in Owners(m) <=> holder[m] = cur)
      BY <1>1 DEF Owners, l
    <3>4. holder[l] # cur
      BY <1>1, <1>2, SyncAssumption
    <3> QED BY <1>11, <3>1, <3>2, <3>3, <3>4
  <2>2. Owners(m) \subseteq Thread /\ Owners(m)' \subseteq Thread
    BY DEF Owners
  <2> QED BY <2>1, <2>2
<1>13. \A m \in Lock : value'[m] = IF m = l THEN 1 ELSE value[m]
  BY <1>2, <1>11, SignalValue DEF Sema
<1>14. MutualExclusion'
  <2> SUFFICES ASSUME NEW m \in Lock
               PROVE  /\ \A t, u \in Owners(m)' : t = u
                      /\ value'[m] = IF Owners(m)' = {} THEN 1 ELSE 0
                      /\ repeat'[m] > 0 <=> holder'[m] # None
    BY DEF MutualExclusion
  <2> QED BY <1>3, <1>12, <1>13 DEF SyncInv, MutualExclusion
<1> QED BY <1>6, <1>7, <1>8, <1>9, <1>14 DEF SyncInv
\* sema_signal of a plain semaphore, by a thread or an interrupt handler.
LEMMA SemaSignalStepInv ==
  ASSUME SyncInv, NEW s \in CSema, SemaSignal(s)
  PROVE  SyncInv' /\ [\E t \in Thread : Wake(t)]_schedVars
<1>1. /\ s \in Sema /\ s \notin Lock /\ SemaSignalStep(s)
      /\ UNCHANGED <<holder, repeat, pc, at>>
  BY SyncAssumption DEF SemaSignal, Sema
<1>2. /\ SchedInv' /\ cur' = cur
      /\ [\E t \in Thread : Wake(t)]_schedVars
      /\ waiters' \in [Sema -> Seq(Thread)]
      /\ \A r \in Sema :
           /\ IsInjective(waiters'[r])
           /\ \A t \in Thread : t \in Range(waiters'[r])
                <=> (status'[t] = "BLOCKED" /\ at[t] = r)
      /\ \A t \in Thread : status'[t] = "BLOCKED" => status[t] = "BLOCKED"
  BY <1>1, SignalLemma
<1>3. SyncTypeOK'
  BY <1>1, <1>2, SignalValue DEF SyncInv, SyncTypeOK, SchedInv
<1>4. WhereOK'
  BY <1>1, <1>2 DEF SyncInv, WhereOK
<1>5. BlockedIsQueued'
  BY <1>1, <1>2 DEF BlockedIsQueued
<1>6. MutualExclusion'
  <2>1. \A l \in Lock : value'[l] = value[l]
    BY <1>1, SignalValue DEF Sema
  <2> QED BY <1>1, <2>1 DEF SyncInv, MutualExclusion, Owners
<1> QED BY <1>2, <1>3, <1>4, <1>5, <1>6 DEF SyncInv

\* sema_try_wait takes a unit of a plain semaphore or does nothing.
LEMMA TryWaitInv ==
  ASSUME SyncInv, NEW s \in CSema, SemaTryWait(s)
  PROVE  SyncInv'
<1>1. /\ s \in Sema /\ s \notin Lock
      /\ value' = [value EXCEPT ![s] = @ - 1] /\ value[s] > 0
      /\ UNCHANGED <<waiters, holder, repeat, pc, at, schedVars>>
  BY SyncAssumption DEF SemaTryWait, Sema
<1>2. SchedInv'
  BY <1>1 DEF SyncInv, SchedInv, SchedTypeOK, ReadyListAgrees, TicksBounded, schedVars
<1>3. value[s] \in 0 .. SEMA_MOD - 1 /\ SEMA_MOD \in Nat
  BY <1>1, SyncAssumption DEF SyncInv, SyncTypeOK
<1>4. value[s] - 1 \in 0 .. SEMA_MOD - 1
  BY <1>1, <1>3
<1>5. SyncTypeOK'
  BY <1>1, <1>2, <1>4 DEF SyncInv, SyncTypeOK, SchedInv
<1>6. WhereOK' /\ BlockedIsQueued'
  BY <1>1 DEF SyncInv, WhereOK, BlockedIsQueued, schedVars
<1>7. MutualExclusion'
  BY <1>1 DEF SyncInv, SyncTypeOK, MutualExclusion, Owners, Sema
<1> QED BY <1>2, <1>5, <1>6, <1>7 DEF SyncInv

\* The steps of lock_acquire and lock_release that only write holder and
\* holder_repeat_nr.
LEMMA HolderInv ==
  ASSUME SyncInv,
         \/ LockOwn
         \/ \E l \in Lock : LockRelease(l)
         \/ \E l \in Lock : LockAcquire(l) /\ holder[l] = cur
  PROVE  SyncInv' /\ UNCHANGED schedVars
<1>0. cur \in Thread /\ status[cur] = "RUNNING" /\ None \notin Thread
  BY SyncAssumption DEF SyncInv, SchedInv, SchedTypeOK, ReadyListAgrees
<1>1. CASE LockOwn
  <2> DEFINE l == at[cur]
  <2>1. /\ l \in Lock /\ holder[l] = None /\ pc[cur] = "own" /\ cur # Idle
        /\ holder' = [holder EXCEPT ![l] = cur]
        /\ repeat' = [repeat EXCEPT ![l] = 1]
        /\ pc' = [pc EXCEPT ![cur] = "run"]
        /\ at' = [at EXCEPT ![cur] = None]
        /\ UNCHANGED <<schedVars, value, waiters>>
    BY <1>0, <1>1 DEF LockOwn, SyncInv, WhereOK
  <2>2. cur \in Owners(l)
    BY <1>0, <2>1 DEF Owners
  <2> HIDE DEF l
  <2>3. Owners(l) = {cur}
    BY <2>1, <2>2 DEF SyncInv, MutualExclusion
  <2>4. SchedInv' /\ status' = status /\ cur' = cur
    BY <2>1 DEF SyncInv, SchedInv, SchedTypeOK, ReadyListAgrees, TicksBounded, schedVars
  <2>5. SyncTypeOK'
    BY <1>0, <2>1, <2>4 DEF SyncInv, SyncTypeOK, SchedInv, PC
  <2>6. /\ pc'[cur] = "run" /\ at'[cur] = None
        /\ \A t \in Thread : t # cur => pc'[t] = pc[t] /\ at'[t] = at[t]
        /\ holder'[l] = cur /\ repeat'[l] = 1
        /\ \A m \in Lock : m # l => holder'[m] = holder[m] /\ repeat'[m] = repeat[m]
    BY <1>0, <2>1 DEF SyncInv, SyncTypeOK
  <2>7. ASSUME NEW t \in Thread, t # cur, pc[t] \in {"own", "signal"}
        PROVE  at[t] # l
    <3>1. at[t] = l => t \in Owners(l)
      BY <2>7 DEF Owners
    <3> QED BY <2>3, <2>7, <3>1
  <2>8. WhereOK'
    BY <1>0, <2>1, <2>4, <2>6, <2>7 DEF SyncInv, WhereOK
  <2>9. BlockedIsQueued'
    BY <1>0, <2>1, <2>4, <2>6 DEF SyncInv, BlockedIsQueued
  <2>10. ASSUME NEW m \in Lock PROVE Owners(m)' = Owners(m)
    <3>1. CASE m = l
      <4>1. \A t \in Thread : t \in Owners(m)' <=> t = cur
        BY <1>0, <2>6, <2>7, <3>1 DEF Owners
      <4>2. Owners(m)' \subseteq Thread
        BY DEF Owners
      <4> QED BY <1>0, <2>3, <3>1, <4>1, <4>2
    <3>2. CASE m # l
      <4>1. ~ (at[cur] = m)
        BY <3>2 DEF l
      <4>2. m # None
        BY SyncAssumption
      <4> QED BY <2>6, <3>2, <4>1, <4>2 DEF Owners
    <3> QED BY <3>1, <3>2
  <2>11. MutualExclusion'
    <3> SUFFICES ASSUME NEW m \in Lock
                 PROVE  /\ \A t, u \in Owners(m)' : t = u
                        /\ value'[m] = IF Owners(m)' = {} THEN 1 ELSE 0
                        /\ repeat'[m] > 0 <=> holder'[m] # None
      BY DEF MutualExclusion
    <3> QED BY <1>0, <2>1, <2>6, <2>10 DEF SyncInv, MutualExclusion
  <2> QED BY <2>1, <2>4, <2>5, <2>8, <2>9, <2>11 DEF SyncInv
<1>2. ASSUME NEW l \in Lock, LockRelease(l), ~ (repeat[l] > 1)
      PROVE  SyncInv' /\ UNCHANGED schedVars
  <2>1. /\ pc[cur] = "run" /\ holder[l] = cur
        /\ holder' = [holder EXCEPT ![l] = None]
        /\ repeat' = [repeat EXCEPT ![l] = 0]
        /\ pc' = [pc EXCEPT ![cur] = "signal"]
        /\ at' = [at EXCEPT ![cur] = l]
        /\ UNCHANGED <<schedVars, value, waiters>>
    BY <1>2 DEF LockRelease
  <2>2. Owners(l) = {cur}
    <3>1. cur \in Owners(l)
      BY <1>0, <2>1 DEF Owners
    <3> QED BY <3>1 DEF SyncInv, MutualExclusion
  <2>3. SchedInv' /\ status' = status /\ cur' = cur
    BY <2>1 DEF SyncInv, SchedInv, SchedTypeOK, ReadyListAgrees, TicksBounded, schedVars
  <2>4. SyncTypeOK'
    BY <1>0, <2>1, <2>3 DEF SyncInv, SyncTypeOK, SchedInv, PC, Sema
  <2>5. /\ pc'[cur] = "signal" /\ at'[cur] = l
        /\ \A t \in Thread : t # cur => pc'[t] = pc[t] /\ at'[t] = at[t]
        /\ holder'[l] = None /\ repeat'[l] = 0
        /\ \A m \in Lock : m # l => holder'[m] = holder[m] /\ repeat'[m] = repeat[m]
    BY <1>0, <2>1 DEF SyncInv, SyncTypeOK
  <2>6. cur # Idle /\ l # None
    BY <2>1, SyncAssumption DEF SyncInv, WhereOK
  <2>7. ASSUME NEW t \in Thread, t # cur, pc[t] \in {"own", "signal"}
        PROVE  at[t] # l
    <3>1. at[t] = l => t \in Owners(l)
      BY <2>7 DEF Owners
    <3> QED BY <2>2, <2>7, <3>1
  <2>8. WhereOK'
    BY <1>0, <2>1, <2>3, <2>5, <2>6, <2>7, IdleAssumption DEF SyncInv, WhereOK
  <2>9. BlockedIsQueued'
    BY <1>0, <2>1, <2>3, <2>5 DEF SyncInv, BlockedIsQueued
  <2>10. ASSUME NEW m \in Lock PROVE Owners(m)' = Owners(m)
    <3>1. CASE m = l
      <4>1. \A t \in Thread : t \in Owners(m)' <=> t = cur
        BY <1>0, <2>5, <2>7, <3>1 DEF Owners
      <4>2. Owners(m)' \subseteq Thread
        BY DEF Owners
      <4> QED BY <1>0, <2>2, <3>1, <4>1, <4>2
    <3>2. CASE m # l
      <4>1. at[cur] = None /\ m # None
        BY <1>0, <2>1, SyncAssumption DEF SyncInv, WhereOK
      <4> QED BY <2>5, <3>2, <4>1 DEF Owners
    <3> QED BY <3>1, <3>2
  <2>11. MutualExclusion'
    <3> SUFFICES ASSUME NEW m \in Lock
                 PROVE  /\ \A t, u \in Owners(m)' : t = u
                        /\ value'[m] = IF Owners(m)' = {} THEN 1 ELSE 0
                        /\ repeat'[m] > 0 <=> holder'[m] # None
      BY DEF MutualExclusion
    <3> QED BY <2>1, <2>5, <2>10 DEF SyncInv, MutualExclusion
  <2> QED BY <2>1, <2>3, <2>4, <2>8, <2>9, <2>11 DEF SyncInv
<1>3. ASSUME NEW l \in Lock, NEW k,
             UNCHANGED <<schedVars, value, waiters, holder, pc, at>>,
             repeat' = [repeat EXCEPT ![l] = k],
             k \in Nat, repeat[l] > 0, k > 0
      PROVE  SyncInv' /\ UNCHANGED schedVars
  <2>1. SchedInv'
    BY <1>3 DEF SyncInv, SchedInv, SchedTypeOK, ReadyListAgrees, TicksBounded, schedVars
  <2>2. SyncTypeOK'
    BY <1>3, <2>1 DEF SyncInv, SyncTypeOK, SchedInv
  <2>3. WhereOK' /\ BlockedIsQueued'
    BY <1>3 DEF SyncInv, WhereOK, BlockedIsQueued, schedVars
  <2>4. \A m \in Lock : repeat'[m] > 0 <=> repeat[m] > 0
    BY <1>3 DEF SyncInv, SyncTypeOK
  <2>5. MutualExclusion'
    BY <1>3, <2>4 DEF SyncInv, MutualExclusion, Owners
  <2> QED BY <1>3, <2>1, <2>2, <2>3, <2>5 DEF SyncInv
<1>4. ASSUME NEW l \in Lock, LockRelease(l), repeat[l] > 1
      PROVE  SyncInv' /\ UNCHANGED schedVars
  <2>1. /\ repeat' = [repeat EXCEPT ![l] = repeat[l] - 1]
        /\ UNCHANGED <<schedVars, value, waiters, holder, pc, at>>
    BY <1>4 DEF LockRelease
  <2>2. repeat[l] - 1 \in Nat /\ repeat[l] > 0 /\ repeat[l] - 1 > 0
    BY <1>4 DEF SyncInv, SyncTypeOK
  <2> QED BY <1>3, <2>1, <2>2
<1>5. ASSUME NEW l \in Lock, LockAcquire(l), holder[l] = cur
      PROVE  SyncInv' /\ UNCHANGED schedVars
  <2>1. /\ repeat' = [repeat EXCEPT ![l] = repeat[l] + 1]
        /\ UNCHANGED <<schedVars, value, waiters, holder, pc, at>>
    BY <1>5 DEF LockAcquire
  <2>2. repeat[l] + 1 \in Nat /\ repeat[l] > 0 /\ repeat[l] + 1 > 0
    BY <1>0, <1>5 DEF SyncInv, SyncTypeOK, MutualExclusion
  <2> QED BY <1>3, <2>1, <2>2
<1> QED BY <1>1, <1>2, <1>4, <1>5

-----------------------------------------------------------------------------
\* One turn of the loop of sema_wait, by whoever is in it.
LEMMA WaitTurnInv ==
  ASSUME SyncInv, NEW s \in Sema, cur # Idle,
         pc[cur] = "run" \/ (pc[cur] = "wait" /\ at[cur] = s),
         SemaWaitTurn(s), UNCHANGED <<holder, repeat>>
  PROVE  SyncInv' /\ [\E stat \in Asleep : Sleep(stat)]_schedVars
BY WaitBlocks, WaitTakes DEF SemaWaitTurn

\* Every step of sync.c preserves the invariant and is, for the scheduler, a
\* step of Scheduler or nothing.
LEMMA SyncStep ==
  ASSUME SyncInv, [SyncNext]_vars
  PROVE  SyncInv' /\ [SchedNext]_schedVars
<1>0. cur \in Thread /\ SchedInv
  BY DEF SyncInv, SchedInv, SchedTypeOK
<1>1. CASE SyncTick
  BY <1>0, <1>1, TickLemma, TickBlocked, SchedulerOnly DEF SyncTick, SchedNext
<1>2. CASE SyncIdle
  <2>1. IdleLoop /\ UNCHANGED syncVars
    BY <1>2 DEF SyncIdle
  <2>2. [SchedNext]_schedVars
    BY <2>1 DEF SchedNext
  <2> QED BY <1>0, <2>1, <2>2, SchedStep, IdleLoopBlocked, SchedulerOnly
<1>3. CASE SyncYield
  <2>1. Yield /\ UNCHANGED syncVars
    BY <1>3 DEF SyncYield
  <2>2. [SchedNext]_schedVars
    BY <2>1 DEF SchedNext
  <2> QED BY <1>0, <2>1, <2>2, SchedStep, YieldBlocked, SchedulerOnly
<1>4. ASSUME NEW t \in Thread, SyncStart(t)
      PROVE  SyncInv' /\ [SchedNext]_schedVars
  <2>1. ThreadStart(t) /\ UNCHANGED syncVars
    BY <1>4 DEF SyncStart
  <2>2. SameBlocked
    BY <2>1 DEF ThreadStart, SameBlocked, SyncInv, SchedInv, SchedTypeOK
  <2> QED BY <1>0, <2>1, <2>2, StartLemma, SchedulerOnly DEF SchedNext
<1>5. CASE SemaWaitAgain
  <2>1. cur # Idle /\ at[cur] \in Sema
    BY <1>0, <1>5 DEF SemaWaitAgain, SyncInv, WhereOK, SyncTypeOK
  <2> QED BY <1>5, <2>1, WaitTurnInv DEF SemaWaitAgain, SchedNext
<1>6. CASE LockOwn
  BY <1>6, HolderInv
<1>7. CASE LockSignal
  BY <1>7, LockSignalStep DEF SchedNext
<1>8. ASSUME NEW l \in Lock, LockAcquire(l)
      PROVE  SyncInv' /\ [SchedNext]_schedVars
  <2>1. CASE holder[l] = cur
    BY <1>8, <2>1, HolderInv
  <2>2. CASE holder[l] # cur
    BY <1>8, <2>2, WaitTurnInv DEF LockAcquire, Sema, SchedNext
  <2> QED BY <2>1, <2>2
<1>9. ASSUME NEW l \in Lock, LockRelease(l)
      PROVE  SyncInv' /\ [SchedNext]_schedVars
  BY <1>9, HolderInv
<1>10. ASSUME NEW s \in CSema, SemaWait(s)
       PROVE  SyncInv' /\ [SchedNext]_schedVars
  BY <1>10, WaitTurnInv DEF SemaWait, Sema, SchedNext
<1>11. ASSUME NEW s \in CSema, SemaTryWait(s)
       PROVE  SyncInv' /\ [SchedNext]_schedVars
  BY <1>11, TryWaitInv DEF SemaTryWait
<1>12. ASSUME NEW s \in CSema, SemaSignal(s)
       PROVE  SyncInv' /\ [SchedNext]_schedVars
  BY <1>12, SemaSignalStepInv DEF SchedNext
<1>13. CASE UNCHANGED vars
  <2>1. UNCHANGED syncVars /\ UNCHANGED schedVars
    BY <1>13 DEF vars
  <2>2. SchedInv' /\ SameBlocked
    BY <1>0, <2>1 DEF SchedInv, SchedTypeOK, ReadyListAgrees, TicksBounded, schedVars,
                      SameBlocked
  <2> QED BY <2>1, <2>2, SchedulerOnly
<1> QED BY <1>1, <1>2, <1>3, <1>4, <1>5, <1>6, <1>7, <1>8, <1>9, <1>10, <1>11,
           <1>12, <1>13 DEF SyncNext, Continue
-----------------------------------------------------------------------------
\* sema_init and lock_init establish the invariant.
LEMMA SyncInitInv == SyncInit => SyncInv
<1> SUFFICES ASSUME SyncInit PROVE SyncInv
  OBVIOUS
<1>1. SchedInv
  BY SchedInitInv DEF SyncInit
<1>2. SEMA_MOD \in Nat /\ SEMA_MOD >= 2 /\ None \notin Thread
  BY SyncAssumption
<1>3. SyncTypeOK
  <2>1. value \in [Sema -> 0 .. SEMA_MOD - 1]
    BY <1>2 DEF SyncInit
  <2>2. waiters \in [Sema -> Seq(Thread)]
    BY DEF SyncInit
  <2> QED BY <1>1, <2>1, <2>2 DEF SyncInit, SyncTypeOK, SchedInv, PC
<1>4. \A t \in Thread : status[t] # "BLOCKED"
  BY DEF SyncInit, SchedInit
<1>5. WhereOK
  BY <1>2, <1>4, IdleAssumption DEF SyncInit, WhereOK
<1>6. BlockedIsQueued
  BY <1>4 DEF SyncInit, BlockedIsQueued, Range, IsInjective
<1>7. \A l \in Lock : Owners(l) = {}
  BY <1>2 DEF SyncInit, Owners
<1>8. MutualExclusion
  BY <1>7 DEF SyncInit, MutualExclusion, Sema
<1> QED BY <1>1, <1>3, <1>5, <1>6, <1>8 DEF SyncInv

\* Every variable of sync.c keeps its type; value is a uint8_t.
THEOREM SyncTypeCorrect == SyncSafety => []SyncTypeOK
<1>1. SyncInv /\ [SyncNext]_vars => SyncInv'
  BY SyncStep
<1>2. SyncInv => SyncTypeOK
  BY DEF SyncInv
<1> QED BY <1>1, <1>2, SyncInitInv, PTL DEF SyncSafety

\* A general_tag is linked into one list at most, for any threads and
\* semaphores: a thread is on the list of the semaphore it sleeps on and on
\* no other.
THEOREM BlockedIsQueuedCorrect == SyncSafety => []BlockedIsQueued
<1>1. SyncInv /\ [SyncNext]_vars => SyncInv'
  BY SyncStep
<1>2. SyncInv => BlockedIsQueued
  BY DEF SyncInv
<1> QED BY <1>1, <1>2, SyncInitInv, PTL DEF SyncSafety

\* lock_acquire and lock_release exclude each other for any number of
\* threads, of either kind, and of locks.
THEOREM MutualExclusionCorrect == SyncSafety => []MutualExclusion
<1>1. SyncInv /\ [SyncNext]_vars => SyncInv'
  BY SyncStep
<1>2. SyncInv => MutualExclusion
  BY DEF SyncInv
<1> QED BY <1>1, <1>2, SyncInitInv, PTL DEF SyncSafety

\* What semaphores and locks do to threads is what Scheduler allows, so
\* everything proved of SchedSafety holds of SyncSafety.
THEOREM SyncImplementsScheduler == SyncSafety => SchedSafety
<1>1. SyncInv /\ [SyncNext]_vars => SyncInv' /\ [SchedNext]_schedVars
  BY SyncStep
<1>2. SyncInit => SchedInit
  BY DEF SyncInit
<1> QED BY <1>1, <1>2, SyncInitInv, PTL DEF SyncSafety, SchedSafety
-----------------------------------------------------------------------------
(***************************************************************************)
(* No lost wake-up.                                                        *)
(***************************************************************************)

\* There are finitely many woken threads, so they can be counted.
LEMMA WokenFinite ==
  ASSUME NEW s
  PROVE  IsFiniteSet(Woken(s)) /\ Cardinality(Woken(s)) \in Nat
<1>1. IsFiniteSet(Thread) /\ Woken(s) \in SUBSET Thread
  BY SyncAssumption DEF Woken
<1> QED BY <1>1, FS_Subset, FS_CardinalityType

\* Steps that change neither the semaphores nor who has been woken for one.
LEMMA WokenSame ==
  ASSUME NoLostWakeup, UNCHANGED <<value, waiters>>,
         \A t \in Thread :
           (pc'[t] = "wait" /\ status'[t] # "BLOCKED") <=> (pc[t] = "wait" /\ status[t] # "BLOCKED"),
         \A t \in Thread : pc'[t] = "wait" => at'[t] = at[t]
  PROVE  NoLostWakeup'
<1>1. \A s \in Sema : Woken(s)' = Woken(s)
  BY DEF Woken
<1> QED BY <1>1 DEF NoLostWakeup

\* Somebody takes a unit: at most one woken thread is used up with it.
LEMMA TakesKeepsWakeup ==
  ASSUME SyncInv, NoLostWakeup, NEW s \in Sema,
         pc[cur] = "run" \/ (pc[cur] = "wait" /\ at[cur] = s),
         value[s] > 0,
         value' = [value EXCEPT ![s] = @ - 1],
         UNCHANGED <<waiters, status>>,
         pc'[cur] # "wait",
         \A t \in Thread : t # cur => pc'[t] = pc[t] /\ at'[t] = at[t]
  PROVE  NoLostWakeup'
<1> SUFFICES ASSUME NEW r \in Sema, waiters[r] # <<>>
             PROVE  value'[r] <= Cardinality(Woken(r)')
  BY DEF NoLostWakeup
<1>0. cur \in Thread /\ value[r] \in Nat /\ value[r] <= Cardinality(Woken(r))
  BY DEF SyncInv, SchedInv, SchedTypeOK, SyncTypeOK, NoLostWakeup
<1>1. CASE r = s
  <2>1. Woken(s)' = Woken(s) \ {cur}
    BY <1>0 DEF Woken
  <2>2. Cardinality(Woken(s)') \in Nat
        /\ Cardinality(Woken(s)') >= Cardinality(Woken(s)) - 1
    <3>1. IsFiniteSet(Woken(s)) /\ Cardinality(Woken(s)) \in Nat
      BY WokenFinite
    <3>2. /\ IsFiniteSet(Woken(s) \ {cur})
          /\ Cardinality(Woken(s) \ {cur}) =
               IF cur \in Woken(s) THEN Cardinality(Woken(s)) - 1 ELSE Cardinality(Woken(s))
      BY <3>1, FS_RemoveElement
    <3>3. Cardinality(Woken(s) \ {cur}) \in Nat
      BY <3>2, FS_CardinalityType
    <3> QED BY <2>1, <3>1, <3>2, <3>3
  <2>3. value'[s] = value[s] - 1
    BY DEF SyncInv, SyncTypeOK
  <2>4. Cardinality(Woken(s)) \in Nat
    BY WokenFinite
  <2> QED BY <1>0, <1>1, <2>2, <2>3, <2>4
<1>2. CASE r # s
  <2>1. Woken(r)' = Woken(r)
    BY <1>0, <1>2 DEF Woken
  <2>2. value'[r] = value[r]
    BY <1>2 DEF SyncInv, SyncTypeOK
  <2> QED BY <1>0, <2>1, <2>2
<1> QED BY <1>1, <1>2

\* Somebody goes to sleep, which it only does when the value is 0.
LEMMA BlocksKeepsWakeup ==
  ASSUME SyncInv, NoLostWakeup, NEW s \in Sema, SyncInv',
         pc[cur] = "run" \/ (pc[cur] = "wait" /\ at[cur] = s),
         value[s] = 0,
         waiters' = [waiters EXCEPT ![s] = Append(@, cur)],
         pc' = [pc EXCEPT ![cur] = "wait"],
         at' = [at EXCEPT ![cur] = s],
         \A t \in Thread : t # cur => (status'[t] = "BLOCKED" <=> status[t] = "BLOCKED"),
         UNCHANGED value
  PROVE  NoLostWakeup'
<1> SUFFICES ASSUME NEW r \in Sema, waiters'[r] # <<>>
             PROVE  value'[r] <= Cardinality(Woken(r)')
  BY DEF NoLostWakeup
<1>0. cur \in Thread
  BY DEF SyncInv, SchedInv, SchedTypeOK
<1>1. CASE r = s
  <2>1. Cardinality(Woken(r)') \in Nat
    <3>1. IsFiniteSet(Thread) /\ Woken(r)' \in SUBSET Thread
      BY SyncAssumption DEF Woken
    <3> QED BY <3>1, FS_Subset, FS_CardinalityType
  <2> QED BY <1>1, <2>1
<1>2. CASE r # s
  <2>1. Woken(r)' = Woken(r)
    BY <1>0, <1>2 DEF Woken, SyncInv, SyncTypeOK
  <2>2. waiters'[r] = waiters[r]
    BY <1>2 DEF SyncInv, SyncTypeOK
  <2> QED BY <2>1, <2>2 DEF NoLostWakeup
<1> QED BY <1>1, <1>2

\* sema_signal: with the new unit goes a newly woken thread, if one sleeps.
LEMMA SignalKeepsWakeup ==
  ASSUME SyncInv, NoLostWakeup, NEW s \in Sema, SemaSignalStep(s),
         pc'[cur] # "wait" \/ pc' = pc,
         pc[cur] # "wait" \/ pc' = pc,
         at' = at \/ pc'[cur] # "wait",
         \A t \in Thread : t # cur => pc'[t] = pc[t] /\ at'[t] = at[t]
  PROVE  NoLostWakeup'
<1> SUFFICES ASSUME NEW r \in Sema, waiters'[r] # <<>>
             PROVE  value'[r] <= Cardinality(Woken(r)')
  BY DEF NoLostWakeup
<1>0. /\ cur \in Thread /\ status[cur] = "RUNNING"
      /\ status \in [Thread -> Status]
  BY DEF SyncInv, SchedInv, SchedTypeOK, ReadyListAgrees
<1>1. CASE waiters[s] = <<>>
  <2>1. UNCHANGED <<waiters, status>>
    BY <1>1 DEF SemaSignalStep, schedVars
  <2>2. r # s
    BY <1>1, <2>1
  <2>3. Woken(r)' = Woken(r)
    BY <1>0, <2>1 DEF Woken
  <2>4. value'[r] = value[r]
    BY <2>2, SignalValue
  <2> QED BY <2>1, <2>3, <2>4 DEF NoLostWakeup
<1>2. CASE waiters[s] # <<>>
  <2> DEFINE h == Head(waiters[s])
  <2>1. /\ waiters' = [waiters EXCEPT ![s] = Tail(@)]
        /\ status' = [status EXCEPT ![h] = "READY"]
    BY <1>2 DEF SemaSignalStep, ThreadUnblock
  <2>2. h \in Thread /\ h \in Range(waiters[s])
    BY <1>2, PopFrontLemma, RangeLemma DEF SyncInv, SyncTypeOK, BlockedIsQueued
  <2> HIDE DEF h
  <2>3. status[h] = "BLOCKED" /\ at[h] = s /\ pc[h] = "wait" /\ h # cur
    BY <1>0, <2>2 DEF SyncInv, BlockedIsQueued, WhereOK
  <2>4. ASSUME NEW q \in Sema
        PROVE  Woken(q)' = IF q = s THEN Woken(q) \cup {h} ELSE Woken(q)
    BY <1>0, <2>1, <2>2, <2>3 DEF Woken
  <2>5. CASE r = s
    <3>1. h \notin Woken(s)
      BY <2>3 DEF Woken
    <3>2. Cardinality(Woken(s)') = Cardinality(Woken(s)) + 1
      BY <2>4, <3>1, WokenFinite, FS_AddElement
    <3>3. value[s] <= Cardinality(Woken(s)) /\ value'[s] <= value[s] + 1
      BY <1>2, SignalValue DEF NoLostWakeup
    <3>4. value[s] \in Nat /\ value'[s] \in Nat /\ Cardinality(Woken(s)) \in Nat
      BY WokenFinite, SignalValue DEF SyncInv, SyncTypeOK
    <3> QED BY <2>5, <3>2, <3>3, <3>4
  <2>6. CASE r # s
    <3>1. value'[r] = value[r] /\ waiters'[r] = waiters[r]
      BY <2>1, <2>6, SignalValue DEF SyncInv, SyncTypeOK
    <3> QED BY <2>4, <2>6, <3>1 DEF NoLostWakeup
  <2> QED BY <2>5, <2>6
<1> QED BY <1>1, <1>2

\* One turn of the loop of sema_wait.
LEMMA WaitTurnKeepsWakeup ==
  ASSUME SyncInv, NoLostWakeup, NEW s \in Sema, cur # Idle,
         pc[cur] = "run" \/ (pc[cur] = "wait" /\ at[cur] = s),
         SemaWaitTurn(s), UNCHANGED <<holder, repeat>>
  PROVE  NoLostWakeup'
<1>0. cur \in Thread /\ status \in [Thread -> Status] /\ SyncInv'
  BY WaitTurnInv DEF SyncInv, SchedInv, SchedTypeOK
<1>1. CASE value[s] = 0
  <2> DEFINE st == [status EXCEPT ![cur] = "BLOCKED"]
  <2>1. /\ waiters' = [waiters EXCEPT ![s] = Append(@, cur)]
        /\ pc' = [pc EXCEPT ![cur] = "wait"]
        /\ at' = [at EXCEPT ![cur] = s]
        /\ UNCHANGED value
        /\ Schedule(st, ready)
    BY <1>1 DEF SemaWaitTurn, ThreadBlock
  <2>2. Agree(st, ready)
    BY CallersAgree DEF Asleep, SyncInv
  <2>3. st[Idle] # "BLOCKED"
    BY <1>0, IdleNotBlocked, IdleAssumption
  <2>4. \A t \in Thread : status'[t] = "BLOCKED" <=> st[t] = "BLOCKED"
    BY <1>0, <2>1, <2>2, <2>3, ScheduleBlocked
  <2>5. \A t \in Thread : t # cur => (status'[t] = "BLOCKED" <=> status[t] = "BLOCKED")
    BY <1>0, <2>4
  <2> HIDE DEF st
  <2> QED BY <1>0, <1>1, <2>1, <2>5, BlocksKeepsWakeup
<1>2. CASE value[s] # 0
  <2>1. /\ value[s] > 0
        /\ value' = [value EXCEPT ![s] = @ - 1]
        /\ pc' = [pc EXCEPT ![cur] = IF s \in Lock THEN "own" ELSE "run"]
        /\ at' = [at EXCEPT ![cur] = IF s \in Lock THEN s ELSE None]
        /\ UNCHANGED <<waiters, status>>
    BY <1>2 DEF SemaWaitTurn, schedVars
  <2>2. /\ pc'[cur] # "wait"
        /\ \A t \in Thread : t # cur => pc'[t] = pc[t] /\ at'[t] = at[t]
    BY <1>0, <2>1 DEF SyncInv, SyncTypeOK
  <2> QED BY <2>1, <2>2, TakesKeepsWakeup
<1> QED BY <1>1, <1>2

\* No step of sync.c loses a wake-up.
LEMMA WakeupStep ==
  ASSUME SyncInv, NoLostWakeup, [SyncNext]_vars
  PROVE  NoLostWakeup'
<1>0. cur \in Thread /\ pc \in [Thread -> PC] /\ at \in [Thread -> Sema \cup {None}]
  BY DEF SyncInv, SchedInv, SchedTypeOK, SyncTypeOK
<1>1. CASE SyncTick \/ SyncIdle \/ SyncYield \/ \E t \in Thread : SyncStart(t)
  <2>1. UNCHANGED syncVars
    BY <1>1 DEF SyncTick, SyncIdle, SyncYield, SyncStart
  <2>2. (\E t \in Thread : ThreadStart(t)) => SameBlocked
    BY DEF ThreadStart, SameBlocked, SyncInv, SchedInv, SchedTypeOK
  <2>3. SameBlocked
    BY <1>1, <2>2, TickBlocked, IdleLoopBlocked, YieldBlocked
       DEF SyncTick, SyncIdle, SyncYield, SyncStart
  <2> QED BY <2>1, <2>3, WokenSame DEF syncVars, SameBlocked
<1>2. CASE SemaWaitAgain
  <2>1. cur # Idle /\ at[cur] \in Sema
    BY <1>0, <1>2 DEF SemaWaitAgain, SyncInv, WhereOK
  <2> QED BY <1>2, <2>1, WaitTurnKeepsWakeup DEF SemaWaitAgain
<1>3. CASE LockOwn
  <2>1. /\ pc[cur] = "own" /\ pc' = [pc EXCEPT ![cur] = "run"]
        /\ at' = [at EXCEPT ![cur] = None]
        /\ UNCHANGED <<status, value, waiters>>
    BY <1>3 DEF LockOwn, schedVars
  <2> QED BY <1>0, <2>1, WokenSame
<1>4. CASE LockSignal
  <2>1. /\ pc[cur] = "signal" /\ pc' = [pc EXCEPT ![cur] = "run"]
        /\ at' = [at EXCEPT ![cur] = None]
        /\ SemaSignalStep(at[cur]) /\ at[cur] \in Sema
    BY <1>0, <1>4 DEF LockSignal, SyncInv, WhereOK, Sema
  <2>2. /\ pc'[cur] # "wait"
        /\ \A t \in Thread : t # cur => pc'[t] = pc[t] /\ at'[t] = at[t]
    BY <1>0, <2>1
  <2> QED BY <2>1, <2>2, SignalKeepsWakeup
<1>5. ASSUME NEW l \in Lock, LockAcquire(l) PROVE NoLostWakeup'
  <2>1. CASE holder[l] # cur
    BY <1>5, <2>1, WaitTurnKeepsWakeup DEF LockAcquire, Sema
  <2>2. CASE holder[l] = cur
    BY <1>5, <2>2, WokenSame DEF LockAcquire, schedVars
  <2> QED BY <2>1, <2>2
<1>6. ASSUME NEW l \in Lock, LockRelease(l) PROVE NoLostWakeup'
  <2>1. /\ pc[cur] = "run" /\ (pc' = pc \/ pc' = [pc EXCEPT ![cur] = "signal"])
        /\ (at' = at \/ at' = [at EXCEPT ![cur] = l])
        /\ UNCHANGED <<status, value, waiters>>
    BY <1>6 DEF LockRelease, schedVars
  <2>2. \A t \in Thread : pc'[t] = "wait" => t # cur /\ at'[t] = at[t]
    BY <1>0, <2>1
  <2>3. \A t \in Thread : pc'[t] = "wait" <=> pc[t] = "wait"
    BY <1>0, <2>1
  <2> QED BY <2>1, <2>2, <2>3, WokenSame
<1>7. ASSUME NEW s \in CSema, SemaWait(s) PROVE NoLostWakeup'
  BY <1>7, WaitTurnKeepsWakeup DEF SemaWait, Sema
<1>8. ASSUME NEW s \in CSema, SemaTryWait(s) PROVE NoLostWakeup'
  <2>1. /\ pc[cur] = "run" /\ value[s] > 0 /\ s \in Sema
        /\ value' = [value EXCEPT ![s] = @ - 1]
        /\ UNCHANGED <<waiters, status, pc, at>>
    BY <1>8 DEF SemaTryWait, schedVars, Sema
  <2> QED BY <2>1, TakesKeepsWakeup
<1>9. ASSUME NEW s \in CSema, SemaSignal(s) PROVE NoLostWakeup'
  BY <1>9, SignalKeepsWakeup DEF SemaSignal, Sema
<1>10. CASE UNCHANGED vars
  BY <1>10, WokenSame DEF vars, syncVars, schedVars
<1> QED BY <1>1, <1>2, <1>3, <1>4, <1>5, <1>6, <1>7, <1>8, <1>9, <1>10
        DEF SyncNext, Continue

\* sema_wait and sema_signal lose no wake-up, for any number of threads: as
\* long as somebody sleeps on a semaphore, each unit of it has a woken thread
\* that has still to run.
THEOREM NoLostWakeupCorrect == SyncSafety => []NoLostWakeup
<1>1. SyncInv /\ [SyncNext]_vars => SyncInv'
  BY SyncStep
<1>2. SyncInv /\ NoLostWakeup /\ [SyncNext]_vars => NoLostWakeup'
  BY WakeupStep
<1>3. SyncInit => NoLostWakeup
  BY DEF SyncInit, NoLostWakeup
<1> QED BY <1>1, <1>2, <1>3, SyncInitInv, PTL DEF SyncSafety
=============================================================================
