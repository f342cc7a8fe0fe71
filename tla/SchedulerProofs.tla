-------------------------- MODULE SchedulerProofs --------------------------
(***************************************************************************)
(* Proofs about Scheduler for any set of threads and any priorities.       *)
(*                                                                         *)
(* SchedInv is inductive.  The proof rests on ScheduleLemma: whatever its  *)
(* caller has done to the status of the running thread and to the ready    *)
(* list, schedule() re-establishes the invariant if the two agree, and     *)
(* gives the CPU to a thread that has ticks left.                          *)
(***************************************************************************)
EXTENDS Scheduler, QueueLemmas

SchedInv == SchedTypeOK /\ ReadyListAgrees /\ TicksBounded

\* What the callers of schedule() leave behind: threads that are READY are
\* exactly those on the list, once each, and at most the caller is RUNNING.
Agree(st, rd) ==
  /\ st \in [Thread -> Status]
  /\ rd \in Seq(Thread)
  /\ IsInjective(rd)
  /\ Range(rd) = {t \in Thread : st[t] = "READY"}
  /\ \A t \in Thread : st[t] = "RUNNING" => t = cur

-----------------------------------------------------------------------------
\* The first part of schedule(): no thread is RUNNING any more, and the list
\* still agrees with the statuses.
LEMMA RequeueLemma ==
  ASSUME NEW st, NEW rd, Agree(st, rd), cur \in Thread
  PROVE  /\ Agree(RequeueStatus(st), RequeueReady(st, rd))
         /\ \A t \in Thread : RequeueStatus(st)[t] # "RUNNING"
<1>1. CASE st[cur] # "RUNNING"
  BY <1>1 DEF Agree, RequeueStatus, RequeueReady
<1>2. CASE st[cur] = "RUNNING"
  <2> DEFINE s1 == [st EXCEPT ![cur] = "READY"]
             r1 == Append(rd, cur)
  <2>1. RequeueStatus(st) = s1 /\ RequeueReady(st, rd) = r1
    BY <1>2 DEF RequeueStatus, RequeueReady
  <2>2. cur \notin Range(rd)
    BY <1>2 DEF Agree
  <2>3. r1 \in Seq(Thread) /\ IsInjective(r1) /\ Range(r1) = Range(rd) \cup {cur}
    BY <2>2, PushBackLemma DEF Agree
  <2>4. /\ s1 \in [Thread -> Status]
        /\ s1[cur] = "READY"
        /\ \A t \in Thread : t # cur => s1[t] = st[t]
    BY DEF Agree, Status
  <2> HIDE DEF s1, r1
  <2>5. Range(r1) = {t \in Thread : s1[t] = "READY"}
    BY <2>3, <2>4 DEF Agree
  <2>6. \A t \in Thread : s1[t] # "RUNNING"
    BY <2>4 DEF Agree
  <2> QED BY <2>1, <2>3, <2>4, <2>5, <2>6 DEF Agree
<1> QED BY <1>1, <1>2

\* The compensation round keeps ticks below twice the priority and gives
\* every thread there is at least one tick.
LEMMA ReplenishLemma ==
  ASSUME NEW st \in [Thread -> Status], ticks \in [Thread -> Nat], TicksBounded
  PROVE  /\ Replenish(st, ticks) \in [Thread -> Nat]
         /\ \A t \in Thread : Replenish(st, ticks)[t] <= 2 * Prio[t]
         /\ \A t \in Thread : st[t] # "NONE" => Replenish(st, ticks)[t] > 0
<1> SUFFICES ASSUME NEW t \in Thread
             PROVE  LET n == IF st[t] = "NONE" THEN ticks[t] ELSE (ticks[t] \div 2) + Prio[t]
                    IN  /\ n \in Nat
                        /\ n <= 2 * Prio[t]
                        /\ st[t] # "NONE" => n > 0
  BY DEF Replenish
<1>1. ticks[t] \in Nat /\ ticks[t] <= 2 * Prio[t] /\ Prio[t] \in Nat /\ Prio[t] > 0
  BY PrioAssumption DEF TicksBounded
<1>2. /\ ticks[t] \div 2 \in Nat
      /\ ticks[t] \div 2 <= Prio[t]
  BY <1>1
<1> QED BY <1>1, <1>2

\* schedule() re-establishes the invariant, and whoever gets the CPU has at
\* least one tick.
LEMMA ScheduleLemma ==
  ASSUME NEW st, NEW rd, Agree(st, rd), Schedule(st, rd),
         cur \in Thread, ticks \in [Thread -> Nat], TicksBounded
  PROVE  SchedInv' /\ ticks'[cur'] > 0
<1> DEFINE s1 == RequeueStatus(st)
           r1 == RequeueReady(st, rd)
           tk == IF Spent(r1, ticks) THEN Replenish(s1, ticks) ELSE ticks
<1>1. Agree(s1, r1) /\ \A t \in Thread : s1[t] # "RUNNING"
  BY RequeueLemma
<1>2. IF r1 = <<>> THEN RunIdle(s1) ELSE RunPicked(s1, r1, tk)
  BY DEF Schedule
<1> HIDE DEF s1, r1
<1>3. /\ tk \in [Thread -> Nat]
      /\ \A t \in Thread : tk[t] <= 2 * Prio[t]
  BY <1>1, ReplenishLemma DEF Agree, TicksBounded
<1>4. /\ r1 \in Seq(Thread) /\ DOMAIN r1 = 1 .. Len(r1)
      /\ \A i \in DOMAIN r1 : r1[i] \in Thread /\ s1[r1[i]] = "READY"
  <2>1. r1 \in Seq(Thread)
    BY <1>1 DEF Agree
  <2>2. DOMAIN r1 = 1 .. Len(r1)
    BY <2>1, LenProperties
  <2>3. \A i \in DOMAIN r1 : r1[i] \in Range(r1)
    BY <2>1, <2>2, RangeLemma
  <2> QED BY <1>1, <2>1, <2>2, <2>3 DEF Agree
<1>5. CASE r1 = <<>>
  <2>1. /\ cur' = Idle
        /\ status' = [s1 EXCEPT ![Idle] = "RUNNING"]
        /\ ready' = <<>>
        /\ ticks' = [ticks EXCEPT ![Idle] = IF @ = 0 THEN 1 ELSE @]
    BY <1>2, <1>5 DEF RunIdle
  <2>2. /\ cur' \in Thread /\ status' \in [Thread -> Status]
        /\ ready' \in Seq(Thread)
        /\ ticks' \in [Thread -> Nat]
    BY <1>1, <2>1, IdleAssumption DEF Agree, Status
  <2>3. \A t \in Thread : s1[t] # "READY"
    <3>1. Range(r1) = {}
      BY <1>5 DEF Range
    <3> QED BY <1>1, <3>1 DEF Agree
  <2>4. Range(ready') = {} /\ IsInjective(ready')
    BY <2>1 DEF Range, IsInjective
  <2>5. \A t \in Thread : /\ status'[t] # "READY"
                          /\ status'[t] = "RUNNING" <=> t = cur'
    BY <1>1, <2>1, <2>3, IdleAssumption DEF Agree
  <2>6. \A t \in Thread : ticks'[t] <= 2 * Prio[t]
    <3> SUFFICES ASSUME NEW t \in Thread PROVE ticks'[t] <= 2 * Prio[t]
      OBVIOUS
    <3>1. /\ Prio[t] \in Nat /\ Prio[t] > 0
          /\ ticks[t] \in Nat /\ ticks[t] <= 2 * Prio[t]
      BY PrioAssumption DEF TicksBounded
    <3>2. ticks'[t] = ticks[t] \/ ticks'[t] = 1
      BY <2>1
    <3> QED BY <3>1, <3>2
  <2>7. ticks'[cur'] > 0
    BY <2>1, IdleAssumption
  <2> QED BY <2>2, <2>4, <2>5, <2>6, <2>7
          DEF SchedInv, SchedTypeOK, ReadyListAgrees, TicksBounded
<1>6. CASE r1 # <<>>
  <2>1. PICK i \in DOMAIN r1 :
          /\ IsPick(r1, tk, i)
          /\ cur' = r1[i]
          /\ status' = [s1 EXCEPT ![r1[i]] = "RUNNING"]
          /\ ready' = RemoveAt(r1, i)
          /\ ticks' = tk
    BY <1>2, <1>6 DEF RunPicked
  <2>2. r1[i] \in Thread /\ s1[r1[i]] = "READY"
    BY <1>4
  <2>3. /\ ready' \in Seq(Thread) /\ IsInjective(ready')
        /\ Range(ready') = Range(r1) \ {r1[i]}
    BY <1>1, <1>4, <2>1, RemoveLemma DEF Agree
  <2>4. /\ cur' \in Thread /\ status' \in [Thread -> Status]
        /\ ticks' \in [Thread -> Nat]
    BY <1>1, <1>3, <2>1, <2>2 DEF Agree, Status
  <2>5. Range(ready') = {t \in Thread : status'[t] = "READY"}
    BY <1>1, <2>1, <2>2, <2>3 DEF Agree
  <2>6. \A t \in Thread : status'[t] = "RUNNING" <=> t = cur'
    BY <1>1, <2>1, <2>2 DEF Agree
  <2>7. \A t \in Thread : ticks'[t] <= 2 * Prio[t]
    BY <1>3, <2>1
  <2>8. tk[r1[i]] > 0
    <3>1. CASE Spent(r1, ticks)
      BY <1>1, <2>2, <3>1, ReplenishLemma DEF Agree
    <3>2. CASE ~ Spent(r1, ticks)
      <4>1. PICK j \in DOMAIN r1 : ticks[r1[j]] # 0
        BY <1>6, <3>2 DEF Spent
      <4>2. tk[r1[j]] <= tk[r1[i]] /\ tk[r1[j]] \in Nat /\ tk[r1[i]] \in Nat
        BY <1>3, <1>4, <2>1 DEF IsPick
      <4>3. tk[r1[j]] # 0
        BY <3>2, <4>1
      <4> HIDE DEF tk
      <4> QED BY <4>2, <4>3
    <3> QED BY <3>1, <3>2
  <2> QED BY <2>1, <2>3, <2>4, <2>5, <2>6, <2>7, <2>8
          DEF SchedInv, SchedTypeOK, ReadyListAgrees, TicksBounded
<1> QED BY <1>5, <1>6

-----------------------------------------------------------------------------
\* What the running thread may leave behind when it calls schedule().
LEMMA CallersAgree ==
  ASSUME SchedInv
  PROVE  /\ Agree(status, ready)
         /\ \A stat \in Asleep : Agree([status EXCEPT ![cur] = stat], ready)
         /\ Agree([status EXCEPT ![cur] = "READY"], Append(ready, cur))
<1> USE DEF SchedInv, SchedTypeOK, ReadyListAgrees
<1>1. Agree(status, ready)
  BY DEF Agree
<1>2. ASSUME NEW stat \in Asleep
      PROVE  Agree([status EXCEPT ![cur] = stat], ready)
  BY DEF Agree, Asleep, Status
<1>3. Agree([status EXCEPT ![cur] = "READY"], Append(ready, cur))
  <2>1. cur \notin Range(ready)
    OBVIOUS
  <2>2. /\ Append(ready, cur) \in Seq(Thread) /\ IsInjective(Append(ready, cur))
        /\ Range(Append(ready, cur)) = Range(ready) \cup {cur}
    BY <2>1, PushBackLemma
  <2> QED BY <2>2 DEF Agree, Status
<1> QED BY <1>1, <1>2, <1>3

\* thread_unblock of a sleeper.
LEMMA UnblockLemma ==
  ASSUME SchedInv, NEW t \in Thread, status[t] \in Asleep, ThreadUnblock(t)
  PROVE  SchedInv' /\ cur' = cur
<1> USE DEF SchedInv, SchedTypeOK, ReadyListAgrees
<1>1. t \notin Range(ready) /\ t # cur
  BY DEF Asleep
<1>2. /\ ready' \in Seq(Thread) /\ IsInjective(ready')
      /\ Range(ready') = Range(ready) \cup {t}
  BY <1>1, PushFrontLemma DEF ThreadUnblock
<1>3. /\ status' = [status EXCEPT ![t] = "READY"]
      /\ cur' = cur /\ ticks' = ticks
  BY DEF ThreadUnblock
<1>4. SchedTypeOK'
  BY <1>2, <1>3 DEF Status
<1>5. Range(ready') = {u \in Thread : status'[u] = "READY"}
  BY <1>2, <1>3
<1>6. \A u \in Thread : status'[u] = "RUNNING" <=> u = cur'
  BY <1>1, <1>3
<1>7. TicksBounded'
  BY <1>3 DEF TicksBounded
<1> QED BY <1>2, <1>3, <1>4, <1>5, <1>6, <1>7

\* The timer interrupt's time slice, when no timer has expired.
LEMMA TickLemma ==
  ASSUME SchedInv, Tick
  PROVE  SchedInv' /\ (cur' # cur => ticks'[cur'] > 0)
<1>1. CASE ticks[cur] = 0
  <2>1. Schedule(status, ready)
    BY <1>1 DEF Tick, TimeSlice
  <2> QED BY <2>1, CallersAgree, ScheduleLemma DEF SchedInv, SchedTypeOK
<1>2. CASE ticks[cur] # 0
  <2>1. /\ ticks' = [ticks EXCEPT ![cur] = @ - 1]
        /\ cur' = cur /\ status' = status /\ ready' = ready
    BY <1>2 DEF Tick, TimeSlice
  <2>2. ASSUME NEW t \in Thread
        PROVE  ticks'[t] \in Nat /\ ticks'[t] <= 2 * Prio[t]
    <3>1. Prio[t] \in Nat /\ ticks[t] \in Nat /\ ticks[t] <= 2 * Prio[t]
      BY PrioAssumption DEF SchedInv, SchedTypeOK, TicksBounded
    <3>2. ticks'[t] = IF t = cur THEN ticks[t] - 1 ELSE ticks[t]
      BY <2>1 DEF SchedInv, SchedTypeOK
    <3> QED BY <1>2, <3>1, <3>2
  <2>3. SchedTypeOK' /\ TicksBounded'
    BY <2>1, <2>2 DEF SchedInv, SchedTypeOK, TicksBounded
  <2>4. ReadyListAgrees'
    BY <2>1 DEF SchedInv, ReadyListAgrees
  <2> QED BY <2>1, <2>3, <2>4 DEF SchedInv
<1> QED BY <1>1, <1>2

\* A new thread goes to the back of the list.
LEMMA StartLemma ==
  ASSUME SchedInv, NEW t \in Thread, ThreadStart(t)
  PROVE  SchedInv' /\ cur' = cur
<1> USE DEF SchedInv, SchedTypeOK, ReadyListAgrees
<1>1. t \notin Range(ready) /\ t # cur
  BY DEF ThreadStart
<1>2. /\ ready' \in Seq(Thread) /\ IsInjective(ready')
      /\ Range(ready') = Range(ready) \cup {t}
  BY <1>1, PushBackLemma DEF ThreadStart
<1>3. /\ status' = [status EXCEPT ![t] = "READY"]
      /\ cur' = cur /\ ticks' = [ticks EXCEPT ![t] = Prio[t]]
  BY DEF ThreadStart
<1>4. SchedTypeOK'
  BY <1>2, <1>3, PrioAssumption DEF Status
<1>5. Range(ready') = {u \in Thread : status'[u] = "READY"}
  BY <1>2, <1>3
<1>6. \A u \in Thread : status'[u] = "RUNNING" <=> u = cur'
  BY <1>1, <1>3
<1>7. TicksBounded'
  <2> SUFFICES ASSUME NEW u \in Thread PROVE ticks'[u] <= 2 * Prio[u]
    BY DEF TicksBounded
  <2>1. Prio[u] \in Nat /\ ticks[u] \in Nat /\ ticks[u] <= 2 * Prio[u]
    BY PrioAssumption DEF TicksBounded
  <2>2. ticks'[u] = IF u = t THEN Prio[u] ELSE ticks[u]
    BY <1>3
  <2> QED BY <2>1, <2>2
<1> QED BY <1>2, <1>3, <1>4, <1>5, <1>6, <1>7

\* Every step of the scheduler preserves the invariant, and a switch is to a
\* thread with ticks left.
LEMMA SchedStep ==
  ASSUME SchedInv, [SchedNext]_schedVars
  PROVE  SchedInv' /\ (cur' # cur => ticks'[cur'] > 0)
<1>1. CASE Tick
  BY <1>1, TickLemma
<1>2. CASE \E stat \in Asleep : ThreadBlock(stat)
  <2>1. PICK stat \in Asleep : Schedule([status EXCEPT ![cur] = stat], ready)
    BY <1>2 DEF ThreadBlock
  <2>2. Agree([status EXCEPT ![cur] = stat], ready)
    BY CallersAgree
  <2> QED BY <2>1, <2>2, ScheduleLemma DEF SchedInv, SchedTypeOK
<1>3. CASE Yield
  <2>1. Schedule([status EXCEPT ![cur] = "READY"], Append(ready, cur))
    BY <1>3 DEF Yield, ThreadYield
  <2>2. Agree([status EXCEPT ![cur] = "READY"], Append(ready, cur))
    BY CallersAgree
  <2> QED BY <2>1, <2>2, ScheduleLemma DEF SchedInv, SchedTypeOK
<1>4. ASSUME NEW t \in Thread, Wake(t)
      PROVE  SchedInv' /\ (cur' # cur => ticks'[cur'] > 0)
  BY <1>4, UnblockLemma DEF Wake, Asleep
<1>5. ASSUME NEW t \in Thread, ThreadStart(t)
      PROVE  SchedInv' /\ (cur' # cur => ticks'[cur'] > 0)
  BY <1>5, StartLemma
<1>6. ASSUME NEW t \in Thread, Reap(t)
      PROVE  SchedInv' /\ (cur' # cur => ticks'[cur'] > 0)
  <2>1. t \notin Range(ready) /\ t # cur
    BY <1>6 DEF Reap, ThreadExit, SchedInv, ReadyListAgrees, SchedTypeOK
  <2>2. /\ ready' = ready /\ cur' = cur /\ ticks' = ticks
        /\ status' = [status EXCEPT ![t] = "NONE"] /\ status[t] = "HANGING"
    BY <1>6, <2>1 DEF Reap, ThreadExit, Unlink
  <2> QED BY <2>1, <2>2
          DEF SchedInv, SchedTypeOK, ReadyListAgrees, TicksBounded, Status
<1>7. CASE UNCHANGED schedVars
  BY <1>7 DEF SchedInv, SchedTypeOK, ReadyListAgrees, TicksBounded, schedVars
<1>8. IdleLoop => \E stat \in Asleep : ThreadBlock(stat)
  BY DEF IdleLoop, Asleep
<1>9. (\E stat \in Asleep : Sleep(stat)) => \E stat \in Asleep : ThreadBlock(stat)
  BY DEF Sleep
<1> QED BY <1>1, <1>2, <1>3, <1>4, <1>5, <1>6, <1>7, <1>8, <1>9 DEF SchedNext

-----------------------------------------------------------------------------
\* The state after_init leaves behind satisfies the invariant.
LEMMA SchedInitInv == SchedInit => SchedInv
<1> SUFFICES ASSUME SchedInit PROVE SchedInv
  OBVIOUS
<1>1. SchedTypeOK
  BY IdleAssumption, PrioAssumption DEF SchedInit, SchedTypeOK, Status
<1>2. ReadyListAgrees
  BY IdleAssumption DEF SchedInit, ReadyListAgrees, Range, IsInjective
<1>3. TicksBounded
  BY PrioAssumption DEF SchedInit, TicksBounded
<1> QED BY <1>1, <1>2, <1>3 DEF SchedInv

\* The scheduler keeps its types: ticks is never negative, and the list holds
\* threads.
THEOREM SchedTypeCorrect == SchedSafety => []SchedTypeOK
<1>1. SchedInv /\ [SchedNext]_schedVars => SchedInv'
  BY SchedStep
<1>2. SchedInv => SchedTypeOK
  BY DEF SchedInv
<1> QED BY <1>1, <1>2, SchedInitInv, PTL DEF SchedSafety

\* thread_ready_list holds exactly the READY threads, once each, and exactly
\* the current thread is RUNNING, for any number of threads.
THEOREM ReadyListCorrect == SchedSafety => []ReadyListAgrees
<1>1. SchedInv /\ [SchedNext]_schedVars => SchedInv'
  BY SchedStep
<1>2. SchedInv => ReadyListAgrees
  BY DEF SchedInv
<1> QED BY <1>1, <1>2, SchedInitInv, PTL DEF SchedSafety

\* The bound the comment in schedule() claims, for any priorities.
THEOREM TicksStayBounded == SchedSafety => []TicksBounded
<1>1. SchedInv /\ [SchedNext]_schedVars => SchedInv'
  BY SchedStep
<1>2. SchedInv => TicksBounded
  BY DEF SchedInv
<1> QED BY <1>1, <1>2, SchedInitInv, PTL DEF SchedSafety

\* schedule() never gives the CPU to a thread without ticks: its loop ends
\* after at most one compensation round.
THEOREM SwitchIsToSlice == SchedSafety => SwitchHasSlice
<1>1. SchedInv /\ [SchedNext]_schedVars => SchedInv'
  BY SchedStep
<1>2. SchedInv /\ [SchedNext]_schedVars => [cur' # cur => ticks'[cur'] > 0]_schedVars
  BY SchedStep
<1> QED BY <1>1, <1>2, SchedInitInv, PTL DEF SchedSafety, SwitchHasSlice
=============================================================================
