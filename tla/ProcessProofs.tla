--------------------------- MODULE ProcessProofs ---------------------------
(***************************************************************************)
(* What holds of fork, clone, exit and wait for every number of pids and   *)
(* of mm_structs: ZombieIsKnown and MmAccounting, for programs that keep   *)
(* the discipline of Process, or that make no threads.                     *)
(***************************************************************************)
EXTENDS Process, FiniteSetTheorems, TLAPS

\* Programs keep the discipline of threads, or make none.
Disciplined == Tidy \/ "clone" \notin Calls

Users(m) == {p \in Pid : mm[p] = m}
Alive(m) == {p \in Users(m) : pc[p] # "dead"}

Accounted(m) ==
  /\ mm_users[m] = Cardinality(Alive(m))
  /\ mmState[m] = IF Users(m) = {} THEN "free"
                  ELSE IF Alive(m) = {} THEN "torn" ELSE "used"

\* q shares the mm of its parent.
IsThread(q) == Exists(q) /\ parent[q] \in Pid /\ mm[parent[q]] = mm[q]

\* t is neither "any child" nor q.
Other(t, q) == t # None /\ t # q

Types ==
  /\ state \in [Pid -> {"NONE", "READY", "WAITING", "HANGING"}]
  /\ parent \in [Pid -> Pid \cup {None}]
  /\ mm \in [Pid -> Mm \cup {None}]
  /\ mm_users \in [Mm -> Int]
  /\ mmState \in [Mm -> {"free", "used", "torn"}]
  /\ pc \in [Pid -> {"user", "wait", "dead", "halted"}]
  /\ target \in [Pid -> Pid \cup {None}]

\* The fields of a task_struct agree with one another, and init lives.
Books ==
  /\ \A p \in Pid : state[p] = "NONE" <=> mm[p] = None
  /\ \A p \in Pid : pc[p] = "dead" <=> state[p] = "HANGING"
  /\ \A p \in Pid : state[p] = "WAITING" => pc[p] = "wait"
  /\ state[INIT_PID] \in {"READY", "WAITING"} /\ parent[INIT_PID] = None

\* Of those that share an mm all but one are threads of that one; a thread
\* has no children; nobody sleeps on a thread of its own.
Family ==
  /\ \A p, q \in Pid : p # q /\ mm[p] = mm[q] /\ mm[p] # None => IsThread(p) \/ IsThread(q)
  /\ \A q, r \in Pid : IsThread(q) /\ Exists(r) => parent[r] # q
  /\ \A p, q \in Pid : pc[p] = "wait" /\ IsThread(q) /\ parent[q] = p => Other(target[p], q)
  /\ "clone" \notin Calls => \A q \in Pid : ~ IsThread(q)

\* ParentCanReap and WaiterHasReason, child by child.
Cared ==
  \A q \in Pid \ {INIT_PID} :
    Exists(q) => parent[q] \in Pid /\ state[parent[q]] \in {"READY", "WAITING"}

Awake ==
  \A p, q \in Pid :
    state[p] = "WAITING" /\ state[q] = "HANGING" /\ parent[q] = p => Other(target[p], q)

Inv ==
  /\ Disciplined /\ Types /\ Books /\ Family /\ Cared /\ Awake
  /\ \A m \in Mm : Accounted(m)

-----------------------------------------------------------------------------
LEMMA PidFacts == INIT_PID \in Pid /\ SHELL_PID \in Pid /\ None \notin Pid /\ None \notin Mm
                  /\ IsFiniteSet(Pid) /\ IsFiniteSet(Mm) /\ INIT_PID # SHELL_PID
  BY ProcessAssumption DEF INIT_PID, SHELL_PID

LEMMA AliveFinite ==
  ASSUME NEW m
  PROVE  /\ IsFiniteSet(Alive(m)) /\ Cardinality(Alive(m)) \in Nat
         /\ Cardinality(Alive(m)) = 0 <=> Alive(m) = {}
  <1>1. Alive(m) \in SUBSET Pid
    BY DEF Alive, Users
  <1>2. IsFiniteSet(Alive(m))
    BY <1>1, PidFacts, FS_Subset
  <1> QED
    BY <1>2, FS_EmptySet, FS_CardinalityType

\* An mm whose threads and counts are left alone stays accounted for.
LEMMA AccountedFrame ==
  ASSUME Inv, NEW n \in Mm,
         \A q \in Pid : mm'[q] = n <=> mm[q] = n,
         \A q \in Pid : mm[q] = n => (pc'[q] = "dead" <=> pc[q] = "dead"),
         mm_users'[n] = mm_users[n], mmState'[n] = mmState[n]
  PROVE  Accounted(n)'
  <1>1. Users(n)' = Users(n)
    BY DEF Users
  <1>2. Alive(n)' = Alive(n)
    BY DEF Alive, Users
  <1> QED
    BY <1>1, <1>2 DEF Inv, Accounted

\* What the guards of the discipline come to.
LEMMA SpawnerIsNoThread ==
  ASSUME Inv, NEW p \in Pid, MaySpawn(p)
  PROVE  ~ IsThread(p)
  <1>1. CASE Tidy
    BY <1>1 DEF MaySpawn, IsThread, Threads, Children
  <1>2. CASE "clone" \notin Calls
    BY <1>2 DEF Inv, Family
  <1> QED
    BY <1>1, <1>2 DEF Inv, Disciplined

LEMMA ExitHasNoThread ==
  ASSUME Inv, NEW p \in Pid, MayExit(p), NEW q \in Pid, IsThread(q)
  PROVE  parent[q] # p
  <1>1. CASE Tidy
    BY <1>1 DEF MayExit, IsThread, Threads, Children
  <1>2. CASE "clone" \notin Calls
    BY <1>2 DEF Inv, Family
  <1> QED
    BY <1>1, <1>2 DEF Inv, Disciplined

LEMMA SleepOnNoThread ==
  ASSUME Inv, NEW p \in Pid, NEW t \in Pid \cup {None}, MaySleep(p, t),
         NEW q \in Pid, IsThread(q), parent[q] = p
  PROVE  Other(t, q)
  <1>1. CASE Tidy
    BY <1>1, PidFacts DEF MaySleep, Matching, IsThread, Threads, Children, Other
  <1>2. CASE "clone" \notin Calls
    BY <1>2 DEF Inv, Family
  <1> QED
    BY <1>1, <1>2 DEF Inv, Disciplined

\* A thread's parent is alive, in the same mm.
LEMMA ThreadHasLeader ==
  ASSUME Inv, NEW q \in Pid, IsThread(q)
  PROVE  /\ q # INIT_PID /\ parent[q] \in Pid /\ parent[q] # q
         /\ state[parent[q]] \in {"READY", "WAITING"}
         /\ mm[parent[q]] = mm[q] /\ mm[q] \in Mm
         /\ ~ IsThread(parent[q])
  <1>1. q # INIT_PID /\ parent[q] \in Pid /\ Exists(q)
    BY PidFacts DEF IsThread, Inv, Books
  <1>2. parent[q] # q /\ ~ IsThread(parent[q])
    BY <1>1 DEF Inv, Family
  <1>3. mm[q] \in Mm
    BY <1>1 DEF Inv, Books, Types, Exists
  <1> QED
    BY <1>1, <1>2, <1>3 DEF Inv, Cared, IsThread
-----------------------------------------------------------------------------
\* There are as many mm_structs as pids, so a free pid leaves a free mm.
LEMMA FreeMm ==
  ASSUME Inv, FreePids # {}
  PROVE  \E n \in Mm : mmState[n] = "free"
  <1> DEFINE U == {p \in Pid : mm[p] # None}
             f == [p \in U |-> mm[p]]
  <1>1. SUFFICES ASSUME \A n \in Mm : mmState[n] # "free"
                 PROVE  FALSE
    OBVIOUS
  <1>2. \A n \in Mm : Users(n) # {}
    BY <1>1 DEF Inv, Accounted
  <1>3. f \in Surjection(U, Mm)
    <2>1. f \in [U -> Mm]
      BY DEF Inv, Types
    <2>2. \A n \in Mm : \E p \in U : f[p] = n
      BY <1>2, PidFacts DEF Users
    <2> HIDE DEF f, U
    <2> QED
      BY <2>1, <2>2 DEF Surjection
  <1>4. U \in SUBSET Pid /\ U # Pid
    BY DEF FreePids, Exists, Inv, Books
  <1> HIDE DEF f, U
  <1>5. IsFiniteSet(U) /\ Cardinality(U) <= Cardinality(Pid) /\ Cardinality(Pid) # Cardinality(U)
    BY <1>4, PidFacts, FS_Subset
  <1>6. Cardinality(Mm) <= Cardinality(U)
    BY <1>3, <1>5, FS_Surjection
  <1>7. Cardinality(Mm) \in Nat /\ Cardinality(U) \in Nat /\ Cardinality(Pid) \in Nat
    BY <1>5, PidFacts, FS_CardinalityType
  <1> QED
    BY <1>5, <1>6, <1>7, ProcessAssumption

\* fork and clone.
LEMMA SpawnKeeps ==
  ASSUME Inv, NEW p \in Pid, NEW shared \in BOOLEAN, shared => "clone" \in Calls,
         Spawn(p, shared)
  PROVE  Inv'
  <1> USE PidFacts
  <1>1. PICK c \in FreePids :
          /\ state' = [state EXCEPT ![c] = "READY"]
          /\ parent' = [parent EXCEPT ![c] = p]
          /\ pc' = [pc EXCEPT ![c] = "user"]
          /\ target' = [target EXCEPT ![c] = None]
          /\ LET m == IF shared THEN mm[p] ELSE CHOOSE n \in Mm : mmState[n] = "free" IN
               /\ mm' = [mm EXCEPT ![c] = m]
               /\ mm_users' = [mm_users EXCEPT ![m] = @ + 1]
               /\ mmState' = [mmState EXCEPT ![m] = "used"]
    BY DEF Spawn
  <1>2. c \in Pid /\ state[c] = "NONE" /\ mm[c] = None /\ pc[c] # "dead" /\ c # INIT_PID
    BY <1>1 DEF FreePids, Exists, Inv, Books
  <1>3. /\ state[p] = "READY" /\ pc[p] = "user" /\ p # c /\ p # INIT_PID
        /\ mm[p] \in Mm /\ ~ IsThread(p)
    <2>1. state[p] = "READY" /\ pc[p] = "user" /\ p # INIT_PID /\ MaySpawn(p)
      BY DEF Spawn, InUser, Runs
    <2> QED
      BY <2>1, <1>2, SpawnerIsNoThread DEF Inv, Types, Books
  <1>4. PICK m \in Mm :
          /\ shared => m = mm[p]
          /\ ~ shared => mmState[m] = "free"
          /\ mm' = [mm EXCEPT ![c] = m]
          /\ mm_users' = [mm_users EXCEPT ![m] = @ + 1]
          /\ mmState' = [mmState EXCEPT ![m] = "used"]
    <2>1. CASE shared
      BY <2>1, <1>1, <1>3
    <2>2. CASE ~ shared
      <3>1. \E n \in Mm : mmState[n] = "free"
        BY <1>1, FreeMm
      <3>2. PICK n \in Mm : n = (CHOOSE x \in Mm : mmState[x] = "free") /\ mmState[n] = "free"
        BY <3>1
      <3> QED
        BY <2>2, <3>2, <1>1
    <2> QED
      BY <2>1, <2>2
  <1>5. ~ shared => \A q \in Pid : mm[q] # m
    BY <1>4 DEF Inv, Accounted, Users
  <1>6. Types'
    BY <1>1, <1>2, <1>4 DEF Inv, Types
  <1>7. Books'
    BY <1>1, <1>2, <1>4 DEF Inv, Types, Books
  <1>8. \A q \in Pid : state[q] # "NONE" => parent[q] # c
    BY <1>2 DEF Inv, Cared, Books, Exists
  <1>9. \A q \in Pid : q # c => (IsThread(q)' <=> IsThread(q))
    <2>1. TAKE q \in Pid
    <2>2. HAVE q # c
    <2>3. state'[q] = state[q] /\ parent'[q] = parent[q] /\ mm'[q] = mm[q]
      BY <1>1, <1>4, <2>2 DEF Inv, Types
    <2>4. CASE state[q] = "NONE"
      BY <2>3, <2>4 DEF IsThread, Exists
    <2>5. CASE state[q] # "NONE"
      BY <2>3, <2>5, <1>8, <1>4 DEF IsThread, Exists, Inv, Types
    <2> QED
      BY <2>4, <2>5
  <1>10. IsThread(c)' <=> shared
    <2>1. state'[c] = "READY" /\ parent'[c] = p /\ mm'[c] = m /\ mm'[p] = mm[p]
      BY <1>1, <1>2, <1>3, <1>4 DEF Inv, Types
    <2> QED
      BY <2>1, <1>4, <1>5 DEF IsThread, Exists
  <1>11. Family'
    <2>1. ASSUME NEW a \in Pid, NEW b \in Pid, a # b, mm'[a] = mm'[b], mm'[a] # None
          PROVE  IsThread(a)' \/ IsThread(b)'
      BY <2>1, <1>2, <1>4, <1>5, <1>9, <1>10 DEF Inv, Family, Types
    <2>2. ASSUME NEW q \in Pid, NEW r \in Pid, IsThread(q)', Exists(r)'
          PROVE  parent'[r] # q
      <3>1. CASE r = c
        BY <3>1, <2>2, <1>1, <1>2, <1>3, <1>9 DEF Inv, Types
      <3>2. CASE r # c
        BY <3>2, <2>2, <1>1, <1>2, <1>8, <1>9 DEF Inv, Types, Family, Exists
      <3> QED
        BY <3>1, <3>2
    <2>3. ASSUME NEW a \in Pid, NEW q \in Pid, pc'[a] = "wait", IsThread(q)', parent'[q] = a
          PROVE  Other(target[a], q)'
      <3>1. a # c /\ pc[a] = "wait" /\ target'[a] = target[a]
        BY <2>3, <1>1, <1>2 DEF Inv, Types
      <3>2. q # c
        BY <3>1, <2>3, <1>1, <1>2, <1>3 DEF Inv, Types
      <3> QED
        BY <3>1, <3>2, <2>3, <1>1, <1>2, <1>9 DEF Inv, Types, Family, Other
    <2>4. ASSUME "clone" \notin Calls, NEW q \in Pid
          PROVE  ~ IsThread(q)'
      BY <2>4, <1>9, <1>10 DEF Inv, Family
    <2> QED
      BY <2>1, <2>2, <2>3, <2>4 DEF Family
  <1>12. Cared'
    BY <1>1, <1>2, <1>3 DEF Inv, Types, Cared, Exists
  <1>13. Awake'
    BY <1>1, <1>2 DEF Inv, Types, Awake, Other
  <1>14. ASSUME NEW n \in Mm
         PROVE  Accounted(n)'
    <2>1. CASE n = m
      <3>1. Users(n)' = Users(n) \cup {c} /\ Alive(n)' = Alive(n) \cup {c} /\ c \notin Alive(n)
        BY <2>1, <1>1, <1>2, <1>4 DEF Inv, Types, Users, Alive
      <3>2. Cardinality(Alive(n)') = Cardinality(Alive(n)) + 1
        BY <3>1, AliveFinite, FS_AddElement
      <3>3. mm_users'[n] = mm_users[n] + 1 /\ mmState'[n] = "used"
        BY <2>1, <1>4 DEF Inv, Types
      <3> QED
        BY <3>1, <3>2, <3>3 DEF Inv, Accounted
    <2>2. CASE n # m
      <3>1. \A q \in Pid : mm'[q] = n <=> mm[q] = n
        BY <2>2, <1>2, <1>4 DEF Inv, Types
      <3>3. \A q \in Pid : mm[q] = n => (pc'[q] = "dead" <=> pc[q] = "dead")
        BY <1>1, <1>2 DEF Inv, Types
      <3>2. mm_users'[n] = mm_users[n] /\ mmState'[n] = mmState[n]
        BY <2>2, <1>4 DEF Inv, Types
      <3> QED
        BY <3>1, <3>2, <3>3, AccountedFrame
    <2> QED
      BY <2>1, <2>2
  <1> QED
    BY <1>6, <1>7, <1>11, <1>12, <1>13, <1>14 DEF Inv, Disciplined

-----------------------------------------------------------------------------
\* A process that exits and is not the last of its mm is a thread.
LEMMA NotLastIsThread ==
  ASSUME Inv, NEW p \in Pid, mm[p] \in Mm, pc[p] # "dead", MayExit(p)
  PROVE  /\ LastOfMm(p) <=> Alive(mm[p]) = {p}
         /\ ~ LastOfMm(p) => IsThread(p)
  <1>1. p \in Alive(mm[p])
    BY DEF Alive, Users
  <1>2. LastOfMm(p) <=> Cardinality(Alive(mm[p])) = 1
    BY DEF LastOfMm, Inv, Accounted
  <1>3. LastOfMm(p) <=> Alive(mm[p]) = {p}
    <2>1. Cardinality(Alive(mm[p])) = 1 <=> \E x : Alive(mm[p]) = {x}
      BY AliveFinite, FS_Singleton
    <2> QED
      BY <1>1, <1>2, <2>1
  <1>4. ASSUME ~ LastOfMm(p)
        PROVE  IsThread(p)
    <2>1. PICK q \in Alive(mm[p]) : q # p
      BY <1>1, <1>3, <1>4
    <2>2. q \in Pid /\ mm[q] = mm[p] /\ mm[p] # None
      BY <2>1, PidFacts DEF Alive, Users
    <2>3. CASE IsThread(q)
      <3>1. /\ parent[q] \in Pid /\ parent[q] # p
            /\ mm[parent[q]] = mm[p] /\ ~ IsThread(parent[q])
        BY <2>2, <2>3, ThreadHasLeader, ExitHasNoThread
      <3> QED
        BY <3>1, <2>2 DEF Inv, Family
    <2>4. CASE ~ IsThread(q)
      BY <2>1, <2>2, <2>4 DEF Inv, Family
    <2> QED
      BY <2>3, <2>4
  <1> QED
    BY <1>3, <1>4

\* exit, whether of the last of an mm or of a thread.
LEMMA ExitKeeps ==
  ASSUME Inv, NEW p \in Pid, SysExit(p)
  PROVE  Inv'
  <1> USE PidFacts
  <1>1. state[p] = "READY" /\ pc[p] = "user" /\ p # INIT_PID /\ MayExit(p)
    BY DEF SysExit, InUser, Runs
  <1>2. PICK m \in Mm : mm[p] = m
    BY <1>1 DEF Inv, Books, Types
  <1>3. /\ mm' = mm /\ target' = target
        /\ mm_users' = [mm_users EXCEPT ![m] = @ - 1]
        /\ mmState' = IF LastOfMm(p) THEN [mmState EXCEPT ![m] = "torn"] ELSE mmState
        /\ pc' = [pc EXCEPT ![p] = "dead"]
    BY <1>2 DEF SysExit, MmUsersAfter
  <1>4. parent[p] \in Pid /\ parent[p] # p /\ state[parent[p]] \in {"READY", "WAITING"}
    <2>1. parent[p] \in Pid /\ state[parent[p]] \in {"READY", "WAITING"}
      BY <1>1 DEF Inv, Cared, Exists
    <2>2. ASSUME parent[p] = p
          PROVE  FALSE
      BY <2>2, <1>1 DEF IsThread, Exists, Inv, Family
    <2> QED
      BY <2>1, <2>2
  <1>5. (LastOfMm(p) <=> Alive(m) = {p}) /\ (~ LastOfMm(p) => IsThread(p))
    BY <1>1, <1>2, NotLastIsThread
  <1>6. \A n \in Mm : Accounted(n)'
    <2>1. TAKE n \in Mm
    <2>2. CASE n # m
      <3>1. \A q \in Pid : mm[q] = n => (pc'[q] = "dead" <=> pc[q] = "dead")
        BY <2>2, <1>2, <1>3 DEF Inv, Types
      <3>2. mm_users'[n] = mm_users[n] /\ mmState'[n] = mmState[n]
        BY <2>2, <1>2, <1>3 DEF Inv, Types
      <3>3. \A q \in Pid : mm'[q] = n <=> mm[q] = n
        BY <1>3
      <3> QED
        BY <3>1, <3>2, <3>3, AccountedFrame
    <2>3. CASE n = m
      <3>1. Users(m)' = Users(m) /\ p \in Users(m)
        BY <1>2, <1>3 DEF Users
      <3>2. Alive(m)' = Alive(m) \ {p} /\ p \in Alive(m)
        BY <3>1, <1>1, <1>3 DEF Alive, Users, Inv, Types
      <3>3. Cardinality(Alive(m)') = Cardinality(Alive(m)) - 1
        BY <3>2, AliveFinite, FS_RemoveElement
      <3>4. mm_users'[m] = Cardinality(Alive(m)')
        BY <3>3, <1>2, <1>3 DEF Inv, Types, Accounted
      <3>5. CASE LastOfMm(p)
        <4>1. mmState'[m] = "torn" /\ Alive(m)' = {}
          BY <3>2, <3>5, <1>2, <1>3, <1>5 DEF Inv, Types
        <4> QED
          BY <4>1, <3>1, <3>4, <2>3 DEF Accounted
      <3>6. CASE ~ LastOfMm(p)
        <4>1. Alive(m)' # {} /\ Alive(m) # {}
          BY <3>2, <3>6, <1>5
        <4>2. mmState'[m] = "used"
          BY <4>1, <3>1, <3>6, <1>2, <1>3 DEF Inv, Accounted
        <4> QED
          BY <4>1, <4>2, <3>1, <3>4, <2>3 DEF Accounted
      <3> QED
        BY <3>5, <3>6
    <2> QED
      BY <2>2, <2>3
  <1>7. CASE LastOfMm(p)
    <2> DEFINE forInit == \E q \in Pid : state[q] = "HANGING" /\ Adopted(p)[q] = INIT_PID
               told == {parent[p]} \cup (IF forInit THEN {INIT_PID} ELSE {})
    <2>1. parent' = Adopted(p) /\ state' = [Roused(state, told) EXCEPT ![p] = "HANGING"]
      BY <1>7 DEF SysExit
    <2>2. \A q \in Pid : parent'[q] = IF parent[q] = p THEN INIT_PID ELSE parent[q]
      BY <2>1 DEF Adopted
    <2>3. /\ state'[p] = "HANGING"
          /\ \A q \in Pid : q # p =>
               state'[q] = IF q \in told /\ state[q] = "WAITING" THEN "READY" ELSE state[q]
      BY <2>1 DEF Roused
    <2>4. parent[p] \in told
          /\ \A q \in Pid : state[q] = "HANGING" /\ parent'[q] = INIT_PID => INIT_PID \in told
      BY <2>1
    <2>5. parent' \in [Pid -> Pid \cup {None}]
          /\ state' \in [Pid -> {"NONE", "READY", "WAITING", "HANGING"}]
      BY <2>1 DEF Adopted, Roused, Inv, Types
    <2> HIDE DEF told, forInit
    <2>6. Types'
      BY <2>5, <1>2, <1>3 DEF Inv, Types
    <2>7. Books'
      BY <2>2, <2>3, <1>1, <1>3 DEF Inv, Types, Books
    <2>8. \A q \in Pid : Exists(q)' <=> Exists(q)
      BY <2>3, <1>1 DEF Exists, Inv, Types
    <2>9. \A q \in Pid : IsThread(q) => parent[q] # p
      BY <1>1, ExitHasNoThread
    <2>10. ~ IsThread(INIT_PID) /\ mm[INIT_PID] # None
      BY DEF IsThread, Inv, Books
    <2>11. \A q \in Pid : IsThread(q)' <=> IsThread(q)
      <3>1. TAKE q \in Pid
      <3>2. CASE parent[q] # p
        BY <3>2, <2>2, <2>8, <1>3 DEF IsThread
      <3>3. CASE parent[q] = p
        <4>1. q # INIT_PID /\ ~ IsThread(q)
          BY <3>3, <2>9 DEF Inv, Books
        <4>2. mm[q] # mm[INIT_PID]
          BY <4>1, <2>10 DEF Inv, Family
        <4> QED
          BY <3>3, <4>1, <4>2, <2>2, <1>3 DEF IsThread
      <3> QED
        BY <3>2, <3>3
    <2>12. Family'
      <3>1. ASSUME NEW a \in Pid, NEW b \in Pid, a # b, mm'[a] = mm'[b], mm'[a] # None
            PROVE  IsThread(a)' \/ IsThread(b)'
        BY <3>1, <2>11, <1>3 DEF Inv, Family
      <3>2. ASSUME NEW q \in Pid, NEW r \in Pid, IsThread(q)', Exists(r)'
            PROVE  parent'[r] # q
        BY <3>2, <2>2, <2>8, <2>10, <2>11 DEF Inv, Family
      <3>3. ASSUME NEW a \in Pid, NEW q \in Pid, pc'[a] = "wait", IsThread(q)', parent'[q] = a
            PROVE  Other(target[a], q)'
        <4>1. IsThread(q) /\ parent[q] = a
          BY <3>3, <2>2, <2>9, <2>11
        <4>2. pc[a] = "wait"
          BY <3>3, <1>3 DEF Inv, Types
        <4> QED
          BY <4>1, <4>2, <1>3 DEF Inv, Family, Other
      <3>4. ASSUME "clone" \notin Calls, NEW q \in Pid
            PROVE  ~ IsThread(q)'
        BY <3>4, <2>11 DEF Inv, Family
      <3> QED
        BY <3>1, <3>2, <3>3, <3>4 DEF Family
    <2>13. Cared'
      <3>1. ASSUME NEW q \in Pid \ {INIT_PID}, Exists(q)'
            PROVE  parent'[q] \in Pid /\ state'[parent'[q]] \in {"READY", "WAITING"}
        <4>1. parent[q] \in Pid /\ state[parent[q]] \in {"READY", "WAITING"}
          BY <3>1, <2>8 DEF Inv, Cared
        <4>2. parent'[q] \in Pid /\ parent'[q] # p
              /\ state[parent'[q]] \in {"READY", "WAITING"}
          BY <4>1, <2>2, <1>1 DEF Inv, Books
        <4> QED
          BY <4>2, <2>3
      <3> QED
        BY <3>1 DEF Cared
    <2>14. Awake'
      <3>1. ASSUME NEW a \in Pid, NEW q \in Pid,
                   state'[a] = "WAITING", state'[q] = "HANGING", parent'[q] = a
            PROVE  Other(target[a], q)'
        <4>1. a # p /\ a \notin told /\ state[a] = "WAITING"
          BY <3>1, <2>3
        <4>2. q # p
          BY <4>1, <3>1, <2>2, <2>4, <1>4
        <4>3. state[q] = "HANGING"
          BY <4>2, <3>1, <2>3
        <4>4. parent[q] = a
          BY <4>1, <4>3, <3>1, <2>2, <2>4
        <4> QED
          BY <4>1, <4>3, <4>4, <1>3 DEF Inv, Awake, Other
      <3> QED
        BY <3>1 DEF Awake
    <2> QED
      BY <1>6, <2>6, <2>7, <2>12, <2>13, <2>14 DEF Inv, Disciplined
  <1>8. CASE ~ LastOfMm(p)
    <2>1. parent' = parent /\ state' = [state EXCEPT ![p] = "HANGING"]
      BY <1>8 DEF SysExit
    <2>2. IsThread(p) /\ \A r \in Pid : Exists(r) => parent[r] # p
      BY <1>5, <1>8 DEF Inv, Family
    <2>3. Types'
      <3>1. state' \in [Pid -> {"NONE", "READY", "WAITING", "HANGING"}]
        BY <2>1 DEF Inv, Types
      <3> QED
        BY <3>1, <2>1, <1>2, <1>3, <1>8 DEF Inv, Types
    <2>4. Books'
      <3>1. /\ state'[p] = "HANGING" /\ pc'[p] = "dead"
            /\ \A q \in Pid : q # p => state'[q] = state[q] /\ pc'[q] = pc[q]
        BY <2>1, <1>3 DEF Inv, Types
      <3> QED
        BY <3>1, <2>1, <1>1, <1>2, <1>3 DEF Inv, Books
    <2>5. \A q \in Pid : (Exists(q)' <=> Exists(q)) /\ (IsThread(q)' <=> IsThread(q))
      <3>1. \A q \in Pid : Exists(q)' <=> Exists(q)
        BY <2>1, <1>1 DEF Exists, Inv, Types
      <3> QED
        BY <3>1, <2>1, <1>3 DEF IsThread
    <2>6. Family'
      <3>1. \A q \in Pid : pc'[q] = "wait" => pc[q] = "wait"
        BY <1>3 DEF Inv, Types
      <3>2. \A q, r \in Pid : Other(target[q], r)' <=> Other(target[q], r)
        BY <1>3 DEF Other
      <3>3. Family
        BY DEF Inv
      <3> QED
        BY <3>1, <3>2, <3>3, <2>1, <2>5, <1>3 DEF Family
    <2>7. Cared'
      BY <2>1, <2>2, <2>5 DEF Inv, Types, Cared
    <2>8. Awake'
      <3>1. ASSUME NEW a \in Pid, NEW q \in Pid,
                   state'[a] = "WAITING", state'[q] = "HANGING", parent'[q] = a
            PROVE  Other(target[a], q)'
        <4>1. state[a] = "WAITING" /\ parent[q] = a
          BY <3>1, <2>1 DEF Inv, Types
        <4>2. CASE q = p
          BY <4>1, <4>2, <2>2, <1>3 DEF Inv, Books, Family, Other
        <4>3. CASE q # p
          BY <4>1, <4>3, <3>1, <2>1, <1>3 DEF Inv, Types, Awake, Other
        <4> QED
          BY <4>2, <4>3
      <3> QED
        BY <3>1 DEF Awake
    <2> QED
      BY <1>6, <2>3, <2>4, <2>6, <2>7, <2>8 DEF Inv, Disciplined
  <1> QED
    BY <1>7, <1>8

-----------------------------------------------------------------------------
\* A zombie is reaped by its parent.
LEMMA ReapKeeps ==
  ASSUME Inv, NEW p \in Pid, NEW c \in Pid, state[p] = "READY", pc[p] # "dead",
         state[c] = "HANGING", parent[c] = p, Reap(p, c)
  PROVE  Inv'
  <1> USE PidFacts
  <1>1. p # c /\ c # INIT_PID /\ pc[c] = "dead"
    BY DEF Inv, Books
  <1>2. PICK m \in Mm : mm[c] = m
    BY DEF Inv, Books, Types
  <1>3. /\ state' = [state EXCEPT ![c] = "NONE"]
        /\ parent' = [parent EXCEPT ![c] = None]
        /\ mm' = [mm EXCEPT ![c] = None]
        /\ pc' = [pc EXCEPT ![p] = "user", ![c] = "user"]
        /\ target' = [target EXCEPT ![p] = None]
        /\ mm_users' = mm_users
        /\ mmState' = (IF mm_users[m] = 0 THEN [mmState EXCEPT ![m] = "free"] ELSE mmState)
    BY <1>2 DEF Reap
  <1>4. /\ state'[c] = "NONE" /\ parent'[c] = None /\ mm'[c] = None
        /\ pc'[c] = "user" /\ pc'[p] = "user" /\ target'[p] = None
        /\ \A q \in Pid : q # c => state'[q] = state[q] /\ parent'[q] = parent[q] /\ mm'[q] = mm[q]
        /\ \A q \in Pid : q # c /\ q # p => pc'[q] = pc[q] /\ target'[q] = target[q]
    BY <1>3, <1>1 DEF Inv, Types
  <1>5. Types'
    BY <1>3 DEF Inv, Types
  <1>6. Books'
    BY <1>4, <1>1 DEF Inv, Books
  <1>7. \A q \in Pid : Exists(q) => parent[q] # c
    BY DEF Inv, Cared, Books
  <1>8. ~ Exists(c)' /\ \A q \in Pid : q # c => (Exists(q)' <=> Exists(q))
    BY <1>4 DEF Exists
  <1>9. ~ IsThread(c)' /\ \A q \in Pid : q # c => (IsThread(q)' <=> IsThread(q))
    <2>1. ~ IsThread(c)'
      BY <1>8 DEF IsThread
    <2>2. ASSUME NEW q \in Pid, q # c
          PROVE  IsThread(q)' <=> IsThread(q)
      BY <2>2, <1>4, <1>7, <1>8 DEF IsThread
    <2> QED
      BY <2>1, <2>2
  <1>10. Family'
    <2>1. ASSUME NEW a \in Pid, NEW b \in Pid, a # b, mm'[a] = mm'[b], mm'[a] # None
          PROVE  IsThread(a)' \/ IsThread(b)'
      BY <2>1, <1>4, <1>9 DEF Inv, Family
    <2>2. ASSUME NEW q \in Pid, NEW r \in Pid, IsThread(q)', Exists(r)'
          PROVE  parent'[r] # q
      BY <2>2, <1>4, <1>8, <1>9 DEF Inv, Family
    <2>3. ASSUME NEW a \in Pid, NEW q \in Pid, pc'[a] = "wait", IsThread(q)', parent'[q] = a
          PROVE  Other(target[a], q)'
      <3>1. a # p /\ a # c /\ q # c
        BY <2>3, <1>4, <1>9
      <3> QED
        BY <3>1, <2>3, <1>4, <1>9 DEF Inv, Family, Other
    <2>4. ASSUME "clone" \notin Calls, NEW q \in Pid
          PROVE  ~ IsThread(q)'
      BY <2>4, <1>9 DEF Inv, Family
    <2> QED
      BY <2>1, <2>2, <2>3, <2>4 DEF Family
  <1>11. Cared'
    BY <1>4, <1>7, <1>8 DEF Inv, Cared
  <1>12. Awake'
    <2>1. ASSUME NEW a \in Pid, NEW q \in Pid,
                 state'[a] = "WAITING", state'[q] = "HANGING", parent'[q] = a
          PROVE  Other(target[a], q)'
      <3>1. a # p /\ a # c /\ q # c
        BY <2>1, <1>1, <1>4
      <3> QED
        BY <3>1, <2>1, <1>4 DEF Inv, Awake, Other
    <2> QED
      BY <2>1 DEF Awake
  <1>13. \A n \in Mm : Accounted(n)'
    <2>1. TAKE n \in Mm
    <2>2. CASE n # m
      <3>1. \A q \in Pid : mm'[q] = n <=> mm[q] = n
        BY <2>2, <1>2, <1>4
      <3>2. \A q \in Pid : mm[q] = n => (pc'[q] = "dead" <=> pc[q] = "dead")
        BY <2>2, <1>2, <1>4
      <3>3. mm_users'[n] = mm_users[n] /\ mmState'[n] = mmState[n]
        BY <2>2, <1>3 DEF Inv, Types
      <3> QED
        BY <3>1, <3>2, <3>3, AccountedFrame
    <2>3. CASE n = m
      <3>1. Users(m)' = Users(m) \ {c} /\ c \in Users(m)
        BY <1>2, <1>4 DEF Users
      <3>2. Alive(m)' = Alive(m)
        BY <1>1, <1>2, <1>4 DEF Alive, Users
      <3>3. mm_users'[m] = Cardinality(Alive(m)')
        BY <3>2, <1>3 DEF Inv, Accounted
      <3>4. mm_users[m] = 0 <=> Alive(m) = {}
        BY AliveFinite DEF Inv, Accounted
      <3>5. CASE Alive(m) = {}
        <4>1. ASSUME NEW q \in Users(m), q # c
              PROVE  FALSE
          <5>1. q \in Pid /\ mm[q] = m /\ mm[c] = m /\ m # None
            BY <4>1, <1>2 DEF Users
          <5>2. PICK r \in {q, c} : IsThread(r)
            BY <5>1, <4>1 DEF Inv, Family
          <5>3. /\ parent[r] \in Pid /\ mm[parent[r]] = m
                /\ state[parent[r]] \in {"READY", "WAITING"}
            BY <5>1, <5>2, ThreadHasLeader
          <5>4. parent[r] \in Alive(m)
            BY <5>3 DEF Alive, Users, Inv, Books
          <5> QED
            BY <5>4, <3>5
        <4>2. Users(m)' = {}
          BY <4>1, <3>1
        <4>3. mmState'[m] = "free"
          BY <3>4, <3>5, <1>3 DEF Inv, Types
        <4> QED
          BY <4>2, <4>3, <3>3, <2>3 DEF Accounted
      <3>6. CASE Alive(m) # {}
        <4>1. mmState'[m] = "used"
          BY <3>1, <3>4, <3>6, <1>3 DEF Inv, Accounted
        <4>2. Users(m)' # {} /\ Alive(m)' # {}
          BY <3>2, <3>6 DEF Alive
        <4> QED
          BY <4>1, <4>2, <3>3, <2>3 DEF Accounted
      <3> QED
        BY <3>5, <3>6
    <2> QED
      BY <2>2, <2>3
  <1> QED
    BY <1>5, <1>6, <1>10, <1>11, <1>12, <1>13 DEF Inv, Disciplined

\* A step that moves only p, between running, waiting and returning: none of
\* its threads, and no zombie, is what it waits for.
LEMMA MoveKeeps ==
  ASSUME Inv, NEW p \in Pid, state[p] \in {"READY", "WAITING"},
         NEW st \in {"READY", "WAITING"}, NEW at \in {"user", "wait", "halted"},
         NEW t \in Pid \cup {None},
         st = "WAITING" => at = "wait",
         at = "wait" => \A q \in Pid : IsThread(q) /\ parent[q] = p => Other(t, q),
         st = "WAITING" => \A q \in Pid : state[q] = "HANGING" /\ parent[q] = p => Other(t, q),
         state' = [state EXCEPT ![p] = st],
         pc' = [pc EXCEPT ![p] = at],
         target' = [target EXCEPT ![p] = t],
         UNCHANGED <<parent, mms>>
  PROVE  Inv'
  <1> USE PidFacts
  <1>1. parent' = parent /\ mm' = mm /\ mm_users' = mm_users /\ mmState' = mmState
    BY DEF mms
  <1>2. /\ state'[p] = st /\ pc'[p] = at /\ target'[p] = t
        /\ \A q \in Pid : q # p =>
             state'[q] = state[q] /\ pc'[q] = pc[q] /\ target'[q] = target[q]
    BY DEF Inv, Types
  <1>3. Types'
    BY <1>1 DEF Inv, Types
  <1>4. pc[p] # "dead" /\ pc'[p] # "dead"
    BY <1>2 DEF Inv, Books
  <1>5. Books'
    BY <1>1, <1>2, <1>4 DEF Inv, Books
  <1>6. \A q \in Pid : (Exists(q)' <=> Exists(q)) /\ (state'[q] = "HANGING" <=> state[q] = "HANGING")
    BY <1>2 DEF Exists
  <1>7. \A q \in Pid : IsThread(q)' <=> IsThread(q)
    BY <1>1, <1>6 DEF IsThread
  <1>8. Family'
    <2>1. ASSUME NEW a \in Pid, NEW q \in Pid, pc'[a] = "wait", IsThread(q)', parent'[q] = a
          PROVE  Other(target[a], q)'
      <3>1. IsThread(q) /\ parent[q] = a
        BY <2>1, <1>1, <1>7
      <3>2. CASE a = p
        BY <3>1, <3>2, <2>1, <1>2 DEF Other
      <3>3. CASE a # p
        BY <3>1, <3>3, <2>1, <1>2 DEF Inv, Family, Other
      <3> QED
        BY <3>2, <3>3
    <2> QED
      BY <2>1, <1>1, <1>6, <1>7 DEF Inv, Family
  <1>9. Cared'
    BY <1>1, <1>2, <1>6 DEF Inv, Cared
  <1>10. Awake'
    <2>1. ASSUME NEW a \in Pid, NEW q \in Pid,
                 state'[a] = "WAITING", state'[q] = "HANGING", parent'[q] = a
          PROVE  Other(target[a], q)'
      <3>1. state[q] = "HANGING" /\ parent[q] = a
        BY <2>1, <1>1, <1>6
      <3>2. CASE a = p
        BY <3>1, <3>2, <2>1, <1>2 DEF Other
      <3>3. CASE a # p
        BY <3>1, <3>3, <2>1, <1>2 DEF Inv, Awake, Other
      <3> QED
        BY <3>2, <3>3
    <2> QED
      BY <2>1 DEF Awake
  <1>11. \A n \in Mm : Accounted(n)'
    <2>1. TAKE n \in Mm
    <2>2. \A q \in Pid : mm[q] = n => (pc'[q] = "dead" <=> pc[q] = "dead")
      BY <1>2, <1>4
    <2>3. \A q \in Pid : mm'[q] = n <=> mm[q] = n
      BY <1>1
    <2>4. mm_users'[n] = mm_users[n] /\ mmState'[n] = mmState[n]
      BY <1>1
    <2> QED
      BY <2>2, <2>3, <2>4, AccountedFrame
  <1> QED
    BY <1>3, <1>5, <1>8, <1>9, <1>10, <1>11 DEF Inv, Disciplined

\* One turn of wait.
LEMMA WaitTurnKeeps ==
  ASSUME Inv, NEW p \in Pid, NEW t \in Pid \cup {None}, NEW wnohang \in BOOLEAN,
         state[p] = "READY", pc[p] \in {"user", "wait"},
         ~ wnohang => \A q \in Pid : IsThread(q) /\ parent[q] = p => Other(t, q),
         WaitTurn(p, t, wnohang)
  PROVE  Inv'
  <1> USE PidFacts
  <1> DEFINE zs == Matching(Zombies(p), t)
             cs == Matching(Children(p), t)
  <1>1. \A c \in zs : c \in Pid /\ state[c] = "HANGING" /\ parent[c] = p
    BY DEF Matching, Zombies, Children
  <1>2. zs = {} => \A q \in Pid : state[q] = "HANGING" /\ parent[q] = p => Other(t, q)
    BY DEF Matching, Zombies, Children, Exists, Other
  <1>3. \/ \E c \in zs : Reap(p, c)
        \/ /\ pc' = [pc EXCEPT ![p] = IF p = INIT_PID THEN "halted" ELSE "user"]
           /\ target' = [target EXCEPT ![p] = None]
           /\ state' = state /\ UNCHANGED <<parent, mms>>
        \/ /\ zs = {} /\ ~ wnohang
           /\ state' = [state EXCEPT ![p] = "WAITING"]
           /\ pc' = [pc EXCEPT ![p] = "wait"]
           /\ target' = [target EXCEPT ![p] = t]
           /\ UNCHANGED <<parent, mms>>
    BY DEF WaitTurn
  <1> HIDE DEF zs, cs
  <1>4. ASSUME NEW c \in zs, Reap(p, c)
        PROVE  Inv'
    BY <1>1, <1>4, ReapKeeps
  <1>5. ASSUME pc' = [pc EXCEPT ![p] = IF p = INIT_PID THEN "halted" ELSE "user"],
               target' = [target EXCEPT ![p] = None],
               state' = state, UNCHANGED <<parent, mms>>
        PROVE  Inv'
    <2>1. PICK at \in {"user", "halted"} : pc' = [pc EXCEPT ![p] = at]
      BY <1>5
    <2>2. state' = [state EXCEPT ![p] = "READY"]
      BY <1>5 DEF Inv, Types
    <2> QED
      BY <2>1, <2>2, <1>5, MoveKeeps
  <1>6. ASSUME zs = {}, ~ wnohang, state' = [state EXCEPT ![p] = "WAITING"],
               pc' = [pc EXCEPT ![p] = "wait"], target' = [target EXCEPT ![p] = t],
               UNCHANGED <<parent, mms>>
        PROVE  Inv'
    BY <1>2, <1>6, MoveKeeps
  <1> QED
    BY <1>3, <1>4, <1>5, <1>6

LEMMA SendSignalKeeps ==
  ASSUME Inv, NEW p \in Pid, SendSignal(p)
  PROVE  Inv'
  <1>1. /\ state[p] = "WAITING" /\ state' = [state EXCEPT ![p] = "READY"]
        /\ pc' = pc /\ target' = target /\ UNCHANGED <<parent, mms>>
    BY DEF SendSignal
  <1>2. pc[p] = "wait" /\ target[p] \in Pid \cup {None}
    BY <1>1 DEF Inv, Books, Types
  <1>3. pc' = [pc EXCEPT ![p] = "wait"] /\ target' = [target EXCEPT ![p] = target[p]]
    BY <1>1, <1>2 DEF Inv, Types
  <1>4. \A q \in Pid : IsThread(q) /\ parent[q] = p => Other(target[p], q)
    BY <1>2 DEF Inv, Family
  <1>5. PICK t \in Pid \cup {None} : t = target[p]
    BY <1>2
  <1> QED
    BY <1>1, <1>3, <1>4, <1>5, MoveKeeps

-----------------------------------------------------------------------------
\* There are two mm_structs for the two processes of Init.
LEMMA OwnMms ==
  \E f \in [{INIT_PID, SHELL_PID} -> Mm] : f[INIT_PID] # f[SHELL_PID]
  <1> USE PidFacts
  <1>1. Cardinality({INIT_PID, SHELL_PID}) = 2 /\ IsFiniteSet({INIT_PID, SHELL_PID})
    <2>1. {INIT_PID, SHELL_PID} = {INIT_PID} \cup {SHELL_PID} /\ SHELL_PID \notin {INIT_PID}
      OBVIOUS
    <2>2. IsFiniteSet({INIT_PID}) /\ Cardinality({INIT_PID}) = 1
      BY FS_Singleton
    <2>3. IsFiniteSet({INIT_PID} \cup {SHELL_PID})
      BY <2>2, FS_AddElement
    <2>4. Cardinality({INIT_PID} \cup {SHELL_PID}) = Cardinality({INIT_PID}) + 1
      BY <2>1, <2>2, FS_AddElement
    <2> QED
      BY <2>1, <2>2, <2>3, <2>4
  <1>2. 2 <= Cardinality(Pid)
    BY <1>1, FS_Subset
  <1>3. Cardinality(Mm) \in Nat /\ Cardinality(Pid) \in Nat
    BY FS_CardinalityType
  <1>4. 2 <= Cardinality(Mm)
    BY <1>2, <1>3, ProcessAssumption
  <1>5. Mm # {} /\ ~ \E x : Mm = {x}
    BY <1>4, <1>3, FS_EmptySet, FS_Singleton
  <1>6. PICK a \in Mm, b \in Mm : a # b
    BY <1>5
  <1>7. [x \in {INIT_PID, SHELL_PID} |-> IF x = INIT_PID THEN a ELSE b]
          \in [{INIT_PID, SHELL_PID} -> Mm]
    BY <1>6
  <1> QED
    BY <1>6, <1>7

LEMMA InvInit ==
  ASSUME Disciplined, ProcInit
  PROVE  Inv
  <1> USE PidFacts
  <1>1. PICK a \in Mm, b \in Mm :
          /\ a # b
          /\ state = [p \in Pid |-> IF p \in {INIT_PID, SHELL_PID} THEN "READY" ELSE "NONE"]
          /\ parent = [p \in Pid |-> IF p = SHELL_PID THEN INIT_PID ELSE None]
          /\ mm = [p \in Pid |-> IF p = INIT_PID THEN a ELSE IF p = SHELL_PID THEN b ELSE None]
          /\ mm_users = [m \in Mm |-> IF m \in {a, b} THEN 1 ELSE 0]
          /\ mmState = [m \in Mm |-> IF m \in {a, b} THEN "used" ELSE "free"]
          /\ pc = [p \in Pid |-> "user"]
          /\ target = [p \in Pid |-> None]
    <2> DEFINE own == CHOOSE f \in [{INIT_PID, SHELL_PID} -> Mm] : f[INIT_PID] # f[SHELL_PID]
    <2>1. own \in [{INIT_PID, SHELL_PID} -> Mm] /\ own[INIT_PID] # own[SHELL_PID]
      BY OwnMms
    <2>2. /\ state = [p \in Pid |-> IF p \in DOMAIN own THEN "READY" ELSE "NONE"]
          /\ parent = [p \in Pid |-> IF p = SHELL_PID THEN INIT_PID ELSE None]
          /\ mm = [p \in Pid |-> IF p \in DOMAIN own THEN own[p] ELSE None]
          /\ mm_users = [m \in Mm |-> IF m \in {own[INIT_PID], own[SHELL_PID]} THEN 1 ELSE 0]
          /\ mmState = [m \in Mm |-> IF m \in {own[INIT_PID], own[SHELL_PID]}
                                     THEN "used" ELSE "free"]
          /\ pc = [p \in Pid |-> "user"]
          /\ target = [p \in Pid |-> None]
      BY DEF ProcInit
    <2> HIDE DEF own
    <2>3. DOMAIN own = {INIT_PID, SHELL_PID} /\ own[INIT_PID] \in Mm /\ own[SHELL_PID] \in Mm
      BY <2>1
    <2>4. mm = [p \in Pid |-> IF p = INIT_PID THEN own[INIT_PID]
                              ELSE IF p = SHELL_PID THEN own[SHELL_PID] ELSE None]
      BY <2>2, <2>3
    <2> QED
      BY <2>1, <2>2, <2>3, <2>4
  <1>2. Types
    BY <1>1 DEF Types
  <1>3. Books
    BY <1>1 DEF Books
  <1>4. \A q \in Pid : ~ IsThread(q)
    BY <1>1 DEF IsThread, Exists
  <1>5. Family
    BY <1>1, <1>4 DEF Family
  <1>6. Cared /\ Awake
    BY <1>1 DEF Cared, Awake, Exists
  <1>7. \A m \in Mm : Accounted(m)
    <2>1. TAKE m \in Mm
    <2>2. \A x : Cardinality({x}) = 1
      BY FS_Singleton
    <2>3. CASE m = a
      <3>1. Users(m) = {INIT_PID} /\ Alive(m) = {INIT_PID}
        BY <2>3, <1>1 DEF Users, Alive
      <3> QED
        BY <3>1, <2>2, <2>3, <1>1 DEF Accounted
    <2>4. CASE m = b
      <3>1. Users(m) = {SHELL_PID} /\ Alive(m) = {SHELL_PID}
        BY <2>4, <1>1 DEF Users, Alive
      <3> QED
        BY <3>1, <2>2, <2>4, <1>1 DEF Accounted
    <2>5. CASE m # a /\ m # b
      <3>1. Users(m) = {} /\ Alive(m) = {}
        BY <2>5, <1>1 DEF Users, Alive
      <3> QED
        BY <3>1, <2>5, <1>1, FS_EmptySet DEF Accounted
    <2> QED
      BY <2>3, <2>4, <2>5
  <1> QED
    BY <1>2, <1>3, <1>5, <1>6, <1>7 DEF Inv

LEMMA InvStep ==
  ASSUME Inv, [ProcNext]_procVars
  PROVE  Inv'
  <1>1. ASSUME NEW p \in Pid, SysFork(p)
        PROVE  Inv'
    BY <1>1, SpawnKeeps DEF SysFork
  <1>2. ASSUME NEW p \in Pid, SysClone(p)
        PROVE  Inv'
    BY <1>2, SpawnKeeps DEF SysClone
  <1>3. ASSUME NEW p \in Pid, SysExit(p)
        PROVE  Inv'
    BY <1>3, ExitKeeps
  <1>4. ASSUME NEW p \in Pid, NEW t \in Pid \cup {None}, SysWait(p, t)
        PROVE  Inv'
    <2>1. state[p] = "READY" /\ pc[p] = "user" /\ MaySleep(p, t) /\ WaitTurn(p, t, FALSE)
      BY <1>4 DEF SysWait, InUser, Runs
    <2>2. \A q \in Pid : IsThread(q) /\ parent[q] = p => Other(t, q)
      BY <2>1, SleepOnNoThread
    <2> QED
      BY <2>1, <2>2, WaitTurnKeeps
  <1>5. ASSUME NEW p \in Pid, NEW t \in Pid \cup {None}, SysWaitNoHang(p, t)
        PROVE  Inv'
    <2>1. state[p] = "READY" /\ pc[p] = "user" /\ WaitTurn(p, t, TRUE)
      BY <1>5 DEF SysWaitNoHang, InUser, Runs
    <2> QED
      BY <2>1, WaitTurnKeeps
  <1>6. ASSUME NEW p \in Pid, WaitResumes(p)
        PROVE  Inv'
    <2>1. state[p] = "READY" /\ pc[p] = "wait" /\ WaitTurn(p, target[p], FALSE)
      BY <1>6 DEF WaitResumes, Runs
    <2>2. target[p] \in Pid \cup {None}
      BY DEF Inv, Types
    <2>3. \A q \in Pid : IsThread(q) /\ parent[q] = p => Other(target[p], q)
      BY <2>1 DEF Inv, Family
    <2>4. PICK t \in Pid \cup {None} : t = target[p]
      BY <2>2
    <2>5. WaitTurn(p, t, FALSE) /\ \A q \in Pid : IsThread(q) /\ parent[q] = p => Other(t, q)
      BY <2>1, <2>3, <2>4 DEF WaitTurn, Matching, Zombies, Children
    <2> QED
      BY <2>1, <2>5, WaitTurnKeeps
  <1>7. ASSUME NEW p \in Pid, SendSignal(p)
        PROVE  Inv'
    BY <1>7, SendSignalKeeps
  <1>8. CASE UNCHANGED procVars
    <2>1. /\ state' = state /\ parent' = parent /\ mm' = mm /\ mm_users' = mm_users
          /\ mmState' = mmState /\ pc' = pc /\ target' = target
      BY <1>8 DEF procVars, mms
    <2>2. \A q \in Pid : (Exists(q)' <=> Exists(q)) /\ (IsThread(q)' <=> IsThread(q))
      BY <2>1 DEF Exists, IsThread
    <2>3. \A p, q \in Pid : Other(target[p], q)' <=> Other(target[p], q)
      BY <2>1 DEF Other
    <2>4. Types' /\ Books' /\ Cared' /\ Awake'
      BY <2>1, <2>2, <2>3 DEF Inv, Types, Books, Cared, Awake
    <2>5. Family'
      BY <2>1, <2>2, <2>3 DEF Inv, Family
    <2>6. \A n \in Mm : Accounted(n)'
      BY <2>1, AccountedFrame
    <2> QED
      BY <2>4, <2>5, <2>6 DEF Inv, Disciplined
  <1> QED
    BY <1>1, <1>2, <1>3, <1>4, <1>5, <1>6, <1>7, <1>8 DEF ProcNext

LEMMA InvImplies ==
  ASSUME Inv
  PROVE  ZombieIsKnown /\ MmAccounting
  <1>1. ParentCanReap
    BY DEF ParentCanReap, Inv, Cared, Books
  <1>2. WaiterHasReason
    BY PidFacts DEF WaiterHasReason, Matching, Zombies, Children, Inv, Awake, Other
  <1>3. MmAccounting
    BY DEF MmAccounting, Inv, Accounted, Users, Alive
  <1> QED
    BY <1>1, <1>2, <1>3 DEF ZombieIsKnown

\* Whatever the number of processes, and in whatever order they fork, clone,
\* exit and wait: a zombie's parent is there to reap it and is not asleep on
\* it (sys_exit, init_adopt_a_child, sys_waitpid).
THEOREM ZombieIsKnownCorrect == Disciplined /\ ProcSpec => []ZombieIsKnown
  <1>1. Disciplined /\ ProcInit => Inv
    BY InvInit
  <1>2. Inv /\ [ProcNext]_procVars => Inv'
    BY InvStep
  <1>3. Inv => ZombieIsKnown
    BY InvImplies
  <1> QED
    BY <1>1, <1>2, <1>3, PTL DEF ProcSpec

\* Under the same discipline mm_users counts the threads alive in an mm, and
\* the mm_struct is freed with the last zombie of it and not before
\* (release_mm_space, thread_exit).
THEOREM MmAccountingCorrect == Disciplined /\ ProcSpec => []MmAccounting
  <1>1. Disciplined /\ ProcInit => Inv
    BY InvInit
  <1>2. Inv /\ [ProcNext]_procVars => Inv'
    BY InvStep
  <1>3. Inv => MmAccounting
    BY InvImplies
  <1> QED
    BY <1>1, <1>2, <1>3, PTL DEF ProcSpec
=============================================================================
