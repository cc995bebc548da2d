---------------------------- MODULE SchedProofs ----------------------------
(***************************************************************************)
(* Proofs about Sched for any table size, any number of PIDs and any boot  *)
(* configuration.  The four invariants are inductive together: picking the *)
(* next task needs the idle task to be runnable, reaping must not hit the  *)
(* running task (UniquePids: parents are older), and the contexts follow   *)
(* the PIDs.                                                               *)
(***************************************************************************)
EXTENDS Sched, TLAPS

SchedInv == SchedTypeOK /\ SingleRunner /\ UniquePids /\ ContextIsolation

USE Zenon, SchedAssumption DEF Slots, IdleSlot, NoCtx, TaskState, UserRunning

\* With the idle task runnable, sched_yield's scan ends at a runnable task.
LEMMA RoundRobinFinds ==
  ASSUME NEW st, NEW c \in Slots, NEW next \in Slots,
         Runnable(st, IdleSlot), RoundRobin(st, c, next)
  PROVE  Runnable(st, next)
BY SMT DEF RoundRobin

\* With the idle task runnable, sched_yield's scan finds it before it comes
\* back to a caller other than the idle task.
LEMMA RoundRobinMovesOn ==
  ASSUME NEW st, NEW c \in Slots \ {IdleSlot}, NEW next \in Slots,
         Runnable(st, IdleSlot), RoundRobin(st, c, next)
  PROVE  next # c
<1>1. PICK i \in 1 .. MAX_TASKS :
        /\ next = (c + i) % MAX_TASKS
        /\ \A j \in 1 .. i - 1 : ~Runnable(st, (c + j) % MAX_TASKS)
  <2>1. IdleSlot \in Slots
    BY SMT
  <2>2. ~ \A s \in Slots : ~Runnable(st, s)
    BY <2>1
  <2> QED
    BY <2>2 DEF RoundRobin
<1>2. MAX_TASKS % MAX_TASKS = 0
  BY SMT
<1>3. i <= MAX_TASKS - c
  <2> SUFFICES ASSUME i > MAX_TASKS - c PROVE FALSE
    BY SMT
  <2>1. MAX_TASKS - c \in 1 .. i - 1
    BY SMT
  <2>2. c + (MAX_TASKS - c) = MAX_TASKS
    BY SMT
  <2>3. ~Runnable(st, (c + (MAX_TASKS - c)) % MAX_TASKS)
    BY <1>1, <2>1
  <2> QED
    BY <1>2, <2>2, <2>3
<1>4. CASE i = MAX_TASKS - c
  BY SMT, <1>1, <1>2, <1>4
<1>5. CASE i < MAX_TASKS - c
  <2>1. c + i \in 0 .. MAX_TASKS - 1
    BY SMT, <1>5
  <2>2. \A n \in 0 .. MAX_TASKS - 1 : n % MAX_TASKS = n
    BY SMT
  <2>3. (c + i) % MAX_TASKS = c + i
    BY <2>1, <2>2
  <2> QED
    BY SMT, <1>1, <2>3
<1> QED
  BY SMT, <1>3, <1>4, <1>5

\* sched_yield, called with a table in which at most the caller is RUNNING
\* and the caller is RUNNING or BLOCKED, leaves exactly one RUNNING task, the
\* current one, keeps the idle task runnable, allocates and frees no slot,
\* and moves each user context with its task.
LEMMA YieldSwitches ==
  ASSUME SchedInv,
         NEW st \in [Slots -> TaskState], NEW z \in [Slots -> BOOLEAN],
         st[current] \in {"RUNNING", "BLOCKED"},
         \A s \in Slots : st[s] = "RUNNING" => s = current,
         Runnable(st, IdleSlot), ~z[IdleSlot],
         sched_yield(st, z),
         pid' = pid
  PROVE  /\ state' \in [Slots -> TaskState]
         /\ current' \in Slots
         /\ uctx' \in [Slots -> Nat] /\ user_ctx' \in Nat
         /\ \A s \in Slots : state'[s] = "RUNNING" <=> s = current'
         /\ Runnable(state', IdleSlot)
         /\ \A s \in Slots : state'[s] = "FREE" <=> st[s] = "FREE"
         /\ \A s \in Slots : st[s] = "BLOCKED" => state'[s] = "BLOCKED"
         /\ ContextIsolation'
<1> USE DEF SchedInv, SchedTypeOK, SingleRunner, Runnable
<1>1. PICK next \in Slots :
        /\ RoundRobin(st, current, next)
        /\ IF next = current
           THEN state' = st /\ UNCHANGED switchVars
           ELSE /\ state' = [st EXCEPT ![current] = LeaveCpu(st, z, current),
                                       ![next] = "RUNNING"]
                /\ switch_to(next)
  BY DEF sched_yield
<1>2. st[next] \in {"READY", "RUNNING"}
  BY <1>1, RoundRobinFinds
<1>3. CASE next = current
  <2>1. state' = st /\ uctx' = uctx /\ user_ctx' = user_ctx /\ current' = current
    BY <1>1, <1>3 DEF switchVars
  <2>2. ContextIsolation'
    BY <2>1 DEF ContextIsolation
  <2> QED
    BY SMTT(20), <1>2, <1>3, <2>1, <2>2
<1>4. CASE next # current
  <2>1. /\ state' = [st EXCEPT ![current] = LeaveCpu(st, z, current),
                               ![next] = "RUNNING"]
        /\ uctx' = [uctx EXCEPT ![current] = user_ctx]
        /\ user_ctx' = uctx[next]
        /\ current' = next
    BY SMTT(20), <1>1, <1>4 DEF switch_to
  <2>2. LeaveCpu(st, z, current) \in {"READY", "BLOCKED"}
    BY DEF LeaveCpu
  <2>3. st[current] = "BLOCKED" => LeaveCpu(st, z, current) = "BLOCKED"
    BY DEF LeaveCpu
  <2>4. current = IdleSlot => LeaveCpu(st, z, current) = "READY"
    BY DEF LeaveCpu
  <2>5. ContextIsolation'
    BY SMTT(20), <2>1 DEF ContextIsolation
  <2>6. state' \in [Slots -> TaskState]
    BY <2>1, <2>2
  <2>7. \A s \in Slots : state'[s] = IF s = next THEN "RUNNING"
                                     ELSE IF s = current THEN LeaveCpu(st, z, current)
                                     ELSE st[s]
    BY <2>1, <1>4
  <2>8. uctx' \in [Slots -> Nat] /\ user_ctx' \in Nat /\ current' \in Slots
    BY SMTT(20), <2>1
  <2>9. \A s \in Slots : state'[s] = "RUNNING" <=> s = current'
    BY <2>1, <2>2, <2>7
  <2>10. Runnable(state', IdleSlot)
    BY SMT, <2>4, <2>7
  <2> QED
    BY <1>2, <2>2, <2>3, <2>5, <2>6, <2>7, <2>8, <2>9, <2>10
<1> QED
  BY <1>3, <1>4

\* sched_wake only turns BLOCKED tasks that are not zombies READY.
LEMMA WakeFacts ==
  ASSUME NEW st \in [Slots -> TaskState], NEW z \in [Slots -> BOOLEAN], NEW W
  PROVE  /\ sched_wake(st, z, W) \in [Slots -> TaskState]
         /\ \A s \in Slots :
              /\ sched_wake(st, z, W)[s] = "RUNNING" <=> st[s] = "RUNNING"
              /\ sched_wake(st, z, W)[s] = "FREE" <=> st[s] = "FREE"
              /\ st[s] = "READY" => sched_wake(st, z, W)[s] = "READY"
              /\ st[s] = "BLOCKED" /\ (z[s] \/ s \notin W)
                   => sched_wake(st, z, W)[s] = "BLOCKED"
BY DEF sched_wake

\* Which tasks are BLOCKED after sched_yield: those that were, and a caller
\* that is a zombie.  No slot is allocated or freed.
LEMMA YieldBlocks ==
  ASSUME SchedInv,
         NEW st \in [Slots -> TaskState], NEW z \in [Slots -> BOOLEAN],
         st[current] \in {"RUNNING", "BLOCKED"},
         \A s \in Slots : st[s] = "RUNNING" => s = current,
         Runnable(st, IdleSlot), ~z[IdleSlot],
         sched_yield(st, z)
  PROVE  \A s \in Slots :
           /\ state'[s] = "BLOCKED" <=> st[s] = "BLOCKED" \/ (s = current /\ z[s])
           /\ state'[s] = "FREE" <=> st[s] = "FREE"
<1>0. current \in Slots
  BY DEF SchedInv, SchedTypeOK
<1>1. PICK next \in Slots :
        /\ RoundRobin(st, current, next)
        /\ IF next = current
           THEN state' = st
           ELSE state' = [st EXCEPT ![current] = LeaveCpu(st, z, current),
                                    ![next] = "RUNNING"]
  BY DEF sched_yield
<1>2. st[next] \in {"READY", "RUNNING"}
  BY <1>0, <1>1, RoundRobinFinds DEF Runnable
<1>3. CASE next = current
  <2>1. current = IdleSlot
    BY <1>0, <1>1, <1>3, RoundRobinMovesOn
  <2> QED
    BY <1>1, <1>2, <1>3, <2>1
<1>4. CASE next # current
  <2>1. LeaveCpu(st, z, current) = IF st[current] = "BLOCKED" \/ z[current]
                                   THEN "BLOCKED" ELSE "READY"
    BY DEF LeaveCpu
  <2>2. \A s \in Slots : state'[s] = IF s = next THEN "RUNNING"
                                     ELSE IF s = current THEN LeaveCpu(st, z, current)
                                     ELSE st[s]
    BY <1>0, <1>1, <1>4
  <2> QED
    BY <1>0, <1>2, <1>4, <2>1, <2>2
<1> QED
  BY <1>3, <1>4

\* A task that gives up the CPU blocks only if it was killed meanwhile.
LEMMA PlainYieldFacts ==
  ASSUME SchedInv, sched_yield(state, zombie)
  PROVE  \A s \in Slots :
           /\ state'[s] = "BLOCKED" <=> state[s] = "BLOCKED" \/ (s = current /\ zombie[s])
           /\ state'[s] = "FREE" <=> state[s] = "FREE"
<1>1. /\ state \in [Slots -> TaskState] /\ zombie \in [Slots -> BOOLEAN]
      /\ current \in Slots
  BY DEF SchedInv, SchedTypeOK
<1>2. /\ state[current] = "RUNNING" /\ \A s \in Slots : state[s] = "RUNNING" => s = current
      /\ Runnable(state, IdleSlot) /\ ~zombie[IdleSlot]
  BY <1>1 DEF SchedInv, SingleRunner
<1> QED
  BY <1>1, <1>2, YieldBlocks

\* A task that parks is BLOCKED, and wakes the tasks W.
LEMMA BlockFacts ==
  ASSUME SchedInv, NEW W, Block(W)
  PROVE  \A s \in Slots :
           /\ state'[s] = "BLOCKED" <=>
                \/ s = current
                \/ state[s] = "BLOCKED" /\ (zombie[s] \/ s \notin W)
           /\ state'[s] = "FREE" <=> state[s] = "FREE"
<1> DEFINE parked == [state EXCEPT ![current] = "BLOCKED"]
           st == sched_wake(parked, zombie, W \ {current})
<1>1. /\ state \in [Slots -> TaskState] /\ zombie \in [Slots -> BOOLEAN]
      /\ current \in Slots
  BY DEF SchedInv, SchedTypeOK
<1>2. /\ state[current] = "RUNNING" /\ \A s \in Slots : state[s] = "RUNNING" => s = current
      /\ Runnable(state, IdleSlot) /\ ~zombie[IdleSlot]
  BY <1>1 DEF SchedInv, SingleRunner
<1>3. current # IdleSlot /\ sched_yield(st, zombie)
  BY DEF Block
<1>4. parked \in [Slots -> TaskState]
      /\ \A s \in Slots : parked[s] = IF s = current THEN "BLOCKED" ELSE state[s]
  BY <1>1
<1> HIDE DEF parked
<1>5. \A s \in Slots : st[s] = IF s \in W \ {current} /\ parked[s] = "BLOCKED" /\ ~zombie[s]
                               THEN "READY" ELSE parked[s]
  BY DEF sched_wake
<1>6. st \in [Slots -> TaskState]
  BY <1>1, <1>4, WakeFacts
<1> HIDE DEF st
<1>7. Runnable(st, IdleSlot)
  BY SMT, <1>2, <1>3, <1>4, <1>5 DEF Runnable
<1>8. /\ st[current] = "BLOCKED"
      /\ \A s \in Slots : st[s] = "RUNNING" => s = current
  BY <1>1, <1>2, <1>4, <1>5
<1>9. \A s \in Slots :
           /\ state'[s] = "BLOCKED" <=> st[s] = "BLOCKED" \/ (s = current /\ zombie[s])
           /\ state'[s] = "FREE" <=> st[s] = "FREE"
  BY <1>1, <1>2, <1>3, <1>6, <1>7, <1>8, YieldBlocks
<1>10. \A s \in Slots :
         state'[s] = "BLOCKED" <=> s = current \/ (state[s] = "BLOCKED" /\ (zombie[s] \/ s \notin W))
  BY <1>1, <1>2, <1>4, <1>5, <1>9
<1>11. \A s \in Slots : state'[s] = "FREE" <=> state[s] = "FREE"
  BY <1>2, <1>4, <1>5, <1>9
<1> QED
  BY <1>10, <1>11

\* A task that dies is BLOCKED, a zombie, and wakes the tasks W.
LEMMA DieFacts ==
  ASSUME SchedInv, NEW W, Die(W)
  PROVE  /\ zombie' = [zombie EXCEPT ![current] = TRUE]
         /\ \A s \in Slots :
              /\ state'[s] = "BLOCKED" <=>
                   \/ s = current
                   \/ state[s] = "BLOCKED" /\ (zombie[s] \/ s \notin W)
              /\ state'[s] = "FREE" <=> state[s] = "FREE"
<1> DEFINE z == [zombie EXCEPT ![current] = TRUE]
           st == sched_wake(state, z, W)
<1>1. /\ state \in [Slots -> TaskState] /\ zombie \in [Slots -> BOOLEAN]
      /\ current \in Slots
  BY DEF SchedInv, SchedTypeOK
<1>2. /\ state[current] = "RUNNING" /\ \A s \in Slots : state[s] = "RUNNING" => s = current
      /\ Runnable(state, IdleSlot) /\ ~zombie[IdleSlot]
  BY <1>1 DEF SchedInv, SingleRunner
<1>3. current # IdleSlot /\ sched_yield(st, z) /\ zombie' = z
  BY DEF Die
<1>4. /\ z \in [Slots -> BOOLEAN]
      /\ \A s \in Slots : z[s] <=> s = current \/ zombie[s]
  BY <1>1
<1> HIDE DEF z
<1>5. \A s \in Slots : st[s] = IF s \in W /\ state[s] = "BLOCKED" /\ ~z[s]
                               THEN "READY" ELSE state[s]
  BY DEF sched_wake
<1>6. st \in [Slots -> TaskState]
  BY <1>1, <1>4, WakeFacts
<1> HIDE DEF st
<1>7. Runnable(st, IdleSlot) /\ ~z[IdleSlot]
  BY SMT, <1>2, <1>3, <1>4, <1>5 DEF Runnable
<1>8. /\ st[current] = "RUNNING"
      /\ \A s \in Slots : st[s] = "RUNNING" => s = current
  BY <1>1, <1>2, <1>5
<1>9. \A s \in Slots :
           /\ state'[s] = "BLOCKED" <=> st[s] = "BLOCKED" \/ (s = current /\ z[s])
           /\ state'[s] = "FREE" <=> st[s] = "FREE"
  BY <1>3, <1>4, <1>6, <1>7, <1>8, YieldBlocks
<1>10. \A s \in Slots :
         state'[s] = "BLOCKED" <=> s = current \/ (state[s] = "BLOCKED" /\ (zombie[s] \/ s \notin W))
  BY <1>1, <1>2, <1>4, <1>5, <1>9
<1>11. \A s \in Slots : state'[s] = "FREE" <=> state[s] = "FREE"
  BY <1>5, <1>9
<1> QED
  BY <1>3, <1>10, <1>11 DEF z
\* The table main.c and sched_start leave behind satisfies the invariant.
LEMMA InitInv == SchedInit => SchedInv
<1> SUFFICES ASSUME SchedInit PROVE SchedInv
  OBVIOUS
<1> USE DEF SchedInit
<1>1. SchedTypeOK
  <2>1. state \in [Slots -> TaskState]
    OBVIOUS
  <2>2. zombie \in [Slots -> BOOLEAN] /\ g_resched_requested \in BOOLEAN
    OBVIOUS
  <2>3. /\ pid \in [Slots -> Nat] /\ parent_pid \in [Slots -> Nat]
        /\ uctx \in [Slots -> Nat] /\ user_ctx \in Nat
    BY SMT
  <2>4. current \in Slots /\ next_pid \in Nat \ {0}
    BY SMT
  <2> QED
    BY <2>1, <2>2, <2>3, <2>4 DEF SchedTypeOK
<1>2. SingleRunner
  BY SMT DEF SingleRunner, Runnable
<1>3. UniquePids
  <2>1. \A s, t \in Slots :
          state[s] # "FREE" /\ state[t] # "FREE" /\ pid[s] = pid[t] => s = t
    BY SMT
  <2>2. \A s \in Slots : pid[s] < next_pid /\ parent_pid[s] < next_pid
    BY SMT
  <2>3. \A s \in Slots \ {IdleSlot} : state[s] # "FREE" => parent_pid[s] < pid[s]
    BY SMT
  <2> QED
    BY <2>1, <2>2, <2>3 DEF UniquePids
<1>4. ContextIsolation
  BY DEF ContextIsolation
<1> QED
  BY <1>1, <1>2, <1>3, <1>4 DEF SchedInv

\* Every scheduler step preserves the invariant.
LEMMA StepInv == SchedInv /\ [SchedNext]_schedVars => SchedInv'
<1> SUFFICES ASSUME SchedInv, [SchedNext]_schedVars PROVE SchedInv'
  OBVIOUS
<1> USE DEF SchedInv
<1>0. /\ SchedTypeOK /\ SingleRunner
      /\ state[current] = "RUNNING" /\ Runnable(state, IdleSlot)
  BY DEF SchedTypeOK, SingleRunner
<1>1. CASE EnterKernel
  <2>1. /\ UNCHANGED <<state, zombie, pid, parent_pid, next_pid, uctx, current,
                        g_resched_requested>>
        /\ user_ctx' = pid[current]
    BY <1>1 DEF EnterKernel, tableVars
  <2>2. SchedTypeOK'
    BY <2>1 DEF SchedTypeOK
  <2>3. SingleRunner'
    BY <2>1 DEF SingleRunner, Runnable
  <2>4. UniquePids'
    BY <2>1 DEF UniquePids
  <2>5. ContextIsolation'
    BY <2>1 DEF ContextIsolation
  <2> QED
    BY <2>2, <2>3, <2>4, <2>5
<1>2. ASSUME sched_yield(state, zombie), UNCHANGED <<zombie, tableVars>>,
             g_resched_requested' \in BOOLEAN
      PROVE  SchedInv'
  <2>1. pid' = pid /\ parent_pid' = parent_pid /\ next_pid' = next_pid /\ zombie' = zombie
    BY <1>2 DEF tableVars
  <2>2. /\ state' \in [Slots -> TaskState] /\ current' \in Slots
        /\ uctx' \in [Slots -> Nat] /\ user_ctx' \in Nat
        /\ \A s \in Slots : state'[s] = "RUNNING" <=> s = current'
        /\ Runnable(state', IdleSlot)
        /\ \A s \in Slots : state'[s] = "FREE" <=> state[s] = "FREE"
        /\ ContextIsolation'
    BY <1>0, <1>2, <2>1, YieldSwitches DEF SchedTypeOK, SingleRunner
  <2>3. SchedTypeOK'
    BY <1>2, <2>1, <2>2 DEF SchedTypeOK
  <2>4. SingleRunner'
    BY <1>2, <2>1, <2>2 DEF SingleRunner, SchedTypeOK
  <2>5. UniquePids'
    BY <1>2, <2>1, <2>2 DEF UniquePids
  <2> QED
    BY <2>2, <2>3, <2>4, <2>5
<1>3. CASE Preempt
  BY <1>2, <1>3 DEF Preempt
<1>4. CASE YieldCpu
  BY <1>0, <1>2, <1>4 DEF YieldCpu, SchedTypeOK
<1>5. CASE idle_task
  BY <1>2, <1>5 DEF idle_task
<1>6. CASE Spawn
  <2>1. PICK t \in Slots : sched_spawn_user_task(t, pid[current])
    BY <1>6 DEF Spawn
  <2>2. t # current /\ t # IdleSlot
    BY <1>0, <2>1 DEF sched_spawn_user_task, alloc_slot, Runnable
  <2>3. SchedTypeOK'
    <3>1. state' \in [Slots -> TaskState] /\ zombie' \in [Slots -> BOOLEAN]
      BY SMTT(20), <2>1 DEF sched_spawn_user_task, SchedTypeOK
    <3>2. pid' \in [Slots -> Nat] /\ parent_pid' \in [Slots -> Nat]
      BY SMTT(20), <2>1 DEF sched_spawn_user_task, SchedTypeOK
    <3>3. uctx' \in [Slots -> Nat] /\ user_ctx' \in Nat /\ current' \in Slots
      BY SMTT(20), <2>1 DEF sched_spawn_user_task, SchedTypeOK
    <3>4. next_pid' \in Nat \ {0} /\ g_resched_requested' \in BOOLEAN
      BY SMT, <2>1 DEF sched_spawn_user_task, SchedTypeOK
    <3> QED
      BY <3>1, <3>2, <3>3, <3>4 DEF SchedTypeOK
  <2>4. SingleRunner'
    BY SMTT(20), <2>1, <2>2 DEF sched_spawn_user_task, SchedTypeOK, SingleRunner, Runnable
  <2>5. UniquePids'
    <3>1. \A s \in Slots :
            /\ pid'[s] = IF s = t THEN next_pid ELSE pid[s]
            /\ parent_pid'[s] = IF s = t THEN pid[current] ELSE parent_pid[s]
            /\ s # t => state'[s] = state[s]
      BY <2>1 DEF sched_spawn_user_task, SchedTypeOK
    <3>2. next_pid' = next_pid + 1 /\ next_pid \in Nat
      BY <2>1 DEF sched_spawn_user_task, SchedTypeOK
    <3>3. \A s \in Slots : pid[s] \in Nat /\ pid[s] < next_pid
                            /\ parent_pid[s] \in Nat /\ parent_pid[s] < next_pid
      BY DEF UniquePids, SchedTypeOK
    <3>4. current \in Slots
      BY DEF SchedTypeOK
    <3>5. \A s \in Slots : pid'[s] < next_pid' /\ parent_pid'[s] < next_pid'
      BY SMT, <3>1, <3>2, <3>3, <3>4
    <3>6. \A s, r \in Slots :
            state'[s] # "FREE" /\ state'[r] # "FREE" /\ pid'[s] = pid'[r] => s = r
      BY SMT, <3>1, <3>2, <3>3 DEF UniquePids
    <3>7. \A s \in Slots \ {IdleSlot} :
            state'[s] # "FREE" => parent_pid'[s] < pid'[s]
      BY <3>1, <3>3, <3>4 DEF UniquePids
    <3> QED
      BY <3>5, <3>6, <3>7 DEF UniquePids
  <2>6. ContextIsolation'
    BY SMTT(20), <2>1, <2>2 DEF sched_spawn_user_task, SchedTypeOK, ContextIsolation
  <2> QED
    BY <2>3, <2>4, <2>5, <2>6
<1>7. CASE SpawnNoStack
  <2>1. /\ UNCHANGED <<state, zombie, pid, parent_pid, uctx, user_ctx, current,
                        g_resched_requested>>
        /\ next_pid' = next_pid + 1 /\ next_pid' \in Nat \ {0}
    BY SMT, <1>7 DEF SpawnNoStack, switchVars, SchedTypeOK
  <2>2. SchedTypeOK'
    BY <2>1 DEF SchedTypeOK
  <2>3. SingleRunner'
    BY <2>1 DEF SingleRunner, Runnable
  <2>4. \A s \in Slots : pid'[s] < next_pid' /\ parent_pid'[s] < next_pid'
    BY SMT, <2>1 DEF UniquePids, SchedTypeOK
  <2>5. UniquePids'
    BY <2>1, <2>4 DEF UniquePids
  <2>6. ContextIsolation'
    BY <2>1 DEF ContextIsolation
  <2> QED
    BY <2>2, <2>3, <2>5, <2>6
<1>8. ASSUME NEW W \in SUBSET Slots, Block(W)
      PROVE  SchedInv'
  <2> DEFINE parked == [state EXCEPT ![current] = "BLOCKED"]
             st == sched_wake(parked, zombie, W \ {current})
  <2>1. /\ sched_yield(st, zombie) /\ current # IdleSlot
        /\ pid' = pid /\ parent_pid' = parent_pid /\ next_pid' = next_pid
        /\ zombie' = zombie /\ g_resched_requested' = g_resched_requested
    BY <1>8 DEF Block, tableVars
  <2>2. parked \in [Slots -> TaskState] /\ zombie \in [Slots -> BOOLEAN]
    BY DEF SchedTypeOK
  <2> HIDE DEF parked
  <2>3. /\ st \in [Slots -> TaskState]
        /\ \A s \in Slots :
             /\ st[s] = "RUNNING" <=> parked[s] = "RUNNING"
             /\ st[s] = "FREE" <=> parked[s] = "FREE"
             /\ parked[s] = "READY" => st[s] = "READY"
             /\ parked[s] = "BLOCKED" /\ (zombie[s] \/ s \notin W \ {current})
                  => st[s] = "BLOCKED"
    BY <2>2, WakeFacts
  <2> HIDE DEF st
  <2>4. /\ st[current] = "BLOCKED"
        /\ \A s \in Slots : st[s] = "RUNNING" => s = current
        /\ Runnable(st, IdleSlot) /\ ~zombie[IdleSlot]
        /\ \A s \in Slots : st[s] = "FREE" <=> state[s] = "FREE"
    BY SMT, <1>0, <2>1, <2>3 DEF parked, SchedTypeOK, SingleRunner, Runnable
  <2>5. /\ state' \in [Slots -> TaskState] /\ current' \in Slots
        /\ uctx' \in [Slots -> Nat] /\ user_ctx' \in Nat
        /\ \A s \in Slots : state'[s] = "RUNNING" <=> s = current'
        /\ Runnable(state', IdleSlot)
        /\ \A s \in Slots : state'[s] = "FREE" <=> st[s] = "FREE"
        /\ ContextIsolation'
    BY <2>1, <2>2, <2>3, <2>4, YieldSwitches
  <2>6. SchedTypeOK'
    BY <2>1, <2>4, <2>5 DEF SchedTypeOK
  <2>7. SingleRunner'
    BY <2>1, <2>4, <2>5 DEF SingleRunner, SchedTypeOK
  <2>8. UniquePids'
    BY <2>1, <2>4, <2>5 DEF UniquePids
  <2> QED
    BY <2>5, <2>6, <2>7, <2>8
<1>9. ASSUME NEW W \in SUBSET Slots, Die(W)
      PROVE  SchedInv'
  <2> DEFINE z == [zombie EXCEPT ![current] = TRUE]
             st == sched_wake(state, z, W)
  <2>1. /\ sched_yield(st, z) /\ zombie' = z /\ current # IdleSlot
        /\ pid' = pid /\ parent_pid' = parent_pid /\ next_pid' = next_pid
        /\ g_resched_requested' = g_resched_requested
    BY <1>9 DEF Die, tableVars
  <2>2. z \in [Slots -> BOOLEAN] /\ ~z[IdleSlot] /\ state \in [Slots -> TaskState]
    BY SMT, <2>1 DEF SchedTypeOK, SingleRunner
  <2> HIDE DEF z
  <2>3. /\ st \in [Slots -> TaskState]
        /\ \A s \in Slots :
             /\ st[s] = "RUNNING" <=> state[s] = "RUNNING"
             /\ st[s] = "FREE" <=> state[s] = "FREE"
             /\ state[s] = "READY" => st[s] = "READY"
    BY SMT, <2>2, WakeFacts
  <2> HIDE DEF st
  <2>4. /\ st[current] = "RUNNING"
        /\ \A s \in Slots : st[s] = "RUNNING" => s = current
        /\ Runnable(st, IdleSlot)
    BY SMT, <1>0, <2>3 DEF SchedTypeOK, SingleRunner, Runnable
  <2>5. /\ state' \in [Slots -> TaskState] /\ current' \in Slots
        /\ uctx' \in [Slots -> Nat] /\ user_ctx' \in Nat
        /\ \A s \in Slots : state'[s] = "RUNNING" <=> s = current'
        /\ Runnable(state', IdleSlot)
        /\ \A s \in Slots : state'[s] = "FREE" <=> st[s] = "FREE"
        /\ ContextIsolation'
    BY <2>1, <2>2, <2>3, <2>4, YieldSwitches
  <2>6. SchedTypeOK'
    BY <2>1, <2>2, <2>3, <2>5 DEF SchedTypeOK
  <2>7. SingleRunner'
    BY <2>1, <2>2, <2>3, <2>5 DEF SingleRunner, SchedTypeOK
  <2>8. UniquePids'
    BY <2>1, <2>2, <2>3, <2>5 DEF UniquePids
  <2> QED
    BY <2>5, <2>6, <2>7, <2>8
<1>10. ASSUME NEW W \in SUBSET Slots, Wake(W)
       PROVE  SchedInv'
  <2> DEFINE st == sched_wake(state, zombie, W)
  <2>1. /\ state' = st
        /\ UNCHANGED <<zombie, tableVars, switchVars, g_resched_requested>>
    BY <1>10 DEF Wake
  <2>2. state \in [Slots -> TaskState] /\ zombie \in [Slots -> BOOLEAN]
    BY DEF SchedTypeOK
  <2>3. /\ st \in [Slots -> TaskState]
        /\ \A s \in Slots :
             /\ st[s] = "RUNNING" <=> state[s] = "RUNNING"
             /\ st[s] = "FREE" <=> state[s] = "FREE"
             /\ state[s] = "READY" => st[s] = "READY"
    BY SMT, <2>2, WakeFacts
  <2> HIDE DEF st
  <2>4. UNCHANGED <<pid, parent_pid, next_pid, uctx, user_ctx, current,
                    g_resched_requested>>
    BY <2>1 DEF tableVars, switchVars
  <2>5. SchedTypeOK'
    BY <2>1, <2>3, <2>4 DEF SchedTypeOK
  <2>6. SingleRunner'
    <3>1. \A s \in Slots : state'[s] = "RUNNING" <=> s = current'
      BY <2>1, <2>3, <2>4 DEF SingleRunner
    <3>2. Runnable(state', IdleSlot)
      BY SMT, <1>0, <2>1, <2>3 DEF SingleRunner, Runnable
    <3>3. ~zombie'[IdleSlot]
      BY <2>1, <2>2 DEF SingleRunner
    <3> QED
      BY <3>1, <3>2, <3>3 DEF SingleRunner, Runnable
  <2>7. UniquePids'
    BY <2>1, <2>3, <2>4 DEF UniquePids
  <2>8. ContextIsolation'
    BY <2>4 DEF ContextIsolation
  <2> QED
    BY <2>5, <2>6, <2>7, <2>8
<1>11. ASSUME NEW t \in Slots, NEW W \in SUBSET Slots, KillParked(t, W)
       PROVE  SchedInv'
  <2> DEFINE z == [zombie EXCEPT ![t] = TRUE]
             st == sched_wake(state, z, W)
  <2>1. /\ state' = st /\ zombie' = z /\ t # IdleSlot
        /\ UNCHANGED <<tableVars, switchVars, g_resched_requested>>
    BY <1>11 DEF KillParked
  <2>2. z \in [Slots -> BOOLEAN] /\ ~z[IdleSlot] /\ state \in [Slots -> TaskState]
    BY SMT, <2>1 DEF SchedTypeOK, SingleRunner
  <2> HIDE DEF z
  <2>3. /\ st \in [Slots -> TaskState]
        /\ \A s \in Slots :
             /\ st[s] = "RUNNING" <=> state[s] = "RUNNING"
             /\ st[s] = "FREE" <=> state[s] = "FREE"
             /\ state[s] = "READY" => st[s] = "READY"
    BY SMT, <2>2, WakeFacts
  <2> HIDE DEF st
  <2>4. UNCHANGED <<pid, parent_pid, next_pid, uctx, user_ctx, current,
                    g_resched_requested>>
    BY <2>1 DEF tableVars, switchVars
  <2>5. SchedTypeOK'
    BY <2>1, <2>2, <2>3, <2>4 DEF SchedTypeOK
  <2>6. SingleRunner'
    <3>1. \A s \in Slots : state'[s] = "RUNNING" <=> s = current'
      BY <2>1, <2>3, <2>4 DEF SingleRunner
    <3>2. Runnable(state', IdleSlot)
      BY SMT, <1>0, <2>1, <2>3 DEF SingleRunner, Runnable
    <3>3. ~zombie'[IdleSlot]
      BY <2>1, <2>2 DEF SingleRunner
    <3> QED
      BY <3>1, <3>2, <3>3 DEF SingleRunner, Runnable
  <2>7. UniquePids'
    BY <2>1, <2>2, <2>3, <2>4 DEF UniquePids
  <2>8. ContextIsolation'
    BY <2>4 DEF ContextIsolation
  <2> QED
    BY <2>5, <2>6, <2>7, <2>8
<1>12. ASSUME NEW t \in Slots, NEW W \in SUBSET Slots, Reap(t, W)
       PROVE  SchedInv'
  <2> DEFINE freed == [state EXCEPT ![t] = "FREE"]
             st == sched_wake(freed, zombie, W)
  <2>1. /\ t # IdleSlot /\ state[t] # "FREE" /\ parent_pid[t] = pid[current]
        /\ state' = st
        /\ zombie' = [zombie EXCEPT ![t] = FALSE]
        /\ pid' = [pid EXCEPT ![t] = 0]
        /\ parent_pid' = [parent_pid EXCEPT ![t] = 0]
        /\ uctx' = [uctx EXCEPT ![t] = NoCtx]
        /\ UNCHANGED <<user_ctx, current, next_pid, g_resched_requested>>
    BY <1>12 DEF Reap
  <2>2. t # current
    BY SMT, <2>1 DEF SchedTypeOK, UniquePids
  <2>3. freed \in [Slots -> TaskState] /\ zombie \in [Slots -> BOOLEAN]
    BY DEF SchedTypeOK
  <2> HIDE DEF freed
  <2>4. /\ st \in [Slots -> TaskState]
        /\ \A s \in Slots :
             /\ st[s] = "RUNNING" <=> freed[s] = "RUNNING"
             /\ st[s] = "FREE" <=> freed[s] = "FREE"
             /\ freed[s] = "READY" => st[s] = "READY"
    BY SMT, <2>3, WakeFacts
  <2> HIDE DEF st
  <2>5. \A s \in Slots : freed[s] = IF s = t THEN "FREE" ELSE state[s]
    BY DEF freed, SchedTypeOK
  <2>6. SchedTypeOK'
    <3>1. state' \in [Slots -> TaskState] /\ zombie' \in [Slots -> BOOLEAN]
      BY SMTT(20), <2>1, <2>4 DEF SchedTypeOK
    <3>2. /\ pid' \in [Slots -> Nat] /\ parent_pid' \in [Slots -> Nat]
          /\ uctx' \in [Slots -> Nat]
      BY <2>1 DEF SchedTypeOK
    <3>3. /\ user_ctx' \in Nat /\ current' \in Slots
          /\ next_pid' \in Nat \ {0} /\ g_resched_requested' \in BOOLEAN
      BY <2>1 DEF SchedTypeOK
    <3> QED
      BY <3>1, <3>2, <3>3 DEF SchedTypeOK
  <2>7. SingleRunner'
    <3>1. \A s \in Slots : state'[s] = "RUNNING" <=> s = current'
      BY <2>1, <2>2, <2>4, <2>5 DEF SingleRunner
    <3>2. Runnable(state', IdleSlot)
      <4>1. 0 \in Slots /\ 0 # t
        BY SMT, <2>1
      <4>2. freed[0] = "READY" \/ freed[0] = "RUNNING"
        BY <2>5, <4>1 DEF Runnable, SingleRunner
      <4>3. st[0] = "READY" \/ st[0] = "RUNNING"
        BY <2>4, <4>1, <4>2
      <4> QED
        BY <2>1, <4>3 DEF Runnable
    <3>3. ~zombie'[IdleSlot]
      BY SMT, <2>1 DEF SingleRunner, SchedTypeOK
    <3> QED
      BY <3>1, <3>2, <3>3 DEF SingleRunner
  <2>8. UniquePids'
    <3>1. \A s \in Slots :
            /\ pid'[s] = IF s = t THEN 0 ELSE pid[s]
            /\ parent_pid'[s] = IF s = t THEN 0 ELSE parent_pid[s]
            /\ state'[s] # "FREE" => s # t /\ state[s] # "FREE"
      BY <2>1, <2>4, <2>5 DEF SchedTypeOK
    <3>2. next_pid' = next_pid /\ next_pid \in Nat \ {0}
      BY <2>1 DEF SchedTypeOK
    <3> QED
      BY SMT, <3>1, <3>2 DEF UniquePids
  <2>9. ContextIsolation'
    BY <2>1, <2>2 DEF SchedTypeOK, ContextIsolation
  <2> QED
    BY <2>6, <2>7, <2>8, <2>9
<1>13. CASE sched_timer_tick
  <2>1. UNCHANGED <<state, zombie, pid, parent_pid, next_pid, uctx, user_ctx,
                    current>> /\ g_resched_requested' \in BOOLEAN
    BY <1>13 DEF sched_timer_tick, tableVars, switchVars, SchedTypeOK
  <2>2. SchedTypeOK'
    BY <2>1 DEF SchedTypeOK
  <2>3. SingleRunner'
    BY <2>1 DEF SingleRunner, Runnable
  <2>4. UniquePids'
    BY <2>1 DEF UniquePids
  <2>5. ContextIsolation'
    BY <2>1 DEF ContextIsolation
  <2> QED
    BY <2>2, <2>3, <2>4, <2>5
<1>14. CASE UNCHANGED schedVars
  <2>1. UNCHANGED <<state, zombie, pid, parent_pid, next_pid, uctx, user_ctx,
                    current>> /\ g_resched_requested' \in BOOLEAN
    BY <1>14 DEF schedVars, SchedTypeOK
  <2>2. SchedTypeOK'
    BY <2>1 DEF SchedTypeOK
  <2>3. SingleRunner'
    BY <2>1 DEF SingleRunner, Runnable
  <2>4. UniquePids'
    BY <2>1 DEF UniquePids
  <2>5. ContextIsolation'
    BY <2>1 DEF ContextIsolation
  <2> QED
    BY <2>2, <2>3, <2>4, <2>5
<1> QED
  BY <1>1, <1>3, <1>4, <1>5, <1>6, <1>7, <1>8, <1>9, <1>10, <1>11, <1>12, <1>13,
     <1>14 DEF SchedNext

\* SchedInv is an invariant: sched_start establishes it, every step keeps it.
LEMMA InvHolds == SchedSpec => []SchedInv
BY InitInv, StepInv, PTL DEF SchedSpec

\* The task table, the parked contexts and the PID counter keep their types,
\* whatever the rest of the kernel does with the scheduler.
THEOREM TypeCorrect == SchedSpec => []SchedTypeOK
<1>1. SchedInv => SchedTypeOK
  BY DEF SchedInv
<1> QED
  BY <1>1, InvHolds, PTL

\* One CPU, one RUNNING task, and the idle task always there to switch to.
THEOREM OneRunner == SchedSpec => []SingleRunner
<1>1. SchedInv => SingleRunner
  BY DEF SchedInv
<1> QED
  BY <1>1, InvHolds, PTL

\* PIDs are unique for the lifetime of the system and parents precede children.
THEOREM PidsUnique == SchedSpec => []UniquePids
<1>1. SchedInv => UniquePids
  BY DEF SchedInv
<1> QED
  BY <1>1, InvHolds, PTL

\* switch_to never leaks one task's user context into another task.
THEOREM ContextsIsolated == SchedSpec => []ContextIsolation
<1>1. SchedInv => ContextIsolation
  BY DEF SchedInv
<1> QED
  BY <1>1, InvHolds, PTL

\* A blocked zombie stays where it is in every step but its own reaping.
LEMMA ZombieStep ==
  ASSUME SchedInv, SchedNext, NEW s \in Slots, state[s] = "BLOCKED", zombie[s]
  PROVE  state'[s] \in {"BLOCKED", "FREE"}
<1> USE DEF SchedInv
<1>0. /\ state \in [Slots -> TaskState] /\ zombie \in [Slots -> BOOLEAN]
      /\ current \in Slots /\ state[current] = "RUNNING" /\ s # current
      /\ \A r \in Slots : state[r] = "RUNNING" => r = current
      /\ Runnable(state, IdleSlot) /\ ~zombie[IdleSlot]
  BY SMTT(20) DEF SchedTypeOK, SingleRunner
<1>1. ASSUME sched_yield(state, zombie), pid' = pid
      PROVE  state'[s] = "BLOCKED"
  BY <1>0, <1>1, YieldSwitches
<1>2. CASE EnterKernel \/ SpawnNoStack \/ sched_timer_tick
  BY <1>2 DEF EnterKernel, SpawnNoStack, sched_timer_tick
<1>3. CASE Preempt \/ YieldCpu \/ idle_task
  BY <1>1, <1>3 DEF Preempt, YieldCpu, idle_task, tableVars
<1>4. CASE Spawn
  BY <1>0, <1>4 DEF Spawn, sched_spawn_user_task, alloc_slot
<1>5. ASSUME NEW W \in SUBSET Slots, Block(W)
      PROVE  state'[s] = "BLOCKED"
  BY <1>5, BlockFacts
<1>6. ASSUME NEW W \in SUBSET Slots, Die(W)
      PROVE  state'[s] = "BLOCKED"
  BY <1>6, DieFacts
<1>7. ASSUME NEW W \in SUBSET Slots, Wake(W)
      PROVE  state'[s] = "BLOCKED"
  BY <1>7 DEF Wake, sched_wake
<1>8. ASSUME NEW t \in Slots, NEW W \in SUBSET Slots, KillParked(t, W)
      PROVE  state'[s] = "BLOCKED"
  BY <1>0, <1>8 DEF KillParked, sched_wake
<1>9. ASSUME NEW t \in Slots, NEW W \in SUBSET Slots, Reap(t, W)
      PROVE  state'[s] \in {"BLOCKED", "FREE"}
  BY <1>0, <1>9 DEF Reap, sched_wake
<1> QED
  BY <1>2, <1>3, <1>4, <1>5, <1>6, <1>7, <1>8, <1>9 DEF SchedNext

\* A task that died, or was killed while it was blocked, never runs again.
THEOREM ZombiesStay == SchedSpec => BlockedZombieStays
<1>1. SchedInv /\ [SchedNext]_schedVars =>
        [\A s \in Slots : state[s] = "BLOCKED" /\ zombie[s]
                            => state'[s] \in {"BLOCKED", "FREE"}]_schedVars
  BY ZombieStep
<1> QED
  BY <1>1, InvHolds, PTL DEF SchedSpec, BlockedZombieStays
=============================================================================
