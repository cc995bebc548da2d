------------------------------- MODULE Sched -------------------------------
(***************************************************************************)
(* The scheduler of kernel/src/proc/sched.c: the task table, the           *)
(* round-robin sched_yield, sched_wake, spawning, the timer's reschedule   *)
(* request and the idle loop, together with the most general client the    *)
(* rest of the kernel may be: SchedNext lets the running task enter the    *)
(* kernel, spawn, yield, block, exit, kill, reap and wake any set of       *)
(* tasks.  Process.tla uses the same operators with the real guards and is *)
(* checked to implement SchedSpec.                                         *)
(*                                                                         *)
(* There is one CPU and the kernel never switches inside an interrupt, so  *)
(* a step is the code a task runs between two calls of sched_yield.        *)
(***************************************************************************)
EXTENDS Integers

CONSTANTS
  MAX_TASKS,  \* size of tasks[]
  MaxPid,     \* bound on the PIDs handed out in a behaviour
  BootTasks   \* user tasks main.c spawned: init, and rudod if its image loads

ASSUME SchedAssumption ==
  /\ MAX_TASKS \in Nat
  /\ MaxPid \in Nat
  /\ BootTasks \in 1 .. 2
  /\ BootTasks < MAX_TASKS
  /\ BootTasks <= MaxPid

Slots == 0 .. MAX_TASKS - 1
IdleSlot == 0
NoCtx == 0  \* user context of a slot cleared by memset

TaskState == {"FREE", "READY", "RUNNING", "BLOCKED"}

VARIABLES
  state,                \* task_t.state
  zombie,               \* task_t.zombie
  pid,                  \* task_t.pid
  parent_pid,           \* task_t.parent_pid
  uctx,                 \* task_t.uctx_rip/rsp/rflags: PID whose context it is
  user_ctx,             \* bsp_cpu.user_rip/rsp/rflags: PID whose context it is
  current,              \* the slot of current
  next_pid,
  g_resched_requested

switchVars == <<uctx, user_ctx, current>>
tableVars == <<pid, parent_pid, next_pid>>
schedVars == <<state, zombie, pid, parent_pid, uctx, user_ctx, current,
               next_pid, g_resched_requested>>

-----------------------------------------------------------------------------
(* Operators on the task table.  st and z are the state and zombie columns *)
(* as the caller has just written them.                                    *)

Runnable(st, s) == st[s] \in {"READY", "RUNNING"}

\* Fault: the scan starts at slot 1 instead of behind the running task.
RoundRobinFromStart(st, c, next) ==
  \/ \E i \in 1 .. MAX_TASKS :
        /\ next = i % MAX_TASKS
        /\ Runnable(st, next)
        /\ \A j \in 1 .. i - 1 : ~Runnable(st, j % MAX_TASKS)
  \/ next = c /\ \A s \in Slots : ~Runnable(st, s)

RoundRobin(st, c, next) ==
  \/ \E i \in 1 .. MAX_TASKS :
        /\ next = (c + i) % MAX_TASKS
        /\ Runnable(st, next)
        /\ \A j \in 1 .. i - 1 : ~Runnable(st, (c + j) % MAX_TASKS)
  \/ next = c /\ \A s \in Slots : ~Runnable(st, s)

\* Fault: only a zombie's state is updated when it yields.
LeaveCpuRunning(st, z, c) == IF z[c] THEN "BLOCKED" ELSE st[c]

\* Fault: a zombie that yields stays runnable.
LeaveCpuReady(st, z, c) == IF st[c] = "RUNNING" THEN "READY" ELSE st[c]

LeaveCpu(st, z, c) ==
  IF st[c] = "RUNNING" THEN IF z[c] THEN "BLOCKED" ELSE "READY" ELSE st[c]

\* Fault: the user context is not parked and restored.
switch_toSharedContext(next) == current' = next /\ UNCHANGED <<uctx, user_ctx>>

switch_to(next) ==
  /\ uctx' = [uctx EXCEPT ![current] = user_ctx]
  /\ user_ctx' = uctx[next]
  /\ current' = next

sched_yield(st, z) ==
  \E next \in Slots :
    /\ RoundRobin(st, current, next)
    /\ IF next = current
       THEN state' = st /\ UNCHANGED switchVars
       ELSE /\ state' = [st EXCEPT ![current] = LeaveCpu(st, z, current),
                                   ![next] = "RUNNING"]
            /\ switch_to(next)

\* Fault: a zombie is woken like any blocked task.
sched_wakeZombies(st, z, W) ==
  [s \in Slots |-> IF s \in W /\ st[s] = "BLOCKED" THEN "READY" ELSE st[s]]

sched_wake(st, z, W) ==
  [s \in Slots |-> IF s \in W /\ st[s] = "BLOCKED" /\ ~z[s]
                   THEN "READY" ELSE st[s]]

alloc_slot(t) ==
  /\ state[t] = "FREE"
  /\ \A s \in 0 .. t - 1 : state[s] # "FREE"

sched_find_pid(p) == {s \in Slots : state[s] # "FREE" /\ pid[s] = p}

\* Fault: next_pid is not advanced.
sched_spawn_user_taskSamePid(t, parent) ==
  /\ alloc_slot(t)
  /\ state' = [state EXCEPT ![t] = "READY"]
  /\ pid' = [pid EXCEPT ![t] = next_pid]
  /\ parent_pid' = [parent_pid EXCEPT ![t] = parent]
  /\ uctx' = [uctx EXCEPT ![t] = NoCtx]
  /\ UNCHANGED <<zombie, user_ctx, current, next_pid, g_resched_requested>>

sched_spawn_user_task(t, parent) ==
  /\ alloc_slot(t)
  /\ next_pid <= MaxPid
  /\ state' = [state EXCEPT ![t] = "READY"]
  /\ zombie' = [zombie EXCEPT ![t] = FALSE]
  /\ pid' = [pid EXCEPT ![t] = next_pid]
  /\ parent_pid' = [parent_pid EXCEPT ![t] = parent]
  /\ uctx' = [uctx EXCEPT ![t] = NoCtx]
  /\ next_pid' = next_pid + 1
  /\ UNCHANGED <<user_ctx, current, g_resched_requested>>

-----------------------------------------------------------------------------
(* Steps of the running task, of the idle loop and of the timer interrupt. *)

UserRunning == current # IdleSlot

\* syscall_entry: the user context of the running task goes to bsp_cpu.
EnterKernel ==
  /\ UserRunning
  /\ user_ctx' = pid[current]
  /\ UNCHANGED <<state, zombie, tableVars, uctx, current, g_resched_requested>>

\* The preemption points of syscall_handler and kbd_getchar.
Preempt ==
  /\ UserRunning
  /\ g_resched_requested
  /\ g_resched_requested' = FALSE
  /\ sched_yield(state, zombie)
  /\ UNCHANGED <<zombie, tableVars>>

Spawn ==
  /\ UserRunning
  /\ \E t \in Slots : sched_spawn_user_task(t, pid[current])

\* The PID is consumed although no kernel stack could be allocated.
SpawnNoStack ==
  /\ UserRunning
  /\ \E t \in Slots : alloc_slot(t)
  /\ next_pid <= MaxPid
  /\ next_pid' = next_pid + 1
  /\ UNCHANGED <<state, zombie, pid, parent_pid, switchVars, g_resched_requested>>

\* sys_yield, without waiting for the timer.
YieldCpu ==
  /\ UserRunning
  /\ sched_yield(state, zombie)
  /\ UNCHANGED <<zombie, tableVars, g_resched_requested>>

\* Waking tasks W and then parking on a pipe, in waitpid or for rudod.
Block(W) ==
  /\ UserRunning
  /\ sched_yield(sched_wake([state EXCEPT ![current] = "BLOCKED"], zombie,
                            W \ {current}), zombie)
  /\ UNCHANGED <<zombie, tableVars, g_resched_requested>>

\* exit, a fatal signal or an unhandled page fault of the running task.
Die(W) ==
  LET z == [zombie EXCEPT ![current] = TRUE] IN
  /\ UserRunning
  /\ zombie' = z
  /\ sched_yield(sched_wake(state, z, W), z)
  /\ UNCHANGED <<tableVars, g_resched_requested>>

\* Wake-ups from pipe operations, kill and the keyboard interrupt.
Wake(W) ==
  /\ state' = sched_wake(state, zombie, W)
  /\ UNCHANGED <<zombie, tableVars, switchVars, g_resched_requested>>

\* SIGKILL on a task that is not running: it becomes a zombie where it is.
KillParked(t, W) ==
  LET z == [zombie EXCEPT ![t] = TRUE] IN
  /\ UserRunning
  /\ t \notin {current, IdleSlot}
  /\ state[t] \in {"BLOCKED", "READY"}
  /\ zombie' = z
  /\ state' = sched_wake(state, z, W)
  /\ UNCHANGED <<tableVars, switchVars, g_resched_requested>>

\* waitpid clears the slot of a zombie child (memset in reap_task).
Reap(t, W) ==
  /\ UserRunning
  /\ t # IdleSlot /\ state[t] # "FREE" /\ zombie[t]
  /\ parent_pid[t] = pid[current]
  /\ state' = sched_wake([state EXCEPT ![t] = "FREE"], zombie, W)
  /\ zombie' = [zombie EXCEPT ![t] = FALSE]
  /\ pid' = [pid EXCEPT ![t] = 0]
  /\ parent_pid' = [parent_pid EXCEPT ![t] = 0]
  /\ uctx' = [uctx EXCEPT ![t] = NoCtx]
  /\ UNCHANGED <<user_ctx, current, next_pid, g_resched_requested>>

sched_timer_tick ==
  /\ g_resched_requested' = TRUE
  /\ UNCHANGED <<state, zombie, tableVars, switchVars>>

idle_task ==
  /\ current = IdleSlot
  /\ g_resched_requested
  /\ g_resched_requested' = FALSE
  /\ sched_yield(state, zombie)
  /\ UNCHANGED <<zombie, tableVars>>

-----------------------------------------------------------------------------
\* main.c and sched_start: idle in slot 0, the boot tasks in the next slots,
\* the highest of them running.
SchedInit ==
  LET Boot == 1 .. BootTasks IN
  /\ state = [s \in Slots |-> IF s = BootTasks THEN "RUNNING"
                              ELSE IF s \in Boot \cup {IdleSlot} THEN "READY"
                              ELSE "FREE"]
  /\ zombie = [s \in Slots |-> FALSE]
  /\ pid = [s \in Slots |-> IF s \in Boot THEN s ELSE 0]
  /\ parent_pid = [s \in Slots |-> IF s = 2 /\ s \in Boot THEN 1 ELSE 0]
  /\ uctx = [s \in Slots |-> NoCtx]
  /\ user_ctx = NoCtx
  /\ current = BootTasks
  /\ next_pid = BootTasks + 1
  /\ g_resched_requested = FALSE

SchedNext ==
  \/ EnterKernel
  \/ Preempt
  \/ Spawn
  \/ SpawnNoStack
  \/ YieldCpu
  \/ \E W \in SUBSET Slots : Block(W) \/ Die(W) \/ Wake(W)
  \/ \E t \in Slots, W \in SUBSET Slots : KillParked(t, W) \/ Reap(t, W)
  \/ sched_timer_tick
  \/ idle_task

SchedSpec == SchedInit /\ [][SchedNext]_schedVars

(***************************************************************************)
(* The kernel's own fairness: interrupts keep coming and the idle loop     *)
(* acts on them.  Preempt also needs the running program to reach a system *)
(* call again, which the kernel cannot enforce.                            *)
(***************************************************************************)
KernelFairness == WF_schedVars(sched_timer_tick) /\ WF_schedVars(idle_task)

SchedKernelFairSpec == SchedSpec /\ KernelFairness

SchedFairSpec == SchedKernelFairSpec /\ WF_schedVars(Preempt)

-----------------------------------------------------------------------------
SchedTypeOK ==
  /\ state \in [Slots -> TaskState]
  /\ zombie \in [Slots -> BOOLEAN]
  /\ pid \in [Slots -> Nat]
  /\ parent_pid \in [Slots -> Nat]
  /\ uctx \in [Slots -> Nat]
  /\ user_ctx \in Nat
  /\ current \in Slots
  /\ next_pid \in Nat \ {0}
  /\ g_resched_requested \in BOOLEAN

\* Exactly the current task is RUNNING, and the idle task can always be
\* picked: whatever blocks, dies or is reaped, sched_yield finds a task and
\* never leaves a second one RUNNING (sched.c, sched_yield).
SingleRunner ==
  /\ \A s \in Slots : state[s] = "RUNNING" <=> s = current
  /\ Runnable(state, IdleSlot) /\ ~zombie[IdleSlot]

\* PIDs identify tasks: no two table entries share one, a PID is never handed
\* out again after its slot was reaped and reused (next_pid), and parents are
\* older than their children, so that nobody can wait for themselves.
UniquePids ==
  /\ \A s, t \in Slots :
       state[s] # "FREE" /\ state[t] # "FREE" /\ pid[s] = pid[t] => s = t
  /\ \A s \in Slots : pid[s] < next_pid /\ parent_pid[s] < next_pid
  /\ \A s \in Slots \ {IdleSlot} : state[s] # "FREE" => parent_pid[s] < pid[s]

\* switch_to parks the user context of the task it leaves and loads that of
\* the task it enters: no task ever holds, parked or in bsp_cpu, a context
\* that was saved for another one.
ContextIsolation ==
  /\ user_ctx \in {NoCtx, pid[current]}
  /\ \A s \in Slots : uctx[s] \in {NoCtx, pid[s]}

\* A task that has called sched_yield as a zombie (exit, fatal signal) and a
\* zombie that was killed while blocked are never put on the CPU again.
BlockedZombieStays ==
  [][\A s \in Slots :
       state[s] = "BLOCKED" /\ zombie[s] => state'[s] \in {"BLOCKED", "FREE"}]_schedVars
=============================================================================
