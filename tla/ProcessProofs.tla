--------------------------- MODULE ProcessProofs ---------------------------
(***************************************************************************)
(* Proofs about Process for any table size, any number of PIDs, pipes,     *)
(* descriptors and signals, and any set of system calls: its steps are the *)
(* scheduler's, the dead stay dead, who is asleep in waitpid or on a pipe  *)
(* has something to wait for and no signal to see, and the counts of a     *)
(* pipe are those of its descriptors as long as it lives.                  *)
(***************************************************************************)
EXTENDS Process, SchedProofs, FiniteSetTheorems

USE Zenon, SchedAssumption, ProcessAssumption
    DEF Slots, IdleSlot, NoCtx, TaskState, UserRunning

-----------------------------------------------------------------------------
(* Every step of the processes is a step of the scheduler's general client *)
(* or leaves its table alone.                                              *)

\* Two wake-ups in a row are one wake-up of both sets.
LEMMA WakeTwice ==
  ASSUME NEW st, NEW z, NEW V, NEW W
  PROVE  sched_wake(sched_wake(st, z, V), z, W) = sched_wake(st, z, V \cup W)
BY DEF sched_wake

\* terminate_current, whose wake-ups come in two parts, is a death.
LEMMA TerminateDies ==
  ASSUME NEW pending, UserRunning, terminate_current(pending)
  PROVE  LET z == [zombie EXCEPT ![current] = TRUE]
             V == Parents(current)
             W == PipeWaiters(sched_wake(state, z, V), Touched(fds[current]))
         IN  Die(V \cup W) /\ V \cup W \in SUBSET Slots
<1> DEFINE z == [zombie EXCEPT ![current] = TRUE]
           V == Parents(current)
           W == PipeWaiters(sched_wake(state, z, V), Touched(fds[current]))
<1>1. /\ zombie' = z
      /\ sched_yield(sched_wake(sched_wake(state, z, V), z, W), z)
      /\ UNCHANGED <<tableVars, g_resched_requested>>
  BY DEF terminate_current
<1>2. V \cup W \in SUBSET Slots
  BY DEF Parents, sched_find_pid, PipeWaiters
<1> HIDE DEF z, V, W
<1>3. sched_wake(sched_wake(state, z, V), z, W) = sched_wake(state, z, V \cup W)
  BY SMT, WakeTwice
<1>4. sched_yield(sched_wake(state, z, V \cup W), z)
  BY <1>1, <1>3
<1>5. Die(V \cup W)
  BY <1>1, <1>4 DEF Die, z
<1> QED
  BY <1>2, <1>5 DEF z, V, W

\* reap_task clears the slot of a zombie child.
LEMMA ReapStep ==
  ASSUME NEW t \in Slots, reap_task(t)
  PROVE  SchedNext
<1> DEFINE W == PipeWaiters(state, Touched(fds[t]))
<1>1. Reap(t, W)
  BY DEF reap_task
<1>2. W \in SUBSET Slots
  BY DEF PipeWaiters
<1> QED
  BY <1>1, <1>2 DEF SchedNext

\* A pass of the loop of waitpid reaps, returns or blocks.
LEMMA WaitLoopStep ==
  ASSUME NEW want, WaitLoop(want)
  PROVE  SchedNext \/ UNCHANGED schedVars
<1>1. ASSUME NEW t \in Slots, reap_task(t) PROVE SchedNext
  BY <1>1, ReapStep
<1>2. Children \subseteq Slots
  BY DEF Children
<1>3. CASE Block({})
  BY <1>3 DEF SchedNext
<1> QED
  BY <1>1, <1>2, <1>3 DEF WaitLoop

\* Closing or replacing a descriptor and pipe I/O wake tasks or do nothing.
LEMMA PipeCallWakes ==
  /\ \A f, file : ReplaceFd(f, file) => SchedNext
  /\ \A p, n : pipe_read(p, n) => SchedNext \/ UNCHANGED schedVars
  /\ \A p, n : pipe_write(p, n) => SchedNext \/ UNCHANGED schedVars
<1>1. \A P : PipeWaiters(state, P) \in SUBSET Slots
  BY DEF PipeWaiters
<1>2. \A W \in SUBSET Slots : Wake(W) => SchedNext
  BY DEF SchedNext
<1>3. \A f, file : ReplaceFd(f, file) => SchedNext
  BY <1>1, <1>2 DEF ReplaceFd
<1>4. \A p, n : pipe_read(p, n) => SchedNext \/ UNCHANGED schedVars
  BY <1>1, <1>2 DEF pipe_read, PipeGivesUp, GoPark
<1>5. \A p, n : pipe_write(p, n) => SchedNext \/ UNCHANGED schedVars
  BY <1>1, <1>2 DEF pipe_write, PipeGivesUp, GoPark
<1> QED
  BY <1>3, <1>4, <1>5

\* A signal sent to another task kills it where it is or wakes what it waits
\* with; nothing but the current task is RUNNING, so the target is parked.
LEMMA KillOtherStep ==
  ASSUME SchedInv, UserRunning, NEW t \in Slots \ {IdleSlot, current}, NEW sig,
         state[t] # "FREE", KillOther(t, sig)
  PROVE  SchedNext
<1> DEFINE z == [zombie EXCEPT ![t] = (sig = SIGKILL) \/ @]
           V == IF sig = SIGKILL THEN Parents(t) ELSE {}
           W == IF wait_pipe[t] = NoPipe THEN {}
                ELSE PipeWaiters(sched_wake(state, z, V), {wait_pipe[t]})
<1>1. /\ zombie' = z
      /\ state' = sched_wake(sched_wake(state, z, V), z, W)
      /\ UNCHANGED <<tableVars, switchVars, g_resched_requested>>
  BY DEF KillOther, NoSwitch
<1>2. V \cup W \in SUBSET Slots
  BY DEF Parents, sched_find_pid, PipeWaiters
<1>3. zombie \in [Slots -> BOOLEAN] /\ state[t] \in {"BLOCKED", "READY"}
  <2>1. state \in [Slots -> TaskState] /\ zombie \in [Slots -> BOOLEAN]
    BY DEF SchedInv, SchedTypeOK
  <2>2. state[t] # "RUNNING"
    BY DEF SchedInv, SingleRunner
  <2> QED
    BY <2>1, <2>2 DEF TaskState
<1>4. sig # SIGKILL => z = zombie
  BY <1>3
<1>5. sig = SIGKILL => z = [zombie EXCEPT ![t] = TRUE]
  BY <1>3
<1> HIDE DEF z, V, W
<1>6. state' = sched_wake(state, z, V \cup W)
  BY SMT, <1>1, WakeTwice
<1>7. CASE sig = SIGKILL
  <2>1. KillParked(t, V \cup W)
    BY <1>1, <1>3, <1>5, <1>6, <1>7 DEF KillParked
  <2> QED
    BY <1>2, <2>1 DEF SchedNext
<1>8. CASE sig # SIGKILL
  <2>1. Wake(V \cup W)
    BY <1>1, <1>4, <1>6, <1>8 DEF Wake
  <2> QED
    BY <1>2, <2>1 DEF SchedNext
<1> QED
  BY <1>7, <1>8

\* What the processes are for the scheduler: each of their steps is one of its
\* steps (spawn, yield, block, die, wake, reap, tick) or leaves its table alone.
LEMMA RefinesSched == SchedInv /\ [Next]_vars => [SchedNext]_schedVars
<1> SUFFICES ASSUME SchedInv, [Next]_vars PROVE SchedNext \/ UNCHANGED schedVars
  OBVIOUS
<1>1. CASE syscall_entry
  BY <1>1 DEF syscall_entry, SchedNext
<1>2. ASSUME UserRunning, DieKeepingFiles PROVE SchedNext
  <2>1. Die(Parents(current))
    BY <1>2 DEF DieKeepingFiles, Die
  <2>2. Parents(current) \in SUBSET Slots
    BY DEF Parents, sched_find_pid
  <2> QED
    BY <2>1, <2>2 DEF SchedNext
<1>3. CASE PageFault \/ sys_exit
  BY <1>2, <1>3 DEF PageFault, sys_exit, Calls, At
<1>4. CASE DiesOfSignal
  <2>1. terminate_current(StillPending(current, sig_pending[current])) /\ UserRunning
    BY <1>4 DEF DiesOfSignal, At
  <2>2. \E W \in SUBSET Slots : Die(W)
    BY <2>1, TerminateDies
  <2> QED
    BY <2>2 DEF SchedNext
<1>5. CASE syscall_handler \/ kbd_getchar
  BY <1>5 DEF syscall_handler, kbd_getchar, SchedNext
<1>6. CASE ReturnUnchanged \/ sys_open \/ sys_pipe \/ kbd_poll \/ sys_signal
  BY <1>6 DEF ReturnUnchanged, sys_open, sys_pipe, kbd_poll, sys_signal
<1>7. CASE sys_yield \/ ForkNoStack
  BY <1>7 DEF sys_yield, ForkNoStack, SchedNext
<1>8. CASE sys_fork
  BY <1>8 DEF sys_fork, Spawn, Calls, At, SchedNext
<1>9. CASE sys_waitpid \/ ResumeWaitpid
  BY <1>9, WaitLoopStep DEF sys_waitpid, ResumeWaitpid
<1>10. CASE sys_close \/ sys_dup \/ sys_dup2
  BY <1>10, PipeCallWakes DEF sys_close, sys_dup, sys_dup2, do_close, do_dup2
<1>11. CASE sys_read \/ sys_write \/ ResumePipeRead \/ ResumePipeWrite
  BY <1>11, PipeCallWakes
     DEF sys_read, sys_write, do_read, do_write, ResumePipeRead, ResumePipeWrite
<1>12. CASE ParkReader \/ ParkWriter
  BY <1>12 DEF ParkReader, ParkWriter, ParkOn, SchedNext
<1>13. CASE sys_kill
  <2>1. PICK t \in Slots \ {IdleSlot}, sig \in Signals :
          /\ state[t] # "FREE"
          /\ IF t = current THEN KillSelf(sig) ELSE KillOther(t, sig)
    BY <1>13 DEF sys_kill
  <2>2. UserRunning
    BY <1>13 DEF sys_kill, Calls, At
  <2>3. CASE t = current
    <3>1. ASSUME NEW pending, terminate_current(pending) PROVE SchedNext
      <4>1. \E W \in SUBSET Slots : Die(W)
        BY <2>2, <3>1, TerminateDies
      <4> QED
        BY <4>1 DEF SchedNext
    <3> QED
      BY <2>1, <2>3, <3>1 DEF KillSelf
  <2>4. CASE t # current
    BY <2>1, <2>2, <2>4, KillOtherStep
  <2> QED
    BY <2>3, <2>4
<1>14. CASE raise_sigint
  <2>1. PICK G \in SUBSET {s \in Slots \ {IdleSlot} : state[s] # "FREE"} :
          Wake({s \in G : state[s] = "BLOCKED" /\ wait_pipe[s] # NoPipe})
    BY <1>14 DEF raise_sigint
  <2>2. {s \in G : state[s] = "BLOCKED" /\ wait_pipe[s] # NoPipe} \in SUBSET Slots
    OBVIOUS
  <2> QED
    BY <2>1, <2>2 DEF SchedNext
<1>15. CASE TimerInterrupt \/ IdleLoop
  BY <1>15 DEF TimerInterrupt, IdleLoop, SchedNext
<1>16. CASE UNCHANGED vars
  BY <1>16 DEF vars
<1> QED
  BY <1>1, <1>3, <1>4, <1>5, <1>6, <1>7, <1>8, <1>9, <1>10, <1>11, <1>12, <1>13,
     <1>14, <1>15, <1>16 DEF Next, KernelStep

\* The task table of the processes is one of the scheduler's behaviours:
\* whatever is forked, killed, waited for or parked on a pipe, only the moves
\* of sched.c touch it.  Every property of SchedSpec holds of the processes.
THEOREM ProcessImplementsSched == Spec => SchedSpec
<1>1. Init => SchedInit
  BY DEF Init
<1> QED
  BY <1>1, InitInv, StepInv, RefinesSched, PTL DEF Spec, SchedSpec

\* The scheduler's invariant holds of the processes.
LEMMA SchedInvHolds == Spec => []SchedInv
BY ProcessImplementsSched, InvHolds, PTL

-----------------------------------------------------------------------------
(* The inductive invariant, first part: where the tasks are in the kernel  *)
(* and what their calls hold.                                              *)

Arg == [pipe : PipeOrNull, n : Int]
ReadPoints == {"rpark", "pread"}
WritePoints == {"wpark", "pwrite"}
PlainPoints == {"user", "entry", "dispatch", "waitpid", "kbd", "kbdpoll", "dead"}

\* The idle task never makes a call, a dead task has parked as a zombie, a
\* free slot is cleared, and only the running task is between sig_abort and
\* the store of TASK_BLOCKED.
PointsOK ==
  /\ kpc[IdleSlot] = "idle"
  /\ \A s \in Slots :
       /\ kpc[s] = "dead" => zombie[s] /\ state[s] = "BLOCKED"
       /\ state[s] = "FREE" => fds[s] = NoFiles /\ kpc[s] = "user"
       /\ kpc[s] \in {"rpark", "wpark"} => s = current

\* A descriptor is on a pipe exactly when it is one of its ends.
FilesOK ==
  \A s \in Slots, f \in Fds : fds[s][f].kind \in {"rd", "wr"} <=> fds[s][f].pipe # NoPipe

\* A task inside pipe_read or pipe_write wants at least one byte and still
\* has a descriptor for the pipe's end, and wait_pipe names the pipe of the
\* call the task is parked in.
CallsOK ==
  \A s \in Slots :
    /\ kpc[s] \in ReadPoints => \E f \in Fds : fds[s][f] = RdEnd(karg[s].pipe)
    /\ kpc[s] \in WritePoints => \E f \in Fds : fds[s][f] = WrEnd(karg[s].pipe)
    /\ kpc[s] \in ReadPoints \cup WritePoints => karg[s].pipe \in Pipes /\ karg[s].n > 0
    /\ wait_pipe[s] # NoPipe =>
         kpc[s] \in {"pread", "pwrite"} /\ wait_pipe[s] = karg[s].pipe

\* The types but for the counts of the pipes, which PipeInv adds.
CallTypeOK ==
  /\ fds \in [Slots -> [Fds -> File]]
  /\ sig_pending \in [Slots -> SUBSET Signals]
  /\ sig_handler \in [Slots -> [Signals -> Handlers]]
  /\ wait_pipe \in [Slots -> PipeOrNull]
  /\ kpc \in [Slots -> KernelPoints]
  /\ iflag \in BOOLEAN
  /\ karg \in [Slots -> Arg]
  /\ livePipes \subseteq Pipes
  /\ plen \in [Pipes -> 0 .. PIPE_BUF]

\* The inductive invariant of the processes, on top of the scheduler's.
ProcInv == SchedInv /\ CallTypeOK /\ PointsOK /\ FilesOK /\ CallsOK

-----------------------------------------------------------------------------
(* The shapes of a step: what the actions of Next do to the descriptors,   *)
(* the pipes and the position of the tasks.                                *)

SlotsKept == \A s \in Slots : state'[s] = "FREE" <=> state[s] = "FREE"

\* The running task, which is not inside a pipe call.
PlainCaller == UserRunning /\ kpc[current] \in PlainPoints

OtherSignalsKept == \A s \in Slots \ {current} : sig_pending'[s] = sig_pending[s]

\* The loop of waitpid found children and none of those it wants dead.
MayWait(want) ==
  /\ Children # {}
  /\ \A t \in Children : want \in {AnyChild, pid[t]} => ~zombie[t]

\* The running task moves on in the kernel, blocks in waitpid or dies, and
\* touches no descriptor and no pipe.
PlainStep ==
  /\ PlainCaller
  /\ \E x \in PlainPoints, a \in Arg :
       /\ MoveTo(x, a)
       /\ IF x = "dead" THEN Die(Parents(current)) ELSE zombie' = zombie
       /\ x = "waitpid" => MayWait(a.n)
  /\ OtherSignalsKept
  /\ SlotsKept
  /\ UNCHANGED <<fds, wait_pipe, pipeVars>>

\* An interrupt or the idle loop.
OutsideStep ==
  /\ current' = current \/ current = IdleSlot
  /\ SlotsKept
  /\ UNCHANGED <<zombie, sig_pending>>
  /\ UNCHANGED <<fds, wait_pipe, kpc, karg, pipeVars>>

TerminateStep == PlainCaller /\ \E pending \in SUBSET Signals : terminate_current(pending)

ReadStep ==
  /\ UserRunning
  /\ \E p \in Pipes, n \in Nat \ {0} :
       pipe_read(p, n) /\ \E f \in Fds : fds[current][f] = RdEnd(p)

WriteStep ==
  /\ UserRunning
  /\ \E p \in Pipes, n \in Nat \ {0} :
       pipe_write(p, n) /\ \E f \in Fds : fds[current][f] = WrEnd(p)

CloseStep == PlainCaller /\ \E f \in Fds : do_close(f)
DupStep == PlainCaller /\ \E old, new \in Fds : do_dup2(old, new)
ReapChild == PlainCaller /\ \E t \in Slots : reap_task(t)
KillStep ==
  /\ PlainCaller
  /\ \E t \in Slots \ {IdleSlot, current}, sig \in Signals :
       state[t] # "FREE" /\ KillOther(t, sig)

Shape ==
  \/ PlainStep \/ OutsideStep
  \/ TerminateStep \/ sys_fork \/ ReapChild
  \/ sys_open \/ CloseStep \/ DupStep \/ sys_pipe
  \/ ReadStep \/ WriteStep \/ ParkReader \/ ParkWriter
  \/ KillStep \/ raise_sigint

\* What is still pending after delivery was pending before.
LEMMA StillPendingSubset ==
  ASSUME NEW t, NEW pending PROVE StillPending(t, pending) \subseteq pending
BY DEF StillPending

\* A yield or no switch at all, as at the preemption points: no slot comes
\* or goes.
LEMMA SwitchKeepsSlots ==
  ASSUME SchedInv,
         \/ UNCHANGED schedVars \/ EnterKernel \/ Preempt \/ YieldCpu
         \/ SpawnNoStack \/ Block({}) \/ idle_task \/ sched_timer_tick
         \/ \E W : Die(W)
  PROVE  SlotsKept
<1>1. CASE UNCHANGED schedVars \/ EnterKernel \/ SpawnNoStack \/ sched_timer_tick
  BY <1>1 DEF schedVars, EnterKernel, SpawnNoStack, sched_timer_tick, SlotsKept
<1>2. CASE Preempt \/ YieldCpu \/ idle_task
  BY <1>2, PlainYieldFacts DEF Preempt, YieldCpu, idle_task, SlotsKept
<1>3. CASE Block({})
  BY <1>3, BlockFacts DEF SlotsKept
<1>4. CASE \E W : Die(W)
  BY <1>4, DieFacts DEF SlotsKept
<1> QED
  BY <1>1, <1>2, <1>3, <1>4

\* Every step of the processes has one of the shapes.
LEMMA Shapes == ProcInv /\ [Next]_vars => Shape
<1> SUFFICES ASSUME ProcInv, [Next]_vars PROVE Shape
  OBVIOUS
<1>0. /\ SchedInv /\ CallTypeOK /\ current \in Slots
      /\ karg[current] \in Arg /\ sig_pending[current] \subseteq Signals
      /\ sig_pending \in [Slots -> SUBSET Signals]
  BY DEF ProcInv, SchedInv, CallTypeOK, SchedTypeOK, Arg
<1>1. NoArg \in Arg /\ NoPipe \in PipeOrNull
  BY SMT DEF NoArg, Arg, PipeOrNull
<1>2. ASSUME NEW x \in PlainPoints, NEW a \in Arg, MoveTo(x, a), PlainCaller,
             x # "dead", x = "waitpid" => MayWait(a.n), OtherSignalsKept,
             UNCHANGED <<fds, wait_pipe, pipeVars>>,
             \/ UNCHANGED schedVars \/ EnterKernel \/ Preempt \/ YieldCpu
             \/ SpawnNoStack \/ Block({})
      PROVE  Shape
  <2>1. SlotsKept
    BY <1>0, <1>2, SwitchKeepsSlots
  <2>2. zombie' = zombie
    BY <1>2 DEF schedVars, EnterKernel, Preempt, YieldCpu, SpawnNoStack, Block
  <2>3. PlainStep
    BY <1>2, <2>1, <2>2 DEF PlainStep
  <2> QED
    BY <2>3 DEF Shape
<1>2a. UNCHANGED sigVars => OtherSignalsKept
  BY DEF sigVars, OtherSignalsKept
<1>2b. \A P : sig_pending' = [sig_pending EXCEPT ![current] = P] => OtherSignalsKept
  BY <1>0 DEF OtherSignalsKept
<1> USE DEF PlainPoints
<1>3. CASE syscall_entry \/ ReturnUnchanged
  BY <1>1, <1>2, <1>2a, <1>3 DEF syscall_entry, ReturnUnchanged, Return, At, PlainCaller
<1>4. CASE syscall_handler
  BY <1>1, <1>2, <1>2b, <1>4 DEF syscall_handler, GoTo, At, PlainCaller
<1>5. ASSUME PlainCaller, DieKeepingFiles PROVE Shape
  <2>1. Die(Parents(current))
    BY <1>5 DEF DieKeepingFiles, Die, PlainCaller
  <2>2. SlotsKept
    BY <1>0, <2>1, SwitchKeepsSlots
  <2>3. /\ MoveTo("dead", NoArg) /\ UNCHANGED <<fds, wait_pipe, pipeVars>>
        /\ OtherSignalsKept
    BY <1>5, <1>2a DEF DieKeepingFiles
  <2>4. PlainStep
    BY <1>1, <1>5, <2>1, <2>2, <2>3 DEF PlainStep
  <2> QED
    BY <2>4 DEF Shape
<1>6. CASE PageFault \/ sys_exit
  BY <1>5, <1>6 DEF PageFault, sys_exit, Calls, At, PlainCaller
<1>7. CASE DiesOfSignal
  <2>1. StillPending(current, sig_pending[current]) \in SUBSET Signals
    BY <1>0, StillPendingSubset
  <2> QED
    BY <1>7, <2>1 DEF DiesOfSignal, At, PlainCaller, TerminateStep, Shape
<1>8. CASE sys_yield \/ ForkNoStack
  BY <1>1, <1>2, <1>2a, <1>8 DEF sys_yield, ForkNoStack, GoTo, Return, Calls, At, PlainCaller
<1>9. CASE sys_fork \/ sys_open \/ sys_pipe \/ ParkReader \/ ParkWriter \/ raise_sigint
  BY <1>9 DEF Shape
<1>10. ASSUME NEW want \in Int, PlainCaller, WaitLoop(want) PROVE Shape
  <2>1. Children \subseteq Slots
    BY DEF Children
  <2>2. ASSUME NEW t \in Slots, reap_task(t) PROVE Shape
    BY <1>10, <2>2 DEF ReapChild, Shape
  <2>3. [pipe |-> NoPipe, n |-> want] \in Arg
    BY <1>1 DEF Arg
  <2>4. CASE Return /\ UNCHANGED <<schedVars, fds, sigVars, wait_pipe, pipeVars>>
    BY <1>1, <1>2, <1>2a, <1>10, <2>4 DEF Return
  <2>5. CASE /\ MayWait(want)
             /\ Block({}) /\ GoTo("waitpid", [pipe |-> NoPipe, n |-> want])
             /\ UNCHANGED <<fds, sigVars, wait_pipe, pipeVars>>
    BY <1>2, <1>2a, <1>10, <2>3, <2>5 DEF GoTo
  <2>6. ASSUME Children # {},
               {s \in Children : (want = AnyChild \/ pid[s] = want) /\ zombie[s]} = {}
        PROVE  MayWait(want)
    BY <2>6 DEF MayWait
  <2> QED
    BY <1>10, <2>1, <2>2, <2>4, <2>5, <2>6 DEF WaitLoop
<1>11. CASE sys_waitpid
  <2>1. WaitArgs \subseteq Int
    BY SMT DEF AnyChild
  <2> QED
    BY <1>10, <1>11, <2>1 DEF sys_waitpid, Calls, At, PlainCaller
<1>12. CASE ResumeWaitpid
  <2>1. karg[current].n \in Int
    BY <1>0 DEF Arg
  <2> QED
    BY <1>10, <1>12, <2>1 DEF ResumeWaitpid, At, PlainCaller
<1>13. CASE sys_close \/ sys_dup \/ sys_dup2
  BY <1>13 DEF sys_close, sys_dup, sys_dup2, Calls, At, PlainCaller, CloseStep, DupStep, Shape
<1>14. CASE sys_read
  <2>1. PICK f \in Fds, n \in 1 .. MaxCount : do_read(f, n)
    BY <1>14 DEF sys_read
  <2>2. PlainCaller
    BY <1>14 DEF sys_read, Calls, At, PlainCaller
  <2>3. CASE /\ fds[current][f].kind = "cin" /\ GoTo("kbd", [NoArg EXCEPT !.n = n])
             /\ UNCHANGED <<schedVars, fds, sigVars, wait_pipe, pipeVars>>
    <3>1. [NoArg EXCEPT !.n = n] \in Arg
      BY SMT, <1>1 DEF NoArg, Arg
    <3> QED
      BY <1>2, <1>2a, <2>2, <2>3, <3>1 DEF GoTo
  <2>4. CASE fds[current][f].kind = "rd" /\ pipe_read(fds[current][f].pipe, n)
    <3>1. fds[current][f] \in File /\ fds[current][f].pipe # NoPipe
      BY SMT, <1>0, <2>4 DEF ProcInv, FilesOK, CallTypeOK
    <3>2. fds[current][f].pipe \in Pipes /\ fds[current][f] = RdEnd(fds[current][f].pipe)
      BY <2>4, <3>1 DEF File, PipeOrNull, RdEnd
    <3>3. n \in Nat \ {0}
      BY SMT
    <3> QED
      BY <2>2, <2>4, <3>2, <3>3 DEF ReadStep, Shape, PlainCaller
  <2> QED
    BY <2>1, <2>3, <2>4 DEF do_read
<1>15. CASE sys_write
  <2>1. PICK f \in Fds, n \in 1 .. MaxCount : do_write(f, n)
    BY <1>15 DEF sys_write
  <2>2. UserRunning
    BY <1>15 DEF sys_write, Calls, At, PlainCaller
  <2>3. fds[current][f].kind = "wr" /\ pipe_write(fds[current][f].pipe, n)
    BY <2>1 DEF do_write
  <2>4. fds[current][f] \in File /\ fds[current][f].pipe # NoPipe
    BY SMT, <1>0, <2>3 DEF ProcInv, FilesOK, CallTypeOK
  <2>5. fds[current][f].pipe \in Pipes /\ fds[current][f] = WrEnd(fds[current][f].pipe)
    BY <2>3, <2>4 DEF File, PipeOrNull, WrEnd
  <2>6. n \in Nat \ {0}
    BY SMT
  <2> QED
    BY <2>2, <2>3, <2>5, <2>6 DEF WriteStep, Shape
<1>16. CASE ResumePipeRead
  <2>1. /\ karg[current].pipe \in Pipes /\ karg[current].n \in Nat \ {0}
        /\ \E f \in Fds : fds[current][f] = RdEnd(karg[current].pipe)
    BY SMT, <1>0, <1>16 DEF ResumePipeRead, At, ProcInv, CallsOK, ReadPoints, Arg
  <2> QED
    BY <1>16, <2>1 DEF ResumePipeRead, At, ReadStep, Shape
<1>17. CASE ResumePipeWrite
  <2>1. /\ karg[current].pipe \in Pipes /\ karg[current].n \in Nat \ {0}
        /\ \E f \in Fds : fds[current][f] = WrEnd(karg[current].pipe)
    BY SMT, <1>0, <1>17 DEF ResumePipeWrite, At, ProcInv, CallsOK, WritePoints, Arg
  <2> QED
    BY <1>17, <2>1 DEF ResumePipeWrite, At, WriteStep, Shape
<1>18. CASE kbd_getchar
  BY <1>0, <1>1, <1>2, <1>2a, <1>18 DEF kbd_getchar, At, PlainCaller, Return, GoTo
<1>19. CASE kbd_poll
  <2>1. [karg[current] EXCEPT !.n = @ - 1] \in Arg
    BY SMTT(20), <1>0 DEF Arg
  <2>2. \E x \in {"user", "kbd"}, a \in Arg : MoveTo(x, a)
    BY <1>0, <1>1, <1>19, <2>1 DEF kbd_poll, Return, GoTo
  <2> QED
    BY <1>2, <1>2a, <1>19, <2>2 DEF kbd_poll, At, PlainCaller
<1>20. CASE sys_kill
  <2>1. PICK t \in Slots \ {IdleSlot}, sig \in Signals :
          /\ state[t] # "FREE"
          /\ IF t = current THEN KillSelf(sig) ELSE KillOther(t, sig)
    BY <1>20 DEF sys_kill
  <2>2. PlainCaller
    BY <1>20 DEF sys_kill, Calls, At, PlainCaller
  <2>3. CASE t # current
    BY <2>1, <2>2, <2>3 DEF KillStep, Shape
  <2>4. CASE t = current
    <3> DEFINE pending == sig_pending[current] \cup {sig}
    <3>1. StillPending(current, pending) \in SUBSET Signals
      BY SMT, <1>0, StillPendingSubset
    <3>2. KillSelf(sig)
      BY <2>1, <2>4
    <3>3. CASE terminate_current(StillPending(current, pending))
      BY <2>2, <3>1, <3>3 DEF TerminateStep, Shape
    <3>4. CASE /\ sig_pending' = [sig_pending EXCEPT ![current] =
                                    StillPending(current, pending)]
               /\ Return /\ UNCHANGED <<schedVars, fds, sig_handler, wait_pipe, pipeVars>>
      BY <1>1, <1>2, <1>2b, <2>2, <3>4 DEF Return
    <3> QED
      BY <3>2, <3>3, <3>4 DEF KillSelf
  <2> QED
    BY <2>3, <2>4
<1>21. CASE sys_signal
  BY <1>1, <1>2, <1>21 DEF sys_signal, OtherSignalsKept, Return, Calls, At, PlainCaller
<1>22. ASSUME UNCHANGED <<fds, sig_pending, wait_pipe, kpc, karg, pipeVars>>,
              UNCHANGED schedVars \/ sched_timer_tick \/ idle_task
       PROVE  Shape
  <2>1. SlotsKept
    BY <1>0, <1>22, SwitchKeepsSlots
  <2>2. current' = current \/ current = IdleSlot
    BY <1>22 DEF schedVars, sched_timer_tick, switchVars, idle_task
  <2>3. zombie' = zombie
    BY <1>22 DEF schedVars, sched_timer_tick, idle_task
  <2> QED
    BY <1>22, <2>1, <2>2, <2>3 DEF OutsideStep, Shape
<1>23. CASE TimerInterrupt \/ IdleLoop \/ UNCHANGED vars
  BY <1>22, <1>23 DEF TimerInterrupt, IdleLoop, vars, procVars, sigVars, pipeVars
<1> QED
  BY <1>3, <1>4, <1>6, <1>7, <1>8, <1>9, <1>11, <1>12, <1>13, <1>14, <1>15, <1>16,
     <1>17, <1>18, <1>19, <1>20, <1>21, <1>23 DEF Next, KernelStep

-----------------------------------------------------------------------------
(* Type correctness.                                                       *)

\* The signal sets, the handlers and the interrupt flag keep their types.
LEMMA SignalTypes ==
  ASSUME ProcInv, [Next]_vars
  PROVE  /\ sig_pending' \in [Slots -> SUBSET Signals]
         /\ sig_handler' \in [Slots -> [Signals -> Handlers]]
         /\ iflag' \in BOOLEAN
<1>0. /\ sig_pending \in [Slots -> SUBSET Signals]
      /\ sig_handler \in [Slots -> [Signals -> Handlers]]
      /\ iflag \in BOOLEAN /\ current \in Slots
  BY DEF ProcInv, SchedInv, CallTypeOK, SchedTypeOK
<1>1. \A t, pending : StillPending(t, pending) \subseteq pending
  BY StillPendingSubset
<1>2. /\ "DFL" \in Handlers
      /\ [s \in Signals |-> "DFL"] \in [Signals -> Handlers]
  BY DEF Handlers
<1>3. ASSUME sig_handler' = sig_handler, iflag' \in BOOLEAN,
             \E P \in SUBSET Signals, t \in Slots :
               sig_pending' = [sig_pending EXCEPT ![t] = P]
      PROVE  /\ sig_pending' \in [Slots -> SUBSET Signals]
             /\ sig_handler' \in [Slots -> [Signals -> Handlers]]
             /\ iflag' \in BOOLEAN
  BY SMT, <1>0, <1>3
<1>4. ASSUME NEW pending \in SUBSET Signals, terminate_current(pending)
      PROVE  /\ sig_pending' \in [Slots -> SUBSET Signals]
             /\ sig_handler' \in [Slots -> [Signals -> Handlers]]
             /\ iflag' \in BOOLEAN
  BY <1>0, <1>3, <1>4 DEF terminate_current, GoTo
<1>5. ASSUME UNCHANGED sigVars, iflag' \in BOOLEAN
      PROVE  /\ sig_pending' \in [Slots -> SUBSET Signals]
             /\ sig_handler' \in [Slots -> [Signals -> Handlers]]
             /\ iflag' \in BOOLEAN
  BY <1>0, <1>5 DEF sigVars
<1>6. CASE DiesOfSignal
  BY <1>0, <1>1, <1>4, <1>6 DEF DiesOfSignal
<1>7. CASE syscall_handler
  BY <1>0, <1>1, <1>3, <1>7 DEF syscall_handler, GoTo
<1>8. CASE \/ syscall_entry \/ ReturnUnchanged \/ sys_yield \/ sys_exit \/ PageFault
           \/ ForkNoStack \/ sys_open \/ sys_pipe \/ ParkReader \/ ParkWriter
  BY <1>0, <1>5, <1>8
     DEF syscall_entry, ReturnUnchanged, sys_yield, sys_exit, PageFault, DieKeepingFiles,
         ForkNoStack, sys_open, sys_pipe, ParkReader, ParkWriter, ParkOn, GoTo, Return
<1>9. ASSUME NEW t \in Slots, iflag' \in BOOLEAN,
             sig_pending' = [sig_pending EXCEPT ![t] = {}],
             sig_handler' = [sig_handler EXCEPT ![t] = [s \in Signals |-> "DFL"]]
      PROVE  /\ sig_pending' \in [Slots -> SUBSET Signals]
             /\ sig_handler' \in [Slots -> [Signals -> Handlers]]
             /\ iflag' \in BOOLEAN
  BY <1>0, <1>2, <1>9
<1>10. CASE sys_fork
  BY <1>9, <1>10 DEF sys_fork
<1>11. CASE sys_waitpid \/ ResumeWaitpid
  <2>1. PICK want : WaitLoop(want)
    BY <1>11 DEF sys_waitpid, ResumeWaitpid
  <2>2. ASSUME NEW t \in Slots, reap_task(t)
        PROVE  /\ sig_pending' \in [Slots -> SUBSET Signals]
               /\ sig_handler' \in [Slots -> [Signals -> Handlers]]
               /\ iflag' \in BOOLEAN
    BY <1>9, <2>2 DEF reap_task
  <2>3. Children \subseteq Slots
    BY DEF Children
  <2> QED
    BY <1>0, <1>5, <2>1, <2>2, <2>3 DEF WaitLoop, Return, GoTo
<1>12. CASE sys_close \/ sys_dup \/ sys_dup2
  BY <1>5, <1>12 DEF sys_close, sys_dup, sys_dup2, do_close, do_dup2, ReplaceFd, Return
<1>13. ASSUME NEW p, NEW n, pipe_read(p, n) \/ pipe_write(p, n)
       PROVE  UNCHANGED sigVars /\ iflag' \in BOOLEAN
  BY <1>0, <1>13 DEF pipe_read, pipe_write, PipeGivesUp, GoPark, GoTo, Return
<1>14. CASE sys_read \/ sys_write \/ ResumePipeRead \/ ResumePipeWrite
  BY <1>0, <1>5, <1>13, <1>14
     DEF sys_read, sys_write, ResumePipeRead, ResumePipeWrite, do_read, do_write, GoTo
<1>15. CASE kbd_getchar \/ kbd_poll
  BY <1>0, <1>5, <1>15 DEF kbd_getchar, kbd_poll, GoTo, Return
<1>16. CASE sys_kill
  <2>1. PICK t \in Slots \ {IdleSlot}, sig \in Signals :
          IF t = current THEN KillSelf(sig) ELSE KillOther(t, sig)
    BY <1>16 DEF sys_kill
  <2>2. CASE t # current
    <3>1. sig_pending[t] \cup {sig} \in SUBSET Signals
      BY <1>0
    <3>2. /\ sig_pending' = [sig_pending EXCEPT ![t] = sig_pending[t] \cup {sig}]
          /\ sig_handler' = sig_handler /\ iflag' = TRUE
      BY <2>1, <2>2 DEF KillOther, Return
    <3> QED
      BY <1>3, <3>1, <3>2
  <2>3. CASE t = current
    <3>1. StillPending(current, sig_pending[current] \cup {sig}) \in SUBSET Signals
      BY SMT, <1>0, <1>1
    <3> QED
      BY <1>0, <1>3, <1>4, <2>1, <2>3, <3>1 DEF KillSelf, Return
  <2> QED
    BY <2>2, <2>3
<1>17. CASE sys_signal
  BY SMT, <1>0, <1>17 DEF sys_signal, Return
<1>18. CASE raise_sigint
  <2>1. SIGINT \in Signals
    BY <1>18 DEF raise_sigint
  <2>2. PICK G :
          sig_pending' = [s \in Slots |-> IF s \in G THEN sig_pending[s] \cup {SIGINT}
                                          ELSE sig_pending[s]]
    BY <1>18 DEF raise_sigint
  <2>3. sig_pending' \in [Slots -> SUBSET Signals]
    BY <1>0, <2>1, <2>2
  <2> QED
    BY <1>0, <1>18, <2>3 DEF raise_sigint
<1>19. CASE TimerInterrupt \/ IdleLoop \/ UNCHANGED vars
  BY <1>0, <1>5, <1>19 DEF TimerInterrupt, IdleLoop, vars, procVars, sigVars
<1> QED
  BY <1>6, <1>7, <1>8, <1>10, <1>11, <1>12, <1>14, <1>15, <1>16, <1>17, <1>18, <1>19
     DEF Next, KernelStep

\* Dropping and taking references keeps the types of the pipes.
LEMMA UnrefTypes ==
  ASSUME CallTypeOK, NEW lost, NEW gained, pipe_unref(lost, gained)
  PROVE  livePipes' \subseteq Pipes /\ plen' \in [Pipes -> 0 .. PIPE_BUF]
<1>1. livePipes \subseteq Pipes /\ plen \in [Pipes -> 0 .. PIPE_BUF]
  BY DEF CallTypeOK
<1>2. PICK freed : /\ livePipes' = livePipes \ freed
                   /\ plen' = [p \in Pipes |-> IF p \in freed THEN 0 ELSE plen[p]]
  BY DEF pipe_unref
<1> QED
  BY SMT, <1>1, <1>2

\* Moving the running task on keeps the types of kpc and karg.
LEMMA MoveTypes ==
  ASSUME CallTypeOK, NEW x \in KernelPoints, NEW a \in Arg, MoveTo(x, a)
  PROVE  kpc' \in [Slots -> KernelPoints] /\ karg' \in [Slots -> Arg]
<1>1. kpc \in [Slots -> KernelPoints] /\ karg \in [Slots -> Arg]
  BY DEF CallTypeOK
<1> QED
  BY <1>1 DEF MoveTo

\* So does the return of a call.
LEMMA ReturnTypes ==
  ASSUME CallTypeOK, Return
  PROVE  kpc' \in [Slots -> KernelPoints] /\ karg' \in [Slots -> Arg]
<1>1. "user" \in KernelPoints /\ NoArg \in Arg
  BY SMT DEF KernelPoints, NoArg, Arg, PipeOrNull
<1> QED
  BY <1>1, MoveTypes DEF Return

\* The running task's table after a store to one descriptor.
LEMMA StoreFd ==
  ASSUME CallTypeOK, current \in Slots, NEW f \in Fds, NEW file \in File,
         fds' = [fds EXCEPT ![current][f] = file]
  PROVE  /\ fds' \in [Slots -> [Fds -> File]]
         /\ \A s \in Slots, g \in Fds :
              fds'[s][g] = IF s = current /\ g = f THEN file ELSE fds[s][g]
         /\ \A s \in Slots \ {current} : fds'[s] = fds[s]
<1>1. fds \in [Slots -> [Fds -> File]]
  BY DEF CallTypeOK
<1>2. fds' = [fds EXCEPT ![current] = [fds[current] EXCEPT ![f] = file]]
  OBVIOUS
<1>3. /\ [fds[current] EXCEPT ![f] = file] \in [Fds -> File]
      /\ \A g \in Fds : [fds[current] EXCEPT ![f] = file][g] = IF g = f THEN file
                                                               ELSE fds[current][g]
  BY <1>1
<1> QED
  BY SMT, <1>1, <1>2, <1>3

\* Waking tasks parked on pipes keeps the type of wait_pipe.
LEMMA UnwaitTypes ==
  ASSUME CallTypeOK, NEW W
  PROVE  /\ Unwait(W) \in [Slots -> PipeOrNull]
         /\ StopWaiting(W) \in [Slots -> PipeOrNull]
BY DEF CallTypeOK, Unwait, StopWaiting, PipeOrNull

\* The descriptors, pipes and positions keep their types in every step.
LEMMA ShapeTypes ==
  ASSUME ProcInv, Shape
  PROVE  /\ fds' \in [Slots -> [Fds -> File]]
         /\ wait_pipe' \in [Slots -> PipeOrNull]
         /\ kpc' \in [Slots -> KernelPoints] /\ karg' \in [Slots -> Arg]
         /\ livePipes' \subseteq Pipes
         /\ plen' \in [Pipes -> 0 .. PIPE_BUF]
<1> DEFINE FilesT == fds' \in [Slots -> [Fds -> File]]
           WaitT == wait_pipe' \in [Slots -> PipeOrNull]
           PointT == kpc' \in [Slots -> KernelPoints] /\ karg' \in [Slots -> Arg]
           PipesT == /\ livePipes' \subseteq Pipes
                                 /\ plen' \in [Pipes -> 0 .. PIPE_BUF]
<1> SUFFICES FilesT /\ WaitT /\ PointT /\ PipesT
  OBVIOUS
<1>0. /\ CallTypeOK /\ current \in Slots /\ fds \in [Slots -> [Fds -> File]]
      /\ wait_pipe \in [Slots -> PipeOrNull]
      /\ kpc \in [Slots -> KernelPoints] /\ karg \in [Slots -> Arg]
      /\ livePipes \subseteq Pipes
      /\ plen \in [Pipes -> 0 .. PIPE_BUF]
  BY DEF ProcInv, SchedInv, CallTypeOK, SchedTypeOK, Arg
<1>1. /\ NoFile \in File /\ NodeFile \in File /\ NoFiles \in [Fds -> File]
      /\ \A p \in Pipes : RdEnd(p) \in File /\ WrEnd(p) \in File
      /\ NoPipe \in PipeOrNull /\ NoArg \in Arg /\ "user" \in KernelPoints
  BY SMT DEF NoFile, NodeFile, NoFiles, RdEnd, WrEnd, File, PipeOrNull, NoArg, Arg, KernelPoints
<1>2. CASE PlainStep
  <2>1. PointT
    BY SMT, <1>0, <1>2, MoveTypes DEF PlainStep, PlainPoints, KernelPoints
  <2> QED
    BY <1>0, <1>2, <2>1 DEF PlainStep, pipeVars
<1>3. CASE OutsideStep
  BY <1>0, <1>3 DEF OutsideStep, pipeVars
<1>4. CASE TerminateStep
  <2>1. PICK pending : terminate_current(pending)
    BY <1>4 DEF TerminateStep
  <2>2. PipesT
    BY <1>0, <2>1, UnrefTypes DEF terminate_current
  <2>3. FilesT
    BY <1>0, <1>1, <2>1 DEF terminate_current
  <2>4. WaitT
    BY <1>0, <2>1, UnwaitTypes DEF terminate_current
  <2>5. MoveTo("dead", NoArg)
    BY <2>1 DEF terminate_current, GoTo
  <2>6. PointT
    BY <1>0, <1>1, <2>5, MoveTypes DEF KernelPoints
  <2> QED
    BY <2>2, <2>3, <2>4, <2>6
<1>5. CASE sys_fork
  <2>1. PICK t \in Slots :
          /\ fds' = [fds EXCEPT ![t] = fds[current]]
          /\ wait_pipe' = [wait_pipe EXCEPT ![t] = NoPipe]
          /\ kpc' = [kpc EXCEPT ![t] = "user", ![current] = "user"]
          /\ karg' = [karg EXCEPT ![t] = NoArg, ![current] = NoArg]
    BY <1>5 DEF sys_fork
  <2>2. PipesT
    BY <1>0, <1>5 DEF sys_fork, pipe_ref
  <2>3. FilesT /\ WaitT
    BY <1>0, <1>1, <2>1
  <2>4. PointT
    BY <1>0, <1>1, <2>1
  <2> QED
    BY <2>2, <2>3, <2>4
<1>6. CASE ReapChild
  <2>1. PICK t \in Slots : reap_task(t)
    BY <1>6 DEF ReapChild
  <2>2. PipesT
    BY <1>0, <2>1, UnrefTypes DEF reap_task
  <2>3. FilesT
    BY <1>0, <1>1, <2>1 DEF reap_task
  <2>4. WaitT
    BY <1>0, <2>1, UnwaitTypes DEF reap_task
  <2>5. PointT
    BY <1>0, <1>1, <2>1 DEF reap_task
  <2> QED
    BY <2>2, <2>3, <2>4, <2>5
<1>7. CASE sys_open
  <2>1. FilesT
    BY <1>0, <1>1, <1>7, StoreFd DEF sys_open
  <2>2. PointT
    BY <1>0, <1>7, ReturnTypes DEF sys_open
  <2> QED
    BY <1>0, <1>7, <2>1, <2>2 DEF sys_open, pipeVars
<1>8. ASSUME NEW f \in Fds, NEW file \in File, ReplaceFd(f, file), Return
      PROVE  FilesT /\ WaitT /\ PointT /\ PipesT
  <2>1. FilesT
    BY <1>0, <1>8, StoreFd DEF ReplaceFd
  <2>2. WaitT
    BY <1>0, <1>8, UnwaitTypes DEF ReplaceFd
  <2>3. PointT
    BY <1>0, <1>8, ReturnTypes
  <2>4. PipesT
    BY <1>0, <1>8, UnrefTypes DEF ReplaceFd
  <2> QED
    BY <2>1, <2>2, <2>3, <2>4
<1>9. CASE CloseStep
  BY <1>1, <1>8, <1>9 DEF CloseStep, do_close
<1>10. CASE DupStep
  <2>1. PICK old \in Fds, new \in Fds : ReplaceFd(new, fds[current][old]) /\ Return
    BY <1>10 DEF DupStep, do_dup2
  <2>2. fds[current][old] \in File
    BY SMT, <1>0
  <2> QED
    BY <1>8, <2>1, <2>2
<1>11. CASE sys_pipe
  <2>1. PICK p \in Pipes \ livePipes, rd \in Fds, wr \in Fds :
          /\ fds' = [fds EXCEPT ![current][rd] = RdEnd(p), ![current][wr] = WrEnd(p)]
          /\ livePipes' = livePipes \cup {p}
          /\ readers' = [readers EXCEPT ![p] = 1]
          /\ writers' = [writers EXCEPT ![p] = 1]
          /\ plen' = [plen EXCEPT ![p] = 0]
    BY <1>11 DEF sys_pipe
  <2>2. FilesT
    BY <1>0, <1>1, <2>1
  <2>3. PipesT
    BY SMT, <1>0, <2>1
  <2>4. PointT /\ WaitT
    BY <1>0, <1>11, ReturnTypes DEF sys_pipe
  <2> QED
    BY <2>2, <2>3, <2>4
<1>12. ASSUME NEW p \in Pipes, NEW n \in Nat \ {0}, NEW x \in KernelPoints,
              PipeGivesUp \/ GoPark(p, x, n)
       PROVE  WaitT /\ PointT /\ PipesT
  <2>1. [pipe |-> p, n |-> n] \in Arg
    BY SMT DEF Arg, PipeOrNull
  <2>2. PointT
    BY <1>0, <1>12, <2>1, ReturnTypes, MoveTypes DEF PipeGivesUp, GoPark, GoTo
  <2>3. WaitT
    BY SMT, <1>0, <1>12, UnwaitTypes DEF PipeGivesUp, GoPark
  <2> QED
    BY <1>0, <1>12, <2>2, <2>3 DEF PipeGivesUp, GoPark, pipeVars
<1>13. CASE ReadStep
  <2>1. PICK p \in Pipes, n \in Nat \ {0} : pipe_read(p, n)
    BY <1>13 DEF ReadStep
  <2>2. FilesT
    BY <1>0, <2>1 DEF pipe_read
  <2>3. CASE PipeGivesUp \/ GoPark(p, "rpark", n)
    BY <1>12, <2>2, <2>3 DEF KernelPoints
  <2>4. CASE /\ plen[p] > 0
             /\ plen' = [plen EXCEPT ![p] = IF n < @ THEN @ - n ELSE 0]
             /\ wait_pipe' = StopWaiting(PipeWaiters(state, {p}))
             /\ Return
             /\ UNCHANGED <<livePipes, readers, writers>>
    <3>1. PipesT
      BY SMT, <1>0, <2>4
    <3>2. WaitT
      BY <1>0, <2>4, UnwaitTypes
    <3>3. PointT
      BY <1>0, <2>4, ReturnTypes
    <3> QED
      BY <2>2, <3>1, <3>2, <3>3
  <2> QED
    BY <2>1, <2>3, <2>4 DEF pipe_read
<1>14. CASE WriteStep
  <2>1. PICK p \in Pipes, n \in Nat \ {0} : pipe_write(p, n)
    BY <1>14 DEF WriteStep
  <2>2. FilesT
    BY <1>0, <2>1 DEF pipe_write
  <2>3. CASE PipeGivesUp \/ GoPark(p, "wpark", n)
    BY <1>12, <2>2, <2>3 DEF KernelPoints
  <2>4. CASE /\ Room(p) > 0
             /\ plen' = [plen EXCEPT ![p] = @ + IF n < Room(p) THEN n ELSE Room(p)]
             /\ wait_pipe' = StopWaiting(PipeWaiters(state, {p}))
             /\ IF n <= Room(p) THEN Return
                ELSE GoTo("pwrite", [pipe |-> p, n |-> n - Room(p)])
             /\ UNCHANGED <<livePipes, readers, writers>>
    <3>1. PipesT
      BY SMT, <1>0, <2>4 DEF Room
    <3>2. WaitT
      BY <1>0, <2>4, UnwaitTypes
    <3>3. [pipe |-> p, n |-> n - Room(p)] \in Arg
      BY SMT, <1>0 DEF Arg, PipeOrNull, Room
    <3>4. PointT
      BY <1>0, <2>4, <3>3, ReturnTypes, MoveTypes DEF GoTo, KernelPoints
    <3> QED
      BY <2>2, <3>1, <3>2, <3>4
  <2> QED
    BY <2>1, <2>3, <2>4 DEF pipe_write
<1>15. CASE ParkReader \/ ParkWriter
  <2>1. PICK from \in {"rpark", "wpark"}, to \in {"pread", "pwrite"} : ParkOn(from, to)
    BY <1>15 DEF ParkReader, ParkWriter
  <2>2. karg[current] \in Arg /\ karg[current].pipe \in PipeOrNull
    BY <1>0 DEF Arg
  <2>3. WaitT
    BY <1>0, <2>1, <2>2 DEF ParkOn
  <2>4. PointT
    BY SMT, <1>0, <2>1, <2>2, MoveTypes DEF ParkOn, GoTo, KernelPoints
  <2> QED
    BY <1>0, <2>1, <2>3, <2>4 DEF ParkOn, pipeVars
<1>16. CASE KillStep
  <2>1. PICK t \in Slots, sig \in Signals : KillOther(t, sig)
    BY <1>16 DEF KillStep
  <2>2. FilesT /\ PipesT
    BY <1>0, <2>1 DEF KillOther, pipeVars
  <2>3. WaitT
    BY <1>0, <2>1, UnwaitTypes DEF KillOther
  <2>4. PointT
    BY <1>0, <2>1, ReturnTypes DEF KillOther
  <2> QED
    BY <2>2, <2>3, <2>4
<1>17. CASE raise_sigint
  <2>1. \E W : wait_pipe' = Unwait(W)
    BY <1>17 DEF raise_sigint
  <2>2. WaitT
    BY SMT, <1>0, <2>1, UnwaitTypes
  <2> QED
    BY <1>0, <1>17, <2>2 DEF raise_sigint, pipeVars
<1> HIDE DEF FilesT, WaitT, PointT, PipesT
<1> QED
  BY <1>2, <1>3, <1>4, <1>5, <1>6, <1>7, <1>9, <1>10, <1>11, <1>13, <1>14, <1>15,
     <1>16, <1>17 DEF Shape

-----------------------------------------------------------------------------
(* The positions of the tasks.                                             *)

\* A parked zombie stays a parked zombie until it is reaped.
LEMMA ZombieParks ==
  ASSUME SchedInv, [SchedNext]_schedVars, NEW s \in Slots,
         state[s] = "BLOCKED", zombie[s], state'[s] # "FREE"
  PROVE  state'[s] = "BLOCKED" /\ zombie'[s]
<1>0. zombie \in [Slots -> BOOLEAN] /\ state \in [Slots -> TaskState]
  BY DEF SchedInv, SchedTypeOK
<1>1. CASE UNCHANGED schedVars
  BY <1>1 DEF schedVars
<1>2. CASE SchedNext
  <2>0. \A t \in Slots : [zombie EXCEPT ![t] = TRUE][s]
    BY <1>0
  <2>1. state'[s] = "BLOCKED"
    BY <1>2, ZombieStep
  <2> SUFFICES zombie'[s]
    BY <2>1
  <2>2. CASE \E t \in Slots, W \in SUBSET Slots : KillParked(t, W) \/ Reap(t, W)
    <3>1. PICK t \in Slots, W \in SUBSET Slots : KillParked(t, W) \/ Reap(t, W)
      BY <2>2
    <3>2. CASE KillParked(t, W)
      BY <2>0, <3>2 DEF KillParked
    <3>3. CASE Reap(t, W)
      <4>1. state'[t] = "FREE"
        BY <1>0, <3>3 DEF Reap, sched_wake
      <4>2. s # t
        BY <4>1
      <4>3. zombie' = [zombie EXCEPT ![t] = FALSE]
        BY <3>3 DEF Reap
      <4> QED
        BY <1>0, <4>2, <4>3
    <3> QED
      BY <3>1, <3>2, <3>3
  <2>3. CASE \E W \in SUBSET Slots : Block(W) \/ Die(W) \/ Wake(W)
    <3>1. current \in Slots
      BY DEF SchedInv, SchedTypeOK
    <3>2. zombie' = zombie \/ zombie' = [zombie EXCEPT ![current] = TRUE]
      BY <2>3 DEF Block, Die, Wake
    <3> QED
      BY <2>0, <3>1, <3>2
  <2>4. CASE Spawn
    <3>1. PICK t \in Slots : state[t] = "FREE" /\ zombie' = [zombie EXCEPT ![t] = FALSE]
      BY <2>4 DEF Spawn, sched_spawn_user_task, alloc_slot
    <3> QED
      BY <1>0, <3>1
  <2>5. CASE \/ EnterKernel \/ Preempt \/ SpawnNoStack \/ YieldCpu
             \/ sched_timer_tick \/ idle_task
    BY <2>5 DEF EnterKernel, Preempt, SpawnNoStack, YieldCpu, sched_timer_tick, idle_task
  <2> QED
    BY <1>2, <2>2, <2>3, <2>4, <2>5 DEF SchedNext
<1> QED
  BY <1>1, <1>2

\* Only fork takes a slot of the table and only reaping frees one.
LEMMA ShapeSlots ==
  ASSUME SchedInv, Shape
  PROVE  SlotsKept \/ sys_fork \/ ReapChild
<1>0. zombie \in [Slots -> BOOLEAN] /\ state \in [Slots -> TaskState]
  BY DEF SchedInv, SchedTypeOK
<1>1. CASE PlainStep \/ OutsideStep
  BY <1>1 DEF PlainStep, OutsideStep
<1>2. CASE TerminateStep
  <2>1. \E W : Die(W)
    BY <1>2, TerminateDies DEF PlainCaller, TerminateStep
  <2> QED
    BY <2>1, SwitchKeepsSlots
<1>3. CASE ParkReader \/ ParkWriter
  BY <1>3, SwitchKeepsSlots DEF ParkReader, ParkWriter, ParkOn
<1>4. ASSUME NEW W, Wake(W) PROVE SlotsKept
  BY <1>4 DEF Wake, sched_wake, SlotsKept
<1>5. CASE CloseStep \/ DupStep
  BY <1>4, <1>5 DEF CloseStep, DupStep, do_close, do_dup2, ReplaceFd
<1>6. CASE raise_sigint
  BY <1>4, <1>6 DEF raise_sigint
<1>7. ASSUME UNCHANGED schedVars PROVE SlotsKept
  BY <1>7 DEF schedVars, SlotsKept
<1>8. CASE sys_open \/ sys_pipe
  BY <1>7, <1>8 DEF sys_open, sys_pipe
<1>9. CASE ReadStep \/ WriteStep
  BY <1>4, <1>7, <1>9 DEF ReadStep, WriteStep, pipe_read, pipe_write, PipeGivesUp, GoPark
<1>10. CASE KillStep
  <2>1. PICK z, V, W : state' = sched_wake(sched_wake(state, z, V), z, W)
    BY SMT, <1>10 DEF KillStep, KillOther
  <2> QED
    BY <2>1 DEF sched_wake, SlotsKept
<1> QED
  BY <1>1, <1>2, <1>3, <1>5, <1>6, <1>8, <1>9, <1>10 DEF Shape

\* What a step of another task leaves of a task's call: everything, but it
\* may be woken from a pipe.
Untouched(s) ==
  /\ kpc'[s] = kpc[s] /\ karg'[s] = karg[s] /\ fds'[s] = fds[s]
  /\ wait_pipe'[s] \in {NoPipe, wait_pipe[s]}
  /\ state'[s] = "FREE" <=> state[s] = "FREE"

\* The slot of a child that was spawned or reaped.
Fresh(s) ==
  /\ s # IdleSlot
  /\ kpc'[s] = "user" /\ wait_pipe'[s] = NoPipe
  /\ fds'[s] \in {NoFiles, fds[current]}
  /\ state'[s] = "FREE" => fds'[s] = NoFiles

\* The position of the running task and of the others after a move.
LEMMA MoveFacts ==
  ASSUME CallTypeOK, current \in Slots, NEW x, NEW a, MoveTo(x, a)
  PROVE  /\ kpc'[current] = x /\ karg'[current] = a
         /\ \A s \in Slots \ {current} : kpc'[s] = kpc[s] /\ karg'[s] = karg[s]
BY DEF CallTypeOK, MoveTo

\* A wake-up clears wait_pipe or leaves it.
LEMMA UnwaitFacts ==
  ASSUME NEW W, NEW s \in Slots
  PROVE  /\ Unwait(W)[s] = IF s \in W THEN NoPipe ELSE wait_pipe[s]
         /\ StopWaiting(W)[s] = IF s \in W \cup {current} THEN NoPipe ELSE wait_pipe[s]
BY DEF Unwait, StopWaiting

\* A task's position, descriptors and call change only in its own steps, and
\* when it is spawned or reaped.
LEMMA OthersUntouched ==
  ASSUME ProcInv, Shape, NEW s \in Slots \ {current}
  PROVE  Untouched(s) \/ Fresh(s)
<1> DEFINE Call == kpc'[s] = kpc[s] /\ karg'[s] = karg[s]
           Files == fds'[s] = fds[s]
           Wait == wait_pipe'[s] \in {NoPipe, wait_pipe[s]}
<1>0. /\ SchedInv /\ CallTypeOK /\ current \in Slots
      /\ kpc \in [Slots -> KernelPoints] /\ karg \in [Slots -> Arg]
      /\ fds \in [Slots -> [Fds -> File]] /\ wait_pipe \in [Slots -> PipeOrNull]
      /\ state \in [Slots -> TaskState] /\ zombie \in [Slots -> BOOLEAN]
  BY DEF ProcInv, SchedInv, CallTypeOK, SchedTypeOK
<1>1. ASSUME SlotsKept, Call, Files, Wait PROVE Untouched(s)
  BY <1>1 DEF SlotsKept, Untouched
<1>2. ASSUME NEW x, NEW a, MoveTo(x, a) PROVE Call
  BY <1>0, <1>2, MoveFacts
<1>3. ASSUME Return PROVE Call
  BY <1>2, <1>3 DEF Return
<1>4. ASSUME NEW W, wait_pipe' = Unwait(W) \/ wait_pipe' = StopWaiting(W) PROVE Wait
  BY SMT, <1>4, UnwaitFacts
<1>5. CASE sys_fork
  <2>1. PICK t \in Slots :
          /\ sched_spawn_user_task(t, pid[current])
          /\ fds' = [fds EXCEPT ![t] = fds[current]]
          /\ wait_pipe' = [wait_pipe EXCEPT ![t] = NoPipe]
          /\ kpc' = [kpc EXCEPT ![t] = "user", ![current] = "user"]
          /\ karg' = [karg EXCEPT ![t] = NoArg, ![current] = NoArg]
    BY <1>5 DEF sys_fork
  <2>2. state' = [state EXCEPT ![t] = "READY"]
    BY <2>1 DEF sched_spawn_user_task
  <2>3. CASE s = t
    <3>1. s # IdleSlot
      BY <1>0, <2>1, <2>3
         DEF sched_spawn_user_task, alloc_slot, SchedInv, SingleRunner, Runnable
    <3> QED
      BY <1>0, <2>1, <2>2, <2>3, <3>1 DEF Fresh
  <2>4. CASE s # t
    BY <1>0, <2>1, <2>2, <2>4 DEF Untouched
  <2> QED
    BY <2>3, <2>4
<1>6. CASE ReapChild
  <2>1. PICK t \in Slots : reap_task(t)
    BY <1>6 DEF ReapChild
  <2>2. PICK W \in SUBSET Slots :
          /\ state' = sched_wake([state EXCEPT ![t] = "FREE"], zombie, W)
          /\ wait_pipe' = Unwait(W \cup {t})
          /\ t # IdleSlot
    BY <2>1 DEF reap_task, Reap, PipeWaiters
  <2>3. /\ fds' = [fds EXCEPT ![t] = NoFiles]
        /\ kpc' = [kpc EXCEPT ![t] = "user", ![current] = "user"]
        /\ karg' = [karg EXCEPT ![t] = NoArg, ![current] = NoArg]
    BY <2>1 DEF reap_task
  <2>4. CASE s = t
    BY SMTT(20), <1>0, <2>2, <2>3, <2>4, UnwaitFacts DEF Fresh
  <2>5. CASE s # t
    <3>1. state'[s] = "FREE" <=> state[s] = "FREE"
      BY <1>0, <2>2, <2>5 DEF sched_wake
    <3>2. Wait
      BY <1>4, <2>2
    <3> QED
      BY <1>0, <2>3, <2>5, <3>1, <3>2 DEF Untouched
  <2> QED
    BY <2>4, <2>5
<1>7. ASSUME SlotsKept, ~sys_fork, ~ReapChild PROVE Untouched(s)
  <2> SUFFICES Call /\ Files /\ Wait
    BY <1>1, <1>7
  <2>1. CASE PlainStep \/ OutsideStep
    BY <1>2, <2>1 DEF PlainStep, OutsideStep
  <2>2. CASE TerminateStep
    BY <1>0, <1>2, <1>4, <2>2 DEF TerminateStep, terminate_current, GoTo
  <2>3. CASE sys_open
    BY <1>0, <1>3, <2>3 DEF sys_open
  <2>4. CASE CloseStep \/ DupStep
    BY <1>0, <1>3, <1>4, <2>4 DEF CloseStep, DupStep, do_close, do_dup2, ReplaceFd
  <2>5. CASE sys_pipe
    BY <1>0, <1>3, <2>5 DEF sys_pipe
  <2>6. CASE ReadStep
    BY <1>2, <1>3, <1>4, <2>6 DEF ReadStep, pipe_read, PipeGivesUp, GoPark, GoTo
  <2>7. CASE WriteStep
    BY <1>2, <1>3, <1>4, <2>7 DEF WriteStep, pipe_write, PipeGivesUp, GoPark, GoTo
  <2>8. CASE ParkReader \/ ParkWriter
    BY <1>0, <1>2, <2>8 DEF ParkReader, ParkWriter, ParkOn, GoTo
  <2>9. CASE KillStep
    BY <1>3, <1>4, <2>9 DEF KillStep, KillOther
  <2>10. CASE raise_sigint
    BY <1>4, <2>10 DEF raise_sigint
  <2> QED
    BY <2>1, <2>2, <2>3, <2>4, <2>5, <2>6, <2>7, <2>8, <2>9, <2>10, <1>7
       DEF Shape
<1> QED
  BY <1>0, <1>5, <1>6, <1>7, ShapeSlots

\* The running task's slot is neither spawned into nor reaped.
LEMMA CurrentKept ==
  ASSUME SchedInv, Shape
  PROVE  state'[current] # "FREE"
<1>0. /\ state \in [Slots -> TaskState] /\ zombie \in [Slots -> BOOLEAN]
      /\ pid \in [Slots -> Nat] /\ parent_pid \in [Slots -> Nat]
      /\ current \in Slots /\ state[current] = "RUNNING"
  BY DEF SchedInv, SchedTypeOK, SingleRunner
<1>1. CASE SlotsKept
  BY <1>0, <1>1 DEF SlotsKept
<1>2. CASE sys_fork
  BY <1>0, <1>2 DEF sys_fork, sched_spawn_user_task, alloc_slot
<1>3. CASE ReapChild
  <2>1. PICK t \in Slots, W \in SUBSET Slots : Reap(t, W)
    BY <1>3 DEF ReapChild, reap_task, PipeWaiters
  <2>2. t # current
    BY SMT, <1>0, <2>1 DEF Reap, SchedInv, UniquePids
  <2> QED
    BY <1>0, <2>1, <2>2 DEF Reap, sched_wake
<1> QED
  BY <1>1, <1>2, <1>3, ShapeSlots

\* Where the running task is after its step: it dies for good, and between
\* sig_abort and TASK_BLOCKED it does not give up the CPU.
LEMMA CurrentPoint ==
  ASSUME ProcInv, Shape
  PROVE  /\ kpc'[current] = "dead" => zombie'[current] /\ state'[current] = "BLOCKED"
         /\ kpc'[current] \in {"rpark", "wpark"} => current' = current
         /\ current = IdleSlot => kpc'[current] = "idle"
<1>0. /\ SchedInv /\ CallTypeOK /\ current \in Slots /\ state[current] = "RUNNING"
      /\ zombie \in [Slots -> BOOLEAN] /\ kpc \in [Slots -> KernelPoints]
  BY DEF ProcInv, SchedInv, SchedTypeOK, SingleRunner, CallTypeOK
<1>1. kpc[current] # "dead" /\ kpc[IdleSlot] = "idle"
  BY <1>0 DEF ProcInv, PointsOK
<1>2. ASSUME NEW x, NEW a, MoveTo(x, a) PROVE kpc'[current] = x
  BY <1>0, <1>2, MoveFacts
<1>3. ASSUME Return PROVE kpc'[current] = "user"
  BY <1>2, <1>3 DEF Return
<1>4. CASE PlainStep
  <2>1. PICK x \in PlainPoints, a \in Arg :
          MoveTo(x, a) /\ IF x = "dead" THEN Die(Parents(current)) ELSE zombie' = zombie
    BY <1>4 DEF PlainStep
  <2>2. kpc'[current] = x /\ UserRunning
    BY <1>2, <1>4, <2>1 DEF PlainStep, PlainCaller
  <2>3. x = "dead" => /\ zombie' = [zombie EXCEPT ![current] = TRUE]
                      /\ state'[current] = "BLOCKED"
    BY <1>0, <2>1, DieFacts
  <2> QED
    BY <1>0, <2>2, <2>3 DEF PlainPoints
<1>5. CASE OutsideStep
  BY <1>1, <1>5 DEF OutsideStep
<1>6. CASE TerminateStep
  <2>1. PICK pending : terminate_current(pending) /\ UserRunning
    BY <1>6 DEF PlainCaller, TerminateStep
  <2>2. PICK W : Die(W)
    BY <2>1, TerminateDies
  <2>3. zombie' = [zombie EXCEPT ![current] = TRUE] /\ state'[current] = "BLOCKED"
    BY <1>0, <2>2, DieFacts
  <2>4. kpc'[current] = "dead"
    BY <1>2, <2>1 DEF terminate_current, GoTo
  <2> QED
    BY <1>0, <2>1, <2>3, <2>4
<1>7. CASE sys_fork \/ ReapChild
  <2>1. kpc'[current] = "user" /\ UserRunning
    BY <1>0, <1>7 DEF PlainCaller, sys_fork, ReapChild, reap_task, Calls, At
  <2> QED
    BY <2>1
<1>8. CASE sys_open \/ CloseStep \/ DupStep \/ sys_pipe \/ KillStep
  <2>1. Return /\ UserRunning
    BY <1>8 DEF PlainCaller, sys_open, CloseStep, DupStep, sys_pipe, KillStep, do_close, do_dup2,
                KillOther, Calls, At
  <2> QED
    BY <1>3, <2>1
<1>9. CASE ReadStep \/ WriteStep
  <2>1. /\ UserRunning
        /\ kpc'[current] \in {"user", "rpark", "wpark", "pwrite"}
        /\ current' = current
    BY <1>2, <1>3, <1>9
       DEF ReadStep, WriteStep, pipe_read, pipe_write, PipeGivesUp, GoPark, GoTo, Wake,
           schedVars, switchVars
  <2> QED
    BY <2>1
<1>10. CASE ParkReader \/ ParkWriter
  <2>1. UserRunning /\ kpc'[current] \in {"pread", "pwrite"}
    BY <1>2, <1>10 DEF ParkReader, ParkWriter, ParkOn, GoTo, At
  <2> QED
    BY <2>1
<1>11. CASE raise_sigint
  BY <1>1, <1>11 DEF raise_sigint, Wake, switchVars
<1> QED
  BY <1>4, <1>5, <1>6, <1>7, <1>8, <1>9, <1>10, <1>11 DEF Shape

\* The positions are preserved.
LEMMA PointsStep ==
  ASSUME ProcInv, Shape, [SchedNext]_schedVars
  PROVE  PointsOK'
<1>0. /\ SchedInv /\ PointsOK /\ current \in Slots /\ state[current] = "RUNNING"
  BY DEF ProcInv, SchedInv, SchedTypeOK, SingleRunner
<1>1. kpc'[IdleSlot] = "idle"
  <2>1. CASE current = IdleSlot
    BY <2>1, CurrentPoint
  <2>2. CASE current # IdleSlot
    BY SMT, <1>0, <2>2, OthersUntouched DEF Untouched, Fresh, PointsOK
  <2> QED
    BY <2>1, <2>2
<1>2. ASSUME NEW s \in Slots \ {current}
      PROVE  /\ kpc'[s] = "dead" => zombie'[s] /\ state'[s] = "BLOCKED"
             /\ state'[s] = "FREE" => fds'[s] = NoFiles /\ kpc'[s] = "user"
             /\ kpc'[s] \in {"rpark", "wpark"} => s = current'
  <2>1. CASE Fresh(s)
    BY <2>1 DEF Fresh
  <2>2. CASE Untouched(s)
    <3>1. kpc'[s] = "dead" => zombie'[s] /\ state'[s] = "BLOCKED"
      <4>1. SUFFICES ASSUME kpc'[s] = "dead" PROVE zombie'[s] /\ state'[s] = "BLOCKED"
        OBVIOUS
      <4>2. zombie[s] /\ state[s] = "BLOCKED" /\ state'[s] # "FREE"
        BY <1>0, <2>2, <4>1 DEF Untouched, PointsOK
      <4> QED
        BY <1>0, <4>2, ZombieParks
    <3>2. state'[s] = "FREE" => fds'[s] = NoFiles /\ kpc'[s] = "user"
      BY <1>0, <2>2 DEF Untouched, PointsOK
    <3>3. kpc'[s] \notin {"rpark", "wpark"}
      BY <1>0, <2>2 DEF Untouched, PointsOK
    <3> QED
      BY <3>1, <3>2, <3>3
  <2> QED
    BY <2>1, <2>2, OthersUntouched
<1>3. /\ kpc'[current] = "dead" => zombie'[current] /\ state'[current] = "BLOCKED"
      /\ state'[current] = "FREE" => fds'[current] = NoFiles /\ kpc'[current] = "user"
      /\ kpc'[current] \in {"rpark", "wpark"} => current = current'
  BY <1>0, CurrentPoint, CurrentKept
<1> QED
  BY <1>1, <1>2, <1>3 DEF PointsOK

-----------------------------------------------------------------------------
(* The descriptors and the calls.                                          *)

\* A descriptor on a pipe is one of its ends.
FileOK(file) == file.kind \in {"rd", "wr"} <=> file.pipe # NoPipe

\* What the running task's descriptors are after its step: each is cleared,
\* kept, copied from another one, or new.
LEMMA CurrentFiles ==
  ASSUME ProcInv, Shape, NEW f \in Fds
  PROVE  FileOK(fds'[current][f])
<1>0. /\ CallTypeOK /\ current \in Slots /\ fds \in [Slots -> [Fds -> File]]
      /\ \A g \in Fds : FileOK(fds[current][g])
  BY DEF ProcInv, SchedInv, SchedTypeOK, CallTypeOK, FilesOK, FileOK
<1>1. /\ NoFile \in File /\ NodeFile \in File
      /\ FileOK(NoFile) /\ FileOK(NodeFile)
  BY DEF FileOK, NoFile, NodeFile, File, PipeOrNull
<1>2. \A p \in Pipes : FileOK(RdEnd(p)) /\ FileOK(WrEnd(p))
  BY DEF FileOK, RdEnd, WrEnd
<1>3. NoFiles[f] = NoFile
  BY DEF NoFiles
<1>4. ASSUME fds'[current] = fds[current] PROVE FileOK(fds'[current][f])
  BY <1>0, <1>4
<1>5. ASSUME NEW g \in Fds, NEW file \in File, FileOK(file),
             fds' = [fds EXCEPT ![current][g] = file]
      PROVE  FileOK(fds'[current][f])
  <2>1. fds'[current][f] = IF f = g THEN file ELSE fds[current][f]
    BY <1>0, <1>5, StoreFd
  <2> QED
    BY <1>0, <1>5, <2>1
<1>6. CASE PlainStep \/ OutsideStep
  BY <1>4, <1>6 DEF PlainStep, OutsideStep
<1>7. CASE TerminateStep
  <2>1. fds'[current] = NoFiles
    BY <1>0, <1>7 DEF TerminateStep, terminate_current
  <2> QED
    BY <1>1, <1>3, <2>1
<1>8. CASE sys_fork
  BY <1>0, <1>4, <1>8 DEF sys_fork
<1>9. CASE ReapChild
  <2>1. PICK t \in Slots : fds' = [fds EXCEPT ![t] = NoFiles]
    BY <1>9 DEF ReapChild, reap_task
  <2>2. fds'[current] = IF current = t THEN NoFiles ELSE fds[current]
    BY <1>0, <2>1
  <2> QED
    BY <1>1, <1>3, <1>4, <2>2
<1>10. CASE sys_open
  BY <1>1, <1>5, <1>10 DEF sys_open
<1>11. CASE CloseStep
  BY <1>1, <1>5, <1>11 DEF CloseStep, do_close, ReplaceFd
<1>12. CASE DupStep
  <2>1. PICK old \in Fds, new \in Fds : fds' = [fds EXCEPT ![current][new] = fds[current][old]]
    BY <1>12 DEF DupStep, do_dup2, ReplaceFd
  <2>2. fds[current][old] \in File /\ FileOK(fds[current][old])
    BY <1>0
  <2> QED
    BY <1>5, <2>1, <2>2
<1>13. CASE sys_pipe
  <2>1. PICK p \in Pipes, rd \in Fds, wr \in Fds :
          fds' = [fds EXCEPT ![current][rd] = RdEnd(p), ![current][wr] = WrEnd(p)]
    BY <1>13 DEF sys_pipe
  <2>2. fds'[current][f] \in {RdEnd(p), WrEnd(p), fds[current][f]}
    BY <1>0, <2>1
  <2> QED
    BY <1>0, <1>2, <2>2
<1>14. CASE ReadStep \/ WriteStep \/ ParkReader \/ ParkWriter \/ KillStep \/ raise_sigint
  BY <1>4, <1>14 DEF ReadStep, WriteStep, ParkReader, ParkWriter, KillStep, raise_sigint,
                     pipe_read, pipe_write, ParkOn, KillOther
<1> QED
  BY <1>6, <1>7, <1>8, <1>9, <1>10, <1>11, <1>12, <1>13, <1>14 DEF Shape

\* The descriptors stay well formed.
LEMMA FilesStep ==
  ASSUME ProcInv, Shape
  PROVE  FilesOK'
<1> SUFFICES ASSUME NEW s \in Slots, NEW f \in Fds PROVE FileOK(fds'[s][f])
  BY DEF FilesOK, FileOK
<1>0. current \in Slots /\ \A t \in Slots, g \in Fds : FileOK(fds[t][g])
  BY DEF ProcInv, SchedInv, SchedTypeOK, FilesOK, FileOK
<1>1. CASE s = current
  BY <1>1, CurrentFiles
<1>2. CASE s # current
  <2>1. FileOK(NoFiles[f])
    BY DEF FileOK, NoFiles, NoFile
  <2>2. fds'[s] \in {NoFiles, fds[current], fds[s]}
    BY <1>2, OthersUntouched DEF Untouched, Fresh
  <2> QED
    BY <1>0, <2>1, <2>2
<1> QED
  BY <1>1, <1>2

\* The call of one task, as CallsOK states it.
CallOK(point, arg, table, waits) ==
  /\ point \in ReadPoints => \E f \in Fds : table[f] = RdEnd(arg.pipe)
  /\ point \in WritePoints => \E f \in Fds : table[f] = WrEnd(arg.pipe)
  /\ point \in ReadPoints \cup WritePoints => arg.pipe \in Pipes /\ arg.n > 0
  /\ waits # NoPipe => point \in {"pread", "pwrite"} /\ waits = arg.pipe

\* The running task's own call: it enters a pipe call only with a descriptor
\* for the pipe, and stops waiting before it returns.
LEMMA CurrentCall ==
  ASSUME ProcInv, Shape
  PROVE  CallOK(kpc'[current], karg'[current], fds'[current], wait_pipe'[current])
<1> DEFINE Goal == CallOK(kpc'[current], karg'[current], fds'[current], wait_pipe'[current])
<1>0. /\ CallTypeOK /\ current \in Slots
      /\ karg[current] \in Arg /\ kpc \in [Slots -> KernelPoints]
      /\ wait_pipe \in [Slots -> PipeOrNull] /\ plen \in [Pipes -> 0 .. PIPE_BUF]
      /\ CallOK(kpc[current], karg[current], fds[current], wait_pipe[current])
  BY DEF ProcInv, SchedInv, SchedTypeOK, CallTypeOK, CallsOK, CallOK
<1>1. ASSUME kpc'[current] \in PlainPoints, wait_pipe'[current] = NoPipe PROVE Goal
  BY <1>1 DEF CallOK, PlainPoints, ReadPoints, WritePoints
<1>2. ASSUME PlainCaller PROVE wait_pipe[current] = NoPipe
  BY <1>0, <1>2 DEF PlainCaller, PlainPoints, CallOK
<1>3. ASSUME Return PROVE kpc'[current] \in PlainPoints
  BY <1>0, <1>3, MoveFacts DEF Return, PlainPoints
<1>4. ASSUME NEW W
      PROVE  /\ wait_pipe[current] = NoPipe => Unwait(W)[current] = NoPipe
             /\ StopWaiting(W)[current] = NoPipe
  <2>1. current \in Slots
    BY <1>0
  <2> QED
    BY <2>1, UnwaitFacts
<1> SUFFICES Goal
  OBVIOUS
<1> HIDE DEF Goal
<1>5. CASE PlainStep
  BY SMT, <1>0, <1>1, <1>2, <1>5, MoveFacts DEF PlainStep
<1>6. CASE OutsideStep
  BY <1>0, <1>6 DEF OutsideStep, Goal
<1>7. CASE TerminateStep
  BY <1>0, <1>1, <1>2, <1>4, <1>7, MoveFacts
     DEF TerminateStep, terminate_current, GoTo, PlainPoints
<1>8. CASE sys_fork
  <2>1. PlainCaller
    BY <1>8 DEF sys_fork, Calls, At, PlainCaller, PlainPoints
  <2>2. kpc'[current] = "user" /\ wait_pipe'[current] \in {wait_pipe[current], NoPipe}
    BY <1>0, <1>8 DEF sys_fork
  <2> QED
    BY <1>1, <1>2, <2>1, <2>2 DEF PlainPoints
<1>9. CASE ReapChild
  <2>1. PlainCaller /\ kpc'[current] = "user"
    BY <1>0, <1>9 DEF ReapChild, reap_task
  <2>2. wait_pipe'[current] = NoPipe
    BY <1>2, <1>4, <1>9, <2>1 DEF ReapChild, reap_task
  <2> QED
    BY <1>1, <2>1, <2>2 DEF PlainPoints
<1>10. CASE sys_open \/ sys_pipe
  <2>1. PlainCaller /\ Return /\ wait_pipe' = wait_pipe
    BY <1>10 DEF sys_open, sys_pipe, Calls, At, PlainCaller, PlainPoints
  <2> QED
    BY <1>1, <1>2, <1>3, <2>1
<1>11. CASE CloseStep \/ DupStep \/ KillStep
  <2>1. PlainCaller /\ Return /\ \E W : wait_pipe' = Unwait(W)
    BY <1>11 DEF CloseStep, DupStep, KillStep, do_close, do_dup2, ReplaceFd, KillOther
  <2> QED
    BY <1>1, <1>2, <1>3, <1>4, <2>1
<1>12. ASSUME NEW p \in Pipes, NEW n \in Nat \ {0}, NEW x, MoveTo(x, [pipe |-> p, n |-> n]),
              fds' = fds, wait_pipe'[current] = NoPipe,
              \/ x = "rpark" /\ \E f \in Fds : fds[current][f] = RdEnd(p)
              \/ x \in {"wpark", "pwrite"} /\ \E f \in Fds : fds[current][f] = WrEnd(p)
       PROVE  Goal
  <2>1. kpc'[current] = x /\ karg'[current] = [pipe |-> p, n |-> n]
    BY <1>0, <1>12, MoveFacts
  <2>2. karg'[current].pipe = p /\ karg'[current].n = n
    BY SMT, <2>1
  <2> QED
    BY SMT, <1>12, <2>1, <2>2 DEF Goal, CallOK, ReadPoints, WritePoints
<1>13. CASE ReadStep
  <2>1. PICK p \in Pipes, n \in Nat \ {0} :
          pipe_read(p, n) /\ \E f \in Fds : fds[current][f] = RdEnd(p)
    BY <1>13 DEF ReadStep
  <2>2. wait_pipe'[current] = NoPipe /\ fds' = fds
    BY <1>4, <2>1 DEF pipe_read, PipeGivesUp, GoPark
  <2>3. CASE Return
    BY <1>1, <1>3, <2>2, <2>3
  <2>4. CASE GoPark(p, "rpark", n)
    BY <1>12, <2>1, <2>2, <2>4 DEF GoPark, GoTo
  <2> QED
    BY <2>1, <2>3, <2>4 DEF pipe_read, PipeGivesUp
<1>14. CASE WriteStep
  <2>1. PICK p \in Pipes, n \in Nat \ {0} :
          pipe_write(p, n) /\ \E f \in Fds : fds[current][f] = WrEnd(p)
    BY <1>14 DEF WriteStep
  <2>2. wait_pipe'[current] = NoPipe /\ fds' = fds
    BY <1>4, <2>1 DEF pipe_write, PipeGivesUp, GoPark
  <2>3. CASE Return
    BY <1>1, <1>3, <2>2, <2>3
  <2>4. CASE GoPark(p, "wpark", n)
    BY <1>12, <2>1, <2>2, <2>4 DEF GoPark, GoTo
  <2>5. CASE n > Room(p) /\ GoTo("pwrite", [pipe |-> p, n |-> n - Room(p)])
    <3>1. n - Room(p) \in Nat \ {0}
      BY SMT, <1>0, <2>5 DEF Room
    <3> QED
      BY <1>12, <2>1, <2>2, <2>5, <3>1 DEF GoTo
  <2>6. Room(p) \in Int
    BY SMT, <1>0 DEF Room
  <2> QED
    BY SMTT(20), <2>1, <2>3, <2>4, <2>5, <2>6 DEF pipe_write, PipeGivesUp
<1>15. CASE ParkReader \/ ParkWriter
  <2>1. /\ wait_pipe'[current] = karg[current].pipe /\ karg'[current] = karg[current]
        /\ fds' = fds
        /\ \/ kpc[current] = "rpark" /\ kpc'[current] = "pread"
           \/ kpc[current] = "wpark" /\ kpc'[current] = "pwrite"
    BY <1>0, <1>15, MoveFacts DEF ParkReader, ParkWriter, ParkOn, At, GoTo
  <2> QED
    BY <1>0, <2>1 DEF Goal, CallOK, ReadPoints, WritePoints
<1>16. CASE raise_sigint
  <2>1. /\ fds' = fds /\ kpc' = kpc /\ karg' = karg
        /\ wait_pipe'[current] \in {NoPipe, wait_pipe[current]}
    BY SMT, <1>0, <1>16, UnwaitFacts DEF raise_sigint
  <2> QED
    BY <1>0, <2>1 DEF Goal, CallOK
<1> QED
  BY <1>5, <1>6, <1>7, <1>8, <1>9, <1>10, <1>11, <1>13, <1>14, <1>15, <1>16 DEF Shape

\* The calls are preserved.
LEMMA CallsStep ==
  ASSUME ProcInv, Shape
  PROVE  CallsOK'
<1>1. ASSUME NEW s \in Slots
      PROVE  CallOK(kpc'[s], karg'[s], fds'[s], wait_pipe'[s])
  <2>1. CASE s = current
    BY <2>1, CurrentCall
  <2>2. CASE s # current /\ Fresh(s)
    BY <2>2 DEF Fresh, CallOK, ReadPoints, WritePoints
  <2>3. CASE s # current /\ Untouched(s)
    <3>1. CallOK(kpc[s], karg[s], fds[s], wait_pipe[s])
      BY DEF ProcInv, CallsOK, CallOK
    <3> QED
      BY <2>3, <3>1 DEF Untouched, CallOK
  <2> QED
    BY <2>1, <2>2, <2>3, OthersUntouched
<1> QED
  BY <1>1 DEF CallsOK, CallOK

\* The boot tasks are in user mode with the console descriptors.
LEMMA ProcInvInit == Init => ProcInv
<1> SUFFICES ASSUME Init PROVE ProcInv
  OBVIOUS
<1>1. SchedInv
  BY InitInv DEF Init
<1> USE DEF Init, ProcInit
<1>2. NoFile \in File /\ \A f : ConsoleFile(f) \in File
  BY DEF NoFile, ConsoleFile, File, PipeOrNull
<1>3. CallTypeOK
  <2>1. fds \in [Slots -> [Fds -> File]]
    BY <1>2
  <2>2. /\ sig_pending \in [Slots -> SUBSET Signals]
        /\ sig_handler \in [Slots -> [Signals -> Handlers]]
        /\ iflag \in BOOLEAN
    BY DEF Handlers
  <2>3. wait_pipe \in [Slots -> PipeOrNull] /\ karg \in [Slots -> Arg]
    BY SMT DEF PipeOrNull, Arg, NoArg
  <2>4. kpc \in [Slots -> KernelPoints]
    BY DEF KernelPoints
  <2>5. livePipes \subseteq Pipes /\ plen \in [Pipes -> 0 .. PIPE_BUF]
    BY SMT
  <2> QED
    BY <2>1, <2>2, <2>3, <2>4, <2>5 DEF CallTypeOK
<1>4. PointsOK
  <2>1. kpc[IdleSlot] = "idle"
    BY SMT
  <2>2. \A s \in Slots : kpc[s] \in {"idle", "user"} /\ (s # IdleSlot => kpc[s] = "user")
    OBVIOUS
  <2>3. \A s \in Slots : state[s] = "FREE" => s # IdleSlot /\ s \notin 1 .. BootTasks
    BY DEF SchedInit
  <2>4. \A s \in Slots : s \notin 1 .. BootTasks => fds[s] = NoFiles
    BY DEF NoFiles
  <2> QED
    BY <2>1, <2>2, <2>3, <2>4 DEF PointsOK
<1>5. FilesOK
  BY DEF FilesOK, NoFile, ConsoleFile
<1>6. CallsOK
  BY DEF CallsOK, ReadPoints, WritePoints
<1> QED
  BY <1>1, <1>3, <1>4, <1>5, <1>6 DEF ProcInv

\* Every step of the processes preserves the first part of the invariant.
LEMMA ProcInvStep == ProcInv /\ [Next]_vars => ProcInv'
<1> SUFFICES ASSUME ProcInv, [Next]_vars PROVE ProcInv'
  OBVIOUS
<1>1. SchedInv /\ Shape
  BY Shapes DEF ProcInv
<1>2. [SchedNext]_schedVars
  BY <1>1, RefinesSched
<1>3. SchedInv'
  BY <1>1, <1>2, StepInv
<1>4. CallTypeOK'
  BY <1>1, SignalTypes, ShapeTypes DEF CallTypeOK
<1>5. PointsOK' /\ FilesOK' /\ CallsOK'
  BY <1>1, <1>2, PointsStep, FilesStep, CallsStep
<1> QED
  BY <1>3, <1>4, <1>5 DEF ProcInv

\* The inductive invariant of the calls holds.
LEMMA ProcInvHolds == Spec => []ProcInv
BY ProcInvInit, ProcInvStep, PTL DEF Spec

\* Code after the sched_yield of sys_exit, terminate_current and the SIGSEGV
\* path is unreachable: a dead task never runs again, and its slot is not
\* handed out before it was reaped.
THEOREM DeadStayDead == Spec => []DeadNeverRuns
<1>1. ProcInv => DeadNeverRuns
  BY DEF ProcInv, PointsOK, DeadNeverRuns
<1> QED
  BY <1>1, ProcInvHolds, PTL

-----------------------------------------------------------------------------
(* Sleeping in waitpid.                                                    *)

\* Only the running task parks.
LEMMA NobodyElseParks ==
  ASSUME SchedInv, [SchedNext]_schedVars, NEW s \in Slots \ {current},
         state'[s] = "BLOCKED", ~zombie'[s]
  PROVE  state[s] = "BLOCKED" /\ ~zombie[s]
<1>0. zombie \in [Slots -> BOOLEAN] /\ state \in [Slots -> TaskState]
  BY DEF SchedInv, SchedTypeOK
<1>1. state[s] = "BLOCKED"
  <2>1. CASE UNCHANGED schedVars
    BY <2>1 DEF schedVars
  <2>2. CASE \E W \in SUBSET Slots : Block(W) \/ Die(W)
    BY <2>2, BlockFacts, DieFacts
  <2>3. CASE Preempt \/ YieldCpu \/ idle_task
    <3>1. sched_yield(state, zombie)
      BY <2>3 DEF Preempt, YieldCpu, idle_task
    <3> QED
      BY <3>1, PlainYieldFacts
  <2>4. CASE \E W \in SUBSET Slots : Wake(W)
    BY <2>4 DEF Wake, sched_wake
  <2>5. CASE \E t \in Slots, W \in SUBSET Slots : KillParked(t, W)
    BY <2>5 DEF KillParked, sched_wake
  <2>6. CASE \E t \in Slots, W \in SUBSET Slots : Reap(t, W)
    BY <1>0, <2>6 DEF Reap, sched_wake
  <2>7. CASE Spawn
    BY <1>0, <2>7 DEF Spawn, sched_spawn_user_task
  <2>8. CASE EnterKernel \/ SpawnNoStack \/ sched_timer_tick
    BY <2>8 DEF EnterKernel, SpawnNoStack, sched_timer_tick
  <2> QED
    BY <2>1, <2>2, <2>3, <2>4, <2>5, <2>6, <2>7, <2>8 DEF SchedNext
<1>2. ~zombie[s]
  BY <1>1, ZombieParks, state'[s] # "FREE"
<1> QED
  BY <1>1, <1>2

\* The PIDs of a table entry change only when it is spawned or reaped: the
\* spawned one is a child of the running task, and so was the reaped one.
LEMMA TableKept ==
  ASSUME SchedInv, [SchedNext]_schedVars, NEW s \in Slots
  PROVE  /\ state[s] # "FREE" /\ state'[s] # "FREE" =>
              pid'[s] = pid[s] /\ parent_pid'[s] = parent_pid[s]
         /\ state[s] = "FREE" /\ state'[s] # "FREE" => parent_pid'[s] = pid[current]
         /\ state[s] # "FREE" /\ state'[s] = "FREE" => parent_pid[s] = pid[current]
<1>0. /\ state \in [Slots -> TaskState] /\ zombie \in [Slots -> BOOLEAN]
      /\ pid \in [Slots -> Nat] /\ parent_pid \in [Slots -> Nat]
  BY DEF SchedInv, SchedTypeOK
<1>1. CASE \E t \in Slots, W \in SUBSET Slots : Reap(t, W)
  <2>1. PICK t \in Slots, W \in SUBSET Slots : Reap(t, W)
    BY <1>1
  <2>2. CASE s = t
    BY <1>0, <2>1, <2>2 DEF Reap, sched_wake
  <2>3. CASE s # t
    BY <1>0, <2>1, <2>3 DEF Reap, sched_wake
  <2> QED
    BY <2>2, <2>3
<1>2. CASE Spawn
  <2>1. PICK t \in Slots : sched_spawn_user_task(t, pid[current])
    BY <1>2 DEF Spawn
  <2>2. CASE s = t
    BY <1>0, <2>1, <2>2 DEF sched_spawn_user_task, alloc_slot
  <2>3. CASE s # t
    BY <1>0, <2>1, <2>3 DEF sched_spawn_user_task
  <2> QED
    BY <2>2, <2>3
<1>3. CASE UNCHANGED schedVars
  BY <1>3 DEF schedVars
<1> DEFINE Kept == state'[s] = "FREE" <=> state[s] = "FREE"
<1>4. ASSUME UNCHANGED <<pid, parent_pid>>, Kept
      PROVE  /\ state[s] # "FREE" /\ state'[s] # "FREE" =>
                  pid'[s] = pid[s] /\ parent_pid'[s] = parent_pid[s]
             /\ state[s] = "FREE" /\ state'[s] # "FREE" => parent_pid'[s] = pid[current]
             /\ state[s] # "FREE" /\ state'[s] = "FREE" => parent_pid[s] = pid[current]
  BY <1>4
<1>5. CASE \E W \in SUBSET Slots : Block(W) \/ Die(W)
  <2>1. Kept
    BY <1>5, BlockFacts, DieFacts
  <2> QED
    BY <1>4, <1>5, <2>1 DEF Block, Die, tableVars
<1>6. CASE Preempt \/ YieldCpu \/ idle_task
  <2>1. sched_yield(state, zombie) /\ UNCHANGED <<pid, parent_pid>>
    BY <1>6 DEF Preempt, YieldCpu, idle_task, tableVars
  <2> QED
    BY <1>4, <2>1, PlainYieldFacts
<1>7. CASE \E W \in SUBSET Slots : Wake(W)
  BY <1>7 DEF Wake, sched_wake, tableVars
<1>8. CASE \E t \in Slots, W \in SUBSET Slots : KillParked(t, W)
  BY <1>8 DEF KillParked, sched_wake, tableVars
<1>9. CASE EnterKernel \/ SpawnNoStack \/ sched_timer_tick
  BY <1>9 DEF EnterKernel, SpawnNoStack, sched_timer_tick, tableVars
<1> QED
  BY <1>1, <1>2, <1>3, <1>5, <1>6, <1>7, <1>8, <1>9 DEF SchedNext

\* Every death wakes the parent: no task stays parked when its child dies.
LEMMA DeathWakesParent ==
  ASSUME ProcInv, Shape, NEW s \in Slots \ {current}, NEW t \in Slots,
         state[s] = "BLOCKED", ~zombie[s], parent_pid[t] = pid[s],
         ~zombie[t], zombie'[t]
  PROVE  state'[s] # "BLOCKED" \/ zombie'[s]
<1>0. /\ SchedInv /\ current \in Slots
      /\ state \in [Slots -> TaskState] /\ zombie \in [Slots -> BOOLEAN]
  BY DEF ProcInv, SchedInv, SchedTypeOK
<1>1. s \in Parents(t)
  BY DEF Parents, sched_find_pid
<1>2. ASSUME NEW W, Die(Parents(current) \cup W) PROVE state'[s] # "BLOCKED"
  <2>1. zombie' = [zombie EXCEPT ![current] = TRUE]
    BY <1>0, <1>2, DieFacts
  <2>2. t = current
    BY <1>0, <2>1
  <2> QED
    BY SMT, <1>0, <1>1, <1>2, <2>2, DieFacts
<1>3. CASE PlainStep
  <2>1. Die(Parents(current)) \/ zombie' = zombie
    BY <1>3 DEF PlainStep
  <2>2. Parents(current) = Parents(current) \cup {}
    OBVIOUS
  <2>3. CASE zombie' = zombie
    BY <2>3
  <2> QED
    BY <1>2, <2>1, <2>2, <2>3
<1>4. CASE TerminateStep
  <2>1. \E W : Die(Parents(current) \cup W)
    BY <1>4, TerminateDies DEF PlainCaller, TerminateStep
  <2> QED
    BY <1>2, <2>1
<1>5. CASE KillStep
  <2>1. PICK k \in Slots, sig \in Signals : KillOther(k, sig)
    BY <1>5 DEF KillStep
  <2> DEFINE z == [zombie EXCEPT ![k] = (sig = SIGKILL) \/ @]
  <2>2. zombie' = z
    BY <2>1 DEF KillOther
  <2>3. t = k /\ sig = SIGKILL
    <3>1. CASE sig = SIGKILL
      BY <1>0, <2>2, <3>1
    <3>2. CASE sig # SIGKILL
      <4>1. (sig = SIGKILL) \/ zombie[k] <=> zombie[k]
        BY <3>2
      <4> QED
        BY <1>0, <2>2, <4>1
    <3> QED
      BY <3>1, <3>2
  <2> HIDE DEF z
  <2>4. PICK W : state' = sched_wake(sched_wake(state, z, Parents(t)), z, W)
    BY <2>1, <2>3 DEF KillOther, z
  <2> QED
    BY <1>1, <2>2, <2>4 DEF sched_wake
<1>6. CASE sys_fork \/ ReapChild
  <2>1. PICK k \in Slots : zombie' = [zombie EXCEPT ![k] = FALSE]
    BY <1>6 DEF sys_fork, sched_spawn_user_task, ReapChild, reap_task, Reap
  <2> QED
    BY <1>0, <2>1
<1>7. CASE \/ OutsideStep \/ sys_open \/ CloseStep \/ DupStep \/ sys_pipe
           \/ ReadStep \/ WriteStep \/ ParkReader \/ ParkWriter \/ raise_sigint
  <2>1. zombie' = zombie
    <3>1. CASE OutsideStep \/ sys_open \/ sys_pipe \/ ParkReader \/ ParkWriter \/ raise_sigint
      BY <3>1 DEF OutsideStep, sys_open, sys_pipe, ParkReader, ParkWriter, ParkOn, Block,
         raise_sigint, Wake, schedVars
    <3>2. CASE CloseStep \/ DupStep
      BY <3>2 DEF CloseStep, DupStep, do_close, do_dup2, ReplaceFd, Wake
    <3>3. CASE ReadStep \/ WriteStep
      BY <3>3 DEF ReadStep, WriteStep, pipe_read, pipe_write, PipeGivesUp, GoPark,
         Wake, schedVars
    <3> QED
      BY <1>7, <3>1, <3>2, <3>3
  <2> QED
    BY <2>1
<1> QED
  BY <1>3, <1>4, <1>5, <1>6, <1>7 DEF Shape

\* A task parks in waitpid only when the loop found nothing to reap.
LEMMA CurrentWaits ==
  ASSUME ProcInv, Shape, SchedInv', kpc'[current] = "waitpid", state'[current] = "BLOCKED"
  PROVE  MayWait(karg'[current].n) /\ zombie' = zombie /\ SlotsKept
<1>0. /\ SchedInv /\ CallTypeOK /\ current \in Slots
      /\ kpc \in [Slots -> KernelPoints] /\ kpc[IdleSlot] = "idle"
  BY DEF ProcInv, SchedInv, SchedTypeOK, CallTypeOK, PointsOK
<1>1. current' # current
  <2>1. SingleRunner'
    BY DEF SchedInv
  <2> QED
    BY <1>0, <2>1 DEF SingleRunner
<1>2. CASE PlainStep
  <2>1. PICK x \in PlainPoints, a \in Arg :
          /\ MoveTo(x, a)
          /\ IF x = "dead" THEN Die(Parents(current)) ELSE zombie' = zombie
          /\ x = "waitpid" => MayWait(a.n)
    BY <1>2 DEF PlainStep
  <2>2. x = "waitpid" /\ karg'[current] = a
    BY <1>0, <2>1, MoveFacts
  <2> QED
    BY <1>2, <2>1, <2>2 DEF PlainStep
<1>3. CASE OutsideStep
  BY <1>0, <1>1, <1>3 DEF OutsideStep
<1>4. ASSUME NEW x, NEW a, MoveTo(x, a), x # "waitpid" PROVE FALSE
  BY <1>0, <1>4, MoveFacts
<1>5. ~Return
  BY <1>4 DEF Return
<1>6. CASE sys_fork \/ ReapChild
  <2>1. PICK k \in Slots : kpc' = [kpc EXCEPT ![k] = "user", ![current] = "user"]
    BY <1>6 DEF sys_fork, ReapChild, reap_task
  <2> QED
    BY <1>0, <2>1
<1>7. CASE raise_sigint
  BY <1>1, <1>7 DEF raise_sigint, Wake, switchVars
<1>8. CASE sys_open \/ CloseStep \/ DupStep \/ sys_pipe \/ KillStep
  BY <1>5, <1>8 DEF sys_open, CloseStep, DupStep, sys_pipe, KillStep, do_close, do_dup2, KillOther
<1>9. CASE TerminateStep \/ ParkReader \/ ParkWriter
  BY <1>4, <1>9 DEF TerminateStep, terminate_current, GoTo, ParkReader, ParkWriter, ParkOn
<1>10. CASE ReadStep \/ WriteStep
  <2>1. \E a : MoveTo("user", a) \/ MoveTo("rpark", a) \/ MoveTo("wpark", a) \/ MoveTo("pwrite", a)
    BY <1>10 DEF ReadStep, WriteStep, pipe_read, pipe_write, PipeGivesUp, GoPark, GoTo, Return
  <2> QED
    BY <1>4, <2>1
<1> QED
  BY <1>2, <1>3, <1>6, <1>7, <1>8, <1>9, <1>10 DEF Shape

\* The promise of waitpid is kept by every step.
LEMMA WaitersStep ==
  ASSUME ProcInv, WaitersJustified, [Next]_vars, ProcInv'
  PROVE  WaitersJustified'
<1>0. /\ SchedInv /\ SchedInv' /\ current \in Slots
      /\ state \in [Slots -> TaskState] /\ zombie \in [Slots -> BOOLEAN]
      /\ pid \in [Slots -> Nat] /\ parent_pid \in [Slots -> Nat]
      /\ ~zombie[IdleSlot]
  BY DEF ProcInv, SchedInv, SchedTypeOK, SingleRunner
<1>1. Shape /\ [SchedNext]_schedVars
  BY <1>0, Shapes, RefinesSched
<1>2. state[current] # "FREE" /\ state'[current] # "FREE"
  BY <1>0, <1>1, CurrentKept DEF SchedInv, SingleRunner
<1>3. /\ \A s, t \in Slots : state[s] # "FREE" /\ state[t] # "FREE" /\ pid[s] = pid[t] => s = t
      /\ \A s \in Slots \ {IdleSlot} : state[s] # "FREE" => pid[s] # 0
  BY SMT, <1>0 DEF SchedInv, UniquePids
<1> SUFFICES ASSUME NEW s \in Slots, Parked(s, "waitpid")'
             PROVE  /\ \E t \in Slots : state'[t] # "FREE" /\ parent_pid'[t] = pid'[s]
                    /\ \A t \in Slots :
                         /\ state'[t] # "FREE" /\ parent_pid'[t] = pid'[s]
                         /\ karg'[s].n \in {AnyChild, pid'[t]}
                         => ~zombie'[t]
  BY DEF WaitersJustified
<1>4. state'[s] = "BLOCKED" /\ ~zombie'[s] /\ kpc'[s] = "waitpid"
  BY DEF Parked
<1>5. CASE s = current
  <2>1. MayWait(karg'[s].n) /\ zombie' = zombie /\ SlotsKept
    BY <1>0, <1>1, <1>4, <1>5, CurrentWaits
  <2>2. \A t \in Slots : state'[t] # "FREE" <=> state[t] # "FREE"
    BY <2>1 DEF SlotsKept
  <2>3. \A t \in Slots : state[t] # "FREE" => pid'[t] = pid[t] /\ parent_pid'[t] = parent_pid[t]
    BY <1>0, <1>1, <2>2, TableKept
  <2>4. \E t \in Slots : state[t] # "FREE" /\ parent_pid[t] = pid[s]
    BY <1>5, <2>1 DEF MayWait, Children
  <2>5. ASSUME NEW t \in Slots, state[t] # "FREE", parent_pid[t] = pid[s],
               karg'[s].n \in {AnyChild, pid[t]}
        PROVE  ~zombie[t]
    <3>1. CASE t = IdleSlot
      BY <1>0, <3>1
    <3>2. CASE t # IdleSlot
      <4>1. t \in Children
        BY <1>3, <1>5, <2>5, <3>2 DEF Children
      <4> QED
        BY <2>1, <2>5, <4>1 DEF MayWait
    <3> QED
      BY <3>1, <3>2
  <2>6. \E t \in Slots : state'[t] # "FREE" /\ parent_pid'[t] = pid'[s]
    BY <1>2, <1>5, <2>2, <2>3, <2>4
  <2>7. ASSUME NEW t \in Slots, state'[t] # "FREE", parent_pid'[t] = pid'[s],
               karg'[s].n \in {AnyChild, pid'[t]}
        PROVE  ~zombie'[t]
    <3>1. /\ state[t] # "FREE" /\ parent_pid[t] = pid[s]
          /\ karg'[s].n \in {AnyChild, pid[t]}
      BY <1>2, <1>5, <2>2, <2>3, <2>7
    <3> QED
      BY <2>1, <2>5, <3>1
  <2> QED
    BY <2>6, <2>7
<1>6. CASE s # current
  <2>1. state[s] = "BLOCKED" /\ ~zombie[s]
    BY <1>0, <1>1, <1>4, <1>6, NobodyElseParks
  <2>2. kpc'[s] = kpc[s] /\ karg'[s] = karg[s]
    BY <1>1, <1>4, <1>6, OthersUntouched DEF Untouched, Fresh
  <2>3. Parked(s, "waitpid")
    BY <1>4, <2>1, <2>2 DEF Parked
  <2>4. /\ \E t \in Slots : state[t] # "FREE" /\ parent_pid[t] = pid[s]
        /\ \A t \in Slots :
             /\ state[t] # "FREE" /\ parent_pid[t] = pid[s]
             /\ karg[s].n \in {AnyChild, pid[t]}
             => ~zombie[t]
    BY <2>3 DEF WaitersJustified
  <2>5. pid'[s] = pid[s] /\ pid[s] # pid[current]
    BY <1>0, <1>1, <1>2, <1>3, <1>4, <1>6, <2>1, TableKept
  <2>6. \E t \in Slots : state'[t] # "FREE" /\ parent_pid'[t] = pid'[s]
    <3>1. PICK t \in Slots : state[t] # "FREE" /\ parent_pid[t] = pid[s]
      BY <2>4
    <3> QED
      BY <1>0, <1>1, <2>5, <3>1, TableKept
  <2>7. ASSUME NEW t \in Slots, state'[t] # "FREE", parent_pid'[t] = pid'[s],
               karg'[s].n \in {AnyChild, pid'[t]}
        PROVE  ~zombie'[t]
    <3>1. /\ state[t] # "FREE" /\ pid'[t] = pid[t] /\ parent_pid[t] = pid[s]
      BY <1>0, <1>1, <2>5, <2>7, TableKept
    <3>2. ~zombie[t]
      BY <2>2, <2>4, <2>7, <3>1
    <3> QED
      BY <1>1, <1>4, <1>6, <2>1, <3>1, <3>2, DeathWakesParent, s \in Slots \ {current}
  <2> QED
    BY <2>6, <2>7
<1> QED
  BY <1>5, <1>6

\* sys_waitpid loses no wake-up: a parent sleeps only while it has a child
\* and no child it asked for is dead, whichever way the children die.
THEOREM WaitersWoken == Spec => []WaitersJustified
<1>1. Init => WaitersJustified
  BY DEF Init, ProcInit, WaitersJustified, Parked
<1>2. ProcInv /\ WaitersJustified /\ [Next]_vars /\ ProcInv' => WaitersJustified'
  BY WaitersStep
<1> QED
  BY <1>1, <1>2, ProcInvHolds, PTL DEF Spec

-----------------------------------------------------------------------------
(* Sleeping on a pipe.                                                     *)

\* The signals that can come between sig_abort and the store of TASK_BLOCKED.
CtrlC == IF "sigint" \in Syscalls THEN {SIGINT} ELSE {}

\* A task parked on a pipe stays parked only while pipe_wake and sys_kill can
\* find it, and what is signalled to it is sent by the keyboard interrupt.
LEMMA StillParked ==
  ASSUME ProcInv, Shape, NEW s \in Slots \ {current},
         state[s] = "BLOCKED", ~zombie[s], state'[s] = "BLOCKED", ~zombie'[s]
  PROVE  /\ wait_pipe'[s] = wait_pipe[s]
         /\ wait_pipe[s] # NoPipe => sig_pending'[s] \subseteq sig_pending[s] \cup CtrlC
<1> DEFINE Wait == wait_pipe'[s] = wait_pipe[s]
           Sig == sig_pending'[s] = sig_pending[s]
<1>0. /\ SchedInv /\ current \in Slots
      /\ state \in [Slots -> TaskState] /\ zombie \in [Slots -> BOOLEAN]
      /\ sig_pending \in [Slots -> SUBSET Signals]
      /\ wait_pipe \in [Slots -> PipeOrNull]
  BY DEF ProcInv, SchedInv, SchedTypeOK, CallTypeOK
<1>1. ASSUME NEW W, Wake(W) PROVE s \notin W
  BY <1>1 DEF Wake, sched_wake
<1>2. ASSUME NEW W, Wake(W), wait_pipe' \in {Unwait(W), StopWaiting(W)} PROVE Wait
  <2>1. s \notin W
    BY <1>1, <1>2
  <2> QED
    BY SMT, <1>2, <2>1, UnwaitFacts
<1>3. CASE PlainStep \/ OutsideStep
  <2>1. Wait /\ Sig
    BY <1>3 DEF PlainStep, OutsideStep, OtherSignalsKept
  <2> QED
    BY <2>1
<1>4. CASE TerminateStep
  <2>1. PICK pending \in SUBSET Signals : terminate_current(pending)
    BY <1>4 DEF TerminateStep
  <2>2. PICK V, W : Die(V \cup W) /\ wait_pipe' = Unwait(W)
    BY <1>4, <2>1, TerminateDies DEF PlainCaller, TerminateStep, terminate_current
  <2>3. s \notin W
    BY SMT, <1>0, <2>2, DieFacts
  <2>4. Wait
    BY ZenonT(40), <2>2, <2>3, UnwaitFacts
  <2>5. Sig
    BY <1>0, <2>1 DEF terminate_current
  <2> QED
    BY <2>4, <2>5
<1>5. CASE sys_fork
  <2>1. PICK t \in Slots :
          /\ state[t] = "FREE"
          /\ sig_pending' = [sig_pending EXCEPT ![t] = {}]
          /\ wait_pipe' = [wait_pipe EXCEPT ![t] = NoPipe]
    BY <1>5 DEF sys_fork, sched_spawn_user_task, alloc_slot
  <2> QED
    BY <1>0, <2>1
<1>6. CASE ReapChild
  <2>1. PICK t \in Slots, W \in SUBSET Slots :
          /\ zombie[t]
          /\ state' = sched_wake([state EXCEPT ![t] = "FREE"], zombie, W)
          /\ sig_pending' = [sig_pending EXCEPT ![t] = {}]
          /\ wait_pipe' = Unwait(W \cup {t})
    BY <1>6 DEF ReapChild, reap_task, Reap, PipeWaiters
  <2>2. s # t
    BY <2>1
  <2>3. s \notin W
    BY <1>0, <2>1, <2>2 DEF sched_wake
  <2> QED
    BY SMT, <1>0, <2>1, <2>2, <2>3, UnwaitFacts
<1>7. CASE sys_open \/ sys_pipe
  BY <1>7 DEF sys_open, sys_pipe, sigVars
<1>8. CASE CloseStep \/ DupStep
  <2>1. (\E W : Wake(W) /\ wait_pipe' = Unwait(W)) /\ UNCHANGED sigVars
    BY <1>8 DEF CloseStep, DupStep, do_close, do_dup2, ReplaceFd
  <2>2. Wait
    BY <1>2, <2>1
  <2> QED
    BY <2>1, <2>2 DEF sigVars
<1>9. CASE ReadStep \/ WriteStep
  <2>1. /\ \/ \E W : Wake(W) /\ wait_pipe' = StopWaiting(W)
           \/ wait_pipe' = StopWaiting({})
        /\ UNCHANGED sigVars
    BY <1>9 DEF ReadStep, WriteStep, pipe_read, pipe_write, PipeGivesUp, GoPark
  <2>2. Wait
    BY SMT, <1>2, <2>1, UnwaitFacts
  <2> QED
    BY <2>1, <2>2 DEF sigVars
<1>10. CASE ParkReader \/ ParkWriter
  BY <1>0, <1>10 DEF ParkReader, ParkWriter, ParkOn, sigVars
<1>11. CASE raise_sigint
  <2>1. PICK G, W :
          /\ sig_pending' = [r \in Slots |-> IF r \in G THEN sig_pending[r] \cup {SIGINT}
                                             ELSE sig_pending[r]]
          /\ wait_pipe' = Unwait(W) /\ Wake(W)
    BY <1>11 DEF raise_sigint
  <2>2. Wait
    BY <1>2, <2>1
  <2>3. "sigint" \in Syscalls
    BY <1>11 DEF raise_sigint
  <2> QED
    BY <2>1, <2>2, <2>3 DEF CtrlC
<1>12. CASE KillStep
  <2>1. PICK t \in Slots \ {IdleSlot, current}, sig \in Signals : KillOther(t, sig)
    BY <1>12 DEF KillStep
  <2> DEFINE z == [zombie EXCEPT ![t] = (sig = SIGKILL) \/ @]
             st == sched_wake(state, z, IF sig = SIGKILL THEN Parents(t) ELSE {})
             W == IF wait_pipe[t] = NoPipe THEN {} ELSE PipeWaiters(st, {wait_pipe[t]})
  <2>2. /\ sig_pending' = [sig_pending EXCEPT ![t] = @ \cup {sig}]
        /\ wait_pipe' = Unwait(IF sig = SIGKILL THEN W \cup {t} ELSE W)
        /\ zombie' = z
        /\ state' = sched_wake(st, z, W)
    BY <2>1 DEF KillOther
  <2>3. ~(s = t /\ sig = SIGKILL)
    BY <1>0, <2>2
  <2>4. ~z[s]
    BY <2>2
  <2> HIDE DEF z
  <2>5. st[s] = "BLOCKED"
    BY <2>2, <2>4 DEF sched_wake
  <2> HIDE DEF st
  <2>6. s \notin W
    BY <2>2, <2>4, <2>5 DEF sched_wake
  <2>7. wait_pipe[s] # NoPipe => s # t
    BY <1>0, <2>5, <2>6 DEF PipeWaiters
  <2> HIDE DEF W
  <2>8. Wait
    BY SMT, <2>2, <2>3, <2>6, UnwaitFacts
  <2>9. s # t => Sig
    BY <1>0, <2>2
  <2> QED
    BY <2>7, <2>8, <2>9
<1> QED
  BY <1>3, <1>4, <1>5, <1>6, <1>7, <1>8, <1>9, <1>10, <1>11, <1>12 DEF Shape

\* The running task comes to the window before TASK_BLOCKED only with no
\* signal pending and the pipe empty, or full, with its other end open.
OpensWindow ==
  LET p == karg'[current].pipe IN
  /\ kpc'[current] = "rpark" => ReadStep /\ plen[p] = 0 /\ writers[p] # 0
  /\ kpc'[current] = "wpark" => WriteStep /\ Room(p) = 0 /\ readers[p] # 0
  /\ sig_pending[current] = {}
  /\ UNCHANGED <<sig_pending, pipeVars>>

\* What an interrupt does to a task in that window.
StaysInWindow ==
  /\ kpc'[current] = kpc[current] /\ karg'[current] = karg[current]
  /\ sig_pending'[current] \subseteq sig_pending[current] \cup CtrlC
  /\ UNCHANGED pipeVars

\* The running task is at a park point only by opening or staying in its window.
LEMMA CurrentWindow ==
  ASSUME ProcInv, Shape, kpc'[current] \in {"rpark", "wpark"}
  PROVE  OpensWindow \/ StaysInWindow
<1>0. /\ SchedInv /\ CallTypeOK /\ current \in Slots
      /\ kpc \in [Slots -> KernelPoints] /\ karg \in [Slots -> Arg]
      /\ sig_pending \in [Slots -> SUBSET Signals]
  BY DEF ProcInv, SchedInv, SchedTypeOK, CallTypeOK
<1>1. ASSUME NEW x, NEW a, MoveTo(x, a), x \notin {"rpark", "wpark"} PROVE FALSE
  BY <1>0, <1>1, MoveFacts
<1>2. ~Return
  BY <1>1 DEF Return
<1>3. CASE PlainStep
  BY <1>1, <1>3 DEF PlainStep, PlainPoints
<1>4. CASE OutsideStep
  BY <1>4 DEF OutsideStep, StaysInWindow
<1>5. CASE sys_fork \/ ReapChild
  <2>1. PICK k \in Slots : kpc' = [kpc EXCEPT ![k] = "user", ![current] = "user"]
    BY <1>5 DEF sys_fork, ReapChild, reap_task
  <2> QED
    BY <1>0, <2>1
<1>6. CASE raise_sigint
  <2>1. "sigint" \in Syscalls /\ UNCHANGED <<kpc, karg, pipeVars>>
    BY <1>6 DEF raise_sigint
  <2>2. sig_pending'[current] \subseteq sig_pending[current] \cup {SIGINT}
    BY <1>0, <1>6 DEF raise_sigint
  <2> QED
    BY <2>1, <2>2 DEF StaysInWindow, CtrlC
<1>7. CASE sys_open \/ CloseStep \/ DupStep \/ sys_pipe \/ KillStep
  BY <1>2, <1>7 DEF sys_open, CloseStep, DupStep, sys_pipe, KillStep, do_close, do_dup2, KillOther
<1>8. CASE TerminateStep \/ ParkReader \/ ParkWriter
  BY <1>1, <1>8 DEF TerminateStep, terminate_current, GoTo, ParkReader, ParkWriter, ParkOn
<1>9. CASE ReadStep
  <2>1. PICK p \in Pipes, n \in Nat \ {0} : pipe_read(p, n)
    BY <1>9 DEF ReadStep
  <2>2. /\ plen[p] = 0 /\ writers[p] # 0 /\ sig_pending[current] = {}
        /\ GoPark(p, "rpark", n) /\ UNCHANGED sigVars
    BY <1>2, <2>1 DEF pipe_read, PipeGivesUp
  <2>3. kpc'[current] = "rpark" /\ karg'[current] = [pipe |-> p, n |-> n]
    BY ZenonT(40), <1>0, <2>2, MoveFacts DEF GoPark, GoTo
  <2> QED
    BY SMT, <1>9, <2>2, <2>3 DEF GoPark, OpensWindow, sigVars
<1>10. CASE WriteStep
  <2>1. PICK p \in Pipes, n \in Nat \ {0} : pipe_write(p, n)
    BY <1>10 DEF WriteStep
  <2>2. ~MoveTo("pwrite", [pipe |-> p, n |-> n - Room(p)])
    BY SMT, <1>1
  <2>3. /\ Room(p) = 0 /\ readers[p] # 0 /\ sig_pending[current] = {}
        /\ GoPark(p, "wpark", n) /\ UNCHANGED sigVars
    BY <1>2, <2>1, <2>2 DEF pipe_write, PipeGivesUp, GoTo
  <2>4. kpc'[current] = "wpark" /\ karg'[current] = [pipe |-> p, n |-> n]
    BY <1>0, <2>3, MoveFacts DEF GoPark, GoTo
  <2> QED
    BY SMT, <1>10, <2>3, <2>4 DEF GoPark, OpensWindow, sigVars
<1> QED
  BY <1>3, <1>4, <1>5, <1>6, <1>7, <1>8, <1>9, <1>10 DEF Shape

\* The running task goes to sleep on a pipe only from that window, and says
\* in wait_pipe which pipe it is.
LEMMA CurrentSleeps ==
  ASSUME ProcInv, Shape, SchedInv', kpc'[current] \in {"pread", "pwrite"},
         state'[current] = "BLOCKED"
  PROVE  /\ kpc'[current] = "pread" => kpc[current] = "rpark"
         /\ kpc'[current] = "pwrite" => kpc[current] = "wpark"
         /\ karg'[current] = karg[current]
         /\ wait_pipe'[current] = karg[current].pipe
         /\ UNCHANGED <<sig_pending, pipeVars>>
<1>0. /\ SchedInv /\ CallTypeOK /\ current \in Slots
      /\ kpc \in [Slots -> KernelPoints] /\ kpc[IdleSlot] = "idle"
      /\ wait_pipe \in [Slots -> PipeOrNull]
  BY DEF ProcInv, SchedInv, SchedTypeOK, CallTypeOK, PointsOK
<1>1. current' # current
  <2>1. SingleRunner'
    BY DEF SchedInv
  <2> QED
    BY <1>0, <2>1 DEF SingleRunner
<1>2. ASSUME NEW x, NEW a, MoveTo(x, a), x \notin {"pread", "pwrite"} PROVE FALSE
  BY <1>0, <1>2, MoveFacts
<1>3. ~Return
  BY <1>2 DEF Return
<1>4. CASE PlainStep
  BY <1>2, <1>4 DEF PlainStep, PlainPoints
<1>5. CASE OutsideStep
  BY <1>0, <1>1, <1>5 DEF OutsideStep
<1>6. CASE sys_fork \/ ReapChild
  <2>1. PICK k \in Slots : kpc' = [kpc EXCEPT ![k] = "user", ![current] = "user"]
    BY <1>6 DEF sys_fork, ReapChild, reap_task
  <2> QED
    BY <1>0, <2>1
<1>7. CASE raise_sigint
  BY <1>1, <1>7 DEF raise_sigint, Wake, switchVars
<1>8. CASE sys_open \/ CloseStep \/ DupStep \/ sys_pipe \/ KillStep
  BY <1>3, <1>8 DEF sys_open, CloseStep, DupStep, sys_pipe, KillStep, do_close, do_dup2, KillOther
<1>9. CASE TerminateStep
  BY <1>2, <1>9 DEF TerminateStep, terminate_current, GoTo
<1>10. CASE ReadStep \/ WriteStep
  <2>1. current' = current
    BY <1>2, <1>3, <1>10 DEF ReadStep, WriteStep, pipe_read, pipe_write, PipeGivesUp,
       GoPark, Wake, schedVars, switchVars
  <2> QED
    BY <1>1, <2>1
<1>11. CASE ParkReader
  <2>1. kpc'[current] = "pread" /\ karg'[current] = karg[current]
    BY <1>0, <1>11, MoveFacts DEF ParkReader, ParkOn, GoTo
  <2> QED
    BY <1>0, <1>11, <2>1 DEF ParkReader, ParkOn, At, sigVars
<1>12. CASE ParkWriter
  <2>1. kpc'[current] = "pwrite" /\ karg'[current] = karg[current]
    BY <1>0, <1>12, MoveFacts DEF ParkWriter, ParkOn, GoTo
  <2> QED
    BY <1>0, <1>12, <2>1 DEF ParkWriter, ParkOn, At, sigVars
<1> QED
  BY <1>4, <1>5, <1>6, <1>7, <1>8, <1>9, <1>10, <1>11, <1>12 DEF Shape

\* Asleep in pipe_read or pipe_write.
ParkedOnPipe(s) == Parked(s, "pread") \/ Parked(s, "pwrite")

\* The inductive invariant of the sleepers: pipe_wake and sys_kill find them,
\* and only Ctrl+C can be pending for them or for a task about to join them.
SleepInv ==
  \A s \in Slots :
    /\ ParkedOnPipe(s) => wait_pipe[s] = karg[s].pipe
    /\ ParkedOnPipe(s) \/ kpc[s] \in {"rpark", "wpark"} => sig_pending[s] \subseteq CtrlC

\* A task other than the running one that is parked on a pipe after a step
\* was so before it, in the same call.
LEMMA ParkedBefore ==
  ASSUME ProcInv, Shape, [SchedNext]_schedVars, NEW s \in Slots \ {current},
         NEW point \in {"pread", "pwrite"}, Parked(s, point)'
  PROVE  /\ Parked(s, point) /\ karg'[s] = karg[s] /\ karg[s].pipe \in Pipes
         /\ wait_pipe'[s] = wait_pipe[s]
         /\ wait_pipe[s] # NoPipe => sig_pending'[s] \subseteq sig_pending[s] \cup CtrlC
<1>1. state'[s] = "BLOCKED" /\ ~zombie'[s] /\ kpc'[s] = point
  BY DEF Parked
<1>2. kpc'[s] = kpc[s] /\ karg'[s] = karg[s]
  BY <1>1, OthersUntouched DEF Untouched, Fresh
<1>3. state[s] = "BLOCKED" /\ ~zombie[s]
  BY <1>1, NobodyElseParks DEF ProcInv
<1>4. Parked(s, point)
  BY <1>1, <1>2, <1>3 DEF Parked
<1>5. karg[s].pipe \in Pipes
  BY <1>1, <1>2 DEF ProcInv, CallsOK, ReadPoints, WritePoints
<1> QED
  BY <1>1, <1>2, <1>3, <1>4, <1>5, StillParked

\* Every step preserves SleepInv.
LEMMA SleepStep ==
  ASSUME ProcInv, SleepInv, [Next]_vars, ProcInv'
  PROVE  SleepInv'
<1>0. /\ SchedInv /\ SchedInv' /\ current \in Slots
  BY DEF ProcInv, SchedInv, SchedTypeOK
<1>1. Shape /\ [SchedNext]_schedVars
  BY <1>0, Shapes, RefinesSched
<1> SUFFICES ASSUME NEW s \in Slots
             PROVE  /\ ParkedOnPipe(s)' => wait_pipe'[s] = karg'[s].pipe
                    /\ ParkedOnPipe(s)' \/ kpc'[s] \in {"rpark", "wpark"}
                         => sig_pending'[s] \subseteq CtrlC
  BY DEF SleepInv
<1>2. CASE s = current
  <2>1. ASSUME ParkedOnPipe(s)'
        PROVE  wait_pipe'[s] = karg'[s].pipe /\ sig_pending'[s] \subseteq CtrlC
    <3>1. kpc'[s] \in {"pread", "pwrite"} /\ state'[s] = "BLOCKED"
      BY <2>1 DEF ParkedOnPipe, Parked
    <3>2. /\ kpc[s] \in {"rpark", "wpark"} /\ karg'[s] = karg[s]
          /\ wait_pipe'[s] = karg[s].pipe /\ sig_pending' = sig_pending
      BY <1>0, <1>1, <1>2, <3>1, CurrentSleeps
    <3> QED
      BY <3>2 DEF SleepInv
  <2>2. ASSUME kpc'[s] \in {"rpark", "wpark"}
        PROVE  sig_pending'[s] \subseteq CtrlC
    <3>1. CASE OpensWindow
      BY <1>2, <3>1 DEF OpensWindow
    <3>2. CASE StaysInWindow
      BY <1>2, <2>2, <3>2 DEF StaysInWindow, SleepInv
    <3> QED
      BY <1>1, <1>2, <2>2, <3>1, <3>2, CurrentWindow
  <2> QED
    BY <2>1, <2>2
<1>3. CASE s # current
  <2>1. kpc'[s] \notin {"rpark", "wpark"}
    BY SMT, <1>1, <1>3, OthersUntouched DEF Untouched, Fresh, ProcInv, PointsOK
  <2>2. ASSUME NEW point \in {"pread", "pwrite"}, Parked(s, point)'
        PROVE  wait_pipe'[s] = karg'[s].pipe /\ sig_pending'[s] \subseteq CtrlC
    <3>1. /\ Parked(s, point) /\ karg'[s] = karg[s] /\ karg[s].pipe \in Pipes
          /\ wait_pipe'[s] = wait_pipe[s]
          /\ wait_pipe[s] # NoPipe => sig_pending'[s] \subseteq sig_pending[s] \cup CtrlC
      BY <1>1, <1>3, <2>2, ParkedBefore
    <3>2. wait_pipe[s] = karg[s].pipe /\ sig_pending[s] \subseteq CtrlC
      BY <3>1 DEF SleepInv, ParkedOnPipe
    <3> QED
      BY <3>1, <3>2
  <2>3. ParkedOnPipe(s)' => \E point \in {"pread", "pwrite"} : Parked(s, point)'
    BY DEF ParkedOnPipe
  <2> QED
    BY <2>1, <2>2, <2>3
<1> QED
  BY <1>2, <1>3

\* The inductive invariant of signals and sleepers holds.
LEMMA SleepInvHolds == Spec => []SleepInv
<1>1. Init => SleepInv
  BY DEF Init, ProcInit, SleepInv, ParkedOnPipe, Parked
<1>2. ProcInv /\ SleepInv /\ [Next]_vars /\ ProcInv' => SleepInv'
  BY SleepStep
<1> QED
  BY <1>1, <1>2, ProcInvHolds, PTL DEF Spec

\* Signals abort a sleep on a pipe, unless the keyboard interrupt sends
\* them: sig_abort, and the wake-ups of sys_kill, miss none.
THEOREM SignalsEndSleep ==
  ASSUME "sigint" \notin Syscalls
  PROVE  Spec => []SignalsAbortSleep
<1>1. SleepInv => SignalsAbortSleep
  BY DEF SleepInv, SignalsAbortSleep, ParkedOnPipe, CtrlC
<1> QED
  BY <1>1, SleepInvHolds, PTL

\* With the keyboard interrupt in play, SIGINT is the only signal that can
\* be pending for a task asleep on a pipe.
THEOREM OnlyCtrlCMissesSleep ==
  Spec => [](\A s \in Slots : ParkedOnPipe(s) => sig_pending[s] \subseteq {SIGINT})
<1>1. SleepInv => \A s \in Slots : ParkedOnPipe(s) => sig_pending[s] \subseteq {SIGINT}
  BY DEF SleepInv, CtrlC
<1> QED
  BY <1>1, SleepInvHolds, PTL

-----------------------------------------------------------------------------
(* Counting the descriptors that are open on an end of a pipe.             *)

\* The places of a table of descriptor tables that hold a given file.
Holders(T, file) == {sf \in Slots \X Fds : T[sf[1]][sf[2]] = file}

Count(T, kind, p) == Cardinality(Holders(T, [kind |-> kind, pipe |-> p]))

\* Two tables, or two tables of tables, that differ in one place only.
SameFdsBut(table, changed, f) == \A g \in Fds \ {f} : changed[g] = table[g]
SameSlotsBut(T, U, t) == \A s \in Slots \ {t} : U[s] = T[s]

\* A count that loses some of what it had and gains something.
Balance(after, before, lost, gained) == after = before - lost + gained /\ lost <= before

\* The descriptors of all tables are finitely many.
LEMMA FdsFinite == IsFiniteSet(Fds) /\ IsFiniteSet(Slots \X Fds)
<1>1. IsFiniteSet(0 .. MAX_FDS - 1) /\ IsFiniteSet(0 .. MAX_TASKS - 1)
  BY SMT, FS_Interval, MAX_FDS - 1 \in Int, MAX_TASKS - 1 \in Int
<1> QED
  BY <1>1, FS_Product DEF Fds

\* The number of descriptors on a file is a number.
LEMMA CountsNatural ==
  ASSUME NEW T, NEW file
  PROVE  IsFiniteSet(Holders(T, file)) /\ Cardinality(Holders(T, file)) \in Nat
<1>1. Holders(T, file) \in SUBSET (Slots \X Fds)
  BY DEF Holders
<1>2. IsFiniteSet(Holders(T, file))
  BY <1>1, FdsFinite, FS_Subset
<1> QED
  BY <1>2, FS_CardinalityType

\* The number of descriptors of one table on a pipe end is a number.
LEMMA EndsFinite ==
  ASSUME NEW table, NEW kind, NEW p
  PROVE  /\ IsFiniteSet({f \in Fds : table[f] = [kind |-> kind, pipe |-> p]})
         /\ EndsOf(table, kind, p) \in Nat
<1> DEFINE S == {f \in Fds : table[f] = [kind |-> kind, pipe |-> p]}
<1>1. S \in SUBSET Fds
  OBVIOUS
<1>2. IsFiniteSet(S)
  BY <1>1, FdsFinite, FS_Subset
<1> QED
  BY <1>2, FS_CardinalityType DEF EndsOf

\* A table without the end counts zero, one with it at least one.
LEMMA EndsPositive ==
  ASSUME NEW table, NEW kind, NEW p
  PROVE  EndsOf(table, kind, p) = 0 <=> \A f \in Fds : table[f] # [kind |-> kind, pipe |-> p]
<1> DEFINE S == {f \in Fds : table[f] = [kind |-> kind, pipe |-> p]}
<1>1. IsFiniteSet(S)
  BY SMT, EndsFinite
<1>2. Cardinality(S) = 0 <=> S = {}
  BY <1>1, FS_EmptySet
<1> QED
  BY <1>2 DEF EndsOf

\* The descriptors of one task, counted in the table of tables.
LEMMA RowCount ==
  ASSUME NEW T, NEW t \in Slots, NEW kind, NEW p
  PROVE  LET row == {sf \in Holders(T, [kind |-> kind, pipe |-> p]) : sf[1] = t}
         IN  IsFiniteSet(row) /\ Cardinality(row) = EndsOf(T[t], kind, p)
<1> DEFINE e == [kind |-> kind, pipe |-> p]
           row == {sf \in Holders(T, e) : sf[1] = t}
           S == {f \in Fds : T[t][f] = e}
           g == [f \in S |-> <<t, f>>]
<1>1. IsFiniteSet(S)
  BY SMT, EndsFinite
<1> HIDE DEF e
<1>2. g \in [S -> row]
  BY DEF Holders
<1>3. g \in Bijection(S, row)
  <2>1. \A a, b \in S : g[a] = g[b] => a = b
    OBVIOUS
  <2>2. ASSUME NEW r \in row PROVE \E f \in S : g[f] = r
    <3>1. r = <<t, r[2]>> /\ r[2] \in S
      BY SMT DEF Holders
    <3> QED
      BY <3>1
  <2> QED
    BY <1>2, <2>1, <2>2 DEF Bijection, Injection, Surjection, IsInjective
<1>4. ExistsBijection(S, row)
  BY <1>3 DEF ExistsBijection
<1> QED
  BY <1>1, <1>4, FS_Bijection DEF EndsOf, e

\* Replacing the descriptors of one task changes the count by the difference.
LEMMA TableCount ==
  ASSUME NEW T, NEW U, NEW t \in Slots, SameSlotsBut(T, U, t), NEW kind, NEW p
  PROVE  Balance(Count(U, kind, p), Count(T, kind, p),
                 EndsOf(T[t], kind, p), EndsOf(U[t], kind, p))
<1> DEFINE e == [kind |-> kind, pipe |-> p]
           rest == {sf \in Holders(T, e) : sf[1] # t}
           row(V) == {sf \in Holders(V, e) : sf[1] = t}
<1> HIDE DEF e
<1>1. rest = {sf \in Holders(U, e) : sf[1] # t}
  BY DEF Holders, SameSlotsBut
<1>2. IsFiniteSet(rest) /\ Cardinality(rest) \in Nat
  BY CountsNatural, FS_Subset, FS_CardinalityType, rest \in SUBSET Holders(T, e)
<1>3. ASSUME NEW V, rest = {sf \in Holders(V, e) : sf[1] # t}
      PROVE  Cardinality(Holders(V, e)) = Cardinality(rest) + EndsOf(V[t], kind, p)
  <2>1. Holders(V, e) = rest \cup row(V) /\ rest \cap row(V) = {}
    BY <1>3
  <2>2. IsFiniteSet(row(V)) /\ Cardinality(row(V)) = EndsOf(V[t], kind, p)
    BY ZenonT(40), RowCount DEF e
  <2> HIDE DEF rest, row
  <2>3. Cardinality(rest \cup row(V)) = Cardinality(rest) + Cardinality(row(V)) - Cardinality({})
    BY <1>2, <2>1, <2>2, FS_Union
  <2>4. Cardinality({}) = 0 /\ EndsOf(V[t], kind, p) \in Nat
    BY FS_EmptySet, EndsFinite
  <2> QED
    BY SMTT(20), <1>2, <2>1, <2>2, <2>3, <2>4
<1>4. /\ Cardinality(Holders(T, e)) = Cardinality(rest) + EndsOf(T[t], kind, p)
      /\ Cardinality(Holders(U, e)) = Cardinality(rest) + EndsOf(U[t], kind, p)
  BY <1>1, <1>3
<1>5. EndsOf(T[t], kind, p) \in Nat /\ EndsOf(U[t], kind, p) \in Nat
  BY EndsFinite
<1> HIDE DEF rest
<1>6. /\ Cardinality(Holders(U, e)) =
           Cardinality(Holders(T, e)) - EndsOf(T[t], kind, p) + EndsOf(U[t], kind, p)
      /\ EndsOf(T[t], kind, p) <= Cardinality(Holders(T, e))
  BY SMT, <1>2, <1>4, <1>5
<1> QED
  BY <1>6 DEF e, Count, Balance

\* One descriptor counts one on the end it is open on.
LEMMA OnlyCount ==
  ASSUME NEW f \in Fds, NEW file, NEW kind \in {"rd", "wr"}, NEW p
  PROVE  EndsOf(Only(f, file), kind, p) = IF file = [kind |-> kind, pipe |-> p] THEN 1 ELSE 0
<1> DEFINE e == [kind |-> kind, pipe |-> p]
           S == {g \in Fds : Only(f, file)[g] = e}
<1>1. NoFile # e
  BY DEF NoFile
<1> HIDE DEF e
<1>2. S = IF file = e THEN {f} ELSE {}
  BY <1>1 DEF Only
<1>3. Cardinality({f}) = 1 /\ Cardinality({}) = 0
  BY FS_Singleton, FS_EmptySet
<1>4. Cardinality(S) = IF file = e THEN 1 ELSE 0
  BY <1>2, <1>3
<1> QED
  BY <1>4 DEF EndsOf, e

\* Replacing one descriptor of a task.
LEMMA CellCount ==
  ASSUME NEW table, NEW changed, NEW f \in Fds, SameFdsBut(table, changed, f),
         NEW kind \in {"rd", "wr"}, NEW p
  PROVE  /\ Balance(EndsOf(changed, kind, p), EndsOf(table, kind, p),
                    EndsOf(Only(f, table[f]), kind, p), EndsOf(Only(f, changed[f]), kind, p))
         /\ \A g \in Fds \ {f} : table[g] = [kind |-> kind, pipe |-> p]
              => EndsOf(Only(f, table[f]), kind, p) < EndsOf(table, kind, p)
<1> DEFINE e == [kind |-> kind, pipe |-> p]
           one(x) == IF x = e THEN 1 ELSE 0
           S(tab) == {g \in Fds : tab[g] = e}
           R == {g \in Fds \ {f} : table[g] = e}
<1>1. /\ EndsOf(Only(f, table[f]), kind, p) = one(table[f])
      /\ EndsOf(Only(f, changed[f]), kind, p) = one(changed[f])
  BY SMT, OnlyCount
<1>2. \A tab : EndsOf(tab, kind, p) = Cardinality(S(tab))
  BY DEF EndsOf
<1> HIDE DEF e
<1>3. IsFiniteSet(R) /\ Cardinality(R) \in Nat
  BY FdsFinite, FS_Subset, FS_CardinalityType, R \in SUBSET Fds
<1>4. Cardinality(R \cup {f}) = Cardinality(R) + 1
  BY <1>3, FS_AddElement, f \notin R
<1>5. ASSUME NEW tab, SameFdsBut(table, tab, f)
      PROVE  Cardinality(S(tab)) = Cardinality(R) + one(tab[f])
  <2>1. CASE tab[f] = e
    <3>1. S(tab) = R \cup {f}
      BY <1>5, <2>1 DEF SameFdsBut
    <3> QED
      BY <1>4, <2>1, <3>1
  <2>2. CASE tab[f] # e
    <3>1. S(tab) = R
      BY <1>5, <2>2 DEF SameFdsBut
    <3> QED
      BY SMT, <1>3, <2>2, <3>1
  <2> QED
    BY <2>1, <2>2
<1>6. /\ Cardinality(S(table)) = Cardinality(R) + one(table[f])
      /\ Cardinality(S(changed)) = Cardinality(R) + one(changed[f])
  <2>1. SameFdsBut(table, table, f)
    BY DEF SameFdsBut
  <2> QED
    BY <1>5, <2>1
<1>7. ASSUME NEW g \in Fds \ {f}, table[g] = e PROVE Cardinality(R) > 0
  <2>1. R # {}
    BY <1>7
  <2> HIDE DEF R
  <2> QED
    BY SMT, <1>3, <2>1, FS_EmptySet
<1> HIDE DEF R, S
<1>8. /\ Cardinality(S(changed)) = Cardinality(S(table)) - one(table[f]) + one(changed[f])
      /\ one(table[f]) <= Cardinality(S(table))
      /\ \A g \in Fds \ {f} : table[g] = e => one(table[f]) < Cardinality(S(table))
  BY SMT, <1>3, <1>6, <1>7
<1> QED
  BY <1>1, <1>2, <1>8 DEF e, Balance

\* An untouched pipe is not counted.
LEMMA UntouchedCount ==
  ASSUME NEW table \in [Fds -> File], NEW kind, NEW p \in Pipes, p \notin Touched(table)
  PROVE  EndsOf(table, kind, p) = 0
<1>1. \A f \in Fds : table[f].pipe # p
  BY DEF Touched
<1>2. \A f \in Fds : table[f] # [kind |-> kind, pipe |-> p]
  BY SMT, <1>1
<1> QED
  BY <1>2, EndsPositive

\* An empty table holds no pipe end.
LEMMA NoFilesCount ==
  ASSUME NEW kind \in {"rd", "wr"}, NEW p
  PROVE  EndsOf(NoFiles, kind, p) = 0
<1>1. \A f \in Fds : NoFiles[f] # [kind |-> kind, pipe |-> p]
  BY DEF NoFiles, NoFile
<1> QED
  BY <1>1, EndsPositive

-----------------------------------------------------------------------------
(* The counts of the pipes.                                                *)

\* The inductive invariant of the counts: those of a pipe in use are its open
\* descriptors, and a pipe not in use has none.
PipeInv ==
  /\ readers \in [Pipes -> Nat]
  /\ writers \in [Pipes -> Nat]
  /\ PipeCounts

\* PipeCounts of the counts rd and wr, the pipes alive and a table.
Tally(rd, wr, alive, T) ==
  \A p \in Pipes :
    /\ rd[p] = Count(T, "rd", p)
    /\ wr[p] = Count(T, "wr", p)
    /\ p \in alive <=> rd[p] + wr[p] > 0

\* PipeCounts, as a relation between the counters and the tables.
LEMMA CountsTally ==
  /\ PipeCounts <=> Tally(readers, writers, livePipes, fds)
  /\ PipeCounts' <=> Tally(readers', writers', livePipes', fds')
BY DEF PipeCounts, EndsInTable, Tally, Count, Holders

\* Counts that tally are natural numbers.
LEMMA TallyTypes ==
  ASSUME NEW rd, NEW wr, NEW alive, NEW T, Tally(rd, wr, alive, T),
         rd = [p \in Pipes |-> rd[p]], wr = [p \in Pipes |-> wr[p]]
  PROVE  rd \in [Pipes -> Nat] /\ wr \in [Pipes -> Nat]
<1>1. \A p \in Pipes : Count(T, "rd", p) \in Nat /\ Count(T, "wr", p) \in Nat
  BY CountsNatural DEF Count
<1>2. \A p \in Pipes : rd[p] \in Nat /\ wr[p] \in Nat
  BY <1>1 DEF Tally
<1> QED
  BY <1>2

\* What a caller of pipe_unref owes: the table loses and gains exactly the
\* ends it says, and an end it gains is also held elsewhere.
Accounts(lost, gained) ==
  \A p \in Pipes, kind \in {"rd", "wr"} :
    /\ Balance(Count(fds', kind, p), Count(fds, kind, p),
               EndsOf(lost, kind, p), EndsOf(gained, kind, p))
    /\ EndsOf(gained, kind, p) > 0 => EndsOf(lost, kind, p) < Count(fds, kind, p)

\* pipe_unref keeps the counts of a caller that does.
LEMMA UnrefTallies ==
  ASSUME PipeInv, NEW lost \in [Fds -> File], NEW gained, Accounts(lost, gained),
         pipe_unref(lost, gained)
  PROVE  PipeInv'
<1> DEFINE rd == [p \in Pipes |-> readers[p] - EndsOf(lost, "rd", p)]
           wr == [p \in Pipes |-> writers[p] - EndsOf(lost, "wr", p)]
           freed == {p \in Touched(lost) : NoRefs(rd[p], wr[p])}
<1>1. /\ livePipes' = livePipes \ freed
      /\ readers' = [p \in Pipes |-> IF p \in freed THEN 0
                                     ELSE rd[p] + EndsOf(gained, "rd", p)]
      /\ writers' = [p \in Pipes |-> IF p \in freed THEN 0
                                     ELSE wr[p] + EndsOf(gained, "wr", p)]
  BY DEF pipe_unref
<1>2. Tally(readers, writers, livePipes, fds)
  BY CountsTally DEF PipeInv
<1>3. Tally(readers', writers', livePipes', fds')
  <2> SUFFICES ASSUME NEW p \in Pipes
               PROVE  /\ readers'[p] = Count(fds', "rd", p)
                      /\ writers'[p] = Count(fds', "wr", p)
                      /\ p \in livePipes' <=> readers'[p] + writers'[p] > 0
    BY DEF Tally
  <2>1. /\ readers[p] = Count(fds, "rd", p) /\ writers[p] = Count(fds, "wr", p)
        /\ p \in livePipes <=> readers[p] + writers[p] > 0
        /\ readers[p] \in Nat /\ writers[p] \in Nat
    BY <1>2 DEF Tally, PipeInv
  <2>2. /\ EndsOf(lost, "rd", p) \in Nat /\ EndsOf(lost, "wr", p) \in Nat
        /\ EndsOf(gained, "rd", p) \in Nat /\ EndsOf(gained, "wr", p) \in Nat
    BY EndsFinite
  <2>3. /\ EndsOf(lost, "rd", p) <= readers[p] /\ EndsOf(lost, "wr", p) <= writers[p]
        /\ Count(fds', "rd", p) = readers[p] - EndsOf(lost, "rd", p) + EndsOf(gained, "rd", p)
        /\ Count(fds', "wr", p) = writers[p] - EndsOf(lost, "wr", p) + EndsOf(gained, "wr", p)
        /\ EndsOf(gained, "rd", p) > 0 => EndsOf(lost, "rd", p) < readers[p]
        /\ EndsOf(gained, "wr", p) > 0 => EndsOf(lost, "wr", p) < writers[p]
    BY <2>1 DEF Accounts, Balance
  <2>4. /\ rd[p] = readers[p] - EndsOf(lost, "rd", p)
        /\ wr[p] = writers[p] - EndsOf(lost, "wr", p)
    OBVIOUS
  <2>5. p \in freed <=> p \in Touched(lost) /\ rd[p] <= 0 /\ wr[p] <= 0
    BY DEF NoRefs
  <2>6. p \notin Touched(lost) => EndsOf(lost, "rd", p) = 0 /\ EndsOf(lost, "wr", p) = 0
    BY UntouchedCount
  <2> HIDE DEF rd, wr, freed
  <2>7. CASE p \in freed
    <3>1. readers'[p] = 0 /\ writers'[p] = 0 /\ p \notin livePipes'
      BY <1>1, <2>7
    <3> QED
      BY SMTT(20), <2>1, <2>2, <2>3, <2>4, <2>5, <2>7, <3>1
  <2>8. CASE p \notin freed
    <3>1. /\ readers'[p] = rd[p] + EndsOf(gained, "rd", p)
          /\ writers'[p] = wr[p] + EndsOf(gained, "wr", p)
          /\ p \in livePipes' <=> p \in livePipes
      BY <1>1, <2>8
    <3> QED
      BY SMTT(20), <2>1, <2>2, <2>3, <2>4, <2>5, <2>6, <2>8, <3>1
  <2> QED
    BY <2>7, <2>8
<1>4. readers' = [p \in Pipes |-> readers'[p]] /\ writers' = [p \in Pipes |-> writers'[p]]
  BY <1>1
<1> QED
  BY <1>3, <1>4, CountsTally, TallyTypes DEF PipeInv

\* Storing a file in a slot of one task's descriptor table.
LEMMA StoreCount ==
  ASSUME NEW T, NEW U, NEW t \in Slots, NEW f \in Fds, NEW kind \in {"rd", "wr"}, NEW p,
         SameSlotsBut(T, U, t), SameFdsBut(T[t], U[t], f)
  PROVE  /\ Balance(Count(U, kind, p), Count(T, kind, p),
                    EndsOf(Only(f, T[t][f]), kind, p), EndsOf(Only(f, U[t][f]), kind, p))
         /\ \A g \in Fds \ {f} : T[t][g] = [kind |-> kind, pipe |-> p]
              => EndsOf(Only(f, T[t][f]), kind, p) < Count(T, kind, p)
<1> DEFINE one(x) == EndsOf(Only(f, x), kind, p)
           all(V) == EndsOf(V[t], kind, p)
<1>1. /\ Balance(all(U), all(T), one(T[t][f]), one(U[t][f]))
      /\ \A g \in Fds \ {f} : T[t][g] = [kind |-> kind, pipe |-> p] => one(T[t][f]) < all(T)
  BY CellCount
<1>2. all(T) \in Nat /\ all(U) \in Nat /\ one(T[t][f]) \in Nat /\ one(U[t][f]) \in Nat
  BY EndsFinite
<1>3. Balance(Count(U, kind, p), Count(T, kind, p), all(T), all(U))
  BY TableCount
<1>4. Count(T, kind, p) \in Nat
  BY CountsNatural DEF Count
<1> HIDE DEF one, all
<1>5. /\ Balance(Count(U, kind, p), Count(T, kind, p), one(T[t][f]), one(U[t][f]))
      /\ \A g \in Fds \ {f} :
           T[t][g] = [kind |-> kind, pipe |-> p] => one(T[t][f]) < Count(T, kind, p)
  BY SMT, <1>1, <1>2, <1>3, <1>4 DEF Balance
<1> QED
  BY <1>5 DEF one

\* A dead task's descriptors are all dropped.
LEMMA ReleaseAccounts ==
  ASSUME CallTypeOK, NEW t \in Slots, fds' = [fds EXCEPT ![t] = NoFiles]
  PROVE  Accounts(fds[t], NoFiles)
<1>1. fds'[t] = NoFiles /\ SameSlotsBut(fds, fds', t)
  BY DEF CallTypeOK, SameSlotsBut
<1>2. ASSUME NEW p \in Pipes, NEW kind \in {"rd", "wr"}
      PROVE  /\ Balance(Count(fds', kind, p), Count(fds, kind, p),
                        EndsOf(fds[t], kind, p), EndsOf(NoFiles, kind, p))
             /\ ~(EndsOf(NoFiles, kind, p) > 0)
  <2>1. EndsOf(NoFiles, kind, p) = 0
    BY NoFilesCount
  <2>2. Balance(Count(fds', kind, p), Count(fds, kind, p),
                EndsOf(fds[t], kind, p), EndsOf(fds'[t], kind, p))
    BY <1>1, TableCount
  <2> QED
    BY SMT, <1>1, <2>1, <2>2
<1> QED
  BY <1>2 DEF Accounts

\* close and dup2 replace one descriptor, dup2 by another one of the task.
LEMMA ReplaceAccounts ==
  ASSUME CallTypeOK, current \in Slots, NEW f \in Fds, NEW file \in File,
         file = NoFile \/ \E old \in Fds \ {f} : file = fds[current][old],
         fds' = [fds EXCEPT ![current][f] = file]
  PROVE  Accounts(Only(f, fds[current][f]), Only(f, file))
<1> DEFINE one(x, kind, p) == EndsOf(Only(f, x), kind, p)
<1>1. /\ SameSlotsBut(fds, fds', current) /\ SameFdsBut(fds[current], fds'[current], f)
      /\ fds'[current][f] = file
  BY StoreFd DEF SameSlotsBut, SameFdsBut
<1>2. ASSUME NEW p \in Pipes, NEW kind \in {"rd", "wr"}
      PROVE  /\ Balance(Count(fds', kind, p), Count(fds, kind, p),
                        one(fds[current][f], kind, p), one(file, kind, p))
             /\ one(file, kind, p) > 0 =>
                  one(fds[current][f], kind, p) < Count(fds, kind, p)
  <2>1. /\ Balance(Count(fds', kind, p), Count(fds, kind, p),
                   one(fds[current][f], kind, p), one(fds'[current][f], kind, p))
        /\ \A g \in Fds \ {f} : fds[current][g] = [kind |-> kind, pipe |-> p]
             => one(fds[current][f], kind, p) < Count(fds, kind, p)
    BY <1>1, StoreCount
  <2>2. one(file, kind, p) = IF file = [kind |-> kind, pipe |-> p] THEN 1 ELSE 0
    BY SMT, OnlyCount
  <2>3. NoFile # [kind |-> kind, pipe |-> p]
    BY DEF NoFile
  <2> HIDE DEF one
  <2> QED
    BY SMTT(20), <1>1, <2>1, <2>2, <2>3
<1> QED
  BY <1>2 DEF Accounts

\* open stores a file that is on no pipe in a free descriptor.
LEMMA OpenTallies ==
  ASSUME ProcInv, PipeInv, sys_open
  PROVE  PipeInv'
<1>0. CallTypeOK /\ current \in Slots
  BY DEF ProcInv, SchedInv, SchedTypeOK
<1>1. PICK f \in Fds : fds[current][f] = NoFile /\ fds' = [fds EXCEPT ![current][f] = NodeFile]
  BY DEF sys_open, fd_alloc, Used
<1>2. /\ SameSlotsBut(fds, fds', current) /\ SameFdsBut(fds[current], fds'[current], f)
      /\ fds'[current][f] = NodeFile
  <2>1. NodeFile \in File
    BY DEF NodeFile, File, PipeOrNull
  <2> QED
    BY <1>0, <1>1, <2>1, StoreFd DEF SameSlotsBut, SameFdsBut
<1>3. ASSUME NEW p \in Pipes, NEW kind \in {"rd", "wr"}
      PROVE  Count(fds', kind, p) = Count(fds, kind, p)
  <2>1. Balance(Count(fds', kind, p), Count(fds, kind, p),
                EndsOf(Only(f, NoFile), kind, p), EndsOf(Only(f, NodeFile), kind, p))
    BY <1>0, <1>1, <1>2, StoreCount
  <2>2. EndsOf(Only(f, NoFile), kind, p) = 0 /\ EndsOf(Only(f, NodeFile), kind, p) = 0
    BY SMT, OnlyCount DEF NoFile, NodeFile
  <2>3. Count(fds, kind, p) \in Nat
    BY CountsNatural DEF Count
  <2> QED
    BY SMT, <2>1, <2>2, <2>3 DEF Balance
<1>4. UNCHANGED <<livePipes, readers, writers>>
  BY DEF sys_open, pipeVars
<1>5. Tally(readers, writers, livePipes, fds)
  BY CountsTally DEF PipeInv
<1>6. Tally(readers', writers', livePipes', fds')
  BY <1>3, <1>4, <1>5 DEF Tally
<1> QED
  BY <1>4, <1>6, CountsTally DEF PipeInv

\* fork takes a reference for each descriptor of the child.
LEMMA ForkTallies ==
  ASSUME ProcInv, PipeInv, sys_fork
  PROVE  PipeInv'
<1>0. CallTypeOK /\ current \in Slots /\ fds \in [Slots -> [Fds -> File]]
  BY DEF ProcInv, SchedInv, SchedTypeOK, CallTypeOK
<1>1. PICK t \in Slots : state[t] = "FREE" /\ fds' = [fds EXCEPT ![t] = fds[current]]
  BY DEF sys_fork, sched_spawn_user_task, alloc_slot
<1>2. fds[t] = NoFiles /\ fds'[t] = fds[current] /\ SameSlotsBut(fds, fds', t)
  BY <1>0, <1>1 DEF ProcInv, PointsOK, SameSlotsBut
<1>3. ASSUME NEW p \in Pipes, NEW kind \in {"rd", "wr"}
      PROVE  /\ Count(fds', kind, p) = Count(fds, kind, p) + EndsOf(fds[current], kind, p)
             /\ EndsOf(fds[current], kind, p) \in 0 .. Count(fds, kind, p)
             /\ Count(fds, kind, p) \in Nat
  <2>1. Balance(Count(fds', kind, p), Count(fds, kind, p),
                EndsOf(NoFiles, kind, p), EndsOf(fds[current], kind, p))
    BY <1>2, TableCount
  <2>2. SameSlotsBut(fds, fds, current)
    BY DEF SameSlotsBut
  <2>3. Balance(Count(fds, kind, p), Count(fds, kind, p),
                EndsOf(fds[current], kind, p), EndsOf(fds[current], kind, p))
    BY <1>0, <2>2, TableCount
  <2>4. EndsOf(NoFiles, kind, p) = 0 /\ EndsOf(fds[current], kind, p) \in Nat
    BY NoFilesCount, EndsFinite
  <2>5. Count(fds, kind, p) \in Nat
    BY CountsNatural DEF Count
  <2> QED
    BY SMT, <2>1, <2>3, <2>4, <2>5 DEF Balance
<1>4. /\ readers' = [p \in Pipes |-> readers[p] + EndsOf(fds[current], "rd", p)]
      /\ writers' = [p \in Pipes |-> writers[p] + EndsOf(fds[current], "wr", p)]
      /\ livePipes' = livePipes
  BY DEF sys_fork, pipe_ref
<1>5. Tally(readers, writers, livePipes, fds)
  BY CountsTally DEF PipeInv
<1>6. Tally(readers', writers', livePipes', fds')
  <2> SUFFICES ASSUME NEW p \in Pipes
               PROVE  /\ readers'[p] = Count(fds', "rd", p)
                      /\ writers'[p] = Count(fds', "wr", p)
                      /\ p \in livePipes' <=> readers'[p] + writers'[p] > 0
    BY DEF Tally
  <2>1. /\ readers'[p] = readers[p] + EndsOf(fds[current], "rd", p)
        /\ writers'[p] = writers[p] + EndsOf(fds[current], "wr", p)
        /\ p \in livePipes' <=> p \in livePipes
    BY <1>4
  <2>2. /\ readers[p] = Count(fds, "rd", p) /\ writers[p] = Count(fds, "wr", p)
        /\ p \in livePipes <=> readers[p] + writers[p] > 0
    BY <1>5 DEF Tally
  <2> QED
    BY SMT, <1>3, <2>1, <2>2
<1>7. readers' = [p \in Pipes |-> readers'[p]] /\ writers' = [p \in Pipes |-> writers'[p]]
  BY <1>4
<1> QED
  BY <1>6, <1>7, CountsTally, TallyTypes DEF PipeInv

\* pipe starts both counts at one.
LEMMA NewPipeTallies ==
  ASSUME ProcInv, PipeInv, sys_pipe
  PROVE  PipeInv'
<1>0. CallTypeOK /\ current \in Slots /\ fds \in [Slots -> [Fds -> File]]
  BY DEF ProcInv, SchedInv, SchedTypeOK, CallTypeOK
<1>1. PICK p \in Pipes \ livePipes, rd \in Fds, wr \in Fds :
        /\ rd < wr /\ fds[current][rd] = NoFile /\ fds[current][wr] = NoFile
        /\ fds' = [fds EXCEPT ![current][rd] = RdEnd(p), ![current][wr] = WrEnd(p)]
        /\ livePipes' = livePipes \cup {p}
        /\ readers' = [readers EXCEPT ![p] = 1]
        /\ writers' = [writers EXCEPT ![p] = 1]
  BY DEF sys_pipe, fd_alloc, Used
<1> DEFINE T == [fds EXCEPT ![current] = [fds[current] EXCEPT ![rd] = RdEnd(p)]]
<1>2. rd # wr
  BY SMT, <1>1 DEF Fds
<1>3. /\ SameSlotsBut(fds, T, current) /\ SameFdsBut(fds[current], T[current], rd)
      /\ T[current][rd] = RdEnd(p) /\ T[current][wr] = NoFile
  BY <1>0, <1>1, <1>2 DEF SameSlotsBut, SameFdsBut
<1>4. /\ SameSlotsBut(T, fds', current) /\ SameFdsBut(T[current], fds'[current], wr)
      /\ fds'[current][wr] = WrEnd(p)
  BY <1>0, <1>1, <1>2 DEF SameSlotsBut, SameFdsBut
<1> HIDE DEF T
<1>5. ASSUME NEW q \in Pipes, NEW kind \in {"rd", "wr"}
      PROVE  Count(fds', kind, q) = Count(fds, kind, q) + (IF q = p THEN 1 ELSE 0)
  <2>1. Balance(Count(T, kind, q), Count(fds, kind, q),
                EndsOf(Only(rd, NoFile), kind, q), EndsOf(Only(rd, RdEnd(p)), kind, q))
    BY <1>0, <1>1, <1>3, StoreCount
  <2>2. Balance(Count(fds', kind, q), Count(T, kind, q),
                EndsOf(Only(wr, NoFile), kind, q), EndsOf(Only(wr, WrEnd(p)), kind, q))
    <3>1. Balance(Count(fds', kind, q), Count(T, kind, q),
                  EndsOf(Only(wr, T[current][wr]), kind, q),
                  EndsOf(Only(wr, fds'[current][wr]), kind, q))
      BY <1>0, <1>4, StoreCount
    <3> QED
      BY <1>3, <1>4, <3>1
  <2>3. EndsOf(Only(rd, NoFile), kind, q) = 0 /\ EndsOf(Only(wr, NoFile), kind, q) = 0
    BY SMT, OnlyCount DEF NoFile
  <2>4. EndsOf(Only(rd, RdEnd(p)), kind, q) = IF kind = "rd" /\ q = p THEN 1 ELSE 0
    BY SMT, OnlyCount DEF RdEnd
  <2>5. EndsOf(Only(wr, WrEnd(p)), kind, q) = IF kind = "wr" /\ q = p THEN 1 ELSE 0
    BY SMT, OnlyCount DEF WrEnd
  <2>6. Count(fds, kind, q) \in Nat
    BY CountsNatural DEF Count
  <2> QED
    BY SMTT(20), <2>1, <2>2, <2>3, <2>4, <2>5, <2>6 DEF Balance
<1>6. Tally(readers, writers, livePipes, fds) /\ readers \in [Pipes -> Nat] /\ writers \in [Pipes -> Nat]
  BY CountsTally DEF PipeInv
<1>7. Tally(readers', writers', livePipes', fds')
  <2> SUFFICES ASSUME NEW q \in Pipes
               PROVE  /\ readers'[q] = Count(fds', "rd", q)
                      /\ writers'[q] = Count(fds', "wr", q)
                      /\ q \in livePipes' <=> readers'[q] + writers'[q] > 0
    BY DEF Tally
  <2>1. /\ readers[q] = Count(fds, "rd", q) /\ writers[q] = Count(fds, "wr", q)
        /\ q \in livePipes <=> readers[q] + writers[q] > 0
        /\ readers[q] \in Nat /\ writers[q] \in Nat
    BY <1>6 DEF Tally
  <2>2. /\ readers'[q] = (IF q = p THEN 1 ELSE readers[q])
        /\ writers'[q] = (IF q = p THEN 1 ELSE writers[q])
        /\ q \in livePipes' <=> q \in livePipes \/ q = p
    BY <1>1, <1>6
  <2>3. /\ Count(fds', "rd", q) = Count(fds, "rd", q) + (IF q = p THEN 1 ELSE 0)
        /\ Count(fds', "wr", q) = Count(fds, "wr", q) + (IF q = p THEN 1 ELSE 0)
    BY <1>5
  <2> QED
    BY SMTT(20), <1>1, <2>1, <2>2, <2>3
<1>8. readers' \in [Pipes -> Nat] /\ writers' \in [Pipes -> Nat]
  BY <1>1, <1>6
<1> QED
  BY <1>7, <1>8, CountsTally DEF PipeInv

\* Every shape of a step preserves PipeInv.
LEMMA PipeInvStep ==
  ASSUME ProcInv, PipeInv, Shape
  PROVE  PipeInv'
<1>0. CallTypeOK /\ current \in Slots /\ fds \in [Slots -> [Fds -> File]]
  BY DEF ProcInv, SchedInv, SchedTypeOK, CallTypeOK
<1>1. ASSUME UNCHANGED <<fds, livePipes, readers, writers>> PROVE PipeInv'
  <2>1. Tally(readers, writers, livePipes, fds)
    BY CountsTally DEF PipeInv
  <2>2. Tally(readers', writers', livePipes', fds')
    BY <1>1, <2>1
  <2> QED
    BY <1>1, <2>2, CountsTally DEF PipeInv
<1>2. CASE PlainStep \/ OutsideStep \/ ParkReader \/ ParkWriter \/ KillStep \/ raise_sigint
  BY <1>1, <1>2 DEF PlainStep, OutsideStep, ParkReader, ParkWriter, ParkOn, KillStep, KillOther,
     raise_sigint, pipeVars
<1>3. CASE ReadStep \/ WriteStep
  <2>1. UNCHANGED <<fds, livePipes, readers, writers>>
    BY <1>3 DEF ReadStep, WriteStep, pipe_read, pipe_write, PipeGivesUp, GoPark, pipeVars
  <2> QED
    BY <1>1, <2>1
<1>4. ASSUME NEW t \in Slots, fds' = [fds EXCEPT ![t] = NoFiles], pipe_unref(fds[t], NoFiles)
      PROVE  PipeInv'
  <2>1. Accounts(fds[t], NoFiles) /\ fds[t] \in [Fds -> File]
    BY <1>0, <1>4, ReleaseAccounts
  <2> QED
    BY <1>4, <2>1, UnrefTallies
<1>5. CASE TerminateStep
  BY <1>0, <1>4, <1>5 DEF TerminateStep, terminate_current
<1>6. CASE ReapChild
  BY <1>4, <1>6 DEF ReapChild, reap_task
<1>7. ASSUME NEW f \in Fds, NEW file \in File, ReplaceFd(f, file),
             file = NoFile \/ \E old \in Fds \ {f} : file = fds[current][old]
      PROVE  PipeInv'
  <2>1. /\ fds' = [fds EXCEPT ![current][f] = file]
        /\ pipe_unref(Only(f, fds[current][f]), Only(f, file))
    BY <1>7 DEF ReplaceFd
  <2>2. Accounts(Only(f, fds[current][f]), Only(f, file))
    BY <1>0, <1>7, <2>1, ReplaceAccounts
  <2>3. Only(f, fds[current][f]) \in [Fds -> File]
    BY SMT, <1>0 DEF Only, NoFile, File, PipeOrNull
  <2> QED
    BY <2>1, <2>2, <2>3, UnrefTallies
<1>8. CASE CloseStep
  <2>1. NoFile \in File
    BY DEF NoFile, File, PipeOrNull
  <2> QED
    BY <1>7, <1>8, <2>1 DEF CloseStep, do_close
<1>9. CASE DupStep
  <2>1. PICK old \in Fds, new \in Fds : old # new /\ ReplaceFd(new, fds[current][old])
    BY <1>9 DEF DupStep, do_dup2
  <2>2. fds[current][old] \in File /\ old \in Fds \ {new}
    BY <1>0, <2>1
  <2> QED
    BY <1>7, <2>1, <2>2
<1> QED
  BY <1>2, <1>3, <1>5, <1>6, <1>8, <1>9, OpenTallies, ForkTallies, NewPipeTallies DEF Shape

\* The inductive invariant of the pipe counters holds.
LEMMA PipeInvHolds == Spec => []PipeInv
<1>1. Init => PipeInv
  <2> SUFFICES ASSUME Init PROVE PipeInv
    OBVIOUS
  <2>1. /\ fds = [s \in Slots |-> [f \in Fds |->
                    IF s \in 1 .. BootTasks /\ f < ConsoleFds THEN ConsoleFile(f) ELSE NoFile]]
        /\ livePipes = {}
        /\ readers = [p \in Pipes |-> 0] /\ writers = [p \in Pipes |-> 0]
    BY DEF Init, ProcInit
  <2>2. ASSUME NEW p \in Pipes, NEW kind \in {"rd", "wr"} PROVE Count(fds, kind, p) = 0
    <3>1. Holders(fds, [kind |-> kind, pipe |-> p]) = {}
      BY <2>1 DEF Holders, ConsoleFile, NoFile
    <3> QED
      BY <3>1, FS_EmptySet DEF Count
  <2>3. \A p \in Pipes : Count(fds, "rd", p) = 0 /\ Count(fds, "wr", p) = 0
    BY <2>2
  <2>4. Tally(readers, writers, livePipes, fds)
    <3>1. \A p \in Pipes : readers[p] = 0 /\ writers[p] = 0 /\ p \notin livePipes
      BY <2>1
    <3> QED
      BY SMT, <2>3, <3>1 DEF Tally
  <2> QED
    BY <2>1, <2>4, CountsTally DEF PipeInv
<1>2. ProcInv /\ PipeInv /\ [Next]_vars => PipeInv'
  BY Shapes, PipeInvStep
<1> QED
  BY <1>1, <1>2, ProcInvHolds, PTL DEF Spec

\* The types of the processes' state.
THEOREM ProcessTypes == Spec => []TypeOK
<1>1. ProcInv /\ PipeInv => TypeOK
  BY SMTT(20) DEF ProcInv, SchedInv, CallTypeOK, Arg, PipeInv, TypeOK
<1> QED
  BY <1>1, ProcInvHolds, PipeInvHolds, PTL

\* pipe_ref and pipe_unref are called in balance: the counts of a pipe are
\* the descriptors open on its ends, and it lives while there is one.
THEOREM PipesCounted == Spec => []PipeCounts
<1>1. PipeInv => PipeCounts
  BY DEF PipeInv
<1> QED
  BY <1>1, PipeInvHolds, PTL

\* A pipe with a descriptor is alive.
LEMMA HeldAlive ==
  ASSUME CallTypeOK, PipeInv, NEW s \in Slots, NEW f \in Fds, NEW p \in Pipes,
         fds[s][f] \in {RdEnd(p), WrEnd(p)}
  PROVE  /\ p \in livePipes
         /\ fds[s][f] = RdEnd(p) => readers[p] > 0
         /\ fds[s][f] = WrEnd(p) => writers[p] > 0
<1>1. ASSUME NEW kind, fds[s][f] = [kind |-> kind, pipe |-> p] PROVE Count(fds, kind, p) > 0
  <2> DEFINE S == Holders(fds, [kind |-> kind, pipe |-> p])
  <2>1. <<s, f>> \in S
    BY <1>1 DEF Holders
  <2>2. IsFiniteSet(S) /\ Cardinality(S) \in Nat
    BY CountsNatural
  <2>3. Cardinality(S) # 0
    BY <2>1, <2>2, FS_EmptySet
  <2> QED
    BY SMT, <2>2, <2>3 DEF Count
<1>2. Tally(readers, writers, livePipes, fds) /\ readers[p] \in Nat /\ writers[p] \in Nat
  BY CountsTally DEF PipeInv
<1>3. CASE fds[s][f] = RdEnd(p)
  <2>1. Count(fds, "rd", p) > 0
    BY <1>1, <1>3 DEF RdEnd
  <2> QED
    BY SMTT(20), <1>2, <1>3, <2>1 DEF Tally, RdEnd, WrEnd
<1>4. CASE fds[s][f] = WrEnd(p)
  <2>1. Count(fds, "wr", p) > 0
    BY <1>1, <1>4 DEF WrEnd
  <2> QED
    BY SMTT(20), <1>2, <1>4, <2>1 DEF Tally, RdEnd, WrEnd
<1> QED
  BY <1>3, <1>4

\* Counters that tally keep every pipe that is referred to alive.
LEMMA PipesAlive ==
  ASSUME ProcInv, PipeInv
  PROVE  NoDanglingPipe
<1>0. CallTypeOK /\ fds \in [Slots -> [Fds -> File]] /\ wait_pipe \in [Slots -> PipeOrNull]
  BY DEF ProcInv, CallTypeOK
<1>1. ASSUME NEW s \in Slots, NEW f \in Fds PROVE fds[s][f].pipe \in livePipes \cup {NoPipe}
  <2>1. fds[s][f] \in File
    BY <1>0
  <2>2. CASE fds[s][f].pipe # NoPipe
    <3>1. fds[s][f].pipe \in Pipes /\ fds[s][f].kind \in {"rd", "wr"}
      BY <2>1, <2>2 DEF ProcInv, FilesOK, File, PipeOrNull
    <3>2. fds[s][f] \in {RdEnd(fds[s][f].pipe), WrEnd(fds[s][f].pipe)}
      BY <2>1, <3>1 DEF File, RdEnd, WrEnd
    <3> QED
      BY <1>0, <3>1, <3>2, HeldAlive
  <2> QED
    BY <2>2
<1>2. ASSUME NEW s \in Slots, kpc[s] \in ReadPoints \cup WritePoints
      PROVE  karg[s].pipe \in livePipes
  <2>1. /\ karg[s].pipe \in Pipes
        /\ \E f \in Fds : fds[s][f] \in {RdEnd(karg[s].pipe), WrEnd(karg[s].pipe)}
    BY <1>2 DEF ProcInv, CallsOK
  <2> QED
    BY <1>0, <2>1, HeldAlive
<1>3. ASSUME NEW s \in Slots PROVE wait_pipe[s] \in livePipes \cup {NoPipe}
  <2>1. wait_pipe[s] # NoPipe => kpc[s] \in {"pread", "pwrite"} /\ wait_pipe[s] = karg[s].pipe
    BY DEF ProcInv, CallsOK
  <2> QED
    BY <1>2, <2>1 DEF ReadPoints, WritePoints
<1> QED
  BY <1>1, <1>2, <1>3 DEF NoDanglingPipe, ReadPoints, WritePoints

\* pipe_unref frees a pipe only when no descriptor, no parked call and no
\* wait_pipe refers to it any more.
THEOREM NoPipeDangles == Spec => []NoDanglingPipe
<1>1. ProcInv /\ PipeInv => NoDanglingPipe
  BY PipesAlive
<1> QED
  BY <1>1, ProcInvHolds, PipeInvHolds, PTL

-----------------------------------------------------------------------------
(* Wake-ups: a task asleep on a pipe sleeps for a reason.                  *)

\* What a sleeping reader and a sleeping writer rely on.
Undisturbed(p) == plen'[p] = plen[p] /\ readers'[p] >= readers[p] /\ writers'[p] >= writers[p]

\* pipe_unref leaves the pipes it is not told of alone.
LEMMA UnrefUndisturbed ==
  ASSUME PipeInv, CallTypeOK, NEW lost \in [Fds -> File], NEW gained,
         pipe_unref(lost, gained), NEW p \in Pipes, p \notin Touched(lost)
  PROVE  Undisturbed(p)
<1>1. /\ readers'[p] = readers[p] - EndsOf(lost, "rd", p) + EndsOf(gained, "rd", p)
      /\ writers'[p] = writers[p] - EndsOf(lost, "wr", p) + EndsOf(gained, "wr", p)
      /\ plen'[p] = plen[p]
  BY DEF pipe_unref
<1>2. EndsOf(lost, "rd", p) = 0 /\ EndsOf(lost, "wr", p) = 0
  BY UntouchedCount
<1>3. EndsOf(gained, "rd", p) \in Nat /\ EndsOf(gained, "wr", p) \in Nat
  BY EndsFinite
<1>4. readers[p] \in Nat /\ writers[p] \in Nat
  BY DEF PipeInv
<1> QED
  BY SMTT(20), <1>1, <1>2, <1>3, <1>4 DEF Undisturbed

\* Who disturbs a pipe wakes the tasks that are parked on it.
LEMMA SleepersUndisturbed ==
  ASSUME ProcInv, PipeInv, Shape, NEW s \in Slots \ {current}, NEW p \in Pipes,
         state[s] = "BLOCKED", ~zombie[s], state'[s] = "BLOCKED", ~zombie'[s],
         wait_pipe[s] = p
  PROVE  Undisturbed(p)
<1>0. /\ SchedInv /\ CallTypeOK /\ current \in Slots
      /\ state \in [Slots -> TaskState] /\ zombie \in [Slots -> BOOLEAN]
      /\ fds \in [Slots -> [Fds -> File]]
      /\ plen \in [Pipes -> 0 .. PIPE_BUF]
      /\ readers \in [Pipes -> Nat] /\ writers \in [Pipes -> Nat]
  BY DEF ProcInv, SchedInv, SchedTypeOK, CallTypeOK, PipeInv
<1>1. ASSUME plen' = plen \/ (\E q \in Pipes \ {p} : \E n : plen' = [plen EXCEPT ![q] = n]),
             UNCHANGED <<readers, writers>>
      PROVE  Undisturbed(p)
  <2>1. plen'[p] = plen[p]
    BY <1>0, <1>1
  <2> QED
    BY SMTT(20), <1>0, <1>1, <2>1 DEF Undisturbed
<1>2. ASSUME NEW P, Wake(PipeWaiters(state, P)) PROVE p \notin P
  BY <1>2 DEF Wake, sched_wake, PipeWaiters
<1>3. CASE \/ PlainStep \/ OutsideStep \/ ParkReader \/ ParkWriter
           \/ KillStep \/ raise_sigint \/ sys_open
  BY <1>1, <1>3 DEF PlainStep, OutsideStep, ParkReader, ParkWriter, ParkOn, KillStep, KillOther,
     raise_sigint, sys_open, pipeVars
<1>4. CASE TerminateStep
  <2> DEFINE z == [zombie EXCEPT ![current] = TRUE]
             V == Parents(current)
             W == PipeWaiters(sched_wake(state, z, V), Touched(fds[current]))
  <2>1. PICK pending \in SUBSET Signals : terminate_current(pending)
    BY <1>4 DEF TerminateStep
  <2>2. Die(V \cup W)
    BY <1>4, <2>1, TerminateDies DEF PlainCaller, TerminateStep
  <2> HIDE DEF z, V, W
  <2>3. s \notin V \cup W
    BY <1>0, <2>2, DieFacts
  <2>4. p \notin Touched(fds[current])
    BY <2>3 DEF W, PipeWaiters, sched_wake
  <2>5. pipe_unref(fds[current], NoFiles) /\ fds[current] \in [Fds -> File]
    BY <1>0, <2>1 DEF terminate_current
  <2> QED
    BY <1>0, <2>4, <2>5, UnrefUndisturbed
<1>5. CASE ReapChild
  <2>1. PICK t \in Slots :
          /\ zombie[t] /\ pipe_unref(fds[t], NoFiles)
          /\ state' = sched_wake([state EXCEPT ![t] = "FREE"], zombie,
                                 PipeWaiters(state, Touched(fds[t])))
    BY <1>5 DEF ReapChild, reap_task, Reap
  <2>2. s # t
    BY <2>1
  <2>3. s \notin PipeWaiters(state, Touched(fds[t]))
    BY <1>0, <2>1, <2>2 DEF sched_wake
  <2>4. p \notin Touched(fds[t])
    BY <2>3 DEF PipeWaiters
  <2> QED
    BY <1>0, <2>1, <2>4, UnrefUndisturbed
<1>6. CASE CloseStep \/ DupStep
  <2>1. PICK f \in Fds :
          /\ \E gained : pipe_unref(Only(f, fds[current][f]), gained)
          /\ Wake(PipeWaiters(state, {fds[current][f].pipe} \ {NoPipe}))
    BY <1>6 DEF CloseStep, DupStep, do_close, do_dup2, ReplaceFd
  <2>2. p # fds[current][f].pipe
    BY <1>2, <2>1
  <2>3. Only(f, fds[current][f]) \in [Fds -> File]
    BY SMT, <1>0 DEF Only, NoFile, File, PipeOrNull
  <2>4. p \notin Touched(Only(f, fds[current][f]))
    BY <2>2 DEF Touched, Only, NoFile
  <2> QED
    BY <1>0, <2>1, <2>3, <2>4, UnrefUndisturbed
<1>7. CASE sys_fork
  <2>1. /\ plen' = plen
        /\ readers'[p] = readers[p] + EndsOf(fds[current], "rd", p)
        /\ writers'[p] = writers[p] + EndsOf(fds[current], "wr", p)
    BY <1>7 DEF sys_fork, pipe_ref
  <2>2. EndsOf(fds[current], "rd", p) \in Nat /\ EndsOf(fds[current], "wr", p) \in Nat
    BY EndsFinite
  <2> QED
    BY SMTT(20), <1>0, <2>1, <2>2 DEF Undisturbed
<1>8. CASE sys_pipe
  <2>1. p \in livePipes
    BY PipesAlive DEF NoDanglingPipe
  <2>2. PICK q \in Pipes \ livePipes :
          /\ readers' = [readers EXCEPT ![q] = 1] /\ writers' = [writers EXCEPT ![q] = 1]
          /\ plen' = [plen EXCEPT ![q] = 0]
    BY <1>8 DEF sys_pipe
  <2>3. plen'[p] = plen[p] /\ readers'[p] = readers[p] /\ writers'[p] = writers[p]
    BY <1>0, <2>1, <2>2
  <2> QED
    BY SMT, <1>0, <2>3 DEF Undisturbed
<1>9. CASE ReadStep \/ WriteStep
  <2>1. PICK q \in Pipes :
          /\ UNCHANGED <<readers, writers>>
          /\ \/ plen' = plen
             \/ Wake(PipeWaiters(state, {q})) /\ \E n : plen' = [plen EXCEPT ![q] = n]
    BY <1>9 DEF ReadStep, WriteStep, pipe_read, pipe_write, PipeGivesUp, GoPark, pipeVars
  <2>2. CASE plen' = plen
    BY <1>1, <2>1, <2>2
  <2>3. CASE Wake(PipeWaiters(state, {q})) /\ \E n : plen' = [plen EXCEPT ![q] = n]
    <3>1. q # p
      BY <1>2, <2>3
    <3> QED
      BY <1>1, <2>1, <2>3, <3>1
  <2> QED
    BY <2>1, <2>2, <2>3
<1> QED
  BY <1>3, <1>4, <1>5, <1>6, <1>7, <1>8, <1>9 DEF Shape

\* Nothing to read and somebody to write it; no room and somebody to make it.
Dry(p) == plen[p] = 0 /\ writers[p] > 0
Full(p) == plen[p] = PIPE_BUF /\ readers[p] > 0

\* The inductive invariant of the wake-ups: what a sleeper and a task about
\* to sleep have seen of their pipe still holds.
WakeInv ==
  \A s \in Slots :
    /\ Parked(s, "pread") \/ kpc[s] = "rpark" => Dry(karg[s].pipe)
    /\ Parked(s, "pwrite") \/ kpc[s] = "wpark" => Full(karg[s].pipe)

\* Every step preserves WakeInv.
LEMMA WakeStep ==
  ASSUME ProcInv, PipeInv, SleepInv, WakeInv, [Next]_vars, ProcInv'
  PROVE  WakeInv'
<1>0. /\ SchedInv /\ SchedInv' /\ current \in Slots
      /\ readers \in [Pipes -> Nat] /\ writers \in [Pipes -> Nat]
      /\ plen \in [Pipes -> 0 .. PIPE_BUF]
  BY DEF ProcInv, SchedInv, SchedTypeOK, PipeInv, CallTypeOK
<1>1. Shape /\ [SchedNext]_schedVars
  BY <1>0, Shapes, RefinesSched
<1> SUFFICES ASSUME NEW s \in Slots
             PROVE  /\ Parked(s, "pread")' \/ kpc'[s] = "rpark" => Dry(karg[s].pipe)'
                    /\ Parked(s, "pwrite")' \/ kpc'[s] = "wpark" => Full(karg[s].pipe)'
  BY DEF WakeInv
<1>2. CASE s = current
  <2>1. ASSUME NEW point \in {"pread", "pwrite"}, Parked(s, point)'
        PROVE  /\ point = "pread" => Dry(karg[s].pipe)'
               /\ point = "pwrite" => Full(karg[s].pipe)'
    <3>1. kpc'[s] = point /\ state'[s] = "BLOCKED"
      BY <2>1 DEF Parked
    <3>2. /\ point = "pread" => kpc[s] = "rpark"
          /\ point = "pwrite" => kpc[s] = "wpark"
          /\ karg'[s] = karg[s] /\ UNCHANGED pipeVars
      BY <1>0, <1>1, <1>2, <3>1, CurrentSleeps
    <3> QED
      BY <3>2 DEF WakeInv, Dry, Full, pipeVars
  <2>2. ASSUME kpc'[s] \in {"rpark", "wpark"}
        PROVE  /\ kpc'[s] = "rpark" => Dry(karg[s].pipe)'
               /\ kpc'[s] = "wpark" => Full(karg[s].pipe)'
    <3>1. CASE OpensWindow
      <4>1. karg'[s].pipe \in Pipes
        BY <2>2 DEF ProcInv, CallsOK, ReadPoints, WritePoints
      <4> QED
        BY SMTT(20), <1>0, <1>2, <3>1, <4>1 DEF OpensWindow, Dry, Full, Room, pipeVars
    <3>2. CASE StaysInWindow
      BY <1>2, <3>2 DEF StaysInWindow, WakeInv, Dry, Full, pipeVars
    <3> QED
      BY <1>1, <1>2, <2>2, <3>1, <3>2, CurrentWindow
  <2> QED
    BY <2>1, <2>2
<1>3. CASE s # current
  <2>1. kpc'[s] \notin {"rpark", "wpark"}
    BY SMT, <1>1, <1>3, OthersUntouched DEF Untouched, Fresh, ProcInv, PointsOK
  <2>2. ASSUME NEW point \in {"pread", "pwrite"}, Parked(s, point)'
        PROVE  /\ point = "pread" => Dry(karg[s].pipe)'
               /\ point = "pwrite" => Full(karg[s].pipe)'
    <3>1. Parked(s, point) /\ karg'[s] = karg[s] /\ karg[s].pipe \in Pipes
      BY <1>1, <1>3, <2>2, ParkedBefore
    <3>2. wait_pipe[s] = karg[s].pipe
      BY <3>1 DEF SleepInv, ParkedOnPipe
    <3>3. Undisturbed(karg[s].pipe)
      <4>1. state[s] = "BLOCKED" /\ ~zombie[s] /\ state'[s] = "BLOCKED" /\ ~zombie'[s]
        BY <2>2, <3>1 DEF Parked
      <4> QED
        BY <1>1, <1>3, <3>1, <3>2, <4>1, SleepersUndisturbed, s \in Slots \ {current}
    <3>4. /\ readers[karg[s].pipe] \in Nat /\ writers[karg[s].pipe] \in Nat
          /\ readers'[karg[s].pipe] \in Nat /\ writers'[karg[s].pipe] \in Nat
      BY <1>0, <1>1, <3>1, PipeInvStep DEF PipeInv
    <3>5. /\ point = "pread" => Dry(karg[s].pipe)
          /\ point = "pwrite" => Full(karg[s].pipe)
      BY <3>1 DEF WakeInv
    <3> QED
      BY SMTT(20), <3>1, <3>3, <3>4, <3>5 DEF Undisturbed, Dry, Full
  <2> QED
    BY <2>1, <2>2
<1> QED
  BY <1>2, <1>3

\* pipe.c loses no wake-up: a reader sleeps only on an empty pipe with a
\* writer, a writer only on a full pipe with a reader, and pipe_wake finds
\* them, however reads, writes, closes, exits and kills are interleaved.
THEOREM PipeSleepersWoken == Spec => []PipeSleepersJustified
<1>1. Init => WakeInv
  BY DEF Init, ProcInit, WakeInv, Parked
<1>2. ProcInv /\ PipeInv /\ SleepInv /\ WakeInv /\ [Next]_vars /\ ProcInv' => WakeInv'
  BY WakeStep
<1>3. SleepInv /\ WakeInv => PipeSleepersJustified
  BY DEF SleepInv, WakeInv, ParkedOnPipe, Dry, Full, PipeSleepersJustified
<1> QED
  BY <1>1, <1>2, <1>3, ProcInvHolds, PipeInvHolds, SleepInvHolds, PTL DEF Spec
=============================================================================
