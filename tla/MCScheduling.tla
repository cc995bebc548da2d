----------------------------- MODULE MCScheduling ----------------------------
(***************************************************************************)
(* The scheduler and programs on it for TLC.  part says which of three     *)
(* instances takes its steps in a behaviour: the scheduler alone           *)
(* ("table"), readers of the keyboard ("console"), or the shell's pipeline *)
(* ("pipeline").                                                           *)
(***************************************************************************)
EXTENDS Pipeline

CONSTANT p1

OnePipe == {p1}

VARIABLE part

runVars == <<part, pipelineVars>>
Part(name) == part = name /\ part' = name /\ (name # "pipeline" => UNCHANGED <<upc, pids>>)

Table == INSTANCE Sched WITH MaxPid <- 4, BootTasks <- 2

Console == INSTANCE Process WITH
  MaxPid <- 2, MAX_FDS <- 1, ConsoleFds <- 1, Pipes <- {}, PIPE_BUF <- 1, MaxCount <- 2,
  Signals <- {SIGINT}, WaitArgs <- {AnyChild},
  Syscalls <- {"fork", "read", "yield", "sigint"}

RunInit ==
  /\ ProgramsInit
  /\ \/ part = "table" /\ Table!SchedInit /\ ProcInit
     \/ part = "console" /\ Console!Init
     \/ part = "pipeline" /\ Init

TableStep == Part("table") /\ Table!SchedNext /\ UNCHANGED procVars
ConsoleStep == Part("console") /\ Console!Next
PipelineStep == Part("pipeline") /\ PipelineNext

RunNext == TableStep \/ ConsoleStep \/ PipelineStep

\* The fairness of SchedFairSpec for the scheduler alone, of FairSpec for the
\* reader of the keyboard, and of PipelineSpec for the pipeline.
RunSpec ==
  /\ RunInit /\ [][RunNext]_runVars
  /\ WF_schedVars(Part("table") /\ Table!sched_timer_tick)
  /\ WF_schedVars(Part("table") /\ Table!idle_task)
  /\ WF_schedVars(Part("table") /\ Table!Preempt)
  /\ WF_vars(Part("console") /\ Console!KernelStep)
  /\ WF_vars(Part("console") /\ Console!IdleLoop)
  /\ SF_vars(Part("console") /\ Console!TimerInterrupt)
  /\ WF_vars(Part("console") /\ Console!syscall_entry)
  /\ WF_pipelineVars(Part("pipeline") /\ EnterCall)
  /\ WF_pipelineVars(Part("pipeline") /\ (MakeCall \/ InCall))
  /\ WF_pipelineVars(Part("pipeline") /\ Idle)
  /\ SF_pipelineVars(Part("pipeline") /\ Interrupts)

-----------------------------------------------------------------------------
\* Round robin starves nobody: a READY task runs, or is reaped as a zombie, as
\* long as the timer ticks and the running program keeps entering the kernel
\* (sched_timer_tick, sched_yield).
ReadyRuns == \A s \in Slots : part = "table" /\ state[s] = "READY" ~> state[s] # "READY"

\* The shell gets its prompt back and no pipe is left allocated: the stages
\* finish in whatever order they run, writers that fill the pipe are woken,
\* the reader sees EOF once every copy of the write end is closed, and
\* waitpid finds both stages whether they died before or after it slept.
PromptReturns == <>[](part = "pipeline" => ShellDone /\ livePipes = {})
=============================================================================
