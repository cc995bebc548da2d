------------------------------ MODULE Pipeline ------------------------------
(***************************************************************************)
(* The shell running the two-stage pipeline "cat file | Filter": the       *)
(* programs of userspace/sh.c (run_pipeline), cat.c and the filter, as the *)
(* system calls they make, on the kernel of Process.tla.  The filter is wc *)
(* (reads its input to the end) or pwd (exits without reading).  Calls     *)
(* that do not touch the modelled state (setpgid, tcsetpgrp, execve) are   *)
(* left out; fork and pipe do not run out of resources.                    *)
(***************************************************************************)
EXTENDS Process, Sequences

CONSTANTS
  Filter,     \* "wc" or "pwd"
  CatWrites,  \* writes cat makes
  CatCount    \* bytes in each

ASSUME PipelineAssumption ==
  /\ Filter \in {"wc", "pwd"}
  /\ CatWrites \in Nat /\ CatCount \in 1 .. MaxCount
  /\ MAX_FDS >= 4 /\ ConsoleFds = 2

VARIABLES
  upc,   \* for each slot the calls its program has yet to make
  pids   \* run_pipeline's pids[]

pipelineVars == <<vars, upc, pids>>

Op(call, a, b) == [call |-> call, a |-> a, b |-> b]
Rd == 2  \* pipes[0][0] and pipes[0][1]: 0 and 1 are the console
Wr == 3
CloseBoth == <<Op("close", Rd, 0), Op("close", Wr, 0)>>

\* Fault: the shell keeps its copies of the pipe's ends open.
run_pipelineLeavesOpen ==
  <<Op("pipe", 0, 0), Op("fork", 1, 0), Op("fork", 2, 0),
    Op("waitpid", 1, 0), Op("waitpid", 2, 0)>>

\* run_pipeline with nstages = 2; waitpid names the stage.
run_pipeline ==
  <<Op("pipe", 0, 0), Op("fork", 1, 0), Op("fork", 2, 0)>> \o CloseBoth
  \o <<Op("waitpid", 1, 0), Op("waitpid", 2, 0)>>

cat ==
  <<Op("dup2", Wr, 1)>> \o CloseBoth
  \o [i \in 1 .. CatWrites |-> Op("write", 1, CatCount)] \o <<Op("exit", 0, 0)>>

wc == <<Op("dup2", Rd, 0)>> \o CloseBoth \o <<Op("read", 0, 1), Op("exit", 0, 0)>>
pwd == <<Op("dup2", Rd, 0)>> \o CloseBoth \o <<Op("exit", 0, 0)>>

Stage(i) == IF i = 1 THEN cat ELSE IF Filter = "wc" THEN wc ELSE pwd

-----------------------------------------------------------------------------
Advance == upc' = [upc EXCEPT ![current] = Tail(@)]

\* wc calls read again until it returns 0.
ReadAgain(p) ==
  IF plen[p] = 0 /\ writers[p] = 0 THEN Advance ELSE UNCHANGED upc

ForkStage(i) ==
  /\ sys_fork
  /\ pids' = Append(pids, next_pid)
  /\ upc' = [s \in Slots |-> IF s = current THEN Tail(upc[s])
                             ELSE IF alloc_slot(s) THEN Stage(i) ELSE upc[s]]

EnterCall ==
  /\ upc[current] # <<>>
  /\ syscall_entry
  /\ UNCHANGED <<upc, pids>>

MakeCall ==
  /\ At("dispatch")
  /\ LET op == Head(upc[current]) IN
     \/ op.call = "fork" /\ ForkStage(op.a)
     \/ /\ op.call = "read"
        /\ do_read(op.a, op.b)
        /\ ReadAgain(fds[current][op.a].pipe)
        /\ UNCHANGED pids
     \/ /\ \/ op.call = "pipe" /\ sys_pipe
           \/ op.call = "close" /\ do_close(op.a)
           \/ op.call = "dup2" /\ do_dup2(op.a, op.b)
           \/ op.call = "write" /\ do_write(op.a, op.b)
           \/ op.call = "exit" /\ sys_exit
           \/ op.call = "waitpid" /\ WaitLoop(pids[op.a])
        /\ Advance
        /\ UNCHANGED pids

InCall ==
  /\ \/ syscall_handler /\ UNCHANGED upc
     \/ (ResumeWaitpid \/ ResumePipeWrite \/ ParkReader \/ ParkWriter) /\ UNCHANGED upc
     \/ ResumePipeRead /\ ReadAgain(karg[current].pipe)
  /\ UNCHANGED pids

Interrupts == TimerInterrupt /\ UNCHANGED <<upc, pids>>
Idle == IdleLoop /\ UNCHANGED <<upc, pids>>

ProgramsInit ==
  /\ upc = [s \in Slots |-> IF s = 1 THEN run_pipeline ELSE <<>>]
  /\ pids = <<>>

PipelineInit == Init /\ ProgramsInit

PipelineNext == EnterCall \/ MakeCall \/ InCall \/ Interrupts \/ Idle

PipelineSpec ==
  /\ PipelineInit /\ [][PipelineNext]_pipelineVars
  /\ WF_pipelineVars(EnterCall)
  /\ WF_pipelineVars(MakeCall \/ InCall)
  /\ WF_pipelineVars(Idle)
  /\ SF_pipelineVars(Interrupts)

-----------------------------------------------------------------------------
ShellDone == upc[1] = <<>> /\ kpc[1] = "user"

\* The shell gets its prompt back and no pipe is left allocated: the stages
\* finish in whatever order they run, writers that fill the pipe are woken,
\* the reader sees EOF once every copy of the write end is closed, and
\* waitpid finds both stages whether they died before or after it slept.
PipelineFinishes == <>[](ShellDone /\ livePipes = {})
=============================================================================
