------------------------------- MODULE MCTasks -------------------------------
(***************************************************************************)
(* Processes for TLC.  part says which of four instances takes its steps   *)
(* in a behaviour: processes that are born, killed, fault and are waited   *)
(* for ("life"), two that share pipes through the descriptor calls and get *)
(* signals ("fds"), two that open other files and are reaped ("files"), or *)
(* three that read and write more than a pipe holds ("stream").            *)
(***************************************************************************)
EXTENDS Process

CONSTANT p1

OnePipe == {p1}
AnyChildOnly == {AnyChild}

VARIABLE part

runVars == <<part, vars>>
Part(name) == part = name /\ part' = name

Life == INSTANCE Process WITH
  MaxPid <- 4, Signals <- {SIGKILL}, WaitArgs <- {AnyChild, 2},
  Syscalls <- {"fork", "exit", "waitpid", "kill", "yield", "fault"}

Stream == INSTANCE Process WITH
  MaxPid <- 3, MaxCount <- 2, Signals <- {},
  Syscalls <- {"pipe", "fork", "close", "read", "write", "exit", "waitpid"}

Files == INSTANCE Process WITH
  Signals <- {},
  Syscalls <- {"pipe", "fork", "dup", "dup2", "open", "close", "exit", "waitpid"}

RunInit ==
  \/ part = "life" /\ Life!Init
  \/ part = "fds" /\ Init
  \/ part = "files" /\ Files!Init
  \/ part = "stream" /\ Stream!Init

LifeStep == Part("life") /\ Life!Next
FdsStep == Part("fds") /\ Next
FilesStep == Part("files") /\ Files!Next
StreamStep == Part("stream") /\ Stream!Next
RunNext == LifeStep \/ FdsStep \/ FilesStep \/ StreamStep

RunSpec == RunInit /\ [][RunNext]_runVars

\* What the processes are for the scheduler: each of their steps is one of its
\* steps (spawn, yield, block, die, wake, reap, tick) or leaves its table alone.
ImplementsSched ==
  /\ part = "life" => Life!SchedInit
  /\ [][part = "life" => Life!SchedNext]_schedVars
=============================================================================
