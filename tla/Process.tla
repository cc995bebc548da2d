------------------------------ MODULE Process ------------------------------
(***************************************************************************)
(* Processes of kernel/src/sys/syscall.c on top of the scheduler: system   *)
(* call entry with signal delivery and the preemption point, fork, exit,   *)
(* waitpid and reaping, kill and signal, the file descriptor table, and    *)
(* the anonymous pipes of kernel/src/fs/pipe.c with their reader and       *)
(* writer counts, blocking, EOF and EPIPE.  A pipe holds plen bytes; what  *)
(* they are and where in the ring they lie is left out.                    *)
(*                                                                         *)
(* kpc says where a task is: in user mode, at the start of syscall_handler *)
(* ("entry"), past its preemption point ("dispatch"), parked inside a      *)
(* system call, or past the sched_yield of a death ("dead").  A step runs  *)
(* until the task returns to user mode, calls sched_yield, or comes to the *)
(* window between sig_abort and the store of TASK_BLOCKED in pipe.c        *)
(* ("rpark", "wpark").  Interrupts come between steps when IF is set: a    *)
(* system call starts with IF clear, but context_switch does not save      *)
(* RFLAGS, so a call resumed by a task that had executed sti runs on with  *)
(* interrupts enabled.                                                     *)
(***************************************************************************)
EXTENDS Sched, FiniteSets

CONSTANTS
  MAX_FDS,     \* size of task_t.fds
  ConsoleFds,  \* descriptors preset to the console (3 in the code)
  Pipes,       \* addresses kmalloc may return for a struct pipe
  NoPipe,      \* the NULL struct pipe *
  PIPE_BUF,    \* sizeof(struct pipe.buf), 256 in the code
  MaxCount,    \* bound on the byte count of one read or write
  Signals,     \* the signal numbers in play, a subset of 1 .. NSIG-1
  WaitArgs,    \* the pid arguments of waitpid; AnyChild is -1
  Syscalls     \* the system calls, faults and interrupts of this instance

AnyChild == -1
SIGINT == 2
SIGKILL == 17
FatalSignals == {SIGINT, 11, 13, 15, SIGKILL}  \* and SEGV, PIPE, TERM

ASSUME ProcessAssumption ==
  /\ MAX_FDS \in Nat \ {0} /\ ConsoleFds \in 0 .. MAX_FDS
  /\ NoPipe \notin Pipes
  /\ PIPE_BUF \in Nat \ {0} /\ MaxCount \in Nat \ {0}
  /\ Signals \subseteq 1 .. 31
  /\ "sigint" \in Syscalls => SIGINT \in Signals
  /\ WaitArgs \subseteq Nat \cup {AnyChild}

Fds == 0 .. MAX_FDS - 1
PipeOrNull == Pipes \cup {NoPipe}
File == [kind : {"none", "cin", "cout", "node", "rd", "wr"}, pipe : PipeOrNull]
NoFile == [kind |-> "none", pipe |-> NoPipe]
ConsoleFile(f) == [kind |-> IF f = 0 THEN "cin" ELSE "cout", pipe |-> NoPipe]
NodeFile == [kind |-> "node", pipe |-> NoPipe]
RdEnd(p) == [kind |-> "rd", pipe |-> p]
WrEnd(p) == [kind |-> "wr", pipe |-> p]
Handlers == {"DFL", "IGN", "USER"}

VARIABLES
  fds,          \* task_t.fds
  sig_pending,  \* task_t.sig_pending, as a set
  sig_handler,  \* task_t.sig_handler
  wait_pipe,    \* task_t.wait_pipe
  kpc,          \* where the task is
  iflag,        \* the CPU's interrupt flag, while in the kernel
  karg,         \* locals of a parked call: the pipe, and bytes left or the pid
  livePipes,    \* the struct pipes that are allocated
  readers, writers, plen  \* struct pipe.readers, writers, len

sigVars == <<sig_pending, sig_handler>>
pipeVars == <<livePipes, readers, writers, plen>>
procVars == <<fds, sig_pending, sig_handler, wait_pipe, kpc, iflag, karg,
              livePipes, readers, writers, plen>>
vars == <<schedVars, procVars>>

KernelPoints == {"idle", "user", "entry", "dispatch", "waitpid", "rpark",
                 "pread", "wpark", "pwrite", "kbd", "kbdpoll", "dead"}
NoArg == [pipe |-> NoPipe, n |-> 0]

At(point) == UserRunning /\ kpc[current] = point
Calls(name) == At("dispatch") /\ name \in Syscalls
MoveTo(point, arg) ==
  /\ kpc' = [kpc EXCEPT ![current] = point]
  /\ karg' = [karg EXCEPT ![current] = arg]
GoTo(point, arg) == MoveTo(point, arg) /\ UNCHANGED iflag
Return == MoveTo("user", NoArg) /\ iflag' = TRUE  \* sysret
NoSwitch == UNCHANGED <<switchVars, g_resched_requested>>

-----------------------------------------------------------------------------
(* pipe.c: reference counts and wake-ups.                                  *)

\* Fault: only the first task parked on the pipe is woken.
PipeWaitersFirstOnly(st, P) ==
  {s \in Slots : /\ st[s] = "BLOCKED" /\ wait_pipe[s] \in P
                 /\ \A r \in 0 .. s - 1 : ~(st[r] = "BLOCKED" /\ wait_pipe[r] \in P)}

PipeWaiters(st, P) == {s \in Slots : st[s] = "BLOCKED" /\ wait_pipe[s] \in P}
Unwait(W) == [s \in Slots |-> IF s \in W THEN NoPipe ELSE wait_pipe[s]]

EndsOf(table, kind, p) ==
  Cardinality({f \in Fds : table[f] = [kind |-> kind, pipe |-> p]})

\* Fault: fork copies the table without taking references.
pipe_refForgotten(table) == UNCHANGED pipeVars

pipe_ref(table) ==
  /\ readers' = [p \in Pipes |-> readers[p] + EndsOf(table, "rd", p)]
  /\ writers' = [p \in Pipes |-> writers[p] + EndsOf(table, "wr", p)]
  /\ UNCHANGED <<livePipes, plen>>

\* The references of the descriptors lost are dropped, then those of the
\* descriptors gained are taken; a pipe whose counts both reached zero is
\* freed.
Touched(table) == {table[f].pipe : f \in Fds} \ {NoPipe}

\* Fault: the pipe is freed when one of its ends is closed everywhere.
NoRefsOnOneEnd(rd, wr) == rd <= 0 \/ wr <= 0

NoRefs(rd, wr) == rd <= 0 /\ wr <= 0

pipe_unref(lost, gained) ==
  LET rd == [p \in Pipes |-> readers[p] - EndsOf(lost, "rd", p)]
      wr == [p \in Pipes |-> writers[p] - EndsOf(lost, "wr", p)]
      freed == {p \in Touched(lost) : NoRefs(rd[p], wr[p])}
      count(n, kind) == [p \in Pipes |-> IF p \in freed THEN 0
                                         ELSE n[p] + EndsOf(gained, kind, p)]
  IN /\ livePipes' = livePipes \ freed
     /\ readers' = count(rd, "rd")
     /\ writers' = count(wr, "wr")
     /\ plen' = [p \in Pipes |-> IF p \in freed THEN 0 ELSE plen[p]]

Only(f, file) == [g \in Fds |-> IF g = f THEN file ELSE NoFile]
NoFiles == [f \in Fds |-> NoFile]

-----------------------------------------------------------------------------
(* Death of the running task.                                              *)

Parents(t) == sched_find_pid(parent_pid[t])

\* Fault: the parent is not woken.
DieSilently ==
  LET z == [zombie EXCEPT ![current] = TRUE] IN
  /\ zombie' = z
  /\ sched_yield(state, z)
  /\ MoveTo("dead", NoArg)
  /\ UNCHANGED <<tableVars, g_resched_requested, fds, sigVars, wait_pipe, pipeVars>>

\* sys_exit, and the SIGSEGV of an unhandled user page fault in isr_handler:
\* the descriptors stay open until the zombie is reaped.
DieKeepingFiles ==
  LET z == [zombie EXCEPT ![current] = TRUE] IN
  /\ zombie' = z
  /\ sched_yield(sched_wake(state, z, Parents(current)), z)
  /\ MoveTo("dead", NoArg)
  /\ UNCHANGED <<tableVars, g_resched_requested, fds, sigVars, wait_pipe, pipeVars>>

\* terminate_current: as above, and fds_release before the yield.  The signal
\* that kills stays pending with the higher ones.
terminate_current(pending) ==
  LET z == [zombie EXCEPT ![current] = TRUE]
      st == sched_wake(state, z, Parents(current))
      W == PipeWaiters(st, Touched(fds[current]))
  IN /\ zombie' = z
     /\ pipe_unref(fds[current], NoFiles)
     /\ fds' = [fds EXCEPT ![current] = NoFiles]
     /\ wait_pipe' = Unwait(W)
     /\ sched_yield(sched_wake(st, z, W), z)
     /\ GoTo("dead", NoArg)
     /\ sig_pending' = [sig_pending EXCEPT ![current] = pending]
     /\ UNCHANGED <<tableVars, g_resched_requested, sig_handler>>

-----------------------------------------------------------------------------
(* deliver_signals: lowest number first; ignored and default-ignored ones  *)
(* are cleared on the way, the first other one terminates the task or      *)
(* enters its handler.                                                     *)

Acting(t, pending) ==
  {s \in pending : \/ sig_handler[t][s] = "USER"
                   \/ sig_handler[t][s] = "DFL" /\ s \in FatalSignals}
FirstActing(t, pending) ==
  CHOOSE s \in Acting(t, pending) : \A r \in Acting(t, pending) : s <= r
Terminates(t, pending) ==
  Acting(t, pending) # {} /\ sig_handler[t][FirstActing(t, pending)] = "DFL"
StillPending(t, pending) ==
  {s \in pending : /\ Acting(t, pending) # {}
                   /\ \/ s > FirstActing(t, pending)
                      \/ s = FirstActing(t, pending) /\ Terminates(t, pending)}

-----------------------------------------------------------------------------
(* System call entry.                                                      *)

syscall_entry ==
  /\ At("user")
  /\ EnterKernel
  /\ MoveTo("entry", NoArg)
  /\ iflag' = FALSE  \* IA32_FMASK
  /\ UNCHANGED <<fds, sigVars, wait_pipe, pipeVars>>

DiesOfSignal ==
  /\ At("entry")
  /\ Terminates(current, sig_pending[current])
  /\ terminate_current(StillPending(current, sig_pending[current]))

syscall_handler ==
  /\ At("entry")
  /\ ~Terminates(current, sig_pending[current])
  /\ sig_pending' = [sig_pending EXCEPT
                       ![current] = StillPending(current, @)]
  /\ GoTo("dispatch", NoArg)
  /\ IF g_resched_requested
     THEN Preempt
     ELSE UNCHANGED schedVars
  /\ UNCHANGED <<fds, sig_handler, wait_pipe, pipeVars>>

\* Calls that leave this state alone (getpid, uname, brk, execve's image
\* switch, ...) and every error return.
ReturnUnchanged ==
  /\ At("dispatch")
  /\ Return
  /\ UNCHANGED <<schedVars, fds, sigVars, wait_pipe, pipeVars>>

-----------------------------------------------------------------------------
(* Process lifetime.                                                       *)

sys_yield ==
  /\ Calls("yield")
  /\ GoTo("user", NoArg)
  /\ YieldCpu
  /\ UNCHANGED <<fds, sigVars, wait_pipe, pipeVars>>

sys_exit ==
  /\ Calls("exit")
  /\ DieKeepingFiles
  /\ UNCHANGED iflag

PageFault ==
  /\ At("user") /\ "fault" \in Syscalls
  /\ DieKeepingFiles
  /\ iflag' = FALSE  \* interrupt gate

sys_fork ==
  /\ Calls("fork")
  /\ \E t \in Slots :
       /\ sched_spawn_user_task(t, pid[current])
       /\ fds' = [fds EXCEPT ![t] = fds[current]]
       /\ sig_pending' = [sig_pending EXCEPT ![t] = {}]
       /\ sig_handler' = [sig_handler EXCEPT ![t] = [s \in Signals |-> "DFL"]]
       /\ wait_pipe' = [wait_pipe EXCEPT ![t] = NoPipe]
       /\ kpc' = [kpc EXCEPT ![t] = "user", ![current] = "user"]
       /\ karg' = [karg EXCEPT ![t] = NoArg, ![current] = NoArg]
       /\ iflag' = TRUE
  /\ pipe_ref(fds[current])

ForkNoStack ==
  /\ Calls("fork")
  /\ SpawnNoStack
  /\ Return
  /\ UNCHANGED <<fds, sigVars, wait_pipe, pipeVars>>

\* Fault: the slot is freed without clearing it.
reap_taskNoClear(t) ==
  LET W == PipeWaiters(state, Touched(fds[t])) IN
  /\ pipe_unref(fds[t], NoFiles)
  /\ state' = sched_wake([state EXCEPT ![t] = "FREE"], zombie, W)
  /\ fds' = [fds EXCEPT ![t] = NoFiles]
  /\ wait_pipe' = Unwait(W \cup {t})
  /\ Return
  /\ NoSwitch
  /\ UNCHANGED <<zombie, tableVars, sigVars>>

reap_task(t) ==
  LET W == PipeWaiters(state, Touched(fds[t])) IN
  /\ pipe_unref(fds[t], NoFiles)
  /\ Reap(t, W)
  /\ fds' = [fds EXCEPT ![t] = NoFiles]
  /\ sig_pending' = [sig_pending EXCEPT ![t] = {}]
  /\ sig_handler' = [sig_handler EXCEPT ![t] = [s \in Signals |-> "DFL"]]
  /\ wait_pipe' = Unwait(W \cup {t})
  /\ kpc' = [kpc EXCEPT ![t] = "user", ![current] = "user"]
  /\ karg' = [karg EXCEPT ![t] = NoArg, ![current] = NoArg]
  /\ iflag' = TRUE

Children ==
  {s \in Slots : /\ state[s] # "FREE" /\ pid[s] # 0
                 /\ parent_pid[s] = pid[current]}

WaitLoop(want) ==
  LET dead == {s \in Children : (want = AnyChild \/ pid[s] = want) /\ zombie[s]}
  IN \/ \E t \in dead : (\A s \in dead : t <= s) /\ reap_task(t)
     \/ /\ Children = {}
        /\ Return
        /\ UNCHANGED <<schedVars, fds, sigVars, wait_pipe, pipeVars>>
     \/ /\ Children # {} /\ dead = {}
        /\ Block({})
        /\ GoTo("waitpid", [pipe |-> NoPipe, n |-> want])
        /\ UNCHANGED <<fds, sigVars, wait_pipe, pipeVars>>

sys_waitpid == Calls("waitpid") /\ \E want \in WaitArgs : WaitLoop(want)
ResumeWaitpid == At("waitpid") /\ WaitLoop(karg[current].n)

-----------------------------------------------------------------------------
(* File descriptors.                                                       *)

Used(f) == fds[current][f] # NoFile

fd_alloc(f) == ~Used(f) /\ \A g \in 0 .. f - 1 : Used(g)

sys_open ==
  /\ Calls("open")
  /\ \E f \in Fds : fd_alloc(f) /\ fds' = [fds EXCEPT ![current][f] = NodeFile]
  /\ Return
  /\ UNCHANGED <<schedVars, sigVars, wait_pipe, pipeVars>>

\* fd_put drops the description in slot f, which is then given file and the
\* reference to its pipe: sys_close with NoFile, do_dup2 with the old one's.
ReplaceFd(f, file) ==
  LET W == PipeWaiters(state, {fds[current][f].pipe} \ {NoPipe}) IN
  /\ fds' = [fds EXCEPT ![current][f] = file]
  /\ pipe_unref(Only(f, fds[current][f]), Only(f, file))
  /\ wait_pipe' = Unwait(W)
  /\ Wake(W)
  /\ UNCHANGED sigVars

do_close(f) == Used(f) /\ ReplaceFd(f, NoFile) /\ Return

do_dup2(old, new) ==
  Used(old) /\ old # new /\ ReplaceFd(new, fds[current][old]) /\ Return

sys_close == Calls("close") /\ \E f \in Fds : do_close(f)
sys_dup == Calls("dup") /\ \E old, new \in Fds : fd_alloc(new) /\ do_dup2(old, new)
sys_dup2 == Calls("dup2") /\ \E old, new \in Fds : do_dup2(old, new)

sys_pipe ==
  /\ Calls("pipe")
  /\ \E p \in Pipes \ livePipes, rd, wr \in Fds :
       /\ rd < wr
       /\ fd_alloc(rd)
       /\ ~Used(wr) /\ \A g \in 0 .. wr - 1 : Used(g) \/ g = rd
       /\ fds' = [fds EXCEPT ![current][rd] = RdEnd(p), ![current][wr] = WrEnd(p)]
       /\ livePipes' = livePipes \cup {p}
       /\ readers' = [readers EXCEPT ![p] = 1]
       /\ writers' = [writers EXCEPT ![p] = 1]
       /\ plen' = [plen EXCEPT ![p] = 0]
  /\ Return
  /\ UNCHANGED <<schedVars, sigVars, wait_pipe>>

-----------------------------------------------------------------------------
(* Blocking pipe I/O.  Entered from the call with count n, and again each   *)
(* time the parked task is scheduled.                                       *)

StopWaiting(W) == [s \in Slots |-> IF s \in W \cup {current} THEN NoPipe
                                   ELSE wait_pipe[s]]

\* EOF, EPIPE, or a pending signal seen by sig_abort.
PipeGivesUp ==
  /\ wait_pipe' = StopWaiting({})
  /\ Return
  /\ UNCHANGED <<schedVars, pipeVars>>

\* Past sig_abort: the task will park with n bytes to go.
GoPark(p, point, n) ==
  /\ wait_pipe' = StopWaiting({})
  /\ GoTo(point, [pipe |-> p, n |-> n])
  /\ UNCHANGED <<schedVars, pipeVars>>

ParkOn(from, to) ==
  /\ At(from)
  /\ wait_pipe' = [wait_pipe EXCEPT ![current] = karg[current].pipe]
  /\ GoTo(to, karg[current])
  /\ Block({})
  /\ UNCHANGED <<fds, sigVars, pipeVars>>

ParkReader == ParkOn("rpark", "pread")
ParkWriter == ParkOn("wpark", "pwrite")

pipe_read(p, n) ==
  LET W == PipeWaiters(state, {p}) IN
  /\ \/ /\ plen[p] > 0
        /\ plen' = [plen EXCEPT ![p] = IF n < @ THEN @ - n ELSE 0]
        /\ wait_pipe' = StopWaiting(W)
        /\ Wake(W)
        /\ Return
        /\ UNCHANGED <<livePipes, readers, writers>>
     \/ /\ plen[p] = 0
        /\ writers[p] = 0 \/ sig_pending[current] # {}
        /\ PipeGivesUp
     \/ /\ plen[p] = 0 /\ writers[p] # 0 /\ sig_pending[current] = {}
        /\ GoPark(p, "rpark", n)
  /\ UNCHANGED <<fds, sigVars>>

Room(p) == PIPE_BUF - plen[p]

pipe_write(p, n) ==
  LET room == Room(p)
      W == PipeWaiters(state, {p})
      aborts == readers[p] = 0 \/ sig_pending[current] # {}
  IN /\ \/ aborts /\ PipeGivesUp
        \/ /\ ~aborts /\ room > 0
           /\ plen' = [plen EXCEPT ![p] = @ + IF n < room THEN n ELSE room]
           /\ wait_pipe' = StopWaiting(W)
           /\ Wake(W)
           /\ IF n <= room THEN Return
              ELSE GoTo("pwrite", [pipe |-> p, n |-> n - room])
           /\ UNCHANGED <<livePipes, readers, writers>>
        \/ ~aborts /\ room = 0 /\ GoPark(p, "wpark", n)
     /\ UNCHANGED <<fds, sigVars>>

do_read(f, n) ==
  \/ fds[current][f].kind = "rd" /\ pipe_read(fds[current][f].pipe, n)
  \/ /\ fds[current][f].kind = "cin"
     /\ GoTo("kbd", [NoArg EXCEPT !.n = n])
     /\ UNCHANGED <<schedVars, fds, sigVars, wait_pipe, pipeVars>>

do_write(f, n) ==
  fds[current][f].kind = "wr" /\ pipe_write(fds[current][f].pipe, n)

sys_read == Calls("read") /\ \E f \in Fds, n \in 1 .. MaxCount : do_read(f, n)
sys_write == Calls("write") /\ \E f \in Fds, n \in 1 .. MaxCount : do_write(f, n)

ResumePipeRead == At("pread") /\ pipe_read(karg[current].pipe, karg[current].n)
ResumePipeWrite == At("pwrite") /\ pipe_write(karg[current].pipe, karg[current].n)

\* Fault: the keyboard loop does not look at sig_pending.
kbd_getcharDeaf ==
  /\ At("kbd")
  /\ GoTo("kbdpoll", karg[current])
  /\ IF g_resched_requested THEN Preempt ELSE UNCHANGED schedVars
  /\ UNCHANGED <<fds, sigVars, wait_pipe, pipeVars>>

\* kbd_getchar keeps the task RUNNING: it returns on a pending signal, acts
\* on a reschedule request, then polls; hlt waits for the next interrupt.
kbd_getchar ==
  /\ At("kbd")
  /\ IF sig_pending[current] # {}
     THEN Return /\ UNCHANGED schedVars
     ELSE /\ GoTo("kbdpoll", karg[current])
          /\ IF g_resched_requested THEN Preempt ELSE UNCHANGED schedVars
  /\ UNCHANGED <<fds, sigVars, wait_pipe, pipeVars>>

kbd_poll ==
  /\ At("kbdpoll")
  /\ \/ Return  \* the last character wanted, or a newline
     \/ karg[current].n > 1 /\ GoTo("kbd", [karg[current] EXCEPT !.n = @ - 1])
     \/ MoveTo("kbd", karg[current]) /\ iflag' = TRUE  \* none: sti, hlt
  /\ UNCHANGED <<schedVars, fds, sigVars, wait_pipe, pipeVars>>

-----------------------------------------------------------------------------
(* Signals.                                                                *)

KillSelf(sig) ==
  LET pending == sig_pending[current] \cup {sig} IN
  IF Terminates(current, pending)
  THEN terminate_current(StillPending(current, pending))
  ELSE /\ sig_pending' = [sig_pending EXCEPT
                            ![current] = StillPending(current, pending)]
       /\ Return
       /\ UNCHANGED <<schedVars, fds, sig_handler, wait_pipe, pipeVars>>

\* Fault: the signal is recorded but a task parked on a pipe is not woken.
KillOtherNoWake(t, sig) ==
  LET z == [zombie EXCEPT ![t] = (sig = SIGKILL) \/ @] IN
  /\ sig_pending' = [sig_pending EXCEPT ![t] = @ \cup {sig}]
  /\ zombie' = z
  /\ state' = sched_wake(state, z, IF sig = SIGKILL THEN Parents(t) ELSE {})
  /\ Return
  /\ NoSwitch
  /\ UNCHANGED <<tableVars, fds, sig_handler, wait_pipe, pipeVars>>

\* SIGKILL makes a parked task a zombie on the spot; any other signal wakes
\* the tasks parked on the pipe the target waits for.
KillOther(t, sig) ==
  LET z == [zombie EXCEPT ![t] = (sig = SIGKILL) \/ @]
      woken == IF sig = SIGKILL THEN Parents(t) ELSE {}
      st == sched_wake(state, z, woken)
      W == IF wait_pipe[t] = NoPipe THEN {}
           ELSE PipeWaiters(st, {wait_pipe[t]})
  IN /\ sig_pending' = [sig_pending EXCEPT ![t] = @ \cup {sig}]
     /\ wait_pipe' = Unwait(IF sig = SIGKILL THEN W \cup {t} ELSE W)
     /\ zombie' = z
     /\ state' = sched_wake(st, z, W)
     /\ Return
     /\ NoSwitch
     /\ UNCHANGED <<tableVars, fds, sig_handler, pipeVars>>

sys_kill ==
  /\ Calls("kill")
  /\ \E t \in Slots \ {IdleSlot}, sig \in Signals :
       /\ state[t] # "FREE"
       /\ IF t = current THEN KillSelf(sig) ELSE KillOther(t, sig)

sys_signal ==
  /\ Calls("signal")
  /\ \E sig \in Signals \ {SIGKILL}, h \in Handlers :
       sig_handler' = [sig_handler EXCEPT ![current][sig] = h]
  /\ Return
  /\ UNCHANGED <<schedVars, fds, sig_pending, wait_pipe, pipeVars>>

\* Ctrl+C in the keyboard interrupt, for any foreground group G: only tasks
\* parked on a pipe are woken.
InterruptsOn == iflag \/ kpc[current] \in {"user", "idle"}

raise_sigint ==
  /\ InterruptsOn
  /\ "sigint" \in Syscalls
  /\ \E G \in SUBSET {s \in Slots \ {IdleSlot} : state[s] # "FREE"} :
       LET W == {s \in G : state[s] = "BLOCKED" /\ wait_pipe[s] # NoPipe} IN
       /\ sig_pending' = [s \in Slots |-> IF s \in G THEN sig_pending[s] \cup {SIGINT}
                                          ELSE sig_pending[s]]
       /\ wait_pipe' = Unwait(W)
       /\ Wake(W)
  /\ UNCHANGED <<fds, sig_handler, kpc, iflag, karg, pipeVars>>

TimerInterrupt == InterruptsOn /\ sched_timer_tick /\ UNCHANGED procVars

\* Only the first pass of the loop comes before its sti.
IdleLoop ==
  /\ idle_task
  /\ iflag' \in {TRUE, iflag}
  /\ UNCHANGED <<fds, sigVars, wait_pipe, kpc, karg, pipeVars>>

-----------------------------------------------------------------------------
ProcInit ==
  /\ fds = [s \in Slots |-> [f \in Fds |->
              IF s \in 1 .. BootTasks /\ f < ConsoleFds THEN ConsoleFile(f)
              ELSE NoFile]]
  /\ sig_pending = [s \in Slots |-> {}]
  /\ sig_handler = [s \in Slots |-> [sig \in Signals |-> "DFL"]]
  /\ wait_pipe = [s \in Slots |-> NoPipe]
  /\ kpc = [s \in Slots |-> IF s = IdleSlot THEN "idle" ELSE "user"]
  /\ karg = [s \in Slots |-> NoArg]
  /\ iflag = TRUE
  /\ livePipes = {}
  /\ readers = [p \in Pipes |-> 0]
  /\ writers = [p \in Pipes |-> 0]
  /\ plen = [p \in Pipes |-> 0]

Init == SchedInit /\ ProcInit

KernelStep ==
  \/ DiesOfSignal \/ syscall_handler \/ ReturnUnchanged
  \/ sys_yield \/ sys_exit
  \/ sys_fork \/ ForkNoStack \/ sys_waitpid \/ ResumeWaitpid
  \/ sys_open \/ sys_close \/ sys_dup \/ sys_dup2 \/ sys_pipe
  \/ sys_read \/ sys_write \/ ResumePipeRead \/ ResumePipeWrite
  \/ ParkReader \/ ParkWriter
  \/ kbd_getchar \/ kbd_poll
  \/ sys_kill \/ sys_signal

Next ==
  \/ syscall_entry \/ PageFault \/ KernelStep \/ IdleLoop
  \/ raise_sigint \/ TimerInterrupt

Spec == Init /\ [][Next]_vars

\* Kernel code and the idle loop run on, the timer keeps ticking (a tick that
\* comes while IF is clear is latched, hence SF), and the programs of the
\* instance keep making system calls.
FairSpec ==
  /\ Spec
  /\ WF_vars(KernelStep) /\ WF_vars(IdleLoop) /\ SF_vars(TimerInterrupt)
  /\ WF_vars(syscall_entry)

-----------------------------------------------------------------------------
TypeOK ==
  /\ SchedTypeOK
  /\ fds \in [Slots -> [Fds -> File]]
  /\ sig_pending \in [Slots -> SUBSET Signals]
  /\ sig_handler \in [Slots -> [Signals -> Handlers]]
  /\ wait_pipe \in [Slots -> PipeOrNull]
  /\ kpc \in [Slots -> KernelPoints]
  /\ iflag \in BOOLEAN
  /\ karg \in [Slots -> [pipe : PipeOrNull, n : Int]]
  /\ livePipes \subseteq Pipes
  /\ readers \in [Pipes -> Int]
  /\ writers \in [Pipes -> Int]
  /\ plen \in [Pipes -> 0 .. PIPE_BUF]

EndsInTable(kind, p) ==
  Cardinality({sf \in Slots \X Fds :
                 fds[sf[1]][sf[2]] = [kind |-> kind, pipe |-> p]})

\* The counts of a pipe are the number of descriptors, over all tasks and
\* zombies, that are open on each of its ends, and the pipe is freed exactly
\* when the last of them goes: fork, dup2, close, exit, kill and reaping
\* never lose or double a reference (pipe_ref, pipe_unref and their callers).
PipeCounts ==
  \A p \in Pipes :
    /\ readers[p] = EndsInTable("rd", p)
    /\ writers[p] = EndsInTable("wr", p)
    /\ p \in livePipes <=> readers[p] + writers[p] > 0

\* No descriptor, parked pipe call or wait_pipe refers to freed memory, even
\* when the other end's last holder exits, is killed or is reaped meanwhile.
NoDanglingPipe ==
  \A s \in Slots :
    /\ \A f \in Fds : fds[s][f].pipe \in livePipes \cup {NoPipe}
    /\ kpc[s] \in {"rpark", "pread", "wpark", "pwrite"} => karg[s].pipe \in livePipes
    /\ wait_pipe[s] \in livePipes \cup {NoPipe}

Parked(s, point) == state[s] = "BLOCKED" /\ ~zombie[s] /\ kpc[s] = point

\* No lost wake-up in pipe.c: a task sleeps in pipe_read only while the pipe
\* is empty and has a writer, in pipe_write only while it is full and has a
\* reader, and pipe_wake can still find it.
PipeSleepersJustified ==
  \A s \in Slots :
    LET p == karg[s].pipe IN
    /\ Parked(s, "pread") => plen[p] = 0 /\ writers[p] > 0 /\ wait_pipe[s] = p
    /\ Parked(s, "pwrite") => plen[p] = PIPE_BUF /\ readers[p] > 0 /\ wait_pipe[s] = p

\* A pending signal aborts a pipe call (sig_abort, and the wake-ups of
\* sys_kill and raise_sigint): no task sleeps on a pipe with one pending.
SignalsAbortSleep ==
  \A s \in Slots :
    Parked(s, "pread") \/ Parked(s, "pwrite") => sig_pending[s] = {}

\* No lost wake-up in waitpid: a parent sleeps only while it has a child and
\* no child it asked for is a zombie, whether that died by exit, by a
\* signal, by a page fault or by SIGKILL from a third task.
WaitersJustified ==
  \A s \in Slots : Parked(s, "waitpid") =>
    LET kids == {t \in Slots : state[t] # "FREE" /\ parent_pid[t] = pid[s]} IN
    /\ kids # {}
    /\ \A t \in kids : karg[s].n \in {AnyChild, pid[t]} => ~zombie[t]

\* Code after the sched_yield of sys_exit, terminate_current and the SIGSEGV
\* path is unreachable: a dead task never runs again.
DeadNeverRuns == \A s \in Slots : kpc[s] = "dead" => state[s] \in {"BLOCKED", "FREE"}

\* Ctrl+C ends a keyboard read: a task in kbd_getchar with SIGINT pending
\* leaves it, although it is scheduled only when the others let it run.
CtrlCEndsRead ==
  \A s \in Slots :
    LET reading == state[s] # "FREE" /\ kpc[s] \in {"kbd", "kbdpoll"} IN
    reading /\ SIGINT \in sig_pending[s] ~> ~reading

-----------------------------------------------------------------------------
\* README.md: "orphans reparented to init".  Every process has a parent in
\* the table that can wait for it.
OrphansReparented ==
  \A s \in Slots :
    state[s] # "FREE" => \E t \in Slots : state[t] # "FREE" /\ pid[t] = parent_pid[s]
=============================================================================
