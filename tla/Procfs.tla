------------------------------- MODULE Procfs -------------------------------
(***************************************************************************)
(* /proc, kernel/src/fs/procfs.c.  A look-up makes the node of a process's *)
(* file in a fixed pool from which nothing is taken back; the content is   *)
(* generated when the node is read.                                        *)
(***************************************************************************)
EXTENDS Naturals, Sequences

CONSTANTS
  Names,        \* the components of paths
  PROCFS_POOL,  \* 32 in the code
  Pids          \* the names of process directories

Kinds == {"meminfo", "uptime", "stat", "status", "cmdline"}
NoPid == "none"

\* There is room for the nodes of the mount, and a process is known by a number.
ASSUME ProcfsAssumption ==
  /\ PROCFS_POOL \in Nat /\ PROCFS_POOL >= 3
  /\ Pids \subseteq Names /\ Pids \cap (Kinds \cup {NoPid, "proc"}) = {}

VARIABLES
  pool,  \* the nodes in use: the pid and the kind that node->data encodes
  tasks  \* the processes sched_find_pid finds

Failed(p) == [pool |-> p, node |-> 0]

make_node(p, pid, kind) ==
  IF Len(p) >= PROCFS_POOL THEN Failed(p)
  ELSE [pool |-> Append(p, [pid |-> pid, kind |-> kind]), node |-> Len(p) + 1]

procfs_mount == [k \in 1 .. 3 |-> [pid |-> NoPid, kind |-> <<"meminfo", "uptime", "stat">>[k]]]

\* Fault: a process that has a node keeps it.
procfs_resolveReuses(p, dir, component) ==
  IF dir # 0 /\ p[dir].kind \in {"status", "cmdline"}
  THEN CASE component = "cmdline" -> [pool |-> [p EXCEPT ![dir].kind = "cmdline"], node |-> dir]
         [] component = "status" -> [pool |-> [p EXCEPT ![dir].kind = "status"], node |-> dir]
         [] OTHER -> Failed(p)
  ELSE CASE component \in {"meminfo", "uptime", "stat"} ->
              [pool |-> p, node |-> CHOOSE i \in 1 .. 3 : p[i].kind = component]
         [] component \in tasks ->
              IF \E i \in DOMAIN p : p[i].pid = component
              THEN [pool |-> p, node |-> CHOOSE i \in DOMAIN p : p[i].pid = component]
              ELSE make_node(p, component, "status")
         [] OTHER -> Failed(p)

\* One component below the node dir of the pool p, or below /proc (0).  The
\* node of a process serves both as its directory and as the file in it.
procfs_resolve(p, dir, component) ==
  IF dir # 0 /\ p[dir].kind \in {"status", "cmdline"}
  THEN CASE component = "cmdline" -> [pool |-> [p EXCEPT ![dir].kind = "cmdline"], node |-> dir]
         [] component = "status" -> [pool |-> p, node |-> dir]
         [] OTHER -> Failed(p)
  ELSE CASE component \in {"meminfo", "uptime", "stat"} ->
              IF dir = 0 THEN [pool |-> p, node |-> CHOOSE i \in 1 .. 3 : p[i].kind = component]
              ELSE Failed(p)
         [] component \in tasks -> make_node(p, component, "status")
         [] OTHER -> Failed(p)

\* What a read of the node yields: the kind and the process of the content,
\* or nothing when the process is gone.
procfs_read(i) ==
  IF pool[i].kind \in {"status", "cmdline"} /\ pool[i].pid \notin tasks THEN <<>>
  ELSE <<pool[i].kind, pool[i].pid>>
=============================================================================
