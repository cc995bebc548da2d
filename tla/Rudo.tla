-------------------------------- MODULE Rudo --------------------------------
(***************************************************************************)
(* rudo: a task asks the root daemon rudod (PID 2) for uid 0 through one   *)
(* shared request, rudo_queue of kernel/src/sys/syscall.c, and sleeps      *)
(* until the daemon has dealt with it.  A system call runs without         *)
(* preemption up to its sched_yield, so a step is the code between two     *)
(* yields.  A blocked task is also woken by the exit of a child; the sleep *)
(* in sys_rudo_request is not in a loop.                                   *)
(***************************************************************************)
EXTENDS Naturals

CONSTANTS Tasks, NoTask

Uids == {0, 1000}

VARIABLES
  queue,     \* rudo_queue: requester, pending and result; op is RUDO_OP_SETUID
  uid,
  tstate,    \* of each task: "user", "blocked", "woken" or "dead"
  ret,       \* what its last rudo_request returned: "none", "approved" or "denied"
  daemon     \* rudod: "ready", "parked" or "dead"

rudoVars == <<queue, uid, tstate, ret, daemon>>

\* The callers, root and rudo of sh.c, ask only when they are not root.
Asks(p) == tstate[p] = "user" /\ uid[p] # 0
Refused == daemon = "dead" \/ queue.pending

\* Fault: the result of an earlier request is left in place.
sys_rudo_requestKeepsResult(p) ==
  /\ Asks(p)
  /\ IF Refused THEN ret' = [ret EXCEPT ![p] = "denied"] /\ UNCHANGED <<queue, tstate, daemon>>
     ELSE /\ queue' = [queue EXCEPT !.requester = p, !.pending = TRUE]
          /\ daemon' = "ready"
          /\ tstate' = [tstate EXCEPT ![p] = "blocked"] /\ ret' = [ret EXCEPT ![p] = "none"]
  /\ UNCHANGED uid

\* Fault: the daemon is not woken.
sys_rudo_requestNoWake(p) ==
  /\ Asks(p)
  /\ IF Refused THEN ret' = [ret EXCEPT ![p] = "denied"] /\ UNCHANGED <<queue, tstate, daemon>>
     ELSE /\ queue' = [requester |-> p, pending |-> TRUE, result |-> "denied"]
          /\ UNCHANGED daemon
          /\ tstate' = [tstate EXCEPT ![p] = "blocked"] /\ ret' = [ret EXCEPT ![p] = "none"]
  /\ UNCHANGED uid

sys_rudo_request(p) ==
  /\ Asks(p)
  /\ IF Refused THEN ret' = [ret EXCEPT ![p] = "denied"] /\ UNCHANGED <<queue, tstate, daemon>>
     ELSE /\ queue' = [requester |-> p, pending |-> TRUE, result |-> "denied"]
          /\ daemon' = "ready"
          /\ tstate' = [tstate EXCEPT ![p] = "blocked"] /\ ret' = [ret EXCEPT ![p] = "none"]
  /\ UNCHANGED uid

\* The task runs again, after sched_yield.
RequestReturns(p) ==
  /\ tstate[p] = "woken"
  /\ tstate' = [tstate EXCEPT ![p] = "user"] /\ ret' = [ret EXCEPT ![p] = queue.result]
  /\ UNCHANGED <<queue, uid, daemon>>

sched_wake(p) == tstate' = [tstate EXCEPT ![p] = IF @ = "blocked" THEN "woken" ELSE @]

\* rudod's loop: deal with the request, or park.
sys_rudo_wait ==
  /\ daemon = "ready"
  /\ IF queue.pending
     THEN /\ queue' = [queue EXCEPT !.pending = FALSE, !.result = "approved"]
          /\ uid' = [uid EXCEPT ![queue.requester] = 0]
          /\ sched_wake(queue.requester)
          /\ UNCHANGED daemon
     ELSE daemon' = "parked" /\ UNCHANGED <<queue, uid, tstate>>
  /\ UNCHANGED ret

\* A root task gives its privilege up, as sh does when it starts.
sys_setuid(p) ==
  /\ tstate[p] = "user" /\ uid[p] = 0
  /\ \E u \in Uids : uid' = [uid EXCEPT ![p] = u]
  /\ ret' = [ret EXCEPT ![p] = "none"]
  /\ UNCHANGED <<queue, tstate, daemon>>

\* sys_exit of a child wakes its parent, whatever the parent waits for.
ChildExits(p) == tstate[p] = "blocked" /\ sched_wake(p) /\ UNCHANGED <<queue, uid, ret, daemon>>

\* sys_kill and deliver_signals end a task; what it asked for stays queued.
Killed(p) ==
  /\ tstate[p] # "dead"
  /\ tstate' = [tstate EXCEPT ![p] = "dead"] /\ UNCHANGED <<queue, uid, ret, daemon>>

DaemonKilled == daemon # "dead" /\ daemon' = "dead" /\ UNCHANGED <<queue, uid, tstate, ret>>

-----------------------------------------------------------------------------
RudoInit ==
  /\ queue = [requester |-> NoTask, pending |-> FALSE, result |-> "approved"]
  /\ uid = [p \in Tasks |-> 1000] /\ tstate = [p \in Tasks |-> "user"]
  /\ ret = [p \in Tasks |-> "none"] /\ daemon = "ready"

RudoProgress == sys_rudo_wait \/ \E p \in Tasks : RequestReturns(p)
RudoNext ==
  \/ sys_rudo_wait \/ DaemonKilled
  \/ \E p \in Tasks : \/ sys_rudo_request(p) \/ RequestReturns(p) \/ sys_setuid(p)
                      \/ ChildExits(p) \/ Killed(p)
RudoSpec == RudoInit /\ [][RudoNext]_rudoVars

RudoTypeOK ==
  /\ queue \in [requester : Tasks \cup {NoTask}, pending : BOOLEAN, result : {"approved", "denied"}]
  /\ uid \in [Tasks -> Uids] /\ tstate \in [Tasks -> {"user", "blocked", "woken", "dead"}]
  /\ ret \in [Tasks -> {"none", "approved", "denied"}]
  /\ daemon \in {"ready", "parked", "dead"}

\* A task told that its request was approved is root: the result it reads may
\* be that of a later request, or be read before the daemon ran, but is never
\* an approval that was not given to it.
ApprovalIsReal == \A p \in Tasks : ret[p] = "approved" => uid[p] = 0

\* A task told that its request was denied is not root, as the comment on
\* rudo_queue.result has it.
DenialIsReal == \A p \in Tasks : ret[p] = "denied" => uid[p] # 0

\* A request is answered while rudod lives: neither can sleep through the
\* wake-up of the other.
RequestAnswered ==
  \A p \in Tasks : tstate[p] = "blocked" ~> tstate[p] # "blocked" \/ daemon = "dead"
=============================================================================
