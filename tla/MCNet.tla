-------------------------------- MODULE MCNet --------------------------------
(***************************************************************************)
(* The network card's driver with an arbitrary client (part "nic"), and    *)
(* /dev/net above it (part "net"): part says which of the two takes its    *)
(* steps in a behaviour.                                                   *)
(***************************************************************************)
EXTENDS Net

VARIABLE part

vars == <<part, netVars>>
Part(name) == part = name /\ part' = name

Init ==
  /\ part \in {"nic", "net"} /\ e1000_setup /\ net_init
  /\ nic_up = (part = "net") /\ nic_pages = IF part = "net" THEN Rings ELSE {}

NicStep == Part("nic") /\ E1000Next /\ UNCHANGED <<deviceVars, exchangeVars, userVars, answers>>
NetStep == Part("net") /\ NetNext
Next == NicStep \/ NetStep

\* The kernel goes on executing a read, and a task that has written a command
\* reads its result.
Spec ==
  /\ Init /\ [][Next]_vars
  /\ WF_vars(Part("net") /\ KernelStep) /\ WF_vars(Part("net") /\ \E p \in Pids : cmd_run(p))

\* The receive ring implements the bounded queue of Fifo, without its Flush,
\* the card putting in and e1000_poll taking out: a frame that came whole and
\* without error in one descriptor is returned once and in order, and no part
\* of a frame that took several descriptors ever is, wherever in it the polls
\* fall.
NicImplementsFifo == [][part = "nic" => FrameStep]_<<Waiting, rx_frame>>
==============================================================================
