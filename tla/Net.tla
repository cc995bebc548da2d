-------------------------------- MODULE Net --------------------------------
(***************************************************************************)
(* /dev/net of kernel/src/drivers/net/net.c over the e1000 rings, its      *)
(* users ping and netinfo, and the network.  One command at a time is      *)
(* pending, for the task that wrote it; its read runs the command: an ARP  *)
(* exchange, then an ICMP echo, each sent up to PING_TX_RETRY_MAX times    *)
(* and polled for a bounded time.  The kernel is not preempted, so the     *)
(* exchange runs against the card and the network only.  The network       *)
(* loses, delays, reorders and duplicates frames and carries frames that   *)
(* are not answers to ours.                                                *)
(***************************************************************************)
EXTENDS E1000

CONSTANTS
  Pids, Ips,
  Hosts,               \* the addresses that answer
  PING_TX_RETRY_MAX,   \* 3 in the code
  WAIT_POLLS,          \* ARP_WAIT_LOOPS / POLL_SPIN_BURST
  NET_RX_EXTRA_LIMIT,  \* 64 in the code
  MaxSeq,              \* bound on the sequence numbers used
  MaxBacklog           \* bound on the frames waiting in the receive ring

ASSUME Addresses == Hosts \subseteq Ips /\ 0 \notin Pids

ArpRequest(ip) == [type |-> "arp?", ip |-> ip, seq |-> 0, ours |-> TRUE, valid |-> TRUE]
EchoRequest(ip, seq) == [type |-> "echo?", ip |-> ip, seq |-> seq, ours |-> TRUE, valid |-> TRUE]
Reply(f) == [f EXCEPT !.type = IF f.type = "arp?" THEN "arp" ELSE "echo"]

\* Frames nobody sent in answer to us: for another machine, or with a bad
\* checksum, length, fragment flag or address.
Strays ==
  {[type |-> "echo", ip |-> ip, seq |-> 1, ours |-> ours, valid |-> ~ours] :
     ip \in Hosts, ours \in BOOLEAN}
NetFrame ==
  {ArpRequest(ip) : ip \in Ips} \cup {EchoRequest(ip, s) : ip \in Ips, s \in 1 .. MaxSeq}
NetReply == {Reply(f) : f \in NetFrame}
AllFrames == NetFrame \cup NetReply \cup Strays

VARIABLES
  open_owner, cmd, result_state, result_addr, seq_next,
  result,      \* result_buf: the command's task, address, outcome and number
  result_off,  \* "part" or "end" of result_buf
  npc,         \* netdev_read: "idle", "arp", "arptx", "arpwait", "echo", "echotx", "echowait"
  attempt, polls, extra, seq,
  user,        \* ping or netinfo of each task: "new", "wrote", "read", "failed" or "dead"
  got,         \* the result each task has read
  answers      \* the replies hosts have sent; any may arrive, at any time and again

deviceVars == <<open_owner, cmd, result_state, result_addr, result, result_off>>
exchangeVars == <<npc, attempt, polls, extra, seq, seq_next>>
userVars == <<user, got>>
netVars == <<e1000Vars, deviceVars, exchangeVars, userVars, answers>>

NoResult == [pid |-> 0, ip |-> NoFrame, rc |-> "none", seq |-> 0]
Outcome(p, rc) == [pid |-> p, ip |-> result_addr, rc |-> rc, seq |-> seq]

-----------------------------------------------------------------------------
(* The device, as ping and netinfo use it.                                 *)

CommandPending == cmd # "none" /\ result_state = "pending"

\* Fault: a result that is ready stays ready for the next owner.
netdev_writeKeepsResult(p, c, ip) ==
  /\ npc = "idle" /\ user[p] = "new"
  /\ IF CommandPending THEN user' = [user EXCEPT ![p] = "failed"] /\ UNCHANGED deviceVars
     ELSE /\ user' = [user EXCEPT ![p] = "wrote"]
          /\ open_owner' = p /\ cmd' = c /\ result_addr' = ip
          /\ result_state' = IF result_state = "ready" THEN "ready" ELSE "pending"
          /\ UNCHANGED <<result, result_off>>
  /\ UNCHANGED <<e1000Vars, exchangeVars, got, answers>>

\* parse_ipv4_strict refuses what is not an address before this.
netdev_write(p, c, ip) ==
  /\ npc = "idle" /\ user[p] = "new"
  /\ IF CommandPending THEN user' = [user EXCEPT ![p] = "failed"] /\ UNCHANGED deviceVars
     ELSE /\ user' = [user EXCEPT ![p] = "wrote"]
          /\ open_owner' = p /\ cmd' = c /\ result_addr' = ip /\ result_state' = "pending"
          /\ UNCHANGED <<result, result_off>>
  /\ UNCHANGED <<e1000Vars, exchangeVars, got, answers>>

\* The end of a command in netdev_read: the result and its first part, for a
\* task that asked for less or for at least all of it.
Finish(r) ==
  /\ cmd' = "none" /\ result_state' = "ready" /\ result' = r
  /\ result_off' \in {"part", "end"}
  /\ got' = [got EXCEPT ![open_owner] = r]
  /\ npc' = "idle"
  /\ UNCHANGED <<open_owner, result_addr, user>>

\* A read that does not run the command: by another task, of a result that is
\* ready, or when there is nothing to read.
netdev_read(p) ==
  /\ npc = "idle" /\ user[p] = "wrote" /\ (open_owner = p => ~CommandPending)
  /\ \/ /\ open_owner # p
        /\ user' = [user EXCEPT ![p] = "failed"] /\ UNCHANGED <<deviceVars, got>>
     \/ /\ open_owner = p /\ result_state = "ready" /\ result_off = "end"
        /\ result_state' = "none" /\ cmd' = "none" /\ result' = NoResult
        /\ user' = [user EXCEPT ![p] = "read"]
        /\ UNCHANGED <<open_owner, result_addr, result_off, got>>
     \/ /\ open_owner = p /\ result_state = "ready" /\ result_off = "part"
        /\ result_off' \in {"part", "end"} /\ got' = [got EXCEPT ![p] = result]
        /\ UNCHANGED <<open_owner, cmd, result_state, result_addr, result, user>>
     \/ /\ open_owner = p /\ result_state = "none"
        /\ user' = [user EXCEPT ![p] = "read"] /\ UNCHANGED <<deviceVars, got>>
  /\ UNCHANGED <<e1000Vars, exchangeVars, answers>>

\* A read by the owner of a pending command: it runs it.
cmd_run(p) ==
  /\ npc = "idle" /\ user[p] = "wrote" /\ open_owner = p /\ CommandPending
  /\ IF cmd = "status"
     THEN Finish(Outcome(p, "status")) /\ UNCHANGED <<attempt, polls, extra, seq, seq_next>>
     ELSE /\ npc' = "arp" /\ attempt' = 1
          /\ UNCHANGED <<deviceVars, userVars, polls, extra, seq, seq_next>>
  /\ UNCHANGED <<e1000Vars, answers>>

\* Killed in user mode, or netinfo's exit after one read: the owner may leave
\* its command, or a result, behind.
Exit(p) ==
  /\ npc = "idle" /\ user[p] = "wrote"
  /\ user' = [user EXCEPT ![p] = "dead"]
  /\ UNCHANGED <<e1000Vars, deviceVars, exchangeVars, got, answers>>

-----------------------------------------------------------------------------
(* The exchange.                                                           *)

KeepDevice == UNCHANGED <<deviceVars, userVars>>
Restart(pc) == npc' = pc /\ attempt' = attempt + 1 /\ KeepDevice
LastAttempt == attempt = PING_TX_RETRY_MAX

\* Fault: the attempts are not counted.
ArpRetryForever ==
  /\ npc' = "arp" /\ UNCHANGED attempt /\ KeepDevice

ArpRetry ==
  IF LastAttempt THEN Finish(Outcome(open_owner, "arptimeout")) /\ UNCHANGED attempt
  ELSE Restart("arp")

EchoRetry ==
  IF LastAttempt THEN Finish(Outcome(open_owner, "timeout")) /\ UNCHANGED attempt
  ELSE Restart("echo")

TxFail == Finish(Outcome(open_owner, "txfail")) /\ UNCHANGED attempt

\* The two calls of e1000_send, and what follows when it returns.
SendRequest ==
  /\ npc \in {"arp", "echo"}
  /\ \/ /\ SendRefused
        /\ IF npc = "arp" THEN ArpRetry ELSE TxFail
        /\ UNCHANGED txVars
     \/ /\ Fill(IF npc = "arp" THEN ArpRequest(result_addr) ELSE EchoRequest(result_addr, seq))
        /\ npc' = IF npc = "arp" THEN "arptx" ELSE "echotx"
        /\ KeepDevice /\ UNCHANGED attempt
  /\ UNCHANGED <<nic_up, nic_pages, rxVars, rx_frame, polls, extra, seq, seq_next, answers>>

RequestSent ==
  /\ npc \in {"arptx", "echotx"}
  /\ \/ /\ SpinEnds(0)
        /\ npc' = IF npc = "arptx" THEN "arpwait" ELSE "echowait"
        /\ polls' = 0 /\ extra' = 0
        /\ KeepDevice /\ UNCHANGED attempt
     \/ /\ SpinEnds(-1)
        /\ IF npc = "arptx" THEN ArpRetry ELSE TxFail
        /\ UNCHANGED <<polls, extra>>
  /\ UNCHANGED <<nic_up, nic_pages, rxVars, rx_frame, seq, seq_next, answers>>

arp_reply_ok(f) == f.type = "arp" /\ f.valid /\ f.ours /\ f.ip = result_addr

\* Fault: the sequence number is not compared.
ipv4_reply_okAnySeq(f) == f.type = "echo" /\ f.valid /\ f.ours /\ f.ip = result_addr

ipv4_reply_ok(f) ==
  f.type = "echo" /\ f.valid /\ f.ours /\ f.ip = result_addr /\ f.seq = seq

\* A reply: the echo follows the ARP exchange, with the next number of 16
\* bits other than 0.
Answered ==
  IF npc = "arpwait"
  THEN /\ npc' = "echo" /\ attempt' = 1
       /\ seq' = (IF seq_next = 0 THEN 1 ELSE seq_next)
       /\ seq_next' = (seq' + 1) % 65536
       /\ KeepDevice
  ELSE Finish(Outcome(open_owner, "ok")) /\ UNCHANGED <<attempt, seq, seq_next>>

Retry == (IF npc = "arpwait" THEN ArpRetry ELSE EchoRetry) /\ UNCHANGED <<seq, seq_next>>
Again == UNCHANGED <<npc, attempt, seq, seq_next>> /\ KeepDevice

\* One pass of either wait loop.
WaitReply ==
  /\ npc \in {"arpwait", "echowait"}
  /\ IF Received.dd THEN e1000_poll ELSE UNCHANGED rxVars
  /\ IF Received.dd /\ Accepted
     THEN /\ \/ /\ IF npc = "arpwait" THEN arp_reply_ok(Received.frame)
                                     ELSE ipv4_reply_ok(Received.frame)
              /\ Answered /\ UNCHANGED extra
           \/ /\ ~IF npc = "arpwait" THEN arp_reply_ok(Received.frame)
                                      ELSE ipv4_reply_ok(Received.frame)
              /\ extra' = extra + 1
              /\ IF extra = NET_RX_EXTRA_LIMIT THEN Retry ELSE Again
          /\ UNCHANGED polls
     ELSE /\ polls' = polls + 1
          /\ IF polls' = WAIT_POLLS THEN Retry ELSE Again
          /\ UNCHANGED extra
  /\ UNCHANGED <<nic_up, nic_pages, rx_frame, txVars, answers>>

-----------------------------------------------------------------------------
(* The card and the network.                                               *)

\* A request may be lost, and an address need not have a host.
WireSends ==
  /\ CardSends
  /\ LET f == tx_ring[tdh].frame IN
     \/ UNCHANGED answers
     \/ f.ip \in Hosts /\ answers' = answers \cup {Reply(f)}
  /\ UNCHANGED <<nic_up, nic_pages, rxVars, rx_frame, deviceVars, exchangeVars, userVars>>

WireDelivers ==
  /\ Filled < MaxBacklog
  /\ \E f \in answers \cup Strays : CardReceives(f, TRUE, TRUE)
  /\ UNCHANGED <<nic_up, nic_pages, rx_frame, txVars, deviceVars, exchangeVars, userVars, answers>>

net_init ==
  /\ open_owner = 0 /\ cmd = "none" /\ result_state = "none" /\ result_addr = NoFrame
  /\ result = NoResult /\ result_off = "end" /\ seq_next = 1
  /\ npc = "idle" /\ attempt = 1 /\ polls = 0 /\ extra = 0 /\ seq = 0
  /\ user = [p \in Pids |-> "new"] /\ got = [p \in Pids |-> NoResult] /\ answers = {}
NetInit == nic_up = TRUE /\ nic_pages = Rings /\ e1000_setup /\ net_init

KernelStep == SendRequest \/ RequestSent \/ WaitReply
NetNext ==
  \/ \E p \in Pids : \/ \E ip \in Ips : netdev_write(p, "ping", ip)
                     \/ netdev_write(p, "status", result_addr)
                     \/ netdev_read(p) \/ cmd_run(p) \/ Exit(p)
  \/ KernelStep \/ WireSends \/ WireDelivers
NetSpec == NetInit /\ [][NetNext]_netVars

NetTypeOK ==
  /\ open_owner \in Pids \cup {0} /\ cmd \in {"none", "ping", "status"}
  /\ result_state \in {"none", "pending", "ready"} /\ result_addr \in Ips \cup {NoFrame}
  /\ result_off \in {"part", "end"} /\ seq \in 0 .. MaxSeq /\ seq_next \in 1 .. MaxSeq + 1
  /\ npc \in {"idle", "arp", "arptx", "arpwait", "echo", "echotx", "echowait"}
  /\ attempt \in 1 .. PING_TX_RETRY_MAX /\ polls \in 0 .. WAIT_POLLS
  /\ extra \in 0 .. NET_RX_EXTRA_LIMIT + 1
  /\ user \in [Pids -> {"new", "wrote", "read", "failed", "dead"}]
  /\ answers \subseteq NetReply

\* What a task reads is the result of its own command, although a command may
\* be written over a result nobody has read and its owner may have died; and
\* "reply from ... seq=n" is what it reads only for an echo the named host has
\* answered: neither a late or repeated reply to an earlier ping, nor one for
\* another machine, nor a damaged one left in the receive ring is taken for it.
ResultsGenuine ==
  \A p \in Pids : got[p].rc # "none" =>
    /\ got[p].pid = p
    /\ got[p].rc = "ok" => Reply(EchoRequest(got[p].ip, got[p].seq)) \in answers

\* A command keeps the device busy only while its owner lives: the read that
\* runs it returns whatever the network does, since each wait is bounded in
\* empty polls and in unrelated frames and each exchange in attempts.  (A task
\* killed between its write and its read leaves the command pending, and every
\* later write is refused.)
CommandEnds == CommandPending ~> ~CommandPending \/ user[open_owner] = "dead"
=============================================================================
