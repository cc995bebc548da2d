-------------------------------- MODULE Ahci --------------------------------
(***************************************************************************)
(* The SATA driver of kernel/src/drivers/ahci.c: bringing the ports up and *)
(* reading sectors through command slot 0 and a bounce page, polling.  The *)
(* controller runs beside it: it stops, fetches a command, transfers,      *)
(* completes or fails when it likes, and the driver's bounded waits may    *)
(* run out before it does.                                                 *)
(***************************************************************************)
EXTENDS Naturals, Sequences, FiniteSets

CONSTANTS
  Ports,         \* the port numbers 0 .. 31 that the controller implements
  Pages, NoPage, \* the numbers of the pages pmm_alloc_dma has
  MAX_XFER,      \* sectors of one command, 256 in the code
  Sectors,       \* the sector numbers callers read from
  MaxCount       \* the largest count they ask for; it fits a page in the code

ASSUME AhciAssumption ==
  /\ Ports \subseteq Nat /\ Sectors \subseteq Nat /\ NoPage \notin Pages
  /\ MAX_XFER \in Nat \ {0} /\ MaxCount \in Nat

VARIABLES
  free,       \* the free pages
  content,    \* the sectors last written to each page
  active, num_ports,
  running,    \* PxCMD: "off", "on", or "stopping" (ST cleared, CR still set)
  ci,         \* bit 0 of PxCI
  tfes,       \* PxIS.TFES
  table,      \* the command in the command table: lba, n, page
  executing,  \* the command the port has fetched; BSY is set meanwhile
  halted,     \* the port stopped on an error and fetches no more
  cpu         \* the driver: pc, port, the read's arguments and what it has got

hba == <<running, ci, tfes, executing, halted>>
ahciVars == <<free, content, active, num_ports, running, ci, tfes, table, executing, halted, cpu>>

NoCommand == [lba |-> 0, n |-> 0, page |-> NoPage]
Idle == [pc |-> "idle", port |-> 0, lba |-> 0, left |-> 0, page |-> NoPage, buf |-> <<>>, asked |-> <<>>]
Run(lba, n) == [k \in 1 .. n |-> (lba + k) - 1]

-----------------------------------------------------------------------------
(* ahci_init: one port after the other.                                    *)

Scanning(p) == cpu.pc = "scan" /\ cpu.port = p
NextPort(p) ==
  LET rest == {q \in Ports : q > p} IN
  cpu' = IF rest = {} THEN Idle
         ELSE [cpu EXCEPT !.pc = "scan", !.port = CHOOSE q \in rest : \A r \in rest : q <= r]

\* No device: the port stays inactive.
SkipPort(p) ==
  /\ Scanning(p) /\ NextPort(p)
  /\ active' = active \ {p}
  /\ UNCHANGED <<free, content, num_ports, table, hba>>

\* ST and FRE are cleared; then a bounded wait for the port to stop.
port_stop(p) ==
  /\ Scanning(p)
  /\ running' = [running EXCEPT ![p] = IF @ = "off" THEN "off" ELSE "stopping"]
  /\ cpu' = [cpu EXCEPT !.pc = "stop"]
  /\ UNCHANGED <<free, content, active, num_ports, ci, tfes, table, executing, halted>>

\* The wait ends, in time or not.  The link may fail to come up; the three
\* pages may not all be there, and those got by then stay allocated.
port_init(p) ==
  /\ cpu.pc = "stop" /\ cpu.port = p
  /\ \E link \in BOOLEAN, got \in SUBSET Pages :
       /\ got \subseteq free /\ \A page \in got, other \in free \ got : page < other
       /\ LET ok == link /\ Cardinality(got) = 3 IN
          /\ ok \/ (link /\ got = free /\ Cardinality(free) < 3) \/ (~link /\ got = {})
          /\ free' = free \ got
          /\ IF ok THEN cpu' = [cpu EXCEPT !.pc = "start"] ELSE NextPort(p)
          /\ tfes' = [tfes EXCEPT ![p] = IF link THEN FALSE ELSE @]
  /\ UNCHANGED <<content, active, num_ports, running, ci, table, executing, halted>>

\* The wait for CR to clear has no bound.
port_start(p) ==
  /\ cpu.pc = "start" /\ cpu.port = p /\ running[p] = "off"
  /\ running' = [running EXCEPT ![p] = "on"]
  /\ active' = active \cup {p} /\ num_ports' = p + 1
  /\ NextPort(p)
  /\ UNCHANGED <<free, content, ci, tfes, table, executing, halted>>

-----------------------------------------------------------------------------
(* ahci_read_sectors, up to where it waits and from there on.              *)

Return(buf) == cpu' = [Idle EXCEPT !.buf = buf, !.asked = cpu.asked]
Fail == free' = free \cup {cpu.page} /\ Return(<<>>)

\* An invalid port, or no page: -1 at once.
ReadRefused(p) ==
  /\ cpu.pc = "idle" /\ (p >= num_ports \/ p \notin active \/ free = {})
  /\ cpu' = Idle
  /\ UNCHANGED <<free, content, active, num_ports, table, hba>>

ahci_read_sectors(p, lba, count) ==
  /\ cpu.pc = "idle" /\ p < num_ports /\ p \in active
  /\ \E page \in free :
       /\ free' = free \ {page}
       /\ cpu' = [pc |-> "tfd", port |-> p, lba |-> lba, left |-> count,
                  page |-> page, buf |-> <<>>, asked |-> Run(lba, count)]
  /\ UNCHANGED <<content, active, num_ports, table, hba>>

Busy(p) == executing[p] # NoCommand
Xfer == IF cpu.left > MAX_XFER THEN MAX_XFER ELSE cpu.left

\* BSY and DRQ are clear, or the drive stays busy, be it of its own accord.
spin_tfd ==
  /\ cpu.pc = "tfd" /\ ~Busy(cpu.port)
  /\ cpu' = [cpu EXCEPT !.pc = "build"]
  /\ UNCHANGED <<free, content, active, num_ports, table, hba>>
SpinTimeout ==
  /\ cpu.pc = "tfd"
  /\ Fail
  /\ UNCHANGED <<content, active, num_ports, table, hba>>

\* Fault: the PRDT entry is filled only once.
BuildCommandKeepsPage ==
  /\ cpu.pc = "build"
  /\ table' = [table EXCEPT ![cpu.port] =
                 [lba |-> cpu.lba, n |-> Xfer, page |-> IF @.page = NoPage THEN cpu.page ELSE @.page]]
  /\ cpu' = [cpu EXCEPT !.pc = "issue"]
  /\ UNCHANGED <<free, content, active, num_ports, hba>>

BuildCommand ==
  /\ cpu.pc = "build"
  /\ table' = [table EXCEPT ![cpu.port] = [lba |-> cpu.lba, n |-> Xfer, page |-> cpu.page]]
  /\ cpu' = [cpu EXCEPT !.pc = "issue"]
  /\ UNCHANGED <<free, content, active, num_ports, hba>>

IssueCommand ==
  /\ cpu.pc = "issue"
  /\ tfes' = [tfes EXCEPT ![cpu.port] = FALSE] /\ ci' = [ci EXCEPT ![cpu.port] = TRUE]
  /\ cpu' = [cpu EXCEPT !.pc = "poll"]
  /\ UNCHANGED <<free, content, active, num_ports, running, table, executing, halted>>

\* Fault: the error bit is taken for the end of the command.
PollDoneOnError ==
  /\ cpu.pc = "poll" /\ (~ci[cpu.port] \/ tfes[cpu.port])
  /\ LET got == cpu.buf \o content[cpu.page] IN
     IF cpu.left > Xfer
     THEN /\ cpu' = [cpu EXCEPT !.pc = "tfd", !.buf = got, !.lba = @ + Xfer, !.left = @ - Xfer]
          /\ UNCHANGED free
     ELSE free' = free \cup {cpu.page} /\ Return(got)
  /\ UNCHANGED <<content, active, num_ports, table, hba>>

\* CI is clear: the data is copied out and the next command prepared.
PollDone ==
  /\ cpu.pc = "poll" /\ ~ci[cpu.port]
  /\ LET got == cpu.buf \o content[cpu.page] IN
     IF cpu.left > Xfer
     THEN /\ cpu' = [cpu EXCEPT !.pc = "tfd", !.buf = got, !.lba = @ + Xfer, !.left = @ - Xfer]
          /\ UNCHANGED free
     ELSE free' = free \cup {cpu.page} /\ Return(got)
  /\ UNCHANGED <<content, active, num_ports, table, hba>>

PollError ==
  /\ cpu.pc = "poll" /\ ci[cpu.port] /\ tfes[cpu.port]
  /\ Fail
  /\ UNCHANGED <<content, active, num_ports, table, hba>>
\* The command stays issued, its page is given back.
PollTimeout ==
  /\ cpu.pc = "poll" /\ ci[cpu.port] /\ ~tfes[cpu.port]
  /\ Fail
  /\ UNCHANGED <<content, active, num_ports, table, hba>>

-----------------------------------------------------------------------------
(* The controller, and the other users of the pages.                       *)

PortStops(p) ==
  /\ running[p] = "stopping" /\ running' = [running EXCEPT ![p] = "off"]
  /\ UNCHANGED <<free, content, active, num_ports, ci, tfes, table, executing, halted, cpu>>
PortFetches(p) ==
  /\ running[p] = "on" /\ ci[p] /\ ~Busy(p) /\ ~halted[p]
  /\ executing' = [executing EXCEPT ![p] = table[p]]
  /\ UNCHANGED <<free, content, active, num_ports, running, ci, tfes, table, halted, cpu>>
PortCompletes(p) ==
  /\ Busy(p)
  /\ content' = [content EXCEPT ![executing[p].page] = Run(executing[p].lba, executing[p].n)]
  /\ executing' = [executing EXCEPT ![p] = NoCommand] /\ ci' = [ci EXCEPT ![p] = FALSE]
  /\ UNCHANGED <<free, active, num_ports, running, tfes, table, halted, cpu>>
PortFails(p) ==
  /\ Busy(p)
  /\ executing' = [executing EXCEPT ![p] = NoCommand]
  /\ tfes' = [tfes EXCEPT ![p] = TRUE] /\ halted' = [halted EXCEPT ![p] = TRUE]
  /\ UNCHANGED <<free, content, active, num_ports, running, ci, table, cpu>>
\* A free page is allocated, written and freed by another part of the kernel,
\* so that pmm_alloc_dma may find any of them first.
PageReused(page) ==
  /\ cpu.pc = "idle" /\ page \in free /\ content' = [content EXCEPT ![page] = <<>>]
  /\ UNCHANGED <<free, active, num_ports, table, hba, cpu>>

AhciInit ==
  /\ free = Pages /\ content = [page \in Pages |-> <<>>]
  /\ active = {} /\ num_ports = 0
  /\ running \in [Ports -> {"off", "on"}]  \* as the firmware left them
  /\ ci = [p \in Ports |-> FALSE] /\ tfes = [p \in Ports |-> FALSE]
  /\ halted = [p \in Ports |-> FALSE]
  /\ table = [p \in Ports |-> NoCommand] /\ executing = [p \in Ports |-> NoCommand]
  /\ cpu = [Idle EXCEPT !.pc = "scan", !.port = CHOOSE p \in Ports : \A q \in Ports : p <= q]

AhciStart == \E p \in Ports : SkipPort(p) \/ port_stop(p) \/ port_init(p) \/ port_start(p)
AhciRead ==
  \/ \E p \in Ports : \/ ReadRefused(p)
                      \/ \E lba \in Sectors, count \in 1 .. MaxCount : ahci_read_sectors(p, lba, count)
  \/ spin_tfd \/ SpinTimeout \/ BuildCommand \/ IssueCommand
  \/ PollDone \/ PollError \/ PollTimeout
AhciNext ==
  \/ AhciStart \/ AhciRead
  \/ \E p \in Ports : PortStops(p) \/ PortFetches(p) \/ PortCompletes(p) \/ PortFails(p)
  \/ \E page \in Pages : PageReused(page)
AhciSpec == AhciInit /\ [][AhciNext]_ahciVars

-----------------------------------------------------------------------------
AhciTypeOK ==
  /\ free \subseteq Pages /\ active \subseteq Ports /\ num_ports \in {0} \cup {p + 1 : p \in Ports}
  /\ running \in [Ports -> {"off", "on", "stopping"}]
  /\ ci \in [Ports -> BOOLEAN] /\ tfes \in [Ports -> BOOLEAN] /\ halted \in [Ports -> BOOLEAN]
  /\ cpu.pc \in {"idle", "scan", "stop", "start", "tfd", "build", "issue", "poll"}
  /\ cpu.page \in Pages \cup {NoPage} /\ cpu.left \in 0 .. MaxCount
  /\ (cpu.pc \in {"tfd", "build", "issue", "poll"}) = (cpu.page # NoPage)

\* A read that reports success delivered the sectors asked for, all of them and
\* in order, whatever failed before it or happened to its page in between.
ReadGenuine == cpu.pc = "idle" /\ cpu.buf # <<>> => cpu.buf = cpu.asked

\* The controller writes only to the page the driver holds at that time, never
\* to one that ahci_read_sectors has given back.
DmaOwned == [][\A p \in Ports : PortCompletes(p) => executing[p].page = cpu.page]_ahciVars

\* The controller answers within the ten million polls.
InTime == ~(\E p \in Ports : cpu.pc = "idle" /\ (Busy(p) \/ (ci[p] /\ ~halted[p])))
=============================================================================
