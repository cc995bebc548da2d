-------------------------------- MODULE Uhci --------------------------------
(***************************************************************************)
(* The USB keyboard driver, kernel/src/drivers/usb/uhci.c.  Two transfer   *)
(* descriptors are shared with the host controller: td_ep0 for the phases  *)
(* of control transfers and td_int, the keyboard's.  The dialog on endpoint*)
(* 0 (uhci_boot_setup) runs at boot with interrupts enabled, and again     *)
(* inside the interrupt handler when td_int fails.  The controller, the    *)
(* keyboard and the interrupt interleave with every step of it.            *)
(***************************************************************************)
EXTENDS Naturals

CONSTANTS
  KBD_ADDR,   \* 1 in the code
  MaxResets   \* bound on how often the keyboard loses its address

\* p1 to p8: whether the request has a data stage, and which sets the address.
\* The last is uhci_init's own.
HasData == <<TRUE, FALSE, TRUE, TRUE, TRUE, FALSE, FALSE, TRUE>>
SetAddress == 2
BootRequests == 7

VARIABLES
  td_ep0, td_int,   \* st: "off", "active", "done" or "error"; addr: the device addressed
  ep0_done, ep0_busy, kbd_busy, kbd_ready, dev_addr,
  usbsts,           \* an interrupt status bit is set
  ipc,              \* uhci_init: "ep0", "armint", "flags", "up" or "failed"
  hpc,              \* uhci_irq_handler: "none", "ep0", "kbd" or "reenum"
  req, phase,       \* the dialog: request and phase
  wpc,              \* uhci_ep0_phase: "start", "arm" or "wait"
  hc_ran,           \* the controller has executed the current phase
  kbd_addr, resets, \* the keyboard's address, and how often it lost it
  pushed            \* a report was passed to kbd_usb_push in this step

tdVars == <<td_ep0, td_int>>
flagVars == <<ep0_done, ep0_busy, kbd_busy, kbd_ready>>
dialogVars == <<req, phase, wpc, dev_addr, hc_ran>>
kbdDevVars == <<kbd_addr, resets>>
uhciVars == <<tdVars, flagVars, usbsts, ipc, hpc, dialogVars, kbdDevVars, pushed>>

InDialog == hpc = "reenum" \/ (hpc = "none" /\ ipc = "ep0")

-----------------------------------------------------------------------------
(* The dialog on endpoint 0.                                               *)

\* uhci_ep0_phase up to uhci_arm: an interrupt that comes before it finds
\* ep0_busy set and the descriptor inactive.
uhci_ep0_phase ==
  /\ InDialog /\ wpc = "start"
  /\ td_ep0' = [st |-> "off", addr |-> dev_addr]
  /\ ep0_done' = FALSE /\ ep0_busy' = TRUE
  /\ wpc' = "arm" /\ hc_ran' = FALSE /\ pushed' = FALSE
  /\ UNCHANGED <<td_int, kbd_busy, kbd_ready, usbsts, ipc, hpc, req, phase, dev_addr, kbdDevVars>>

uhci_arm ==
  /\ InDialog /\ wpc = "arm"
  /\ td_ep0' = [td_ep0 EXCEPT !.st = "active"] /\ wpc' = "wait" /\ pushed' = FALSE
  /\ UNCHANGED <<td_int, flagVars, usbsts, ipc, hpc, req, phase, dev_addr, hc_ran, kbdDevVars>>

\* uhci_boot_setup has returned 0: uhci_init goes on to p8, uhci_reenumerate
\* queues the keyboard's transfer.
DialogDone ==
  IF hpc = "reenum"
  THEN /\ td_int' = [st |-> "active", addr |-> dev_addr']
       /\ kbd_ready' = TRUE /\ kbd_busy' = TRUE
       /\ hpc' = "none" /\ req' = 1 /\ UNCHANGED ipc
  ELSE /\ req' = req + 1
       /\ UNCHANGED <<td_int, kbd_ready, kbd_busy, ipc, hpc>>

\* A request has failed: the whole dialog has, but for p8.
DialogFailed ==
  /\ IF hpc = "reenum" THEN hpc' = "none" /\ UNCHANGED ipc
     ELSE ipc' = (IF req > BootRequests THEN "armint" ELSE "failed") /\ UNCHANGED hpc
  /\ req' = 1
  /\ UNCHANGED <<td_int, kbd_ready, kbd_busy, dev_addr>>

RequestDone ==
  /\ dev_addr' = IF req = SetAddress THEN KBD_ADDR ELSE dev_addr
  /\ \/ req = BootRequests /\ DialogDone
     \/ /\ req > BootRequests
        /\ ipc' = "armint" /\ req' = 1 /\ UNCHANGED <<td_int, kbd_ready, kbd_busy, hpc>>
     \/ /\ req < BootRequests
        /\ req' = req + 1 /\ UNCHANGED <<td_int, kbd_ready, kbd_busy, ipc, hpc>>

\* uhci_ctrl after a phase that succeeded.
PhaseDone ==
  \/ /\ phase = "setup" /\ phase' = (IF HasData[req] THEN "data" ELSE "status")
     /\ UNCHANGED <<td_int, kbd_ready, kbd_busy, ipc, hpc, req, dev_addr>>
  \/ /\ phase = "data" /\ phase' = "status"
     /\ UNCHANGED <<td_int, kbd_ready, kbd_busy, ipc, hpc, req, dev_addr>>
  \/ phase = "status" /\ phase' = "setup" /\ RequestDone

\* The end of uhci_ep0_phase: disarm and report.
PhaseEnds(ok) ==
  /\ wpc' = "start" /\ ep0_busy' = FALSE
  /\ td_ep0' = [td_ep0 EXCEPT !.st = "off"]
  /\ IF ok THEN PhaseDone ELSE phase' = "setup" /\ DialogFailed
  /\ pushed' = FALSE
  /\ UNCHANGED <<ep0_done, usbsts, hc_ran, kbdDevVars>>

\* Fault: the interrupt's flag is taken for the completion.
uhci_waitTrustsHint ==
  /\ InDialog /\ wpc = "wait"
  /\ td_ep0.st # "active" \/ ep0_done
  /\ PhaseEnds(td_ep0.st # "error")

\* The loop ends when Active is clear: well, or with an error bit.
uhci_wait ==
  /\ InDialog /\ wpc = "wait"
  /\ td_ep0.st # "active"
  /\ PhaseEnds(td_ep0.st = "done")

\* It may instead run out, or consume the flag and go on.
uhci_wait_timeout == InDialog /\ wpc = "wait" /\ td_ep0.st = "active" /\ PhaseEnds(FALSE)
uhci_wait_hint ==
  /\ InDialog /\ wpc = "wait" /\ td_ep0.st = "active" /\ ep0_done
  /\ ep0_done' = FALSE /\ pushed' = FALSE
  /\ UNCHANGED <<tdVars, ep0_busy, kbd_busy, kbd_ready, usbsts, ipc, hpc, dialogVars, kbdDevVars>>

-----------------------------------------------------------------------------
(* The end of uhci_init, interrupts enabled: uhci_arm, then the flags.     *)

ArmInt ==
  /\ ipc = "armint" /\ hpc = "none"
  /\ td_int' = [st |-> "active", addr |-> dev_addr]
  /\ ipc' = "flags" /\ pushed' = FALSE
  /\ UNCHANGED <<td_ep0, flagVars, usbsts, hpc, dialogVars, kbdDevVars>>

SetFlags ==
  /\ ipc = "flags" /\ hpc = "none"
  /\ kbd_ready' = TRUE /\ kbd_busy' = TRUE /\ ipc' = "up" /\ pushed' = FALSE
  /\ UNCHANGED <<tdVars, ep0_done, ep0_busy, usbsts, hpc, dialogVars, kbdDevVars>>

-----------------------------------------------------------------------------
(* uhci_irq_handler: clear the status, then look at each descriptor.       *)

uhci_irq_handler ==
  /\ usbsts /\ hpc = "none"
  /\ usbsts' = FALSE /\ hpc' = "ep0" /\ pushed' = FALSE
  /\ UNCHANGED <<tdVars, flagVars, ipc, dialogVars, kbdDevVars>>

IrqEp0 ==
  /\ hpc = "ep0" /\ hpc' = "kbd"
  /\ ep0_done' = (ep0_done \/ (ep0_busy /\ td_ep0.st # "active"))
  /\ pushed' = FALSE
  /\ UNCHANGED <<tdVars, ep0_busy, kbd_busy, kbd_ready, usbsts, ipc, dialogVars, kbdDevVars>>

\* uhci_reenumerate up to uhci_boot_setup.
uhci_reenumerate ==
  /\ hpc' = "reenum" /\ kbd_busy' = FALSE /\ kbd_ready' = FALSE /\ pushed' = FALSE
  /\ td_int' = [td_int EXCEPT !.st = "off"]
  /\ req' = 1 /\ phase' = "setup" /\ wpc' = "start" /\ dev_addr' = 0
  /\ UNCHANGED hc_ran

\* Fault: the descriptor is not queued again after a report.
uhci_process_kbdOnce ==
  /\ hpc = "kbd"
  /\ \/ /\ ~kbd_busy \/ td_int.st = "active"
        /\ hpc' = "none" /\ pushed' = FALSE /\ UNCHANGED <<td_int, kbd_busy, kbd_ready, dialogVars>>
     \/ /\ kbd_busy /\ td_int.st = "error" /\ uhci_reenumerate
     \/ /\ kbd_busy /\ td_int.st \in {"off", "done"}
        /\ pushed' = TRUE /\ hpc' = "none"
        /\ UNCHANGED <<td_int, kbd_busy, kbd_ready, dialogVars>>
  /\ UNCHANGED <<td_ep0, ep0_done, ep0_busy, usbsts, ipc, kbdDevVars>>

uhci_process_kbd ==
  /\ hpc = "kbd"
  /\ \/ /\ ~kbd_busy \/ td_int.st = "active"
        /\ hpc' = "none" /\ pushed' = FALSE /\ UNCHANGED <<td_int, kbd_busy, kbd_ready, dialogVars>>
     \/ /\ kbd_busy /\ td_int.st = "error" /\ uhci_reenumerate
     \/ /\ kbd_busy /\ td_int.st \in {"off", "done"}
        /\ pushed' = TRUE /\ td_int' = [td_int EXCEPT !.st = "active"] /\ hpc' = "none"
        /\ UNCHANGED <<kbd_busy, kbd_ready, dialogVars>>
  /\ UNCHANGED <<td_ep0, ep0_done, ep0_busy, usbsts, ipc, kbdDevVars>>

-----------------------------------------------------------------------------
(* The controller and the keyboard.  A token for an address nobody has     *)
(* comes back with an error; so may any other (a STALL, babble).  NAKs     *)
(* leave the descriptor active.                                            *)

Executes(td, ok) == IF td.addr = kbd_addr /\ ok THEN "done" ELSE "error"

HcRunsEp0 ==
  /\ td_ep0.st = "active"
  /\ \E ok \in BOOLEAN :
       LET st == Executes(td_ep0, ok) IN
       /\ td_ep0' = [td_ep0 EXCEPT !.st = st]
       /\ kbd_addr' = IF st = "done" /\ phase = "status" /\ req = SetAddress
                      THEN KBD_ADDR ELSE kbd_addr
  /\ usbsts' = TRUE /\ hc_ran' = TRUE /\ pushed' = FALSE
  /\ UNCHANGED <<td_int, flagVars, ipc, hpc, req, phase, wpc, dev_addr, resets>>

HcRunsInt ==
  /\ td_int.st = "active"
  /\ \E ok \in BOOLEAN : td_int' = [td_int EXCEPT !.st = Executes(td_int, ok)]
  /\ usbsts' = TRUE /\ pushed' = FALSE
  /\ UNCHANGED <<td_ep0, flagVars, ipc, hpc, dialogVars, kbdDevVars>>

KbdLosesAddress ==
  /\ resets < MaxResets /\ resets' = resets + 1
  /\ kbd_addr' = 0 /\ pushed' = FALSE
  /\ UNCHANGED <<tdVars, flagVars, usbsts, ipc, hpc, dialogVars>>

\* uhci_init has found the controller and a connected port, and registered
\* the handler.
UhciInit ==
  /\ td_ep0 = [st |-> "off", addr |-> 0] /\ td_int = [st |-> "off", addr |-> 0]
  /\ ep0_done = FALSE /\ ep0_busy = FALSE /\ kbd_busy = FALSE /\ kbd_ready = FALSE
  /\ dev_addr = 0 /\ usbsts = FALSE /\ ipc = "ep0" /\ hpc = "none"
  /\ req = 1 /\ phase = "setup" /\ wpc = "start" /\ hc_ran = FALSE
  /\ kbd_addr = 0 /\ resets = 0 /\ pushed = FALSE

UhciCpu ==
  \/ uhci_ep0_phase \/ uhci_arm \/ uhci_wait \/ uhci_wait_timeout \/ uhci_wait_hint
  \/ ArmInt \/ SetFlags \/ uhci_irq_handler \/ IrqEp0 \/ uhci_process_kbd
UhciNext == UhciCpu \/ HcRunsEp0 \/ HcRunsInt \/ KbdLosesAddress
UhciSpec == UhciInit /\ [][UhciNext]_uhciVars

TdStates == [st : {"off", "active", "done", "error"}, addr : {0, KBD_ADDR}]
UhciTypeOK ==
  /\ td_ep0 \in TdStates /\ td_int \in TdStates
  /\ {ep0_done, ep0_busy, kbd_busy, kbd_ready, usbsts, hc_ran, pushed} \subseteq BOOLEAN
  /\ dev_addr \in {0, KBD_ADDR} /\ kbd_addr \in {0, KBD_ADDR} /\ resets \in 0 .. MaxResets
  /\ ipc \in {"ep0", "armint", "flags", "up", "failed"}
  /\ hpc \in {"none", "ep0", "kbd", "reenum"}
  /\ req \in 1 .. BootRequests + 1 /\ phase \in {"setup", "data", "status"}
  /\ wpc \in {"start", "arm", "wait"}

\* A phase is taken for successful only when the controller has executed its
\* own descriptor: the flag an earlier phase's interrupt sets late, after
\* uhci_ep0_phase has cleared it, never ends the wait.
PhaseExecuted == [][wpc = "wait" /\ wpc' = "start" /\ phase' # "setup" => hc_ran]_uhciVars

\* The flags are set after the descriptor is queued: a report that completes
\* in between, and its interrupt, find kbd_busy clear.
ReportedTooEarly == ipc = "flags" /\ td_int.st # "active"
NoReportTooEarly == ~ReportedTooEarly

\* The keyboard is served for ever: once the driver is up, td_int is queued or
\* its completion is about to be handled, unless a re-enumeration has failed
\* (kbd_busy is then clear).
PermanentlyArmed ==
  kbd_busy => td_int.st = "active" \/ usbsts \/ hpc \in {"ep0", "kbd"}

\* A report the controller has delivered reaches the keyboard buffer or, if it
\* is an error, leads to a new dialog, which ends.
ReportHandled == kbd_busy /\ td_int.st \in {"done", "error"} ~> pushed \/ ~kbd_busy
=============================================================================
