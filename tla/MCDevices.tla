------------------------------ MODULE MCDevices ------------------------------
(***************************************************************************)
(* The components that run beside a device or a daemon, one at a time:     *)
(* part says which one takes its steps in a behaviour.                     *)
(***************************************************************************)
EXTENDS Kbd, Audio, Uhci, Rudo, Ahci

VARIABLE part

vars == <<part, kbdVars, audioVars, uhciVars, rudoVars, ahciVars>>
Part(name) == part = name /\ part' = name

Init ==
  /\ part \in {"kbd", "audio", "uhci", "rudo", "ahci"}
  /\ KbdInit /\ audio_init /\ UhciInit /\ RudoInit /\ AhciInit
  /\ part # "ahci" => running = [p \in Ports |-> "off"]

KbdStep == Part("kbd") /\ KbdNext /\ UNCHANGED <<audioVars, uhciVars, rudoVars, ahciVars>>
AudioStep == Part("audio") /\ AudioNext /\ UNCHANGED <<kbdVars, uhciVars, rudoVars, ahciVars>>
UhciStep == Part("uhci") /\ UhciNext /\ UNCHANGED <<kbdVars, audioVars, rudoVars, ahciVars>>
RudoStep == Part("rudo") /\ RudoNext /\ UNCHANGED <<kbdVars, audioVars, uhciVars, ahciVars>>
AhciStep == Part("ahci") /\ AhciNext /\ UNCHANGED <<kbdVars, audioVars, uhciVars, rudoVars>>
Next == KbdStep \/ AudioStep \/ UhciStep \/ RudoStep \/ AhciStep

\* The CPU goes on executing and the timer ticks.
Fairness ==
  /\ WF_kbdVars(Part("kbd") /\ ReaderStep) /\ WF_kbdVars(Part("kbd") /\ Tick)
  /\ WF_kbdVars(Part("kbd") /\ ReadCall)
  /\ WF_audioVars(Part("audio") /\ WriterStep) /\ WF_audioVars(Part("audio") /\ AudioTick)
  /\ WF_uhciVars(Part("uhci") /\ UhciCpu)
  /\ WF_rudoVars(Part("rudo") /\ RudoProgress)

Spec == Init /\ [][Next]_vars /\ Fairness

\* States are left out once Ctrl+C came between the steps of kbd_poll, a report
\* came before the driver marked its descriptor queued, or an AHCI command
\* outlived its polling loop: each breaks a property below (README.md).
NoKnownRace == NoFlushInPoll /\ NoReportTooEarly /\ InTime
==============================================================================
