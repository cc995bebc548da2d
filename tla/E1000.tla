------------------------------- MODULE E1000 -------------------------------
(***************************************************************************)
(* The 82540EM driver of kernel/src/drivers/net/e1000.c: the descriptor    *)
(* rings it shares with the card.  The card owns the receive descriptors   *)
(* RDH .. RDT-1 and the transmit descriptors TDH .. TDT-1 and runs at its  *)
(* own pace; DD in a descriptor is how it hands one back.  The driver      *)
(* takes no interrupt: e1000_send spins for DD and gives up after a bound, *)
(* e1000_poll looks at one descriptor.                                     *)
(***************************************************************************)
EXTENDS Integers, Sequences, FiniteSets

CONSTANTS
  RX_RING, TX_RING,  \* 32 and 32 in the code
  Frames,            \* the frames of the network
  Probes,            \* those of them a driver without a protocol above it carries
  NoFrame

ASSUME E1000Assumption ==
  RX_RING \in Nat \ {0} /\ TX_RING \in Nat \ {0} /\ Probes \subseteq Frames

Desc(dd, eop, good, f) == [dd |-> dd, eop |-> eop, good |-> good, frame |-> f]
Empty == Desc(FALSE, FALSE, FALSE, NoFrame)

VARIABLES
  nic_up,
  nic_pages,   \* what e1000_alloc_rings holds
  rx_ring, rdh, rdt, rx_next, rx_discard,
  rx_frame,    \* the frame e1000_poll last gave a client of the driver alone
  tx_ring,     \* [dd, frame] per descriptor
  tdh, tx_tail,\* TDT always holds tx_tail
  tx_slot      \* the descriptor e1000_send spins on, or TX_RING

rxVars == <<rx_ring, rdh, rdt, rx_next, rx_discard>>
txVars == <<tx_ring, tdh, tx_tail, tx_slot>>
e1000Vars == <<nic_up, nic_pages, rxVars, rx_frame, txVars>>

Rings == {"rx_ring", "tx_ring", "rx_bufs", "tx_bufs"}
NotSending == tx_slot = TX_RING

e1000_alloc_rings(got) == IF got = Rings THEN got ELSE {}

\* No device, no usable BAR, a reset that does not complete (ok is FALSE) or
\* no memory leave the card down.
e1000_init ==
  /\ ~nic_up
  /\ \E ok \in BOOLEAN, got \in SUBSET Rings :
       /\ nic_pages' = IF ok THEN e1000_alloc_rings(got) ELSE {}
       /\ nic_up' = (ok /\ got = Rings)
  /\ UNCHANGED <<rxVars, rx_frame, txVars>>

\* e1000_setup_rx and e1000_setup_tx.
e1000_setup ==
  /\ rx_ring = [i \in 0 .. RX_RING - 1 |-> Empty]
  /\ rdh = 0 /\ rdt = RX_RING - 1 /\ rx_next = 0 /\ rx_discard = FALSE /\ rx_frame = NoFrame
  /\ tx_ring = [i \in 0 .. TX_RING - 1 |-> [dd |-> TRUE, frame |-> NoFrame]]
  /\ tdh = 0 /\ tx_tail = 0 /\ tx_slot = TX_RING

-----------------------------------------------------------------------------
(* Transmission.                                                           *)

SendRefused == ~nic_up \/ ~tx_ring[tx_tail].dd

\* Fault: the descriptor is reused whether the card is done with it or not.
FillUnchecked(f) ==
  /\ nic_up
  /\ tx_ring' = [tx_ring EXCEPT ![tx_tail] = [dd |-> FALSE, frame |-> f]]
  /\ tx_slot' = tx_tail
  /\ tx_tail' = (tx_tail + 1) % TX_RING
  /\ UNCHANGED tdh

Fill(f) ==
  /\ ~SendRefused
  /\ tx_ring' = [tx_ring EXCEPT ![tx_tail] = [dd |-> FALSE, frame |-> f]]
  /\ tx_slot' = tx_tail
  /\ tx_tail' = (tx_tail + 1) % TX_RING
  /\ UNCHANGED tdh

\* The end of the spin.  DD ends it, well or with a collision; so does the
\* timeout, which leaves the descriptor with the card.
SpinEnds(rc) ==
  /\ ~NotSending
  /\ rc = 0 => tx_ring[tx_slot].dd
  /\ tx_slot' = TX_RING
  /\ UNCHANGED <<tx_ring, tdh, tx_tail>>

\* The buffer is not read again.
CardSends ==
  /\ tdh # tx_tail
  /\ tx_ring' = [tx_ring EXCEPT ![tdh] = [dd |-> TRUE, frame |-> NoFrame]]
  /\ tdh' = (tdh + 1) % TX_RING
  /\ UNCHANGED <<tx_tail, tx_slot>>

e1000_send == NotSending /\ (\E f \in Probes : Fill(f)) /\ UNCHANGED <<nic_up, nic_pages, rxVars, rx_frame>>
e1000_send_returns == (\E rc \in {-1, 0} : SpinEnds(rc)) /\ UNCHANGED <<nic_up, nic_pages, rxVars, rx_frame>>
CardTransmits == CardSends /\ UNCHANGED <<nic_up, nic_pages, rxVars, rx_frame>>

-----------------------------------------------------------------------------
(* Reception.  A frame longer than a buffer takes several descriptors,     *)
(* EOP in the last.                                                        *)

CardReceives(f, good, eop) ==
  /\ nic_up /\ rdh # rdt
  /\ rx_ring' = [rx_ring EXCEPT ![rdh] = Desc(TRUE, eop, good, f)]
  /\ rdh' = (rdh + 1) % RX_RING
  /\ UNCHANGED <<rdt, rx_next, rx_discard>>

Received == rx_ring[rx_next]
\* good: a length of 1 to the buffer's and the caller's size, and no error.
Accepted == ~rx_discard /\ Received.eop /\ Received.good

\* Fault: the tail of a frame that did not fit is taken for a frame.
e1000_pollTail ==
  /\ nic_up /\ Received.dd
  /\ rx_discard' = FALSE
  /\ rx_ring' = [rx_ring EXCEPT ![rx_next] = Empty]
  /\ rx_next' = (rx_next + 1) % RX_RING
  /\ rdt' = rx_next
  /\ UNCHANGED rdh

\* Fault: the descriptor after the consumed one is handed back.
e1000_pollHandsBackNext ==
  /\ nic_up /\ Received.dd
  /\ rx_discard' = ~Received.eop
  /\ rx_ring' = [rx_ring EXCEPT ![rx_next] = Empty]
  /\ rx_next' = (rx_next + 1) % RX_RING
  /\ rdt' = (rx_next + 1) % RX_RING
  /\ UNCHANGED rdh

\* Without DD it returns 0 and changes nothing.
e1000_poll ==
  /\ nic_up /\ Received.dd
  /\ rx_discard' = ~Received.eop
  /\ rx_ring' = [rx_ring EXCEPT ![rx_next] = Empty]
  /\ rx_next' = (rx_next + 1) % RX_RING
  /\ rdt' = rx_next
  /\ UNCHANGED rdh

CardReceivesAny ==
  /\ \E f \in Probes, good, eop \in BOOLEAN : CardReceives(f, good, eop)
  /\ UNCHANGED <<nic_up, nic_pages, rx_frame, txVars>>
PollsFrame ==
  /\ NotSending /\ e1000_poll
  /\ rx_frame' = IF Accepted THEN Received.frame ELSE rx_frame
  /\ UNCHANGED <<nic_up, nic_pages, txVars>>

-----------------------------------------------------------------------------
E1000Init == nic_up = FALSE /\ nic_pages = {} /\ e1000_setup
E1000Next ==
  e1000_init \/ e1000_send \/ e1000_send_returns \/ CardTransmits \/ CardReceivesAny \/ PollsFrame
E1000Spec == E1000Init /\ [][E1000Next]_e1000Vars

E1000TypeOK ==
  /\ nic_up \in BOOLEAN /\ nic_pages \in {{}, Rings}
  /\ rx_ring \in [0 .. RX_RING - 1 ->
       [dd : BOOLEAN, eop : BOOLEAN, good : BOOLEAN, frame : Frames \cup {NoFrame}]]
  /\ {rdh, rdt, rx_next} \subseteq 0 .. RX_RING - 1 /\ rx_discard \in BOOLEAN
  /\ rx_frame \in Frames \cup {NoFrame}
  /\ tx_ring \in [0 .. TX_RING - 1 -> [dd : BOOLEAN, frame : Frames \cup {NoFrame}]]
  /\ {tdh, tx_tail} \subseteq 0 .. TX_RING - 1 /\ tx_slot \in 0 .. TX_RING

\* The descriptors from i up to, not including, j, around a ring of n.
Between(i, j, n) == {(i + k) % n : k \in {k \in 0 .. n - 1 : k < (j + n - i) % n}}

\* The descriptors a transmit timeout leaves behind stay the card's: those
\* without DD are the ones from TDH to TDT, so e1000_send never rewrites a
\* frame the card may still read.  The exception is the ring filled by
\* TX_RING sends that all timed out: TDT has then come round to TDH, the card
\* takes the ring for empty, and every later send is refused.
TxOwnership ==
  LET notDone == {i \in 0 .. TX_RING - 1 : ~tx_ring[i].dd} IN
  \/ notDone = Between(tdh, tx_tail, TX_RING)
  \/ notDone = 0 .. TX_RING - 1 /\ tdh = tx_tail

\* The receive descriptors the card has filled are the ones the driver will
\* look at next, in order, and the tail it gave the card is the one before
\* them: no descriptor is lost to both, none belongs to both.
RxOwnership ==
  /\ {i \in 0 .. RX_RING - 1 : rx_ring[i].dd} = Between(rx_next, rdh, RX_RING)
  /\ rdt = (rx_next + RX_RING - 1) % RX_RING

\* Every descriptor of either ring has one owner, the driver or the card.
RingsOwned == TxOwnership /\ RxOwnership

\* The whole frames in the ring, oldest first.
Filled == (rdh + RX_RING - rx_next) % RX_RING
At(k) == rx_ring[(rx_next + k - 1) % RX_RING]
WholeAt(k) == At(k).eop /\ At(k).good /\ (IF k = 1 THEN ~rx_discard ELSE At(k - 1).eop)
Waiting ==
  LET q[k \in 0 .. Filled] == IF k = 0 THEN <<>>
                              ELSE IF WholeAt(k) THEN Append(q[k - 1], At(k).frame) ELSE q[k - 1]
  IN q[Filled]
Stream == INSTANCE Fifo WITH
  Chars <- Frames, Capacity <- RX_RING - 1, queue <- Waiting, out <- rx_frame, sigint <- FALSE

\* The card puts in and e1000_poll takes out.
FrameStep ==
  \/ rdh' # rdh /\ \E f \in Frames : Stream!Put(f)
  \/ rx_next' # rx_next /\ Stream!Take
=============================================================================
