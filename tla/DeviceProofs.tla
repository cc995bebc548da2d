---------------------------- MODULE DeviceProofs ----------------------------
(***************************************************************************)
(* Proofs about the parts that share little state with the rest: rudo,     *)
(* where nobody is told of an approval that was not given to it, whatever  *)
(* the number of tasks; the e1000, where card and driver never touch the   *)
(* same descriptor and the frames pass through the ring as through a       *)
(* queue; the keyboard ring, which is a queue, for rings of any size; the  *)
(* SATA driver, whose reads deliver what was asked for; /dev/net, whose    *)
(* results are true and their owner's; and the USB keyboard's dialog.      *)
(***************************************************************************)
EXTENDS Kbd, Rudo, Net, Ahci, Uhci, SequenceTheorems, LoopProofs

USE Zenon

-----------------------------------------------------------------------------
(* rudo's one shared request.                                              *)

\* A task inside sys_rudo_request has its request still queued, with the
\* result at -1, or is root already: the one shared result cannot turn into an
\* approval between its wake-up and its return unless it was its own.
RudoInv ==
  /\ RudoTypeOK
  /\ ApprovalIsReal
  /\ queue.pending => queue.result = "denied" /\ queue.requester \in Tasks
  /\ \A p \in Tasks : tstate[p] \in {"blocked", "woken"} =>
       uid[p] = 0 \/ (queue.pending /\ queue.requester = p)

-----------------------------------------------------------------------------
\* rudo_queue starts empty and every task outside the kernel.
LEMMA RudoInitInv == RudoInit => RudoInv
  BY SMT DEF RudoInit, RudoInv, RudoTypeOK, ApprovalIsReal, Uids

\* Each call, wake-up and kill keeps the invariant.
LEMMA RudoStepInv == RudoInv /\ [RudoNext]_rudoVars => RudoInv'
  <1> SUFFICES ASSUME RudoInv, [RudoNext]_rudoVars PROVE RudoInv'
    OBVIOUS
  <1> USE DEF RudoInv, RudoTypeOK, ApprovalIsReal, Uids
  <1>1. ASSUME NEW p \in Tasks, sys_rudo_request(p) PROVE RudoInv'
    <2>1. CASE Refused
      BY SMT, <1>1, <2>1 DEF sys_rudo_request, Asks
    <2>2. CASE ~Refused
      <3>1. /\ queue' = [requester |-> p, pending |-> TRUE, result |-> "denied"]
            /\ tstate' = [tstate EXCEPT ![p] = "blocked"]
            /\ ret' = [ret EXCEPT ![p] = "none"]
            /\ daemon' = "ready" /\ uid' = uid /\ ~queue.pending
        BY <1>1, <2>2 DEF sys_rudo_request, Refused
      <3>2. RudoTypeOK' /\ queue'.result = "denied" /\ queue'.requester = p /\ queue'.pending
        BY <3>1
      <3>3. ApprovalIsReal'
        BY SMT, <3>1
      <3>4. ASSUME NEW q \in Tasks, tstate'[q] \in {"blocked", "woken"}
            PROVE  uid'[q] = 0 \/ (queue'.pending /\ queue'.requester = q)
        BY SMT, <3>1, <3>2, <3>4
      <3>5. QED
        BY ZenonT(40), <3>2, <3>3, <3>4
    <2>3. QED
      BY ZenonT(40), <2>1, <2>2
  <1>2. ASSUME NEW p \in Tasks, RequestReturns(p) PROVE RudoInv'
    BY SMT, <1>2 DEF RequestReturns
  <1>3. ASSUME NEW p \in Tasks, sys_setuid(p) PROVE RudoInv'
    BY SMT, <1>3 DEF sys_setuid
  <1>4. ASSUME NEW p \in Tasks, ChildExits(p) PROVE RudoInv'
    BY SMT, <1>4 DEF ChildExits, sched_wake
  <1>5. ASSUME NEW p \in Tasks, Killed(p) PROVE RudoInv'
    BY SMT, <1>5 DEF Killed
  <1>6. CASE sys_rudo_wait
    <2>1. CASE queue.pending
      <3> DEFINE r == queue.requester
      <3>1. /\ queue' = [queue EXCEPT !.pending = FALSE, !.result = "approved"]
            /\ uid' = [uid EXCEPT ![r] = 0] /\ r \in Tasks
            /\ tstate' = [tstate EXCEPT ![r] = IF @ = "blocked" THEN "woken" ELSE @]
            /\ ret' = ret /\ daemon' = daemon
        BY <1>6, <2>1 DEF sys_rudo_wait, sched_wake
      <3>2. RudoTypeOK' /\ ~queue'.pending
        <4>1. queue' = [requester |-> r, pending |-> FALSE, result |-> "approved"]
          BY <3>1
        <4>2. uid' \in [Tasks -> Uids]
          BY SMT, <3>1
        <4>3. tstate' \in [Tasks -> {"user", "blocked", "woken", "dead"}]
          BY <3>1
        <4>4. r \in Tasks /\ ret' = ret /\ daemon' = daemon
          BY <3>1
        <4> HIDE DEF r
        <4>5. QED
          BY ZenonT(40), <4>1, <4>2, <4>3, <4>4
      <3>3. ApprovalIsReal'
        BY SMT, <3>1
      <3>4. ASSUME NEW q \in Tasks, tstate'[q] \in {"blocked", "woken"}
            PROVE  uid'[q] = 0
        BY SMT, <3>1, <3>4
      <3>5. QED
        BY SMT, <3>2, <3>3, <3>4
    <2>2. CASE ~queue.pending
      BY SMT, <1>6, <2>2 DEF sys_rudo_wait
    <2>3. QED
      BY <2>1, <2>2
  <1>7. CASE DaemonKilled
    BY ZenonT(40), <1>7 DEF DaemonKilled
  <1>8. CASE UNCHANGED rudoVars
    BY <1>8 DEF rudoVars
  <1>9. QED
    BY <1>1, <1>2, <1>3, <1>4, <1>5, <1>6, <1>7, <1>8 DEF RudoNext

\* A task told by sys_rudo_request that it was approved is root, for every
\* number of tasks: the shared result, the wake-ups by children and the kills
\* never make an approval out of another task's request.
THEOREM ApprovalsAreReal == RudoSpec => []ApprovalIsReal
  <1>1. RudoInv => ApprovalIsReal
    BY DEF RudoInv
  <1>2. QED
    BY <1>1, RudoInitInv, RudoStepInv, PTL DEF RudoSpec

-----------------------------------------------------------------------------
(* The descriptor rings of the e1000.                                      *)

\* The ring arithmetic without remainders.
Next1(i, n) == IF i + 1 = n THEN 0 ELSE i + 1
Arc(i, j, n) == {x \in 0 .. n - 1 : IF i <= j THEN i <= x /\ x < j ELSE i <= x \/ x < j}

-----------------------------------------------------------------------------
\* Stepping an index around its ring: the % of tx_tail, rx_next, TDH and RDH.
LEMMA StepsOnce ==
  ASSUME NEW n \in Nat \ {0}, NEW i \in 0 .. n - 1
  PROVE  (i + 1) % n = Next1(i, n) /\ (i + 1) % n \in 0 .. n - 1
  BY SMT DEF Next1

\* Stepping back: what RDT is to rx_next.
LEMMA StepsBack ==
  ASSUME NEW n \in Nat \ {0}, NEW i \in 0 .. n - 1
  PROVE  (i + n - 1) % n = IF i = 0 THEN n - 1 ELSE i - 1
  BY SMT

\* The descriptors between two indices are an arc of the ring.
LEMMA BetweenIsArc ==
  ASSUME NEW n \in Nat \ {0}, NEW i \in 0 .. n - 1, NEW j \in 0 .. n - 1
  PROVE  Between(i, j, n) = Arc(i, j, n)
  <1> DEFINE d == IF i <= j THEN j - i ELSE j + n - i
  <1>1. (j + n - i) % n = d
    BY SMT
  <1>2. ASSUME NEW k \in 0 .. n - 1
        PROVE  (i + k) % n = IF i + k < n THEN i + k ELSE i + k - n
    BY SMT
  <1>3. ASSUME NEW x \in Between(i, j, n) PROVE x \in Arc(i, j, n)
    <2>1. PICK k \in 0 .. n - 1 : k < d /\ x = (i + k) % n
      BY <1>1, <1>3 DEF Between
    <2>2. QED
      BY SMT, <1>2, <2>1 DEF Arc
  <1>4. ASSUME NEW x \in Arc(i, j, n) PROVE x \in Between(i, j, n)
    <2> DEFINE k == IF i <= x THEN x - i ELSE x + n - i
    <2>1. k \in 0 .. n - 1 /\ k < d /\ x = IF i + k < n THEN i + k ELSE i + k - n
      BY SMT, <1>4 DEF Arc
    <2>2. k \in {m \in 0 .. n - 1 : m < (j + n - i) % n} /\ x = (i + k) % n
      BY <1>1, <1>2, <2>1
    <2>3. QED
      BY <2>2 DEF Between
  <1>5. QED
    BY <1>3, <1>4

\* Taking the first descriptor off an arc, and adding the one behind it.
LEMMA ArcSteps ==
  ASSUME NEW n \in Nat \ {0}, NEW i \in 0 .. n - 1, NEW j \in 0 .. n - 1
  PROVE  /\ i # j => Arc(Next1(i, n), j, n) = Arc(i, j, n) \ {i}
         /\ Next1(j, n) # i => Arc(i, Next1(j, n), n) = Arc(i, j, n) \cup {j}
         /\ Arc(i, i, n) = {}
  BY SMT DEF Arc, Next1

\* Adding the descriptor behind an arc makes it the whole ring when the next
\* one is where the arc began.
LEMMA ArcCloses ==
  ASSUME NEW n \in Nat \ {0}, NEW i \in 0 .. n - 1, NEW j \in 0 .. n - 1, Next1(j, n) = i
  PROVE  Arc(i, j, n) \cup {j} = 0 .. n - 1
  BY SMT DEF Arc, Next1

\* The type invariant in three parts: one per ring, whose descriptors carry
\* frames of F, and the rest.
TxTyped(F) ==
  /\ tx_ring \in [0 .. TX_RING - 1 -> [dd : BOOLEAN, frame : F \cup {NoFrame}]]
  /\ tdh \in 0 .. TX_RING - 1 /\ tx_tail \in 0 .. TX_RING - 1 /\ tx_slot \in 0 .. TX_RING
RxTyped(F) ==
  /\ rx_ring \in [0 .. RX_RING - 1 ->
       [dd : BOOLEAN, eop : BOOLEAN, good : BOOLEAN, frame : F \cup {NoFrame}]]
  /\ rdh \in 0 .. RX_RING - 1 /\ rdt \in 0 .. RX_RING - 1 /\ rx_next \in 0 .. RX_RING - 1
  /\ rx_discard \in BOOLEAN
NicTyped == nic_up \in BOOLEAN /\ nic_pages \in {{}, Rings} /\ rx_frame \in Frames \cup {NoFrame}

\* Each ring's ownership is inductive with its types.
E1000Inv == NicTyped /\ TxTyped(Frames) /\ RxTyped(Frames) /\ TxOwnership /\ RxOwnership

-----------------------------------------------------------------------------
\* e1000_send takes the descriptor at the tail only when the card has handed it
\* back, and adds it to the card's.
LEMMA FillOwnership ==
  ASSUME NEW CONSTANT F, NEW f \in F, TxTyped(F), TxOwnership, Fill(f)
  PROVE  TxTyped(F)' /\ TxOwnership'
  <1> DEFINE n == TX_RING
             notDone == {i \in 0 .. n - 1 : ~tx_ring[i].dd}
  <1>1. n \in Nat \ {0}
    BY E1000Assumption
  <1>2. /\ tx_ring[tx_tail].dd /\ tdh' = tdh
        /\ tx_ring' = [tx_ring EXCEPT ![tx_tail] = [dd |-> FALSE, frame |-> f]]
        /\ tx_slot' = tx_tail /\ tx_tail' = Next1(tx_tail, n) /\ tx_tail' \in 0 .. n - 1
    BY <1>1, StepsOnce DEF Fill, SendRefused, TxTyped
  <1>3. notDone' = notDone \cup {tx_tail}
    BY <1>2 DEF TxTyped
  <1>4. notDone = Arc(tdh, tx_tail, n)
    BY <1>1, <1>2, BetweenIsArc DEF TxOwnership, TxTyped
  <1>5. TxTyped(F)'
    BY SMT, <1>1, <1>2 DEF TxTyped
  <1>6. CASE tx_tail' = tdh
    <2>1. Arc(tdh, tx_tail, n) \cup {tx_tail} = 0 .. n - 1
      BY <1>1, <1>2, <1>6, ArcCloses DEF TxTyped
    <2>2. QED
      BY <1>2, <1>3, <1>4, <1>5, <1>6, <2>1 DEF TxOwnership
  <1>7. CASE tx_tail' # tdh
    <2>1. notDone' = Arc(tdh', tx_tail', n)
      BY <1>1, <1>2, <1>3, <1>4, <1>7, ArcSteps DEF TxTyped
    <2>2. notDone' = Between(tdh', tx_tail', n)
      BY <1>1, <1>2, <2>1, BetweenIsArc DEF TxTyped
    <2>3. QED
      BY <1>5, <2>2 DEF TxOwnership
  <1>8. QED
    BY <1>6, <1>7

\* The card hands back the descriptor at TDH.
LEMMA CardSendsOwnership ==
  ASSUME NEW CONSTANT F, TxTyped(F), TxOwnership, CardSends
  PROVE  TxTyped(F)' /\ TxOwnership'
  <1> DEFINE n == TX_RING
             notDone == {i \in 0 .. n - 1 : ~tx_ring[i].dd}
  <1>1. n \in Nat \ {0}
    BY E1000Assumption
  <1>2. /\ tdh # tx_tail /\ tx_tail' = tx_tail /\ tx_slot' = tx_slot
        /\ tx_ring' = [tx_ring EXCEPT ![tdh] = [dd |-> TRUE, frame |-> NoFrame]]
        /\ tdh' = Next1(tdh, n) /\ tdh' \in 0 .. n - 1
    BY <1>1, StepsOnce DEF CardSends, TxTyped
  <1>3. notDone' = notDone \ {tdh}
    BY <1>2 DEF TxTyped
  <1>4. notDone = Arc(tdh, tx_tail, n)
    BY <1>1, <1>2, BetweenIsArc DEF TxOwnership, TxTyped
  <1>5. Arc(tdh', tx_tail, n) = Arc(tdh, tx_tail, n) \ {tdh}
    BY <1>1, <1>2, ArcSteps DEF TxTyped
  <1>6. Between(tdh', tx_tail', n) = Arc(tdh', tx_tail, n)
    BY <1>1, <1>2, BetweenIsArc DEF TxTyped
  <1>7. TxTyped(F)'
    BY <1>1, <1>2 DEF TxTyped
  <1>8. QED
    BY <1>3, <1>4, <1>5, <1>6, <1>7 DEF TxOwnership

\* The card fills a descriptor of its own, which is not the one at the tail.
LEMMA CardReceivesOwnership ==
  ASSUME NEW CONSTANT F, NEW f \in F, NEW good \in BOOLEAN, NEW eop \in BOOLEAN,
         RxTyped(F), RxOwnership, CardReceives(f, good, eop)
  PROVE  RxTyped(F)' /\ RxOwnership'
  <1> DEFINE n == RX_RING
             filled == {i \in 0 .. n - 1 : rx_ring[i].dd}
  <1>1. n \in Nat \ {0}
    BY E1000Assumption
  <1>2. /\ rdh # rdt /\ rdt' = rdt /\ rx_next' = rx_next /\ rx_discard' = rx_discard
        /\ rx_ring' = [rx_ring EXCEPT ![rdh] = Desc(TRUE, eop, good, f)]
        /\ rdh' = Next1(rdh, n) /\ rdh' \in 0 .. n - 1
    BY <1>1, StepsOnce DEF CardReceives, RxTyped
  <1>3. filled' = filled \cup {rdh}
    BY <1>2 DEF RxTyped, Desc
  <1>4. filled = Arc(rx_next, rdh, n)
    BY <1>1, BetweenIsArc DEF RxOwnership, RxTyped
  <1>5. Next1(rdh, n) # rx_next
    <2>1. rdt = IF rx_next = 0 THEN n - 1 ELSE rx_next - 1
      BY <1>1, StepsBack DEF RxOwnership, RxTyped
    <2>2. QED
      BY SMT, <1>1, <1>2, <2>1 DEF RxTyped, Next1
  <1>6. Arc(rx_next, rdh', n) = Arc(rx_next, rdh, n) \cup {rdh}
    BY <1>1, <1>2, <1>5, ArcSteps DEF RxTyped
  <1>7. Between(rx_next', rdh', n) = Arc(rx_next, rdh', n)
    BY <1>1, <1>2, BetweenIsArc DEF RxTyped
  <1>8. RxTyped(F)'
    BY <1>1, <1>2 DEF RxTyped, Desc
  <1>9. QED
    BY <1>2, <1>3, <1>4, <1>6, <1>7, <1>8 DEF RxOwnership

\* e1000_poll empties the oldest filled descriptor and makes it the tail.
LEMMA PollOwnership ==
  ASSUME NEW CONSTANT F, RxTyped(F), RxOwnership, e1000_poll
  PROVE  RxTyped(F)' /\ RxOwnership'
  <1> DEFINE n == RX_RING
             filled == {i \in 0 .. n - 1 : rx_ring[i].dd}
  <1>1. n \in Nat \ {0}
    BY E1000Assumption
  <1>2. /\ rx_ring[rx_next].dd /\ rdt' = rx_next /\ rdh' = rdh
        /\ rx_discard' = ~rx_ring[rx_next].eop
        /\ rx_ring' = [rx_ring EXCEPT ![rx_next] = Empty]
        /\ rx_next' = Next1(rx_next, n) /\ rx_next' \in 0 .. n - 1
    BY <1>1, StepsOnce DEF e1000_poll, Received, RxTyped
  <1>3. filled' = filled \ {rx_next}
    BY <1>2 DEF RxTyped, Empty, Desc
  <1>4. filled = Arc(rx_next, rdh, n)
    BY <1>1, BetweenIsArc DEF RxOwnership, RxTyped
  <1>5. rx_next # rdh
    BY <1>1, <1>2, <1>4, ArcSteps DEF RxTyped
  <1>6. Arc(rx_next', rdh, n) = Arc(rx_next, rdh, n) \ {rx_next}
    BY ZenonT(40), <1>1, <1>2, <1>5, ArcSteps DEF RxTyped
  <1>7. Between(rx_next', rdh', n) = Arc(rx_next', rdh, n)
    BY <1>1, <1>2, BetweenIsArc DEF RxTyped
  <1>8. rdt' = (rx_next' + n - 1) % n
    <2>1. (rx_next' + n - 1) % n = IF rx_next' = 0 THEN n - 1 ELSE rx_next' - 1
      BY <1>1, <1>2, StepsBack
    <2>2. QED
      BY SMT, <1>1, <1>2, <2>1 DEF RxTyped, Next1
  <1>9. RxTyped(F)'
    BY <1>1, <1>2 DEF RxTyped, Empty, Desc
  <1>10. QED
    BY <1>2, <1>3, <1>4, <1>6, <1>7, <1>8, <1>9 DEF RxOwnership

-----------------------------------------------------------------------------
\* e1000_setup_rx and e1000_setup_tx: the driver owns the whole transmit ring,
\* the card the receive ring but for the descriptor at the tail.
LEMMA SetupOwnership ==
  ASSUME e1000_setup
  PROVE  TxOwnership /\ RxOwnership
  <1>1. /\ RX_RING \in Nat \ {0} /\ 0 \in 0 .. RX_RING - 1 /\ RX_RING - 1 \in 0 .. RX_RING - 1
        /\ TX_RING \in Nat \ {0} /\ 0 \in 0 .. TX_RING - 1
    BY SMT, E1000Assumption
  <1>2. Between(0, 0, TX_RING) = {} /\ Between(0, 0, RX_RING) = {}
    BY SMT, <1>1, BetweenIsArc, ArcSteps
  <1>3. TxOwnership
    BY <1>2 DEF e1000_setup, TxOwnership
  <1>4. rdt = (rx_next + RX_RING - 1) % RX_RING
    BY <1>1, StepsBack DEF e1000_setup
  <1>5. RxOwnership
    BY <1>2, <1>4 DEF e1000_setup, RxOwnership, Empty, Desc
  <1>6. QED
    BY <1>3, <1>5

\* The driver before e1000_init.
LEMMA E1000InitInv == E1000Init => E1000Inv
  <1> SUFFICES ASSUME E1000Init PROVE E1000Inv
    OBVIOUS
  <1>1. /\ RX_RING \in Nat \ {0} /\ 0 \in 0 .. RX_RING - 1 /\ RX_RING - 1 \in 0 .. RX_RING - 1
        /\ TX_RING \in Nat \ {0} /\ 0 \in 0 .. TX_RING - 1
    BY SMT, E1000Assumption
  <1>2. NicTyped /\ TxTyped(Frames) /\ RxTyped(Frames)
    <2>1. NicTyped
      BY DEF E1000Init, e1000_setup, NicTyped
    <2>2. TxTyped(Frames)
      BY SMT, <1>1 DEF E1000Init, e1000_setup, TxTyped
    <2>3. RxTyped(Frames)
      BY <1>1 DEF E1000Init, e1000_setup, RxTyped, Empty, Desc
    <2>4. QED
      BY <2>1, <2>2, <2>3
  <1>3. TxOwnership /\ RxOwnership
    BY SetupOwnership DEF E1000Init
  <1>4. QED
    BY <1>2, <1>3 DEF E1000Inv

\* A step that leaves a ring alone keeps what is said of it.
LEMMA RingsUntouched ==
  ASSUME NEW CONSTANT F
  PROVE  /\ TxTyped(F) /\ TxOwnership /\ UNCHANGED txVars => TxTyped(F)' /\ TxOwnership'
         /\ RxTyped(F) /\ RxOwnership /\ UNCHANGED rxVars => RxTyped(F)' /\ RxOwnership'
  BY DEF TxTyped, TxOwnership, RxTyped, RxOwnership, txVars, rxVars

\* Every operation of the driver and every step of the card keeps the invariant.
LEMMA E1000StepInv == E1000Inv /\ [E1000Next]_e1000Vars => E1000Inv'
  <1> SUFFICES ASSUME E1000Inv, [E1000Next]_e1000Vars PROVE E1000Inv'
    OBVIOUS
  <1> USE DEF E1000Inv
  <1>1. CASE e1000_init
    <2>1. NicTyped'
      BY <1>1 DEF e1000_init, e1000_alloc_rings, NicTyped
    <2>2. QED
      BY <1>1, <2>1, RingsUntouched DEF e1000_init
  <1>2. CASE e1000_send
    <2>1. PICK f \in Probes : Fill(f)
      BY <1>2 DEF e1000_send
    <2>2. TxTyped(Frames)' /\ TxOwnership'
      BY <2>1, FillOwnership, E1000Assumption
    <2>3. QED
      BY <1>2, <2>2, RingsUntouched DEF e1000_send, NicTyped
  <1>3. CASE e1000_send_returns
    <2>1. TxTyped(Frames)' /\ TxOwnership'
      BY SMT, <1>3, E1000Assumption DEF e1000_send_returns, SpinEnds, TxTyped, TxOwnership
    <2>2. QED
      BY <1>3, <2>1, RingsUntouched DEF e1000_send_returns, NicTyped
  <1>4. CASE CardTransmits
    BY <1>4, CardSendsOwnership, RingsUntouched DEF CardTransmits, NicTyped
  <1>5. CASE CardReceivesAny
    <2>1. PICK f \in Probes, good \in BOOLEAN, eop \in BOOLEAN : CardReceives(f, good, eop)
      BY <1>5 DEF CardReceivesAny
    <2>2. RxTyped(Frames)' /\ RxOwnership'
      BY <2>1, CardReceivesOwnership, E1000Assumption
    <2>3. QED
      BY <1>5, <2>2, RingsUntouched DEF CardReceivesAny, NicTyped
  <1>6. CASE PollsFrame
    <2>1. rx_frame' \in Frames \cup {NoFrame}
      BY <1>6 DEF PollsFrame, Received, NicTyped, RxTyped
    <2>2. QED
      BY <1>6, <2>1, PollOwnership, RingsUntouched DEF PollsFrame, NicTyped
  <1>7. CASE UNCHANGED e1000Vars
    BY <1>7, RingsUntouched DEF e1000Vars, NicTyped
  <1>8. QED
    BY <1>1, <1>2, <1>3, <1>4, <1>5, <1>6, <1>7 DEF E1000Next

\* For every ring size: the transmit descriptors without DD are those from TDH
\* to TDT, so that e1000_send never rewrites a frame the card may still read,
\* whatever sends have timed out; and the filled receive descriptors are those
\* e1000_poll looks at next, the tail it writes never handing back a filled one.
THEOREM DescriptorOwnership == E1000Spec => []RingsOwned
  <1>1. E1000Inv => RingsOwned
    BY DEF E1000Inv, RingsOwned
  <1>2. QED
    BY <1>1, E1000InitInv, E1000StepInv, PTL DEF E1000Spec

-----------------------------------------------------------------------------
(* The keyboard ring.                                                      *)

\* An index n or more past the start of the ring wraps; the number of elements
\* from t up to h; and those elements in order.
Wrap(x, n) == IF x < n THEN x ELSE x - n
Count(h, t, n) == IF t <= h THEN h - t ELSE h + n - t
Contents(buf, t, k, n) == [i \in 1 .. k |-> buf[Wrap((t + i) - 1, n)]]
Lists(q, buf, t, k, n) == Len(q) = k /\ \A i \in 1 .. k : q[i] = buf[Wrap((t + i) - 1, n)]

\* In a ring of n of S from t up to h that is not full, c is stored at h and h
\* moves to g.
Pushes(S, n, buf, h, t, c, pushes, g) ==
  /\ n \in Nat \ {0} /\ buf \in [0 .. n - 1 -> S] /\ h \in 0 .. n - 1 /\ t \in 0 .. n - 1 /\ c \in S
  /\ g = Wrap(h + 1, n) /\ g # t /\ pushes = [buf EXCEPT ![h] = c]

\* The remainders of buf_push, kbd_poll and Unread, for indices in the ring.
LEMMA Remainders ==
  ASSUME NEW n \in Nat \ {0}, NEW h \in 0 .. n - 1, NEW t \in 0 .. n - 1
  PROVE  /\ (h + 1) % n = Wrap(h + 1, n) /\ Wrap(h + 1, n) \in 0 .. n - 1
         /\ (h + n - t) % n = Count(h, t, n) /\ Count(h, t, n) \in 0 .. n - 1
         /\ \A i \in 1 .. n : ((t + i) - 1) % n = Wrap((t + i) - 1, n) /\ Wrap((t + i) - 1, n) \in 0 .. n - 1
  <1>1. (h + 1) % n = Wrap(h + 1, n) /\ Wrap(h + 1, n) \in 0 .. n - 1
    BY SMT DEF Wrap
  <1>2. (h + n - t) % n = Count(h, t, n) /\ Count(h, t, n) \in 0 .. n - 1
    BY SMT DEF Count
  <1>3. ASSUME NEW i \in 1 .. n
        PROVE  ((t + i) - 1) % n = Wrap((t + i) - 1, n) /\ Wrap((t + i) - 1, n) \in 0 .. n - 1
    BY SMT DEF Wrap
  <1>4. QED
    BY <1>1, <1>2, <1>3

\* The contents of a ring are a sequence.
LEMMA ContentsSeq ==
  ASSUME NEW S, NEW n \in Nat \ {0}, NEW buf \in [0 .. n - 1 -> S], NEW t \in 0 .. n - 1,
         NEW k \in 0 .. n - 1, NEW q, q = Contents(buf, t, k, n)
  PROVE  q \in Seq(S) /\ Lists(q, buf, t, k, n)
  <1>1. \A i \in 1 .. k : buf[Wrap((t + i) - 1, n)] \in S
    BY SMT DEF Wrap
  <1>2. k \in Nat
    BY SMT
  <1>3. q \in Seq(S)
    BY SMT, <1>1, <1>2, IsASeq DEF Contents
  <1>4. Len(q) = k /\ \A i \in 1 .. k : q[i] = buf[Wrap((t + i) - 1, n)]
    BY SMT, <1>2, <1>3, LenProperties DEF Contents
  <1>5. QED
    BY <1>3, <1>4 DEF Lists

\* A push behind the last element appends it.
LEMMA PushAppends ==
  ASSUME NEW S, NEW n, NEW buf, NEW h, NEW t, NEW c, NEW g, NEW pushes,
         Pushes(S, n, buf, h, t, c, pushes, g)
  PROVE  /\ Count(h, t, n) < n - 1
         /\ Contents(pushes, t, Count(g, t, n), n) = Append(Contents(buf, t, Count(h, t, n), n), c)
  <1>0. /\ n \in Nat \ {0} /\ buf \in [0 .. n - 1 -> S] /\ h \in 0 .. n - 1 /\ t \in 0 .. n - 1
        /\ c \in S /\ g = Wrap(h + 1, n) /\ g # t /\ pushes = [buf EXCEPT ![h] = c]
    BY DEF Pushes
  <1> DEFINE k == Count(h, t, n)
             before == Contents(buf, t, k, n)
             after == Contents(pushes, t, k + 1, n)
  <1>1. k \in 0 .. n - 1 /\ k + 1 \in 0 .. n - 1 /\ Count(g, t, n) = k + 1
    BY <1>0, SMT DEF Count, Wrap
  <1>2. Wrap((t + k), n) = h /\ \A i \in 1 .. k : Wrap((t + i) - 1, n) \in (0 .. n - 1) \ {h}
    BY <1>0, SMT DEF Count, Wrap
  <1>3. pushes \in [0 .. n - 1 -> S] /\ pushes[h] = c /\ \A i \in (0 .. n - 1) \ {h} : pushes[i] = buf[i]
    BY <1>0
  <1> HIDE DEF k
  <1>a. before = Contents(buf, t, k, n) /\ after = Contents(pushes, t, k + 1, n)
    OBVIOUS
  <1> HIDE DEF before, after
  <1>b. before \in Seq(S) /\ Lists(before, buf, t, k, n)
    BY <1>0, <1>1, <1>a, ContentsSeq
  <1>c. after \in Seq(S) /\ Lists(after, pushes, t, k + 1, n)
    BY ZenonT(40), <1>0, <1>1, <1>3, <1>a, ContentsSeq
  <1>4. /\ before \in Seq(S) /\ Len(before) = k
        /\ \A i \in 1 .. k : before[i] = buf[Wrap((t + i) - 1, n)]
    BY <1>b DEF Lists
  <1>5. /\ after \in Seq(S) /\ Len(after) = k + 1
        /\ \A i \in 1 .. k + 1 : after[i] = pushes[Wrap((t + i) - 1, n)]
    BY <1>c DEF Lists
  <1>6. /\ Append(before, c) \in Seq(S) /\ Len(Append(before, c)) = k + 1
        /\ \A i \in 1 .. k : Append(before, c)[i] = before[i]
        /\ Append(before, c)[k + 1] = c
    BY SMT, <1>0, <1>4, AppendProperties
  <1>7. ASSUME NEW i \in 1 .. k + 1 PROVE after[i] = Append(before, c)[i]
    <2>1. CASE i \in 1 .. k
      BY ZenonT(40), <1>2, <1>3, <1>4, <1>5, <1>6, <2>1
    <2>2. CASE i \notin 1 .. k
      <3>1. i = k + 1 /\ (t + i) - 1 = t + k
        BY SMTT(20), <1>0, <1>1, <2>2
      <3>2. QED
        BY <1>2, <1>3, <1>5, <1>6, <3>1
    <2>3. QED
      BY <2>1, <2>2
  <1>8. after = Append(before, c)
    BY <1>5, <1>6, <1>7, SeqEqual
  <1>9. k < n - 1
    BY SMT, <1>0, <1>1
  <1>10. Contents(pushes, t, Count(g, t, n), n) = Append(Contents(buf, t, k, n), c)
    BY <1>1, <1>8, <1>a
  <1>11. QED
    BY <1>9, <1>10 DEF k

\* In a ring of n of S from t up to h that is not empty, t moves to u.
Pops(S, n, buf, h, t, u) ==
  /\ n \in Nat \ {0} /\ buf \in [0 .. n - 1 -> S] /\ h \in 0 .. n - 1 /\ t \in 0 .. n - 1
  /\ h # t /\ u = Wrap(t + 1, n)

\* Moving the tail takes the first element off.
LEMMA PopTakes ==
  ASSUME NEW S, NEW n, NEW buf, NEW h, NEW t, NEW u, Pops(S, n, buf, h, t, u)
  PROVE  /\ Contents(buf, t, Count(h, t, n), n) # << >>
         /\ Head(Contents(buf, t, Count(h, t, n), n)) = buf[t]
         /\ Contents(buf, u, Count(h, u, n), n) = Tail(Contents(buf, t, Count(h, t, n), n))
  <1>0. /\ n \in Nat \ {0} /\ buf \in [0 .. n - 1 -> S] /\ h \in 0 .. n - 1 /\ t \in 0 .. n - 1
        /\ h # t /\ u = Wrap(t + 1, n)
    BY DEF Pops
  <1> DEFINE k == Count(h, t, n)
             before == Contents(buf, t, k, n)
             after == Contents(buf, u, k - 1, n)
  <1>1. /\ k \in 1 .. n - 1 /\ k \in 0 .. n - 1 /\ k - 1 \in 0 .. n - 1 /\ u \in 0 .. n - 1
        /\ Count(h, u, n) = k - 1 /\ Wrap((t + 1) - 1, n) = t
    BY <1>0, SMT DEF Count, Wrap
  <1>2. \A i \in 1 .. k - 1 : i + 1 \in 1 .. k /\ Wrap((u + i) - 1, n) = Wrap((t + (i + 1)) - 1, n)
    BY <1>0, <1>1, SMT DEF Wrap
  <1> HIDE DEF k
  <1>a. before = Contents(buf, t, k, n) /\ after = Contents(buf, u, k - 1, n)
    OBVIOUS
  <1> HIDE DEF before, after
  <1>b. before \in Seq(S) /\ Lists(before, buf, t, k, n)
    BY <1>0, <1>1, <1>a, ContentsSeq
  <1>c. after \in Seq(S) /\ Lists(after, buf, u, k - 1, n)
    BY <1>0, <1>1, <1>a, ContentsSeq
  <1>3. /\ before \in Seq(S) /\ Len(before) = k
        /\ \A i \in 1 .. k : before[i] = buf[Wrap((t + i) - 1, n)]
    BY <1>b DEF Lists
  <1>4. /\ after \in Seq(S) /\ Len(after) = k - 1
        /\ \A i \in 1 .. k - 1 : after[i] = buf[Wrap((u + i) - 1, n)]
    BY <1>c DEF Lists
  <1>5. before # << >>
    BY SMT, <1>1, <1>3, EmptySeq
  <1>6. Head(before) = buf[t]
    <2>1. Head(before) = before[1] /\ 1 \in 1 .. k
      BY SMT, <1>1, <1>3, <1>5
    <2>2. QED
      BY <1>1, <1>3, <2>1
  <1>7. /\ Tail(before) \in Seq(S) /\ Len(Tail(before)) = k - 1
        /\ \A i \in 1 .. k - 1 : Tail(before)[i] = before[i + 1]
    BY <1>3, <1>5, HeadTailProperties
  <1>8. \A i \in 1 .. k - 1 : after[i] = Tail(before)[i]
    BY <1>2, <1>3, <1>4, <1>7
  <1>9. after = Tail(before)
    BY <1>4, <1>7, <1>8, SeqEqual
  <1>10. QED
    BY <1>1, <1>5, <1>6, <1>9 DEF after, before, k

-----------------------------------------------------------------------------
\* The ring and its indices are typed, and the character kbd_poll has loaded is
\* the one at kb_tail: what is pushed meanwhile goes elsewhere, as long as no
\* flush has made the two indices meet.
KbdInv ==
  /\ kb_buf \in [Index -> Chars \cup {Nul}] /\ kb_head \in Index /\ kb_tail \in Index
  /\ rpc = "store" => rchar = kb_buf[kb_tail]

\* What is unread in a ring, as kbd.c computes it.
UnreadOf(buf, h, t) ==
  [i \in 1 .. (h + KB_BUFFER_SIZE - t) % KB_BUFFER_SIZE |-> buf[((t + i) - 1) % KB_BUFFER_SIZE]]

\* Unread, before and after a step.
LEMMA UnreadIs ==
  Unread = UnreadOf(kb_buf, kb_head, kb_tail) /\ Unread' = UnreadOf(kb_buf', kb_head', kb_tail')
  BY DEF Unread, UnreadOf, Pending

\* Unread, without remainders.
LEMMA UnreadContents ==
  ASSUME NEW buf, NEW h \in Index, NEW t \in Index
  PROVE  /\ Succ(h) = Wrap(h + 1, KB_BUFFER_SIZE) /\ Succ(h) \in Index
         /\ UnreadOf(buf, h, t) = Contents(buf, t, Count(h, t, KB_BUFFER_SIZE), KB_BUFFER_SIZE)
  <1> DEFINE n == KB_BUFFER_SIZE
             k == (h + n - t) % n
  <1>1. n \in Nat \ {0} /\ Index = 0 .. n - 1
    BY KbdAssumption DEF KbdAssumption, Index
  <1>2. Succ(h) = (h + 1) % n
    BY DEF Succ
  <1>3. UnreadOf(buf, h, t) = [i \in 1 .. k |-> buf[((t + i) - 1) % n]]
    BY DEF UnreadOf
  <1> HIDE DEF n
  <1>4. Succ(h) = Wrap(h + 1, n) /\ Succ(h) \in Index
    BY <1>1, <1>2, Remainders
  <1>5. k = Count(h, t, n) /\ k \in 0 .. n - 1
    BY <1>1, Remainders
  <1> HIDE DEF k
  <1>6. \A i \in 1 .. k : ((t + i) - 1) % n = Wrap((t + i) - 1, n)
    <2>1. \A i \in 1 .. n : ((t + i) - 1) % n = Wrap((t + i) - 1, n)
      BY <1>1, Remainders
    <2>2. \A i \in 1 .. k : i \in 1 .. n
      BY SMT, <1>1, <1>5
    <2>3. QED
      BY <2>1, <2>2
  <1>7. UnreadOf(buf, h, t) = Contents(buf, t, k, n)
    BY <1>3, <1>6 DEF Contents
  <1>8. QED
    BY <1>4, <1>5, <1>7 DEF n

\* The ring starts empty.
LEMMA KbdInitInv == KbdInit => KbdInv /\ Unread = << >> /\ kbd_sig = FALSE
  <1> SUFFICES ASSUME KbdInit PROVE KbdInv /\ Unread = << >>
    BY DEF KbdInit
  <1>2. KbdInv
    <2>1. 0 \in Index
      BY SMT, KbdAssumption DEF Index, KbdAssumption
    <2>2. QED
      BY <2>1 DEF KbdInit, KbdInv
  <1>3. Pending = 0
    <2> DEFINE n == KB_BUFFER_SIZE
    <2>1. n \in Nat \ {0} /\ 0 \in 0 .. n - 1
      BY SMT, KbdAssumption DEF KbdAssumption
    <2>2. Pending = (0 + n - 0) % n
      BY DEF KbdInit, Pending
    <2> HIDE DEF n
    <2>3. (0 + n - 0) % n = Count(0, 0, n)
      BY <2>1, Remainders
    <2>4. QED
      BY SMT, <2>2, <2>3 DEF Count
  <1>4. QED
    BY SMT, <1>2, <1>3 DEF Unread

\* buf_push puts the character behind the others or, when the ring is full,
\* drops it.
LEMMA PushPuts ==
  ASSUME KbdInv, NEW c \in Chars, buf_push(c), taken' = taken, kbd_sig' = kbd_sig
  PROVE  /\ kb_buf' \in [Index -> Chars \cup {Nul}] /\ kb_head' \in Index /\ kb_tail' = kb_tail
         /\ kb_head # kb_tail => kb_buf'[kb_tail] = kb_buf[kb_tail]
         /\ Promise!Put(c) \/ UNCHANGED <<Unread, taken, kbd_sig>>
  <1> DEFINE n == KB_BUFFER_SIZE
             S == Chars \cup {Nul}
             old == Contents(kb_buf, kb_tail, Count(kb_head, kb_tail, n), n)
  <1>1. /\ n \in Nat \ {0} /\ Index = 0 .. n - 1 /\ kb_buf \in [0 .. n - 1 -> S] /\ c \in S
        /\ kb_head \in 0 .. n - 1 /\ kb_tail \in 0 .. n - 1
    BY KbdAssumption DEF KbdAssumption, Index, KbdInv
  <1>2. CASE Succ(kb_head) = kb_tail
    <2>1. kb_buf' = kb_buf /\ kb_head' = kb_head /\ kb_tail' = kb_tail
      BY <1>2 DEF buf_push, ringVars
    <2>2. Unread' = Unread
      BY <2>1, UnreadIs
    <2>3. QED
      BY <2>1, <2>2 DEF KbdInv
  <1>3. CASE Succ(kb_head) # kb_tail
    <2>1. /\ kb_buf' = [kb_buf EXCEPT ![kb_head] = c] /\ kb_head' = Succ(kb_head)
          /\ kb_tail' = kb_tail
      BY <1>3 DEF buf_push
    <2>2. /\ Succ(kb_head) = Wrap(kb_head + 1, n) /\ Succ(kb_head) \in Index
          /\ UnreadOf(kb_buf, kb_head, kb_tail) = old
      BY <1>1, UnreadContents
    <2> HIDE DEF n, S
    <2>3. /\ Count(kb_head, kb_tail, n) < n - 1
          /\ Contents(kb_buf', kb_tail, Count(kb_head', kb_tail, n), n) = Append(old, c)
      <3>1. /\ kb_head' = Wrap(kb_head + 1, n) /\ kb_head' # kb_tail
            /\ kb_buf' = [kb_buf EXCEPT ![kb_head] = c]
        BY <1>3, <2>1, <2>2
      <3>2. Pushes(S, n, kb_buf, kb_head, kb_tail, c, kb_buf', kb_head')
        BY <1>1, <3>1 DEF Pushes
      <3>3. QED
        BY SMT, <3>2, PushAppends
    <2>4. kb_head' \in Index /\ kb_tail' \in Index
      BY <1>1, <2>1, <2>2
    <2>5. Unread = old /\ Unread' = Append(old, c)
      <3>1. UnreadOf(kb_buf', kb_head', kb_tail) = Contents(kb_buf', kb_tail, Count(kb_head', kb_tail, n), n)
        BY <2>1, <2>4, UnreadContents DEF n
      <3> HIDE DEF old
      <3>2. QED
        BY <2>1, <2>2, <2>3, <3>1, UnreadIs
    <2>6. Len(old) = Count(kb_head, kb_tail, n)
      <3>1. Count(kb_head, kb_tail, n) \in 0 .. n - 1
        BY <1>1, Remainders
      <3>2. QED
        <4>1. Lists(old, kb_buf, kb_tail, Count(kb_head, kb_tail, n), n)
          BY <1>1, <3>1, ContentsSeq
        <4>2. QED
          BY <4>1 DEF Lists
    <2>7. Promise!Put(c)
      BY <2>3, <2>5, <2>6 DEF Promise!Put, n
    <2>8. kb_buf' \in [Index -> S] /\ (kb_head # kb_tail => kb_buf'[kb_tail] = kb_buf[kb_tail])
      BY <1>1, <2>1
    <2>9. QED
      BY <1>1, <2>1, <2>4, <2>7, <2>8 DEF S
  <1>4. QED
    BY <1>2, <1>3

\* The store of kb_tail takes the character that kbd_poll loaded.
LEMMA StoreTakes ==
  ASSUME KbdInv, kb_head # kb_tail, console_read
  PROVE  kb_tail' \in Index /\ Promise!Take
  <1> DEFINE n == KB_BUFFER_SIZE
             S == Chars \cup {Nul}
             old == Contents(kb_buf, kb_tail, Count(kb_head, kb_tail, n), n)
  <1>1. /\ n \in Nat \ {0} /\ Index = 0 .. n - 1 /\ kb_buf \in [0 .. n - 1 -> S]
        /\ kb_head \in 0 .. n - 1 /\ kb_tail \in 0 .. n - 1
    BY KbdAssumption DEF KbdAssumption, Index, KbdInv
  <1>2. /\ kb_buf' = kb_buf /\ kb_head' = kb_head /\ kb_tail' = Succ(kb_tail)
        /\ taken' = kb_buf[kb_tail] /\ kbd_sig' = kbd_sig
    BY DEF console_read, KbdInv
  <1>3. /\ Succ(kb_tail) = Wrap(kb_tail + 1, n) /\ Succ(kb_tail) \in Index
        /\ UnreadOf(kb_buf, kb_head, kb_tail) = old
    BY <1>1, UnreadContents
  <1> HIDE DEF n, S
  <1>4. UnreadOf(kb_buf, kb_head, kb_tail') = Contents(kb_buf, kb_tail', Count(kb_head, kb_tail', n), n)
    BY ZenonT(40), <1>1, <1>2, <1>3, UnreadContents DEF n
  <1>5. Pops(S, n, kb_buf, kb_head, kb_tail, kb_tail')
    BY <1>1, <1>2, <1>3 DEF Pops
  <1>6. /\ old # << >> /\ Head(old) = kb_buf[kb_tail]
        /\ Contents(kb_buf, kb_tail', Count(kb_head, kb_tail', n), n) = Tail(old)
    BY SMT, <1>5, PopTakes
  <1> HIDE DEF old
  <1>7. Unread = old /\ Unread' = Tail(old)
    BY <1>2, <1>3, <1>4, <1>6, UnreadIs
  <1>8. QED
    BY <1>2, <1>3, <1>6, <1>7 DEF Promise!Take

\* Ctrl+C empties the queue and tells the reader.
LEMMA SigintFlushes ==
  ASSUME KbdInv, raise_sigint, taken' = taken
  PROVE  Promise!Flush
  <1> DEFINE n == KB_BUFFER_SIZE
  <1>1. kb_buf' = kb_buf /\ kb_head' = kb_tail /\ kb_tail' = kb_tail /\ kbd_sig' = TRUE
    BY DEF raise_sigint
  <1>2. kb_tail \in Index /\ kb_tail \in 0 .. n - 1 /\ n \in Nat \ {0}
    BY KbdAssumption DEF KbdInv, Index, KbdAssumption
  <1>3. UnreadOf(kb_buf, kb_tail, kb_tail) = Contents(kb_buf, kb_tail, Count(kb_tail, kb_tail, n), n)
    BY <1>2, UnreadContents
  <1>4. Count(kb_tail, kb_tail, n) = 0
    BY <1>2, SMT DEF Count
  <1>5. UnreadOf(kb_buf, kb_tail, kb_tail) = << >>
    BY SMT, <1>3, <1>4 DEF Contents
  <1>6. Unread' = << >>
    BY <1>1, <1>5, UnreadIs
  <1>7. QED
    BY <1>1, <1>6 DEF Promise!Flush

\* A step that leaves the ring alone.
LEMMA RingKept ==
  ASSUME KbdInv, UNCHANGED ringVars, rpc' = "store" => rchar' = kb_buf[kb_tail]
  PROVE  KbdInv' /\ Unread' = Unread
  <1>1. kb_buf' = kb_buf /\ kb_head' = kb_head /\ kb_tail' = kb_tail
    BY DEF ringVars
  <1>2. KbdInv'
    BY <1>1 DEF KbdInv
  <1>3. QED
    BY <1>1, <1>2, UnreadIs

\* A step of the abstract queue, or one that leaves it alone.
QueueStep == [Promise!FifoNext]_<<Unread, taken, kbd_sig>>

\* Every step of the interrupt handlers and of the reader.
LEMMA KbdStepInv ==
  ASSUME KbdInv, NoFlushInPoll, [KbdNext]_kbdVars
  PROVE  KbdInv' /\ QueueStep
  <1>1. ASSUME WakeFromHlt
        PROVE  taken' = taken /\ (rpc' = "store" => rchar' = kb_buf[kb_tail] /\ kb_head # kb_tail)
    BY <1>1 DEF WakeFromHlt, KbdInv, NoFlushInPoll, FlushedInPoll
  <1>2. ASSUME WakeFromHlt, NEW c \in Chars, buf_push(c), kbd_sig' = kbd_sig
        PROVE  KbdInv' /\ QueueStep
    <2>1. /\ kb_buf' \in [Index -> Chars \cup {Nul}] /\ kb_head' \in Index /\ kb_tail' = kb_tail
          /\ kb_head # kb_tail => kb_buf'[kb_tail] = kb_buf[kb_tail]
          /\ Promise!Put(c) \/ UNCHANGED <<Unread, taken, kbd_sig>>
      BY <1>1, <1>2, PushPuts
    <2>2. KbdInv'
      BY <1>1, <1>2, <2>1 DEF KbdInv
    <2>3. QED
      BY <2>1, <2>2 DEF QueueStep, Promise!FifoNext
  <1>3. ASSUME WakeFromHlt, UNCHANGED <<ringVars, kbd_sig>> PROVE KbdInv' /\ QueueStep
    BY <1>1, <1>3, RingKept DEF QueueStep
  <1>4. ASSUME NEW key \in Keys, KeyPress(key) PROVE KbdInv' /\ QueueStep
    <2> DEFINE c == translate(key)
    <2>1. c \in Chars \cup {Nul}
      BY DEF translate, Chars
    <2>2. WakeFromHlt
      BY <1>4 DEF KeyPress
    <2>3. CASE c = Nul
      <3>1. UNCHANGED <<ringVars, kbd_sig>>
        BY <1>4, <2>3 DEF KeyPress
      <3>2. QED
        BY <1>3, <2>2, <3>1
    <2>4. CASE c # Nul /\ ctrl /\ c \in {"c", "C"}
      <3>1. raise_sigint
        BY <1>4, <2>4 DEF KeyPress
      <3>2. Promise!Flush
        BY <1>1, <2>2, <3>1, SigintFlushes
      <3>3. KbdInv'
        BY <1>1, <2>2, <3>1 DEF KbdInv, raise_sigint
      <3>4. QED
        BY <3>2, <3>3 DEF QueueStep, Promise!FifoNext
    <2>5. CASE c # Nul /\ ~(ctrl /\ c \in {"c", "C"})
      <3>1. buf_push(c) /\ kbd_sig' = kbd_sig /\ c \in Chars
        BY <1>4, <2>1, <2>5 DEF KeyPress
      <3>2. QED
        BY <1>2, <2>2, <3>1
    <2>6. QED
      BY <2>3, <2>4, <2>5
  <1>5. CASE kbd_interrupt
    <2>1. ASSUME NEW key \in Modifiers, NEW down \in BOOLEAN, ModifierKey(key, down)
          PROVE  KbdInv' /\ QueueStep
      BY <1>3, <2>1 DEF ModifierKey
    <2>2. QED
      BY <1>4, <1>5, <2>1 DEF kbd_interrupt
  <1>6. CASE kbd_usb_push
    BY <1>2, <1>6 DEF kbd_usb_push
  <1>7. CASE Tick
    BY <1>3, <1>7 DEF Tick
  <1>8. CASE ReadCall
    <2>1. UNCHANGED ringVars /\ rpc' = "loop" /\ kbd_sig' = FALSE /\ taken' = taken
      BY <1>8 DEF ReadCall
    <2>2. KbdInv' /\ Unread' = Unread
      BY <2>1, RingKept
    <2>3. Promise!Notice
      BY <2>1, <2>2 DEF Promise!Notice
    <2>4. QED
      BY <2>2, <2>3 DEF QueueStep, Promise!FifoNext
  <1>9. CASE kbd_getchar \/ kbd_poll
    <2>1. /\ UNCHANGED ringVars /\ kbd_sig' = kbd_sig /\ taken' = taken
          /\ rpc' = "store" => rchar' = kb_buf[kb_tail]
      BY <1>9 DEF kbd_getchar, kbd_poll
    <2>2. KbdInv' /\ Unread' = Unread
      BY <2>1, RingKept
    <2>3. QED
      BY <2>1, <2>2 DEF QueueStep
  <1>10. CASE console_read
    <2>1. kb_head # kb_tail
      BY <1>10 DEF console_read, NoFlushInPoll, FlushedInPoll
    <2>2. kb_tail' \in Index /\ Promise!Take
      BY <1>10, <2>1, StoreTakes
    <2>3. KbdInv'
      BY <1>10, <2>2 DEF console_read, KbdInv
    <2>4. QED
      BY <2>2, <2>3 DEF QueueStep, Promise!FifoNext
  <1>11. CASE UNCHANGED kbdVars
    <2>1. UNCHANGED ringVars /\ kbd_sig' = kbd_sig /\ taken' = taken /\ rpc' = rpc /\ rchar' = rchar
      BY <1>11 DEF kbdVars, readerVars
    <2>2. KbdInv' /\ Unread' = Unread
      BY <2>1, RingKept DEF KbdInv
    <2>3. QED
      BY <2>1, <2>2 DEF QueueStep
  <1>12. QED
    BY <1>5, <1>6, <1>7, <1>8, <1>9, <1>10, <1>11 DEF KbdNext, ReaderStep

\* The keyboard ring is the queue of Fifo for every KB_BUFFER_SIZE, however the
\* interrupts fall between the steps of kbd_getchar, unless Ctrl+C comes
\* between kbd_poll's load and its store of kb_tail.
THEOREM KeyboardQueue == KbdSpec /\ []NoFlushInPoll => ImplementsFifo
  <1>1. KbdInit => KbdInv /\ Unread = << >> /\ kbd_sig = FALSE
    BY KbdInitInv
  <1>2. KbdInv /\ NoFlushInPoll /\ [KbdNext]_kbdVars => KbdInv' /\ QueueStep
    BY KbdStepInv
  <1>3. QED
    BY <1>1, <1>2, PTL DEF KbdSpec, ImplementsFifo, Promise!FifoSpec, QueueStep

-----------------------------------------------------------------------------
(* The receive ring as a queue.                                            *)

\* f[k] is the sequence of those of the first k elements of a that V picks.
Picks(f, S, n, V, a) ==
  /\ f \in [0 .. n -> Seq(S)] /\ f[0] = <<>>
  /\ \A k \in 0 .. n - 1 : f[k + 1] = IF V[k + 1] THEN Append(f[k], a[k + 1]) ELSE f[k]

\* The first n elements and choices are the same; or they are those behind the
\* first; or they are of S.
Same(n, V, a, W, b) == \A k \in 1 .. n : V[k] = W[k] /\ a[k] = b[k]
Shifted(n, V, a, W, b) == \A k \in 1 .. n : W[k] = V[k + 1] /\ b[k] = a[k + 1]
AllIn(S, n, a) == \A k \in 1 .. n : a[k] \in S

\* One element more.
LEMMA PicksMore ==
  ASSUME NEW S, NEW n \in Nat, NEW f, NEW g, NEW V, NEW a, NEW W, NEW b,
         Picks(f, S, n, V, a), Picks(g, S, n + 1, W, b), Same(n, V, a, W, b)
  PROVE  g[n + 1] = IF W[n + 1] THEN Append(f[n], b[n + 1]) ELSE f[n]
  <1> DEFINE G == {k \in 0 .. n : g[k] = f[k]}
  <1>1. 0 \in Nat /\ n \in 0 .. n /\ n \in 0 .. (n + 1) - 1 /\ 0 \in 0 .. n
    BY SMT
  <1>2. 0 \in G
    BY <1>1 DEF Picks
  <1>3. ASSUME NEW k \in 0 .. n - 1, k \in G PROVE k + 1 \in G
    <2>1. k \in 0 .. (n + 1) - 1 /\ k + 1 \in 1 .. n /\ k + 1 \in 0 .. n
      BY SMT
    <2>2. f[k + 1] = IF V[k + 1] THEN Append(f[k], a[k + 1]) ELSE f[k]
      BY DEF Picks
    <2>3. g[k + 1] = IF W[k + 1] THEN Append(g[k], b[k + 1]) ELSE g[k]
      BY <2>1 DEF Picks
    <2>4. V[k + 1] = W[k + 1] /\ a[k + 1] = b[k + 1] /\ g[k] = f[k]
      BY <1>3, <2>1 DEF Same
    <2>5. g[k + 1] = f[k + 1]
      <3>1. CASE W[k + 1]
        <4>1. g[k + 1] = Append(g[k], b[k + 1]) /\ f[k + 1] = Append(f[k], a[k + 1])
          BY <2>2, <2>3, <2>4, <3>1
        <4>2. QED
          BY <2>4, <4>1
      <3>2. CASE ~W[k + 1]
        BY <2>2, <2>3, <2>4, <3>2
      <3>3. QED
        BY <3>1, <3>2
    <2>6. QED
      BY <2>1, <2>5
  <1>4. \A k \in 0 .. n : k \in G
    <2> HIDE DEF G
    <2>1. QED
      BY <1>1, <1>2, <1>3, LoopInduction
  <1>5. g[n] = f[n]
    BY <1>1, <1>4
  <1>6. QED
    BY <1>1, <1>5 DEF Picks

\* What is picked of the first element.
PickedFirst(V, a) == IF V[1] THEN <<a[1]>> ELSE <<>>

\* f picks from n + 1 elements, g from the n behind the first.
PicksRest(g, W, b, f, V, a, S, n) ==
  /\ n \in Nat /\ Picks(f, S, n + 1, V, a) /\ Picks(g, S, n, W, b)
  /\ AllIn(S, n + 1, a) /\ Shifted(n, V, a, W, b)

\* What f picks is what it picks of the first and then what g picks.
PutsBefore(f, V, a, g, n) == f[n + 1] = PickedFirst(V, a) \o g[n]

\* Without the first element.
LEMMA PicksLess ==
  ASSUME NEW g, NEW W, NEW b, NEW f, NEW V, NEW a, NEW S, NEW n, PicksRest(g, W, b, f, V, a, S, n)
  PROVE  PutsBefore(f, V, a, g, n)
  <1> DEFINE first == IF V[1] THEN <<a[1]>> ELSE <<>>
             G == {k \in 0 .. n : f[k + 1] = first \o g[k]}
  <1> n \in Nat /\ Picks(f, S, n + 1, V, a) /\ Picks(g, S, n, W, b) /\ AllIn(S, n + 1, a) /\ Shifted(n, V, a, W, b)
    BY DEF PicksRest
  <1>1. 0 \in Nat /\ n \in 0 .. n /\ 0 \in 0 .. n /\ 0 \in 0 .. (n + 1) - 1 /\ 0 + 1 = 1 /\ 1 \in 1 .. n + 1
    BY SMT
  <1>2. first \in Seq(S)
    <2>1. a[1] \in S
      BY <1>1 DEF AllIn
    <2>2. <<a[1]>> \in Seq(S) /\ <<>> \in Seq(S)
      BY SMT, <2>1
    <2>3. QED
      BY <2>2
  <1>3. f[1] = first
    <2>1. f[0 + 1] = (IF V[0 + 1] THEN Append(f[0], a[0 + 1]) ELSE f[0]) /\ f[0] = <<>>
      BY <1>1 DEF Picks
    <2>2. Append(<<>>, a[1]) = <<a[1]>>
      BY SMT
    <2>3. QED
      BY <1>1, <2>1, <2>2
  <1>4. 0 \in G
    <2>1. first \o <<>> = first
      <3> HIDE DEF first
      <3>1. QED
        BY SMT, <1>2, ConcatEmptySeq
    <2>2. g[0] = <<>>
      BY DEF Picks
    <2>3. QED
      BY <1>1, <1>3, <2>1, <2>2
  <1> HIDE DEF first
  <1>5. ASSUME NEW k \in 0 .. n - 1, k \in G PROVE k + 1 \in G
    <2>1. k \in 0 .. n /\ k + 1 \in 0 .. n /\ k + 1 \in 1 .. n /\ k + 1 \in 0 .. (n + 1) - 1 /\ (k + 1) + 1 \in 1 .. n + 1
      BY SMT
    <2>2. g[k + 1] = IF W[k + 1] THEN Append(g[k], b[k + 1]) ELSE g[k]
      BY DEF Picks
    <2>3. f[(k + 1) + 1] = IF V[(k + 1) + 1] THEN Append(f[k + 1], a[(k + 1) + 1]) ELSE f[k + 1]
      BY <2>1 DEF Picks
    <2>4. g[k] \in Seq(S) /\ a[(k + 1) + 1] \in S
      BY <2>1 DEF Picks, AllIn
    <2>5. ASSUME NEW s \in Seq(S), NEW t \in Seq(S), NEW x \in S
          PROVE  Append(s \o t, x) = s \o Append(t, x)
      <3>1. \A u \in Seq(S) : Append(u, x) = u \o <<x>>
        BY AppendIsConcat
      <3>2. s \o t \in Seq(S) /\ <<x>> \in Seq(S)
        BY SMT
      <3>3. (s \o t) \o <<x>> = s \o (t \o <<x>>)
        BY SMT, <3>2, ConcatAssociative
      <3>4. Append(s \o t, x) = (s \o t) \o <<x>> /\ Append(t, x) = t \o <<x>>
        BY <3>1, <3>2
      <3>5. QED
        BY <3>3, <3>4
    <2>6. Append(first \o g[k], a[(k + 1) + 1]) = first \o Append(g[k], a[(k + 1) + 1])
      BY <1>2, <2>4, <2>5
    <2>7. QED
      BY <1>5, <2>1, <2>2, <2>3, <2>6 DEF Shifted
  <1>6. \A k \in 0 .. n : k \in G
    <2> HIDE DEF G
    <2>1. QED
      BY <1>1, <1>4, <1>5, LoopInduction
  <1>7. QED
    BY <1>1, <1>6 DEF first, PickedFirst, PutsBefore

\* No more are picked than there are.
LEMMA PicksFew ==
  ASSUME NEW S, NEW n \in Nat, NEW f, NEW V, NEW a, Picks(f, S, n, V, a), AllIn(S, n, a)
  PROVE  f[n] \in Seq(S) /\ Len(f[n]) <= n
  <1> DEFINE G == {k \in 0 .. n : Len(f[k]) <= k}
  <1>1. 0 \in Nat /\ n \in 0 .. n /\ 0 \in 0 .. n /\ Len(<<>>) <= 0
    BY SMT
  <1>2. 0 \in G
    BY <1>1 DEF Picks
  <1>3. ASSUME NEW k \in 0 .. n - 1, k \in G PROVE k + 1 \in G
    <2>1. k \in 0 .. n /\ k + 1 \in 0 .. n /\ k + 1 \in 1 .. n
      BY SMT
    <2>2. f[k + 1] = (IF V[k + 1] THEN Append(f[k], a[k + 1]) ELSE f[k]) /\ f[k] \in Seq(S)
      BY <2>1 DEF Picks
    <2>3. Len(Append(f[k], a[k + 1])) = Len(f[k]) + 1 /\ Len(f[k]) \in Nat
      BY SMT, <2>1, <2>2, AppendProperties DEF AllIn
    <2>4. f[k + 1] = Append(f[k], a[k + 1]) \/ f[k + 1] = f[k]
      BY <2>2
    <2>5. Len(f[k + 1]) = Len(f[k]) + 1 \/ Len(f[k + 1]) = Len(f[k])
      BY <2>3, <2>4
    <2>6. QED
      BY SMTT(20), <1>3, <2>1, <2>3, <2>5
  <1>4. \A k \in 0 .. n : k \in G
    <2> HIDE DEF G
    <2>1. QED
      BY <1>1, <1>2, <1>3, LoopInduction
  <1>5. QED
    BY <1>1, <1>4 DEF Picks

\* The definitions behind Waiting, of any ring, indices and state of rx_discard.
FilledOf(first, head) == (head + RX_RING - first) % RX_RING
DescAt(ring, first, k) == ring[(first + k - 1) % RX_RING]
WholeIn(ring, first, skip, k) ==
  /\ DescAt(ring, first, k).eop /\ DescAt(ring, first, k).good
  /\ IF k = 1 THEN ~skip ELSE DescAt(ring, first, k - 1).eop
WaitingOf(ring, first, head, skip) ==
  LET q[k \in 0 .. FilledOf(first, head)] ==
        IF k = 0 THEN <<>>
        ELSE IF WholeIn(ring, first, skip, k) THEN Append(q[k - 1], DescAt(ring, first, k).frame)
        ELSE q[k - 1]
  IN q[FilledOf(first, head)]

\* Waiting, before and after a step.
LEMMA WaitingIs ==
  /\ Waiting = WaitingOf(rx_ring, rx_next, rdh, rx_discard)
  /\ Waiting' = WaitingOf(rx_ring', rx_next', rdh', rx_discard')
  BY DEF Waiting, WaitingOf, Filled, FilledOf, At, DescAt, WholeAt, WholeIn

\* A ring of descriptors, and indices in it.
RingTyped(ring, first, head) ==
  /\ ring \in [0 .. RX_RING - 1 ->
       [dd : BOOLEAN, eop : BOOLEAN, good : BOOLEAN, frame : Frames \cup {NoFrame}]]
  /\ first \in 0 .. RX_RING - 1 /\ head \in 0 .. RX_RING - 1

\* The frames of the first n descriptors, and which of them hold a whole one.
FramesFrom(ring, first, n) == [k \in 1 .. n |-> DescAt(ring, first, k).frame]
WholeFrom(ring, first, skip, n) == [k \in 1 .. n |-> WholeIn(ring, first, skip, k)]

\* The descriptors that are filled hold frames, fewer than the ring has.
LEMMA FilledFrames ==
  ASSUME NEW ring, NEW first, NEW head, RingTyped(ring, first, head)
  PROVE  /\ FilledOf(first, head) = Count(head, first, RX_RING)
         /\ FilledOf(first, head) \in 0 .. RX_RING - 1 /\ FilledOf(first, head) \in Nat
         /\ \A k \in 1 .. RX_RING : /\ DescAt(ring, first, k) = ring[Wrap((first + k) - 1, RX_RING)]
                                    /\ Wrap((first + k) - 1, RX_RING) \in 0 .. RX_RING - 1
                                    /\ DescAt(ring, first, k).frame \in Frames \cup {NoFrame}
         /\ \A n \in 0 .. RX_RING : \A k \in 1 .. n :
              FramesFrom(ring, first, n)[k] \in Frames \cup {NoFrame}
  <1>1. RX_RING \in Nat \ {0}
    BY E1000Assumption
  <1>2. first \in 0 .. RX_RING - 1 /\ head \in 0 .. RX_RING - 1
    BY DEF RingTyped
  <1>3. FilledOf(first, head) = Count(head, first, RX_RING) /\ Count(head, first, RX_RING) \in 0 .. RX_RING - 1
    BY <1>1, <1>2, Remainders DEF FilledOf
  <1>4. ASSUME NEW k \in 1 .. RX_RING
        PROVE  /\ DescAt(ring, first, k) = ring[Wrap((first + k) - 1, RX_RING)]
               /\ Wrap((first + k) - 1, RX_RING) \in 0 .. RX_RING - 1
               /\ DescAt(ring, first, k).frame \in Frames \cup {NoFrame}
    <2>1. /\ ((first + k) - 1) % RX_RING = Wrap((first + k) - 1, RX_RING)
          /\ Wrap((first + k) - 1, RX_RING) \in 0 .. RX_RING - 1
      BY <1>1, <1>2, Remainders
    <2>2. DescAt(ring, first, k) = ring[Wrap((first + k) - 1, RX_RING)]
      <3>1. first + k - 1 = (first + k) - 1
        BY SMT, <1>1, <1>2
      <3>2. QED
        BY <2>1, <3>1 DEF DescAt
    <2>3. ring[Wrap((first + k) - 1, RX_RING)]
            \in [dd : BOOLEAN, eop : BOOLEAN, good : BOOLEAN, frame : Frames \cup {NoFrame}]
      BY <2>1 DEF RingTyped
    <2>4. DescAt(ring, first, k).frame \in Frames \cup {NoFrame}
      BY <2>2, <2>3
    <2>5. QED
      BY <2>1, <2>2, <2>4
  <1>5. ASSUME NEW n \in 0 .. RX_RING, NEW k \in 1 .. n
        PROVE  FramesFrom(ring, first, n)[k] \in Frames \cup {NoFrame}
    <2>1. k \in 1 .. RX_RING
      BY SMT, <1>1
    <2>2. QED
      BY <1>4, <2>1 DEF FramesFrom
  <1>6. FilledOf(first, head) \in Nat
    BY SMT, <1>1, <1>3
  <1>7. QED
    BY <1>3, <1>4, <1>5, <1>6

\* Waiting is what is picked from the filled descriptors.
LEMMA WaitingPicks ==
  ASSUME NEW ring, NEW first, NEW head, NEW skip, RingTyped(ring, first, head)
  PROVE  LET n == FilledOf(first, head) IN
         \E f : /\ Picks(f, Frames \cup {NoFrame}, n, WholeFrom(ring, first, skip, n), FramesFrom(ring, first, n))
                /\ WaitingOf(ring, first, head, skip) = f[n]
  <1> DEFINE n == FilledOf(first, head)
             S == Frames \cup {NoFrame}
             g == [j \in 0 .. n - 1 |-> [q \in Seq(S) |->
                     IF WholeIn(ring, first, skip, j + 1) THEN Append(q, DescAt(ring, first, j + 1).frame) ELSE q]]
             Eq(f) == f = [k \in 0 .. n |->
                       IF k = 0 THEN <<>>
                       ELSE IF WholeIn(ring, first, skip, k) THEN Append(f[k - 1], DescAt(ring, first, k).frame)
                       ELSE f[k - 1]]
             all == CHOOSE f : Eq(f)
  <1>1. /\ n \in Nat /\ 0 \in Nat /\ 0 <= n /\ n \in 0 .. RX_RING - 1
        /\ \A k \in 1 .. RX_RING : DescAt(ring, first, k).frame \in S
    BY SMT, FilledFrames
  <1>2. <<>> \in Seq(S)
    BY SMT
  <1>3. WaitingOf(ring, first, head, skip) = all[n]
    BY DEF WaitingOf, all, Eq, n
  <1> HIDE DEF n, S
  <1>4. \A k \in 1 .. n : DescAt(ring, first, k).frame \in S
    <2>1. 1 .. n \subseteq 1 .. RX_RING
      BY SMT, <1>1, E1000Assumption
    <2>2. QED
      BY <1>1, <2>1
  <1>5. \A j \in 0 .. n - 1 : j + 1 \in 1 .. n /\ j + 1 \in 0 .. n /\ j \in 0 .. n /\ j + 1 # 0 /\ (j + 1) - 1 = j
    BY SMT, <1>1
  <1>6. \A k \in 0 .. n : k # 0 => k - 1 \in 0 .. n - 1 /\ (k - 1) + 1 = k
    BY SMT, <1>1
  <1>7. g \in [0 .. n - 1 -> [Seq(S) -> Seq(S)]]
    <2>1. ASSUME NEW j \in 0 .. n - 1, NEW q \in Seq(S)
          PROVE  (IF WholeIn(ring, first, skip, j + 1) THEN Append(q, DescAt(ring, first, j + 1).frame) ELSE q) \in Seq(S)
      <3>1. Append(q, DescAt(ring, first, j + 1).frame) \in Seq(S)
        BY <1>4, <1>5, AppendProperties
      <3>2. QED
        BY <3>1
    <2>2. QED
      BY <2>1
  <1>8. PICK h \in [0 .. n -> Seq(S)] : Unrolls(h, g, <<>>, 0, n)
    <2> HIDE DEF g
    <2>1. QED
      BY <1>1, <1>2, <1>7, Unrolled
  <1>9. ASSUME NEW k \in 0 .. n
        PROVE  h[k] = IF k = 0 THEN <<>>
                      ELSE IF WholeIn(ring, first, skip, k) THEN Append(h[k - 1], DescAt(ring, first, k).frame)
                      ELSE h[k - 1]
    <2>1. CASE k = 0
      BY <1>8, <2>1 DEF Unrolls
    <2>2. CASE k # 0
      <3>1. k - 1 \in 0 .. n - 1 /\ (k - 1) + 1 = k /\ h[k - 1] \in Seq(S)
        BY <1>5, <1>6, <2>2
      <3>2. h[k] = g[k - 1][h[k - 1]]
        BY <1>8, <2>2 DEF Unrolls
      <3>3. g[k - 1][h[k - 1]] = IF WholeIn(ring, first, skip, (k - 1) + 1)
                                 THEN Append(h[k - 1], DescAt(ring, first, (k - 1) + 1).frame) ELSE h[k - 1]
        BY <3>1
      <3>4. QED
        BY <2>2, <3>1, <3>2, <3>3
    <2>3. QED
      BY <2>1, <2>2
  <1>10. Eq(h)
    <2>1. h = [k \in 0 .. n |-> h[k]]
      OBVIOUS
    <2>2. QED
      BY <1>9, <2>1
  <1> HIDE DEF Eq
  <1>11. Eq(all)
    BY <1>10
  <1> HIDE DEF all
  <1>12. /\ all = [k \in 0 .. n |-> all[k]]
         /\ all[0] = <<>>
         /\ \A k \in 0 .. n - 1 : all[k + 1] = IF WholeIn(ring, first, skip, k + 1)
                                              THEN Append(all[k], DescAt(ring, first, k + 1).frame) ELSE all[k]
    <2>1. \A k \in 0 .. n : all[k] = IF k = 0 THEN <<>>
                      ELSE IF WholeIn(ring, first, skip, k) THEN Append(all[k - 1], DescAt(ring, first, k).frame)
                      ELSE all[k - 1]
      BY <1>11 DEF Eq
    <2>2. all = [k \in 0 .. n |-> all[k]]
      BY <1>11 DEF Eq
    <2>3. 0 \in 0 .. n
      BY SMT, <1>1
    <2>4. QED
      BY <1>5, <2>1, <2>2, <2>3
  <1>13. \A k \in 0 .. n : all[k] \in Seq(S)
    <2>1. ASSUME NEW k \in 0 .. n - 1, all[k] \in Seq(S) PROVE all[k + 1] \in Seq(S)
      <3>1. Append(all[k], DescAt(ring, first, k + 1).frame) \in Seq(S)
        BY <1>4, <1>5, <2>1, AppendProperties
      <3>2. QED
        BY <1>12, <2>1, <3>1
    <2>2. QED
      BY <1>1, <1>2, <1>12, <2>1, StaysIn
  <1>14. all \in [0 .. n -> Seq(S)]
    BY <1>12, <1>13
  <1>15. Picks(all, S, n, WholeFrom(ring, first, skip, n), FramesFrom(ring, first, n))
    <2>1. ASSUME NEW k \in 0 .. n - 1
          PROVE  all[k + 1] = IF WholeFrom(ring, first, skip, n)[k + 1]
                              THEN Append(all[k], FramesFrom(ring, first, n)[k + 1]) ELSE all[k]
      BY <1>5, <1>12 DEF WholeFrom, FramesFrom
    <2>2. QED
      BY <1>12, <1>14, <2>1 DEF Picks
  <1>16. QED
    BY <1>3, <1>15 DEF n, S

\* In a ring that is not full the descriptor at the head becomes d and the head
\* moves to next.
FillsHead(ring, first, head, d, more, next) ==
  /\ RingTyped(ring, first, head) /\ RingTyped(more, first, next)
  /\ more = [ring EXCEPT ![head] = d] /\ next = Wrap(head + 1, RX_RING) /\ next # first

\* x joins the queue q, which has room for it and becomes r, or it stays as it is.
Joins(q, x, r) == Len(q) < RX_RING - 1 /\ (r = Append(q, x) \/ r = q)

\* The card fills the descriptor at the head with d: the frame joins the queue
\* if it is whole, and there is room for it.
LEMMA FilledJoins ==
  ASSUME NEW ring, NEW first, NEW head, NEW skip, NEW d, NEW more, NEW next,
         FillsHead(ring, first, head, d, more, next)
  PROVE  Joins(WaitingOf(ring, first, head, skip), d.frame, WaitingOf(more, first, next, skip))
  <1> DEFINE N == RX_RING
             n == FilledOf(first, head)
             V == WholeFrom(ring, first, skip, n)
             a == FramesFrom(ring, first, n)
             W == WholeFrom(more, first, skip, n + 1)
             b == FramesFrom(more, first, n + 1)
  <1>0. RingTyped(ring, first, head) /\ RingTyped(more, first, next)
    BY DEF FillsHead
  <1>1. N \in Nat \ {0} /\ first \in 0 .. N - 1 /\ head \in 0 .. N - 1
    BY <1>0, E1000Assumption DEF RingTyped
  <1>2. n = Count(head, first, N) /\ n \in Nat /\ FilledOf(first, next) = Count(next, first, N)
    BY <1>0, FilledFrames
  <1>3. /\ Count(next, first, N) = n + 1 /\ n + 1 \in 1 .. N - 1 /\ n < N - 1
        /\ Wrap((first + (n + 1)) - 1, N) = head
        /\ \A k \in 1 .. n : k \in 1 .. N /\ k \in 1 .. n + 1 /\ Wrap((first + k) - 1, N) # head
        /\ n + 1 \in 1 .. N /\ n + 1 \in 1 .. n + 1
    <2> HIDE DEF N
    <2>1. next = Wrap(head + 1, N) /\ next # first
      BY DEF FillsHead, N
    <2> HIDE DEF n
    <2>2. QED
      BY SMTT(20), <1>1, <1>2, <2>1 DEF Count, Wrap
  <1>4. FilledOf(first, next) = n + 1
    BY <1>2, <1>3
  <1>a. \A k \in 1 .. N : /\ DescAt(ring, first, k) = ring[Wrap((first + k) - 1, N)]
                          /\ Wrap((first + k) - 1, N) \in 0 .. N - 1
    BY <1>0, FilledFrames
  <1>b. \A k \in 1 .. N : DescAt(more, first, k) = more[Wrap((first + k) - 1, N)]
    BY <1>0, FilledFrames
  <1>5. PICK f : /\ Picks(f, Frames \cup {NoFrame}, n, V, a)
                 /\ WaitingOf(ring, first, head, skip) = f[n]
    BY <1>0, WaitingPicks
  <1>6. PICK g : /\ Picks(g, Frames \cup {NoFrame}, n + 1, W, b)
                 /\ WaitingOf(more, first, next, skip) = g[n + 1]
    <2> DEFINE m == FilledOf(first, next)
    <2>1. \E g : /\ Picks(g, Frames \cup {NoFrame}, m, WholeFrom(more, first, skip, m), FramesFrom(more, first, m))
                 /\ WaitingOf(more, first, next, skip) = g[m]
      BY <1>0, WaitingPicks
    <2>2. m = n + 1
      BY <1>4
    <2> HIDE DEF m, n
    <2>3. QED
      BY <2>1, <2>2
  <1>7. \A k \in 1 .. n : DescAt(more, first, k) = DescAt(ring, first, k)
    <2>1. ASSUME NEW k \in 1 .. n PROVE DescAt(more, first, k) = DescAt(ring, first, k)
      <3>1. /\ DescAt(more, first, k) = more[Wrap((first + k) - 1, N)]
            /\ DescAt(ring, first, k) = ring[Wrap((first + k) - 1, N)]
            /\ Wrap((first + k) - 1, N) \in 0 .. N - 1 /\ Wrap((first + k) - 1, N) # head
        BY <1>3, <1>a, <1>b
      <3>2. more[Wrap((first + k) - 1, N)] = ring[Wrap((first + k) - 1, N)]
        BY <1>0, <3>1 DEF RingTyped, FillsHead
      <3>3. QED
        BY <3>1, <3>2
    <2>2. QED
      BY <2>1
  <1>8. DescAt(more, first, n + 1) = d
    <2>1. DescAt(more, first, n + 1) = more[head]
      BY <1>3, <1>b
    <2>2. more[head] = d
      BY <1>0, <1>1 DEF RingTyped, FillsHead
    <2>3. QED
      BY <2>1, <2>2
  <1>9. Same(n, V, a, W, b)
    <2>1. ASSUME NEW k \in 1 .. n PROVE V[k] = W[k] /\ a[k] = b[k]
      <3>1. V[k] = WholeIn(ring, first, skip, k) /\ W[k] = WholeIn(more, first, skip, k)
        BY <1>3 DEF WholeFrom
      <3>2. a[k] = DescAt(ring, first, k).frame /\ b[k] = DescAt(more, first, k).frame
        BY <1>3 DEF FramesFrom
      <3>3. k # 1 => DescAt(more, first, k - 1) = DescAt(ring, first, k - 1)
        <4>1. k # 1 => k - 1 \in 1 .. n
          <5> HIDE DEF n
          <5>1. QED
            BY SMT, <1>2
        <4>2. QED
          BY <1>7, <4>1
      <3>4. WholeIn(ring, first, skip, k) = WholeIn(more, first, skip, k)
        BY <1>7, <3>3 DEF WholeIn
      <3>5. QED
        BY <1>7, <3>1, <3>2, <3>4
    <2>2. QED
      BY <2>1 DEF Same
  <1>10. b[n + 1] = d.frame
    BY <1>3, <1>8 DEF FramesFrom
  <1> HIDE DEF V, a, W, b, n
  <1>11. g[n + 1] = IF W[n + 1] THEN Append(f[n], b[n + 1]) ELSE f[n]
    <2>1. Picks(f, Frames \cup {NoFrame}, n, V, a)
      BY <1>5
    <2>2. Picks(g, Frames \cup {NoFrame}, n + 1, W, b)
      BY <1>6
    <2>3. n \in Nat
      BY <1>2
    <2>4. QED
      BY SMT, <1>9, <2>1, <2>2, <2>3, PicksMore
  <1>12. Len(f[n]) < N - 1
    <2>1. AllIn(Frames \cup {NoFrame}, n, a)
      <3>1. n \in 0 .. N
        BY SMTT(20), <1>1, <1>2, <1>3
      <3>2. QED
        BY <1>0, <3>1, FilledFrames DEF a, AllIn
    <2>2. f[n] \in Seq(Frames \cup {NoFrame}) /\ Len(f[n]) <= n
      BY <1>2, <1>5, <2>1, PicksFew
    <2>3. QED
      BY SMTT(20), <1>1, <1>2, <1>3, <2>2
  <1>13. QED
    BY <1>5, <1>6, <1>10, <1>11, <1>12 DEF Joins

\* In a ring that is not empty the first descriptor is emptied, first moves to
\* next, and rest says whether its frame goes on in the next one.
EmptiesFirst(ring, first, head, less, next, rest) ==
  /\ RingTyped(ring, first, head) /\ RingTyped(less, next, head) /\ head # first
  /\ less = [ring EXCEPT ![first] = Empty] /\ next = Wrap(first + 1, RX_RING)
  /\ rest = ~ring[first].eop

\* q becomes r without the frame of d, if that is a whole one.
Leaves(q, d, skip, r) ==
  /\ r \in Seq(Frames \cup {NoFrame}) /\ d.frame \in Frames \cup {NoFrame}
  /\ q = (IF ~skip /\ d.eop /\ d.good THEN <<d.frame>> ELSE <<>>) \o r

\* e1000_poll empties the descriptor at first: the head of the queue leaves it
\* if that is a whole frame, and nothing does otherwise.
LEMMA PolledLeaves ==
  ASSUME NEW ring, NEW first, NEW head, NEW skip, NEW less, NEW next, NEW rest,
         EmptiesFirst(ring, first, head, less, next, rest)
  PROVE  Leaves(WaitingOf(ring, first, head, skip), ring[first], skip, WaitingOf(less, next, head, rest))
  <1> DEFINE N == RX_RING
             S == Frames \cup {NoFrame}
             n == FilledOf(next, head)
             V == WholeFrom(ring, first, skip, n + 1)
             a == FramesFrom(ring, first, n + 1)
             W == WholeFrom(less, next, rest, n)
             b == FramesFrom(less, next, n)
  <1>0. RingTyped(ring, first, head) /\ RingTyped(less, next, head)
    BY DEF EmptiesFirst
  <1>1. N \in Nat \ {0} /\ first \in 0 .. N - 1 /\ head \in 0 .. N - 1
    BY <1>0, E1000Assumption DEF RingTyped
  <1>2. FilledOf(first, head) = Count(head, first, N) /\ n \in Nat /\ n = Count(head, next, N)
    BY <1>0, FilledFrames
  <1>3. /\ Count(head, first, N) = n + 1 /\ n + 1 \in 1 .. N - 1 /\ Wrap((first + 1) - 1, N) = first
        /\ n \in 0 .. N /\ n + 1 \in 0 .. N /\ 1 \in 1 .. N /\ 1 \in 1 .. n + 1
        /\ \A k \in 1 .. n : /\ k \in 1 .. N /\ k + 1 \in 1 .. N /\ k + 1 \in 1 .. n + 1 /\ k + 1 # 1
                             /\ Wrap((next + k) - 1, N) = Wrap((first + (k + 1)) - 1, N)
                             /\ Wrap((next + k) - 1, N) # first
    <2> HIDE DEF N
    <2>1. next = Wrap(first + 1, N) /\ head # first
      BY DEF EmptiesFirst, N
    <2> HIDE DEF n
    <2>2. QED
      BY SMT, <1>1, <1>2, <2>1 DEF Count, Wrap
  <1>4. FilledOf(first, head) = n + 1
    BY <1>2, <1>3
  <1>a. \A k \in 1 .. N : /\ DescAt(ring, first, k) = ring[Wrap((first + k) - 1, N)]
                          /\ DescAt(ring, first, k).frame \in S
    BY <1>0, FilledFrames
  <1>b. \A k \in 1 .. N : /\ DescAt(less, next, k) = less[Wrap((next + k) - 1, N)]
                          /\ Wrap((next + k) - 1, N) \in 0 .. N - 1
    BY <1>0, FilledFrames
  <1>5. PICK f : Picks(f, S, n + 1, V, a) /\ WaitingOf(ring, first, head, skip) = f[n + 1]
    <2> DEFINE m == FilledOf(first, head)
    <2>1. \E f : /\ Picks(f, S, m, WholeFrom(ring, first, skip, m), FramesFrom(ring, first, m))
                 /\ WaitingOf(ring, first, head, skip) = f[m]
      BY <1>0, WaitingPicks
    <2>2. m = n + 1
      BY <1>4
    <2> HIDE DEF m, n, S
    <2>3. QED
      BY <2>1, <2>2
  <1>6. PICK g : Picks(g, S, n, W, b) /\ WaitingOf(less, next, head, rest) = g[n]
    BY <1>0, WaitingPicks
  <1>7. \A k \in 1 .. n : DescAt(less, next, k) = DescAt(ring, first, k + 1)
    <2>1. ASSUME NEW k \in 1 .. n PROVE DescAt(less, next, k) = DescAt(ring, first, k + 1)
      <3>1. /\ DescAt(less, next, k) = less[Wrap((next + k) - 1, N)]
            /\ DescAt(ring, first, k + 1) = ring[Wrap((first + (k + 1)) - 1, N)]
            /\ Wrap((next + k) - 1, N) \in 0 .. N - 1 /\ Wrap((next + k) - 1, N) # first
        BY <1>3, <1>a, <1>b
      <3>2. less[Wrap((next + k) - 1, N)] = ring[Wrap((next + k) - 1, N)]
        BY <1>0, <3>1 DEF RingTyped, EmptiesFirst
      <3>3. QED
        BY <1>3, <3>1, <3>2
    <2>2. QED
      BY <2>1
  <1>8. DescAt(ring, first, 1) = ring[first] /\ ring[first].frame \in S
    <2> HIDE DEF S
    <2>1. QED
      BY <1>3, <1>a
  <1>9. Shifted(n, V, a, W, b)
    <2>1. ASSUME NEW k \in 1 .. n PROVE W[k] = V[k + 1] /\ b[k] = a[k + 1]
      <3>1. W[k] = WholeIn(less, next, rest, k) /\ V[k + 1] = WholeIn(ring, first, skip, k + 1)
        BY <1>3 DEF WholeFrom
      <3>2. b[k] = DescAt(less, next, k).frame /\ a[k + 1] = DescAt(ring, first, k + 1).frame
        BY <1>3 DEF FramesFrom
      <3>3. (k + 1) - 1 = k /\ k + 1 # 1 /\ (k # 1 => k - 1 \in 1 .. n /\ (k - 1) + 1 = k)
        <4> HIDE DEF n
        <4>1. QED
          BY SMT, <1>2
      <3>4. (IF k = 1 THEN ~rest ELSE DescAt(less, next, k - 1).eop) = DescAt(ring, first, k).eop
        <4>1. CASE k = 1
          <5>1. ring[first] \in [dd : BOOLEAN, eop : BOOLEAN, good : BOOLEAN, frame : Frames \cup {NoFrame}]
            BY <1>0, <1>1 DEF RingTyped
          <5>2. ring[first].eop \in BOOLEAN
            BY <5>1
          <5>3. (~rest) = ring[first].eop
            BY <5>2 DEF EmptiesFirst
          <5>4. QED
            BY <1>8, <4>1, <5>3
        <4>2. CASE k # 1
          <5>1. DescAt(less, next, k - 1) = DescAt(ring, first, (k - 1) + 1)
            BY <1>7, <3>3, <4>2
          <5>2. QED
            BY <3>3, <4>2, <5>1
        <4>3. QED
          BY <4>1, <4>2
      <3>5. WholeIn(less, next, rest, k) = WholeIn(ring, first, skip, k + 1)
        BY <1>7, <3>3, <3>4 DEF WholeIn
      <3>6. QED
        BY <1>7, <3>1, <3>2, <3>5
    <2>2. QED
      BY <2>1 DEF Shifted
  <1>10. /\ V[1] = (ring[first].eop /\ ring[first].good /\ ~skip) /\ a[1] = ring[first].frame
         /\ AllIn(S, n + 1, a) /\ AllIn(S, n, b)
    <2>1. V[1] = WholeIn(ring, first, skip, 1)
      BY <1>3 DEF WholeFrom
    <2>2. V[1] = (ring[first].eop /\ ring[first].good /\ ~skip)
      BY <1>8, <2>1 DEF WholeIn
    <2>3. a[1] = ring[first].frame
      BY <1>3, <1>8 DEF FramesFrom
    <2>4. AllIn(S, n + 1, a) /\ AllIn(S, n, b)
      BY <1>0, <1>3, FilledFrames DEF AllIn
    <2>5. QED
      BY <2>2, <2>3, <2>4
  <1> HIDE DEF V, a, W, b, n, S
  <1>11. f[n + 1] = PickedFirst(V, a) \o g[n]
    <2>1. Picks(f, S, n + 1, V, a)
      BY <1>5
    <2>2. Picks(g, S, n, W, b)
      BY <1>6
    <2>3. PicksRest(g, W, b, f, V, a, S, n)
      BY <1>2, <1>9, <1>10, <2>1, <2>2 DEF PicksRest
    <2>4. PutsBefore(f, V, a, g, n)
      BY <2>3, PicksLess
    <2>5. QED
      BY <2>4 DEF PutsBefore
  <1>12. f[n + 1] \in Seq(S) /\ g[n] \in Seq(S)
    <2>1. n + 1 \in Nat
      BY SMT, <1>2
    <2>2. QED
      BY <1>2, <1>5, <1>6, <1>10, <2>1, PicksFew
  <1>13. PickedFirst(V, a) =
           (IF ~skip /\ ring[first].eop /\ ring[first].good THEN <<ring[first].frame>> ELSE <<>>)
    BY <1>10 DEF PickedFirst
  <1>14. QED
    BY <1>5, <1>6, <1>8, <1>11, <1>12, <1>13 DEF S, Leaves

\* The types of the ring, before and after a step.
LEMMA RingIsTyped ==
  /\ RxTyped(Frames) => RingTyped(rx_ring, rx_next, rdh)
  /\ RxTyped(Frames)' => RingTyped(rx_ring', rx_next', rdh')
  BY DEF RxTyped, RingTyped

\* A step of the queue, or one that leaves it alone.
FramesMove == [FrameStep]_<<Waiting, rx_frame>>

\* A frame the card receives joins the queue or, as a part of a longer one or
\* in error, does not count.
LEMMA ReceivePuts ==
  ASSUME E1000Inv, E1000Inv', CardReceivesAny
  PROVE  FramesMove
  <1> DEFINE n == RX_RING
  <1>1. n \in Nat \ {0} /\ rdh \in 0 .. n - 1 /\ rdt \in 0 .. n - 1 /\ rx_next \in 0 .. n - 1
    BY E1000Assumption DEF E1000Inv, RxTyped
  <1>2. PICK f \in Probes, good \in BOOLEAN, eop \in BOOLEAN : CardReceives(f, good, eop)
    BY DEF CardReceivesAny
  <1>3. /\ rdh # rdt /\ rdt' = rdt /\ rx_next' = rx_next /\ rx_discard' = rx_discard
        /\ rx_ring' = [rx_ring EXCEPT ![rdh] = Desc(TRUE, eop, good, f)]
        /\ rdh' = Wrap(rdh + 1, n) /\ rx_frame' = rx_frame
    BY <1>1, <1>2, Remainders DEF CardReceives, CardReceivesAny
  <1>4. rdh' # rx_next /\ rdh' # rdh
    <2>1. rdt = IF rx_next = 0 THEN n - 1 ELSE rx_next - 1
      BY <1>1, StepsBack DEF E1000Inv, RxOwnership
    <2>2. QED
      BY SMTT(20), <1>1, <1>3, <2>1 DEF Wrap
  <1>5. RingTyped(rx_ring, rx_next, rdh) /\ RingTyped(rx_ring', rx_next', rdh')
    BY RingIsTyped DEF E1000Inv
  <1>6. FillsHead(rx_ring, rx_next, rdh, Desc(TRUE, eop, good, f), rx_ring', rdh')
    BY <1>3, <1>4, <1>5 DEF FillsHead
  <1>7. Desc(TRUE, eop, good, f).frame = f /\ f \in Frames
    BY E1000Assumption DEF Desc
  <1>8. Joins(WaitingOf(rx_ring, rx_next, rdh, rx_discard), Desc(TRUE, eop, good, f).frame,
              WaitingOf(rx_ring', rx_next, rdh', rx_discard))
    BY <1>6, FilledJoins
  <1>9. Len(Waiting) < RX_RING - 1 /\ (Waiting' = Append(Waiting, f) \/ Waiting' = Waiting)
    <2>1. /\ Waiting = WaitingOf(rx_ring, rx_next, rdh, rx_discard)
          /\ Waiting' = WaitingOf(rx_ring', rx_next, rdh', rx_discard)
      BY <1>3, WaitingIs
    <2>2. QED
      BY <1>7, <1>8, <2>1 DEF Joins
  <1>10. CASE Waiting' = Append(Waiting, f)
    <2>1. Stream!Put(f)
      BY <1>3, <1>9, <1>10 DEF Stream!Put
    <2>2. QED
      BY <1>4, <1>7, <2>1 DEF FramesMove, FrameStep
  <1>11. CASE Waiting' = Waiting
    BY <1>3, <1>11 DEF FramesMove
  <1>12. QED
    BY <1>9, <1>10, <1>11

\* e1000_poll returns the head of the queue and takes it out, or meets a
\* descriptor that holds no whole frame and returns nothing.
LEMMA PollTakes ==
  ASSUME E1000Inv, E1000Inv', PollsFrame
  PROVE  FramesMove
  <1> DEFINE n == RX_RING
             S == Frames \cup {NoFrame}
             d == rx_ring[rx_next]
  <1>1. n \in Nat \ {0} /\ rdh \in 0 .. n - 1 /\ rx_next \in 0 .. n - 1
    BY E1000Assumption DEF E1000Inv, RxTyped
  <1>2. /\ d.dd /\ rdh' = rdh /\ rx_discard' = ~d.eop
        /\ rx_ring' = [rx_ring EXCEPT ![rx_next] = Empty]
        /\ rx_next' = Wrap(rx_next + 1, n)
        /\ rx_frame' = IF ~rx_discard /\ d.eop /\ d.good THEN d.frame ELSE rx_frame
    BY <1>1, Remainders DEF PollsFrame, e1000_poll, Received, Accepted
  <1>3. rdh # rx_next
    <2>1. {i \in 0 .. n - 1 : rx_ring[i].dd} = Arc(rx_next, rdh, n)
      BY <1>1, BetweenIsArc DEF E1000Inv, RxOwnership
    <2>2. rx_next \in Arc(rx_next, rdh, n)
      BY <1>1, <1>2, <2>1
    <2>3. Arc(rx_next, rx_next, n) = {}
      BY <1>1, ArcSteps
    <2>4. QED
      BY <2>2, <2>3
  <1>4. rx_next' # rx_next
    BY SMT, <1>1, <1>2, <1>3 DEF Wrap
  <1>5. RingTyped(rx_ring, rx_next, rdh) /\ RingTyped(rx_ring', rx_next', rdh')
    BY RingIsTyped DEF E1000Inv
  <1>6. EmptiesFirst(rx_ring, rx_next, rdh, rx_ring', rx_next', rx_discard')
    BY <1>2, <1>3, <1>5 DEF EmptiesFirst
  <1>7. /\ Waiting = WaitingOf(rx_ring, rx_next, rdh, rx_discard)
        /\ Waiting' = WaitingOf(rx_ring', rx_next', rdh, rx_discard')
    BY <1>2, WaitingIs
  <1>8. /\ Waiting' \in Seq(S) /\ d.frame \in S
        /\ Waiting = (IF ~rx_discard /\ d.eop /\ d.good THEN <<d.frame>> ELSE <<>>) \o Waiting'
    <2>1. Leaves(WaitingOf(rx_ring, rx_next, rdh, rx_discard), d, rx_discard,
                 WaitingOf(rx_ring', rx_next', rdh, rx_discard'))
      BY <1>6, PolledLeaves
    <2>2. Leaves(Waiting, d, rx_discard, Waiting')
      BY <1>7, <2>1
    <2>3. QED
      BY <2>2 DEF Leaves
  <1>9. CASE ~rx_discard /\ d.eop /\ d.good
    <2>1. Waiting = <<d.frame>> \o Waiting' /\ rx_frame' = d.frame
      BY <1>2, <1>8, <1>9
    <2>2. ASSUME NEW q \in Seq(S), NEW x \in S
          PROVE  <<x>> \o q # <<>> /\ Head(<<x>> \o q) = x /\ Tail(<<x>> \o q) = q
      <3>1. <<x>> \in Seq(S) /\ Len(<<x>>) = 1 /\ <<x>>[1] = x
        BY SMT
      <3>2. QED
        BY SMT, <3>1
    <2>3. Waiting # <<>> /\ Head(Waiting) = d.frame /\ Tail(Waiting) = Waiting'
      BY <1>8, <2>1, <2>2
    <2>4. Stream!Take
      BY <2>1, <2>3 DEF Stream!Take
    <2>5. QED
      BY <1>4, <2>4 DEF FramesMove, FrameStep
  <1>10. CASE ~(~rx_discard /\ d.eop /\ d.good)
    <2>1. Waiting = <<>> \o Waiting' /\ rx_frame' = rx_frame
      BY <1>2, <1>8, <1>10
    <2>2. <<>> \o Waiting' = Waiting'
      BY <1>8, ConcatEmptySeq
    <2>3. QED
      BY <2>1, <2>2 DEF FramesMove
  <1>11. QED
    BY <1>9, <1>10

\* Every step of the driver and of the card.
LEMMA FramesStep ==
  ASSUME E1000Inv, E1000Inv', [E1000Next]_e1000Vars
  PROVE  FramesMove
  <1>1. ASSUME UNCHANGED <<rxVars, rx_frame>> PROVE FramesMove
    <2>1. Waiting' = Waiting
      BY <1>1, WaitingIs DEF rxVars
    <2>2. QED
      BY <1>1, <2>1 DEF FramesMove
  <1>2. CASE e1000_init
    BY <1>1, <1>2 DEF e1000_init
  <1>3. CASE e1000_send
    BY <1>1, <1>3 DEF e1000_send
  <1>4. CASE e1000_send_returns
    BY <1>1, <1>4 DEF e1000_send_returns
  <1>5. CASE CardTransmits
    BY <1>1, <1>5 DEF CardTransmits
  <1>6. CASE CardReceivesAny
    BY <1>6, ReceivePuts
  <1>7. CASE PollsFrame
    BY <1>7, PollTakes
  <1>8. CASE UNCHANGED e1000Vars
    BY <1>1, <1>8 DEF e1000Vars
  <1>9. QED
    BY <1>2, <1>3, <1>4, <1>5, <1>6, <1>7, <1>8 DEF E1000Next

\* After e1000_setup_rx nothing waits.
LEMMA NothingWaits == E1000Init => Waiting = <<>>
  <1> SUFFICES ASSUME E1000Init PROVE Waiting = <<>>
    OBVIOUS
  <1>1. RingTyped(rx_ring, rx_next, rdh)
    BY E1000InitInv, RingIsTyped DEF E1000Inv
  <1>2. FilledOf(rx_next, rdh) = 0
    <2>1. rdh = 0 /\ rx_next = 0
      BY DEF E1000Init, e1000_setup
    <2>2. QED
      BY SMT, <2>1, E1000Assumption DEF FilledOf
  <1>3. WaitingOf(rx_ring, rx_next, rdh, rx_discard) = <<>>
    <2> DEFINE n == FilledOf(rx_next, rdh)
    <2>1. PICK f : /\ Picks(f, Frames \cup {NoFrame}, n, WholeFrom(rx_ring, rx_next, rx_discard, n),
                            FramesFrom(rx_ring, rx_next, n))
                   /\ WaitingOf(rx_ring, rx_next, rdh, rx_discard) = f[n]
      BY <1>1, WaitingPicks
    <2>2. f[0] = <<>>
      BY <2>1 DEF Picks
    <2>3. QED
      BY <1>2, <2>1, <2>2
  <1>4. QED
    BY <1>3, WaitingIs

\* A frame that came whole and without error in one descriptor is returned by
\* e1000_poll once and in order, no part of a longer frame ever is, and only the
\* card puts in, only e1000_poll takes out: for every size of the ring and
\* wherever in a frame the polls fall.
THEOREM FramesInOrder == E1000Spec => [][FrameStep]_<<Waiting, rx_frame>>
  <1>1. E1000Inv /\ E1000Inv' /\ [E1000Next]_e1000Vars => [FrameStep]_<<Waiting, rx_frame>>
    BY FramesStep DEF FramesMove
  <1>2. QED
    BY <1>1, E1000InitInv, E1000StepInv, PTL DEF E1000Spec

\* The receive ring of e1000.c is the bounded queue of Fifo, for every ring size.
THEOREM ReceiveQueue == E1000Spec => Stream!FifoSpec
  <1>1. [FrameStep]_<<Waiting, rx_frame>> => [Stream!FifoNext]_<<Waiting, rx_frame, FALSE>>
    BY DEF FrameStep, Stream!FifoNext
  <1>2. E1000Init => Waiting = <<>> /\ FALSE = FALSE
    BY NothingWaits
  <1>3. QED
    BY <1>1, <1>2, FramesInOrder, PTL DEF E1000Spec, Stream!FifoSpec

-----------------------------------------------------------------------------
(* The SATA driver.                                                        *)

\* The driver is in ahci_read_sectors.
Reading == cpu.pc \in {"tfd", "build", "issue", "poll"}

\* The command the driver is at.
Wanted == [lba |-> cpu.lba, n |-> Xfer, page |-> cpu.page]

\* The types the argument needs.
AhciTyped ==
  /\ ci \in [Ports -> BOOLEAN] /\ tfes \in [Ports -> BOOLEAN] /\ halted \in [Ports -> BOOLEAN]
  /\ DOMAIN cpu = {"pc", "port", "lba", "left", "page", "buf", "asked"} /\ free \subseteq Pages
  /\ DOMAIN table = Ports /\ DOMAIN executing = Ports /\ DOMAIN content = Pages

\* What the driver has got so far and what it still wants is what it was asked
\* for; it holds a page meanwhile.
Progress ==
  /\ cpu.port \in Ports /\ cpu.page \in Pages /\ cpu.lba \in Nat /\ cpu.left \in Nat \ {0}
  /\ cpu.buf \in Seq(Nat) /\ cpu.buf \o Run(cpu.lba, cpu.left) = cpu.asked

\* A port works only on the command that the driver polls for, one that failed
\* works on nothing, and a command that is over has its sectors in the page.
AhciInv ==
  /\ AhciTyped
  /\ cpu.pc \in {"idle", "scan", "stop", "start"} \/ (Reading /\ Progress)
  /\ cpu.pc \in {"scan", "stop", "start"} => cpu.buf = <<>>
  /\ \A p \in Ports : /\ ci[p] /\ ~halted[p] => cpu.pc = "poll" /\ cpu.port = p
                      /\ Busy(p) => ci[p] /\ ~halted[p] /\ executing[p] = table[p]
                      /\ tfes[p] => halted[p]
  /\ cpu.pc \in {"issue", "poll"} => table[cpu.port] = Wanted
  /\ cpu.pc = "poll" /\ ~ci[cpu.port] => content[cpu.page] = Run(cpu.lba, Xfer)
  /\ ReadGenuine

\* The next sectors, and the ones after them.
LEMMA RunSplits ==
  ASSUME NEW lba \in Nat, NEW n \in Nat, NEW m \in Nat, m <= n
  PROVE  /\ Run(lba, n) \in Seq(Nat)
         /\ Run(lba, m) \o Run(lba + m, n - m) = Run(lba, n)
  <1>1. ASSUME NEW b \in Nat, NEW k \in Nat
        PROVE  /\ Run(b, k) \in Seq(Nat) /\ Len(Run(b, k)) = k
               /\ \A i \in 1 .. k : Run(b, k)[i] = (b + i) - 1
    <2>1. \A i \in 1 .. k : (b + i) - 1 \in Nat
      BY SMT
    <2>2. Run(b, k) \in Seq(Nat)
      BY SMT, <2>1, IsASeq DEF Run
    <2>3. Len(Run(b, k)) = k
      BY SMT, <2>2, LenProperties DEF Run
    <2>4. QED
      BY SMT, <2>2, <2>3 DEF Run
  <1> DEFINE a == Run(lba, m)
             b == Run(lba + m, n - m)
             c == Run(lba, n)
  <1>2. lba + m \in Nat /\ n - m \in Nat
    BY SMT
  <1>3. a \in Seq(Nat) /\ Len(a) = m /\ \A i \in 1 .. m : a[i] = (lba + i) - 1
    BY <1>1
  <1>4. b \in Seq(Nat) /\ Len(b) = n - m /\ \A i \in 1 .. n - m : b[i] = ((lba + m) + i) - 1
    BY <1>1, <1>2
  <1>5. c \in Seq(Nat) /\ Len(c) = n /\ \A i \in 1 .. n : c[i] = (lba + i) - 1
    BY <1>1
  <1> HIDE DEF a, b, c
  <1>6. /\ a \o b \in Seq(Nat) /\ Len(a \o b) = Len(a) + Len(b)
        /\ \A i \in 1 .. Len(a) + Len(b) : (a \o b)[i] = IF i <= Len(a) THEN a[i] ELSE b[i - Len(a)]
    BY <1>3, <1>4, ConcatProperties
  <1>7. Len(a) = m /\ Len(a) + Len(b) = n /\ Len(a \o b) = n
    BY SMTT(20), <1>3, <1>4, <1>6
  <1>8. ASSUME NEW i \in 1 .. n PROVE (a \o b)[i] = c[i]
    <2>1. (a \o b)[i] = IF i <= m THEN a[i] ELSE b[i - m]
      BY <1>6, <1>7
    <2>2. CASE i <= m
      BY SMTT(20), <1>3, <1>5, <2>1, <2>2
    <2>3. CASE ~(i <= m)
      <3>1. i - m \in 1 .. n - m /\ ((lba + m) + (i - m)) - 1 = (lba + i) - 1
        BY SMT, <2>3
      <3>2. b[i - m] = (lba + i) - 1
        BY <1>4, <3>1
      <3>3. QED
        BY <1>5, <2>1, <2>3, <3>2
    <2>4. QED
      BY <2>2, <2>3
  <1>9. a \o b = c
    BY <1>5, <1>6, <1>7, <1>8, SeqEqual
  <1>10. QED
    BY <1>5, <1>9 DEF a, b, c

\* What was copied, a command's sectors and the ones after them.
LEMMA Joined ==
  ASSUME NEW b \in Seq(Nat), NEW r \in Seq(Nat), NEW s \in Seq(Nat)
  PROVE  (b \o r) \o s = b \o (r \o s)
  BY SMT

\* A step of the driver that changes only what it is at keeps the rest of its state.
LEMMA MovesOn ==
  ASSUME AhciTyped, NEW s, cpu' = [cpu EXCEPT !.pc = s]
  PROVE  /\ DOMAIN cpu' = DOMAIN cpu /\ cpu'.pc = s
         /\ cpu'.port = cpu.port /\ cpu'.lba = cpu.lba /\ cpu'.left = cpu.left
         /\ cpu'.page = cpu.page /\ cpu'.buf = cpu.buf /\ cpu'.asked = cpu.asked
  BY SMT DEF AhciTyped

\* Going to the next port gets nothing.
LEMMA NextPortGets ==
  ASSUME AhciTyped, NEW p \in Ports, cpu.buf = <<>>, NextPort(p)
  PROVE  /\ DOMAIN cpu' = DOMAIN cpu /\ cpu'.pc \in {"scan", "idle"} /\ cpu'.buf = <<>>
  BY SMT DEF AhciTyped, NextPort, Idle

\* The fields of the driver's state when it returns.
LEMMA ReturnFields ==
  ASSUME NEW buf, Return(buf)
  PROVE  /\ DOMAIN cpu' = {"pc", "port", "lba", "left", "page", "buf", "asked"}
         /\ cpu'.pc = "idle" /\ cpu'.buf = buf /\ cpu'.asked = cpu.asked
  BY SMT DEF Return, Idle

\* While no command is under way, none runs.
LEMMA Quiet ==
  ASSUME AhciInv, cpu.pc # "poll", NEW p \in Ports
  PROVE  ~(ci[p] /\ ~halted[p]) /\ ~Busy(p)
  BY DEF AhciInv

\* Bringing a port up.
LEMMA StartStep ==
  ASSUME AhciInv, NEW p \in Ports, SkipPort(p) \/ port_stop(p) \/ port_init(p) \/ port_start(p)
  PROVE  AhciInv'
  <1>1. AhciTyped /\ cpu.pc \in {"scan", "stop", "start"} /\ cpu.buf = <<>>
    BY DEF AhciInv, SkipPort, port_stop, port_init, port_start, Scanning
  <1>2. /\ UNCHANGED <<content, ci, table, executing, halted>>
        /\ tfes' \in [Ports -> BOOLEAN] /\ \A q \in Ports : tfes'[q] => tfes[q]
        /\ free' \subseteq free
    <2>1. tfes \in [Ports -> BOOLEAN]
      BY <1>1 DEF AhciTyped
    <2>2. CASE SkipPort(p)
      BY <2>1, <2>2 DEF SkipPort, hba
    <2>3. CASE port_stop(p)
      BY <2>1, <2>3 DEF port_stop
    <2>4. CASE port_init(p)
      <3>1. UNCHANGED <<content, ci, table, executing, halted>> /\ free' \subseteq free
        BY <2>4 DEF port_init
      <3>2. PICK link \in BOOLEAN : tfes' = [tfes EXCEPT ![p] = IF link THEN FALSE ELSE @]
        BY <2>4 DEF port_init
      <3>3. tfes' \in [Ports -> BOOLEAN]
        BY <2>1, <3>2
      <3>4. ASSUME NEW q \in Ports, tfes'[q] PROVE tfes[q]
        BY <2>1, <3>2, <3>4
      <3>5. QED
        BY <3>1, <3>3, <3>4
    <2>5. CASE port_start(p)
      BY <2>1, <2>5 DEF port_start
    <2>6. QED
      BY <2>2, <2>3, <2>4, <2>5
  <1>3. /\ DOMAIN cpu' = DOMAIN cpu /\ cpu'.buf = <<>>
        /\ cpu'.pc \in {"idle", "scan", "stop", "start"}
    <2>1. CASE NextPort(p)
      BY <1>1, <2>1, NextPortGets
    <2>2. CASE cpu' = [cpu EXCEPT !.pc = "stop"]
      BY <1>1, <2>2, MovesOn
    <2>3. CASE cpu' = [cpu EXCEPT !.pc = "start"]
      BY <1>1, <2>3, MovesOn
    <2>4. QED
      BY <2>1, <2>2, <2>3 DEF SkipPort, port_stop, port_init, port_start
  <1>4. AhciTyped'
    BY <1>1, <1>2, <1>3 DEF AhciTyped
  <1>5. ASSUME NEW q \in Ports
        PROVE  /\ ~(ci[q] /\ ~halted[q])' /\ ~Busy(q)' /\ (tfes[q] => halted[q])'
    <2>1. ~(ci[q] /\ ~halted[q]) /\ ~Busy(q)
      BY <1>1, Quiet
    <2>2. tfes[q] => halted[q]
      BY DEF AhciInv
    <2>3. QED
      BY <1>2, <2>1, <2>2 DEF Busy
  <1>6. ReadGenuine' /\ cpu'.pc # "issue" /\ cpu'.pc # "poll"
    BY <1>3 DEF ReadGenuine
  <1>7. QED
    BY <1>3, <1>4, <1>5, <1>6 DEF AhciInv

\* What the invariant says of the ports, of a driver that polls nothing.
LEMMA QuietPorts ==
  ASSUME AhciInv, cpu.pc # "poll", UNCHANGED <<ci, tfes, halted, executing>>
  PROVE  \A p \in Ports : /\ ~(ci[p] /\ ~halted[p])' /\ ~Busy(p)' /\ (tfes[p] => halted[p])'
  <1>1. TAKE p \in Ports
  <1>2. ~(ci[p] /\ ~halted[p]) /\ ~Busy(p)
    BY Quiet
  <1>3. tfes[p] => halted[p]
    BY DEF AhciInv
  <1>4. QED
    BY <1>2, <1>3 DEF Busy

\* A read that is refused at once.
LEMMA RefusedStep ==
  ASSUME AhciInv, NEW p \in Ports, ReadRefused(p)
  PROVE  AhciInv'
  <1>1. /\ AhciTyped /\ cpu.pc = "idle" /\ cpu' = Idle
        /\ UNCHANGED <<free, content, ci, tfes, halted, table, executing>>
    BY DEF AhciInv, ReadRefused, hba
  <1>2. \A q \in Ports : /\ ~(ci[q] /\ ~halted[q])' /\ ~Busy(q)' /\ (tfes[q] => halted[q])'
    BY <1>1, QuietPorts
  <1>3. /\ cpu'.pc = "idle" /\ cpu'.buf = <<>>
        /\ DOMAIN cpu' = {"pc", "port", "lba", "left", "page", "buf", "asked"}
    BY SMT, <1>1 DEF Idle
  <1>4. AhciTyped'
    BY <1>1, <1>3 DEF AhciTyped
  <1>5. ReadGenuine'
    BY <1>3 DEF ReadGenuine
  <1>6. QED
    BY <1>2, <1>3, <1>4, <1>5 DEF AhciInv

\* A read that begins.
LEMMA BeginStep ==
  ASSUME AhciInv, NEW p \in Ports, NEW lba \in Sectors, NEW count \in 1 .. MaxCount,
         ahci_read_sectors(p, lba, count)
  PROVE  AhciInv'
  <1>1. /\ AhciTyped /\ cpu.pc = "idle"
        /\ UNCHANGED <<content, ci, tfes, halted, table, executing>>
    BY DEF AhciInv, ahci_read_sectors, hba
  <1>2. \A q \in Ports : /\ ~(ci[q] /\ ~halted[q])' /\ ~Busy(q)' /\ (tfes[q] => halted[q])'
    BY <1>1, QuietPorts
  <1>3. PICK page \in free :
          /\ free' = free \ {page}
          /\ cpu' = [pc |-> "tfd", port |-> p, lba |-> lba, left |-> count,
                     page |-> page, buf |-> <<>>, asked |-> Run(lba, count)]
    BY DEF ahci_read_sectors
  <1>4. /\ cpu'.pc = "tfd" /\ cpu'.port = p /\ cpu'.lba = lba /\ cpu'.left = count
        /\ cpu'.page = page /\ cpu'.buf = <<>> /\ cpu'.asked = Run(lba, count)
        /\ DOMAIN cpu' = {"pc", "port", "lba", "left", "page", "buf", "asked"}
    BY SMT, <1>3
  <1>5. AhciTyped'
    BY <1>1, <1>3, <1>4 DEF AhciTyped
  <1>6. lba \in Nat /\ count \in Nat \ {0}
    BY SMT, AhciAssumption
  <1>7. Run(lba, count) \in Seq(Nat)
    BY SMT, <1>6, RunSplits
  <1>8. <<>> \in Seq(Nat) /\ <<>> \o Run(lba, count) = Run(lba, count)
    BY <1>7, ConcatEmptySeq, EmptySeq
  <1>9. Progress'
    BY <1>1, <1>3, <1>4, <1>6, <1>8 DEF Progress, AhciTyped
  <1>10. QED
    BY <1>2, <1>4, <1>5, <1>9 DEF AhciInv, Reading, ReadGenuine

\* Waiting for the drive to be ready, and writing the command table.
LEMMA PrepareStep ==
  ASSUME AhciInv, spin_tfd \/ BuildCommand
  PROVE  AhciInv'
  <1>1. AhciTyped /\ cpu.pc \in {"tfd", "build"} /\ Progress
    BY DEF AhciInv, spin_tfd, BuildCommand
  <1>2. UNCHANGED <<free, content, ci, tfes, halted, executing>>
    BY DEF spin_tfd, BuildCommand, hba
  <1>3. \A q \in Ports : /\ ~(ci[q] /\ ~halted[q])' /\ ~Busy(q)' /\ (tfes[q] => halted[q])'
    BY <1>1, <1>2, QuietPorts
  <1>4. PICK s \in {"build", "issue"} :
          /\ cpu' = [cpu EXCEPT !.pc = s]
          /\ s = "issue" => BuildCommand
    BY DEF spin_tfd, BuildCommand
  <1>5. /\ DOMAIN cpu' = DOMAIN cpu /\ cpu'.pc = s
        /\ cpu'.port = cpu.port /\ cpu'.lba = cpu.lba /\ cpu'.left = cpu.left
        /\ cpu'.page = cpu.page /\ cpu'.buf = cpu.buf /\ cpu'.asked = cpu.asked
    BY <1>1, <1>4, MovesOn
  <1>6. DOMAIN table' = Ports
    BY <1>1 DEF spin_tfd, BuildCommand, AhciTyped
  <1>7. AhciTyped'
    BY <1>1, <1>2, <1>5, <1>6 DEF AhciTyped
  <1>8. Progress'
    BY <1>1, <1>5 DEF Progress
  <1>9. Wanted' = Wanted
    BY <1>5 DEF Wanted, Xfer
  <1>10. cpu'.pc \in {"issue", "poll"} => table'[cpu'.port] = Wanted'
    <2>1. SUFFICES ASSUME cpu'.pc = "issue" PROVE table'[cpu.port] = Wanted
      BY <1>4, <1>5, <1>9
    <2>2. table' = [table EXCEPT ![cpu.port] = Wanted]
      BY <1>4, <1>5, <2>1 DEF BuildCommand, Wanted
    <2>3. QED
      BY <1>1, <2>2 DEF AhciTyped, Progress
  <1>11. Reading' /\ cpu'.pc # "idle" /\ cpu'.pc # "poll" /\ cpu'.pc \notin {"scan", "stop", "start"}
    BY <1>4, <1>5 DEF Reading
  <1>12. ReadGenuine'
    BY <1>11 DEF ReadGenuine
  <1>13. QED
    BY <1>3, <1>7, <1>8, <1>10, <1>11, <1>12 DEF AhciInv

\* The command is issued; on a port that has stopped it will not be fetched.
LEMMA IssueStep ==
  ASSUME AhciInv, IssueCommand
  PROVE  AhciInv'
  <1>1. AhciTyped /\ cpu.pc = "issue" /\ Progress /\ table[cpu.port] = Wanted
    BY DEF AhciInv, IssueCommand
  <1>2. /\ UNCHANGED <<free, content, table, executing, halted>>
        /\ tfes' = [tfes EXCEPT ![cpu.port] = FALSE] /\ ci' = [ci EXCEPT ![cpu.port] = TRUE]
        /\ cpu' = [cpu EXCEPT !.pc = "poll"]
    BY DEF IssueCommand
  <1>3. /\ DOMAIN cpu' = DOMAIN cpu /\ cpu'.pc = "poll"
        /\ cpu'.port = cpu.port /\ cpu'.lba = cpu.lba /\ cpu'.left = cpu.left
        /\ cpu'.page = cpu.page /\ cpu'.buf = cpu.buf /\ cpu'.asked = cpu.asked
    BY <1>1, <1>2, MovesOn
  <1>4. AhciTyped'
    BY <1>1, <1>2, <1>3 DEF AhciTyped
  <1>5. Progress' /\ Reading'
    BY <1>1, <1>3 DEF Progress, Reading
  <1>6. table'[cpu'.port] = Wanted'
    BY <1>1, <1>2, <1>3 DEF Wanted, Xfer
  <1>7. ci'[cpu'.port]
    BY <1>1, <1>2, <1>3 DEF AhciTyped, Progress
  <1>8. ASSUME NEW q \in Ports
        PROVE  /\ (ci[q] /\ ~halted[q])' => cpu'.pc = "poll" /\ cpu'.port = q
               /\ ~Busy(q)' /\ (tfes[q] => halted[q])'
    <2>1. ~(ci[q] /\ ~halted[q]) /\ ~Busy(q)
      BY <1>1, Quiet
    <2>2. tfes[q] => halted[q]
      BY DEF AhciInv
    <2>3. CASE q = cpu.port
      BY <1>1, <1>2, <1>3, <2>1, <2>3 DEF AhciTyped, Busy
    <2>4. CASE q # cpu.port
      <3>1. ci'[q] = ci[q] /\ tfes'[q] = tfes[q]
        BY <1>1, <1>2, <2>4 DEF AhciTyped
      <3>2. QED
        BY <1>2, <2>1, <2>2, <3>1 DEF Busy
    <2>5. QED
      BY <2>3, <2>4
  <1>9. QED
    BY <1>3, <1>4, <1>5, <1>6, <1>7, <1>8 DEF AhciInv, ReadGenuine

\* A read that gives up: had the controller not been in time, the port could
\* still be at the command.
LEMMA FailStep ==
  ASSUME AhciInv, InTime', SpinTimeout \/ PollError \/ PollTimeout
  PROVE  AhciInv'
  <1>1. AhciTyped /\ Progress
    BY DEF AhciInv, SpinTimeout, PollError, PollTimeout
  <1>2. /\ UNCHANGED <<content, ci, tfes, halted, table, executing>>
        /\ free' = free \cup {cpu.page} /\ Return(<<>>)
    BY DEF SpinTimeout, PollError, PollTimeout, Fail, hba
  <1>3. /\ DOMAIN cpu' = {"pc", "port", "lba", "left", "page", "buf", "asked"}
        /\ cpu'.pc = "idle" /\ cpu'.buf = <<>>
    BY <1>2, ReturnFields
  <1>4. AhciTyped'
    BY <1>1, <1>2, <1>3 DEF AhciTyped, Progress
  <1>5. ASSUME NEW q \in Ports
        PROVE  /\ ~(ci[q] /\ ~halted[q])' /\ ~Busy(q)' /\ (tfes[q] => halted[q])'
    <2>1. ~(ci[q] /\ ~halted[q])' /\ ~Busy(q)'
      BY <1>3 DEF InTime
    <2>2. tfes[q] => halted[q]
      BY DEF AhciInv
    <2>3. QED
      BY <1>2, <2>1, <2>2
  <1>6. ReadGenuine'
    BY <1>3 DEF ReadGenuine
  <1>7. QED
    BY <1>3, <1>4, <1>5, <1>6 DEF AhciInv

\* The command is over: its sectors are copied out of the page.
LEMMA DoneStep ==
  ASSUME AhciInv, PollDone
  PROVE  AhciInv'
  <1> DEFINE copied == cpu.buf \o content[cpu.page]
  <1>1. /\ AhciTyped /\ Progress /\ cpu.pc = "poll" /\ ~ci[cpu.port]
        /\ content[cpu.page] = Run(cpu.lba, Xfer)
    BY DEF AhciInv, PollDone
  <1>2. UNCHANGED <<content, ci, tfes, halted, table, executing>>
    BY DEF PollDone, hba
  <1>3. ASSUME NEW q \in Ports
        PROVE  /\ ~(ci[q] /\ ~halted[q])' /\ ~Busy(q)' /\ (tfes[q] => halted[q])'
    <2>1. /\ ci[q] /\ ~halted[q] => cpu.port = q
          /\ Busy(q) => ci[q] /\ ~halted[q]
          /\ tfes[q] => halted[q]
      BY DEF AhciInv
    <2>2. ~(ci[q] /\ ~halted[q]) /\ ~Busy(q)
      BY <1>1, <2>1
    <2>3. QED
      BY <1>2, <2>1, <2>2 DEF Busy
  <1>4. Xfer \in Nat /\ Xfer <= cpu.left /\ (~(cpu.left > Xfer) => Xfer = cpu.left)
    BY SMT, <1>1, AhciAssumption DEF Xfer, Progress
  <1>5. /\ Run(cpu.lba, cpu.left) = Run(cpu.lba, Xfer) \o Run(cpu.lba + Xfer, cpu.left - Xfer)
        /\ Run(cpu.lba, Xfer) \in Seq(Nat)
    <2>1. cpu.lba \in Nat /\ cpu.left \in Nat
      BY <1>1 DEF Progress
    <2>2. Xfer <= Xfer
      BY SMT, <1>4
    <2>3. QED
      BY <1>4, <2>1, <2>2, RunSplits
  <1>6. CASE cpu.left > Xfer
    <2>1. /\ cpu' = [cpu EXCEPT !.pc = "tfd", !.buf = copied, !.lba = @ + Xfer, !.left = @ - Xfer]
          /\ free' = free
      BY <1>6 DEF PollDone
    <2>2. /\ DOMAIN cpu' = DOMAIN cpu /\ cpu'.pc = "tfd" /\ cpu'.buf = copied
          /\ cpu'.lba = cpu.lba + Xfer /\ cpu'.left = cpu.left - Xfer
          /\ cpu'.port = cpu.port /\ cpu'.page = cpu.page /\ cpu'.asked = cpu.asked
      <3> HIDE DEF copied
      <3>1. QED
        BY SMT, <1>1, <2>1 DEF AhciTyped
    <2>3. AhciTyped'
      BY <1>1, <1>2, <2>1, <2>2 DEF AhciTyped
    <2>4. cpu.lba + Xfer \in Nat /\ cpu.left - Xfer \in Nat \ {0}
      BY SMT, <1>1, <1>4, <1>6 DEF Progress
    <2>5. Run(cpu.lba + Xfer, cpu.left - Xfer) \in Seq(Nat)
      <3>1. cpu.left - Xfer <= cpu.left - Xfer
        BY SMT, <2>4
      <3>2. QED
        BY <2>4, <3>1, RunSplits
    <2>6. /\ copied \in Seq(Nat)
          /\ copied \o Run(cpu.lba + Xfer, cpu.left - Xfer) = cpu.buf \o Run(cpu.lba, cpu.left)
      <3>1. cpu.buf \in Seq(Nat)
        BY <1>1 DEF Progress
      <3>2. copied = cpu.buf \o Run(cpu.lba, Xfer)
        BY <1>1
      <3>3. copied \in Seq(Nat)
        BY <1>5, <3>1, <3>2, ConcatProperties
      <3>4. (cpu.buf \o Run(cpu.lba, Xfer)) \o Run(cpu.lba + Xfer, cpu.left - Xfer)
              = cpu.buf \o (Run(cpu.lba, Xfer) \o Run(cpu.lba + Xfer, cpu.left - Xfer))
        BY <1>5, <2>5, <3>1, Joined
      <3>5. QED
        BY <1>5, <3>2, <3>3, <3>4
    <2>7. Progress'
      <3> HIDE DEF copied
      <3>1. QED
        BY <1>1, <2>2, <2>4, <2>6 DEF Progress
    <2>8. QED
      BY <1>3, <2>2, <2>3, <2>7 DEF AhciInv, Reading, ReadGenuine
  <1>7. CASE ~(cpu.left > Xfer)
    <2>1. free' = free \cup {cpu.page} /\ Return(copied)
      BY <1>7 DEF PollDone
    <2>2. /\ DOMAIN cpu' = {"pc", "port", "lba", "left", "page", "buf", "asked"}
          /\ cpu'.pc = "idle" /\ cpu'.buf = copied /\ cpu'.asked = cpu.asked
      BY <2>1, ReturnFields
    <2>3. copied = cpu.asked
      BY <1>1, <1>4, <1>7 DEF Progress
    <2>4. AhciTyped'
      BY <1>1, <1>2, <2>1, <2>2 DEF AhciTyped, Progress
    <2>5. ReadGenuine'
      BY <2>2, <2>3 DEF ReadGenuine
    <2>6. QED
      BY <1>3, <2>2, <2>4, <2>5 DEF AhciInv
  <1>8. QED
    BY <1>6, <1>7

\* The port fetches the command, ends it or fails it.
LEMMA PortStep ==
  ASSUME AhciInv, NEW p \in Ports,
         PortStops(p) \/ PortFetches(p) \/ PortCompletes(p) \/ PortFails(p)
  PROVE  AhciInv'
  <1>1. AhciTyped /\ UNCHANGED <<free, table, cpu>>
    BY DEF AhciInv, PortStops, PortFetches, PortCompletes, PortFails
  <1>2. ASSUME NEW q \in Ports
        PROVE  /\ ci[q] /\ ~halted[q] => cpu.pc = "poll" /\ cpu.port = q
               /\ Busy(q) => ci[q] /\ ~halted[q] /\ executing[q] = table[q]
               /\ tfes[q] => halted[q]
    BY DEF AhciInv
  <1>3. Wanted' = Wanted /\ (Progress => Progress') /\ (Reading => Reading')
    BY <1>1 DEF Wanted, Xfer, Progress, Reading
  <1>4. ReadGenuine'
    BY <1>1 DEF AhciInv, ReadGenuine
  <1> DEFINE PortOK(q) == /\ ci[q] /\ ~halted[q] => cpu.pc = "poll" /\ cpu.port = q
                          /\ Busy(q) => ci[q] /\ ~halted[q] /\ executing[q] = table[q]
                          /\ tfes[q] => halted[q]
             Page == cpu.pc = "poll" /\ ~ci[cpu.port] => content[cpu.page] = Run(cpu.lba, Xfer)
  <1>5. SUFFICES AhciTyped' /\ (\A q \in Ports : PortOK(q)') /\ Page'
    BY <1>1, <1>3, <1>4 DEF AhciInv, Wanted
  <1>6. CASE PortStops(p)
    <2>1. UNCHANGED <<content, ci, tfes, executing, halted>>
      BY <1>6 DEF PortStops
    <2>2. AhciTyped'
      BY <1>1, <2>1 DEF AhciTyped
    <2>3. Page'
      BY <1>1, <2>1 DEF AhciInv, Xfer
    <2>4. QED
      BY <1>1, <1>2, <2>1, <2>2, <2>3 DEF Busy
  <1>7. CASE PortFetches(p)
    <2>1. /\ UNCHANGED <<content, ci, tfes, halted>> /\ ci[p] /\ ~halted[p]
          /\ executing' = [executing EXCEPT ![p] = table[p]]
      BY <1>7 DEF PortFetches
    <2>2. AhciTyped'
      BY <1>1, <2>1 DEF AhciTyped
    <2>3. Page'
      BY <1>1, <2>1 DEF AhciInv, Xfer
    <2>4. ASSUME NEW q \in Ports PROVE PortOK(q)'
      <3>1. CASE q = p
        <4>1. executing'[q] = table[q]
          BY <1>1, <2>1, <3>1 DEF AhciTyped
        <4>2. QED
          BY <1>1, <1>2, <2>1, <3>1, <4>1
      <3>2. CASE q # p
        <4>1. executing'[q] = executing[q]
          BY <1>1, <2>1, <3>2 DEF AhciTyped
        <4>2. QED
          BY <1>1, <1>2, <2>1, <4>1 DEF Busy
      <3>3. QED
        BY <3>1, <3>2
    <2>5. QED
      BY <2>2, <2>3, <2>4
  <1>8. CASE PortCompletes(p)
    <2>1. /\ UNCHANGED <<tfes, halted>> /\ Busy(p)
          /\ content' = [content EXCEPT ![executing[p].page] = Run(executing[p].lba, executing[p].n)]
          /\ executing' = [executing EXCEPT ![p] = NoCommand] /\ ci' = [ci EXCEPT ![p] = FALSE]
      BY <1>8 DEF PortCompletes
    <2>2. cpu.pc = "poll" /\ cpu.port = p /\ executing[p] = Wanted
      BY <1>2, <2>1 DEF AhciInv
    <2>3. AhciTyped'
      BY <1>1, <2>1 DEF AhciTyped
    <2>4. Page'
      <3>1. cpu.page \in DOMAIN content
        BY <1>1, <2>2 DEF AhciInv, AhciTyped, Progress
      <3>2. Wanted.page = cpu.page /\ Wanted.lba = cpu.lba /\ Wanted.n = Xfer
        BY SMT DEF Wanted
      <3>3. content'[cpu.page] = Run(cpu.lba, Xfer)
        BY <2>1, <2>2, <3>1, <3>2
      <3>4. QED
        BY <1>1, <3>3 DEF Xfer
    <2>5. ASSUME NEW q \in Ports PROVE PortOK(q)'
      <3>1. CASE q = p
        <4>1. executing'[q] = NoCommand /\ ~ci'[q]
          BY <1>1, <2>1, <3>1 DEF AhciTyped
        <4>2. QED
          BY <1>2, <2>1, <4>1 DEF Busy
      <3>2. CASE q # p
        <4>1. executing'[q] = executing[q] /\ ci'[q] = ci[q]
          BY <1>1, <2>1, <3>2 DEF AhciTyped
        <4>2. QED
          BY <1>1, <1>2, <2>1, <4>1 DEF Busy
      <3>3. QED
        BY <3>1, <3>2
    <2>6. QED
      BY <2>3, <2>4, <2>5
  <1>9. CASE PortFails(p)
    <2>1. /\ UNCHANGED <<content, ci>> /\ Busy(p)
          /\ executing' = [executing EXCEPT ![p] = NoCommand]
          /\ tfes' = [tfes EXCEPT ![p] = TRUE] /\ halted' = [halted EXCEPT ![p] = TRUE]
      BY <1>9 DEF PortFails
    <2>2. AhciTyped'
      BY <1>1, <2>1 DEF AhciTyped
    <2>3. Page'
      BY <1>1, <2>1 DEF AhciInv, Xfer
    <2>4. ASSUME NEW q \in Ports PROVE PortOK(q)'
      <3>1. CASE q = p
        <4>1. executing'[q] = NoCommand /\ halted'[q]
          BY <1>1, <2>1, <3>1 DEF AhciTyped
        <4>2. QED
          BY <4>1 DEF Busy
      <3>2. CASE q # p
        <4>1. executing'[q] = executing[q] /\ tfes'[q] = tfes[q] /\ halted'[q] = halted[q]
          BY <1>1, <2>1, <3>2 DEF AhciTyped
        <4>2. QED
          BY <1>1, <1>2, <2>1, <4>1 DEF Busy
      <3>3. QED
        BY <3>1, <3>2
    <2>5. QED
      BY <2>2, <2>3, <2>4
  <1>10. QED
    BY <1>6, <1>7, <1>8, <1>9

\* A page that another part of the kernel had meanwhile.
LEMMA ReusedStep ==
  ASSUME AhciInv, NEW page \in Pages, PageReused(page)
  PROVE  AhciInv'
  <1>1. /\ cpu.pc = "idle" /\ UNCHANGED <<free, table, ci, tfes, executing, halted, cpu>>
        /\ content' = [content EXCEPT ![page] = <<>>]
    BY DEF PageReused, hba
  <1>2. AhciTyped'
    BY <1>1 DEF AhciInv, AhciTyped
  <1>3. \A q \in Ports : /\ ~(ci[q] /\ ~halted[q])' /\ ~Busy(q)' /\ (tfes[q] => halted[q])'
    BY <1>1, QuietPorts
  <1>4. ReadGenuine'
    BY <1>1 DEF AhciInv, ReadGenuine
  <1>5. QED
    BY <1>1, <1>2, <1>3, <1>4 DEF AhciInv

\* The invariant, in a behaviour in which the controller answers in time.
LEMMA AhciInvariant == AhciSpec /\ []InTime => []AhciInv
  <1>1. AhciInit => AhciInv
    <2> SUFFICES ASSUME AhciInit PROVE AhciInv
      OBVIOUS
    <2>1. /\ cpu.pc = "scan" /\ cpu.buf = <<>>
          /\ DOMAIN cpu = {"pc", "port", "lba", "left", "page", "buf", "asked"}
      BY SMT DEF AhciInit, Idle
    <2>2. AhciTyped
      BY <2>1 DEF AhciInit, AhciTyped
    <2>3. \A p \in Ports : ~ci[p] /\ ~tfes[p] /\ ~Busy(p)
      BY DEF AhciInit, Busy
    <2>4. QED
      BY <2>1, <2>2, <2>3 DEF AhciInv, ReadGenuine
  <1>2. AhciInv /\ InTime' /\ [AhciNext]_ahciVars => AhciInv'
    <2> SUFFICES ASSUME AhciInv, InTime', [AhciNext]_ahciVars PROVE AhciInv'
      OBVIOUS
    <2>1. CASE AhciStart
      BY <2>1, StartStep DEF AhciStart
    <2>2. CASE AhciRead
      <3>1. ASSUME NEW p \in Ports, ReadRefused(p) PROVE AhciInv'
        BY <3>1, RefusedStep
      <3>2. ASSUME NEW p \in Ports, NEW lba \in Sectors, NEW count \in 1 .. MaxCount,
                   ahci_read_sectors(p, lba, count)
            PROVE  AhciInv'
        BY <3>2, BeginStep
      <3>3. CASE spin_tfd \/ BuildCommand
        BY <3>3, PrepareStep
      <3>4. CASE IssueCommand
        BY <3>4, IssueStep
      <3>5. CASE SpinTimeout \/ PollError \/ PollTimeout
        BY <3>5, FailStep
      <3>6. CASE PollDone
        BY <3>6, DoneStep
      <3>7. QED
        BY <2>2, <3>1, <3>2, <3>3, <3>4, <3>5, <3>6 DEF AhciRead
    <2>3. CASE \E p \in Ports : PortStops(p) \/ PortFetches(p) \/ PortCompletes(p) \/ PortFails(p)
      BY <2>3, PortStep
    <2>4. CASE \E page \in Pages : PageReused(page)
      BY <2>4, ReusedStep
    <2>5. CASE UNCHANGED ahciVars
      BY <2>5 DEF ahciVars, AhciInv, AhciTyped, Reading, Progress, Wanted, Xfer, Busy, ReadGenuine
    <2>6. QED
      BY <2>1, <2>2, <2>3, <2>4, <2>5 DEF AhciNext
  <1>3. QED
    BY <1>1, <1>2, PTL DEF AhciSpec

\* A read that ahci_read_sectors reports as done delivered the sectors asked for,
\* all of them and in order, for every number of ports, pages and sectors and
\* whatever failed before, as long as the controller answers within the polls.
THEOREM ReadsGenuine == AhciSpec /\ []InTime => []ReadGenuine
  <1>1. AhciInv => ReadGenuine
    BY DEF AhciInv
  <1>2. QED
    BY <1>1, AhciInvariant, PTL

\* The controller writes only to the page that ahci_read_sectors holds at that
\* time, as long as it answers within the polls.
THEOREM DmaHitsOwnPage == AhciSpec /\ []InTime => DmaOwned
  <1> DEFINE Hits == \A p \in Ports : PortCompletes(p) => executing[p].page = cpu.page
  <1>1. AhciInv => [Hits]_ahciVars
    <2> SUFFICES ASSUME AhciInv, NEW p \in Ports, PortCompletes(p)
                 PROVE  executing[p].page = cpu.page
      OBVIOUS
    <2>1. executing[p] = Wanted
      BY DEF AhciInv, PortCompletes
    <2>2. QED
      BY SMT, <2>1 DEF Wanted
  <1>2. QED
    BY <1>1, AhciInvariant, PTL DEF DmaOwned

-----------------------------------------------------------------------------
(* /dev/net over the rings.                                                *)

\* The requests /dev/net sends, the replies to them, and what may be in the
\* receive ring.
Requests ==
  [type : {"arp?", "echo?"}, ip : Ips \cup {NoFrame}, seq : Nat, ours : BOOLEAN, valid : BOOLEAN]
Replies ==
  [type : {"arp", "echo"}, ip : Ips \cup {NoFrame}, seq : Nat, ours : BOOLEAN, valid : BOOLEAN]
Arriving == Replies \cup Strays

\* The echo a result reports is among the answers A.
Genuine(r, A) == r.rc = "ok" => Reply(EchoRequest(r.ip, r.seq)) \in A

\* The transmit ring holds requests, the receive ring what hosts have answered
\* and strays.
SendsRequests ==
  /\ TxTyped(Requests) /\ TxOwnership
  /\ \A i \in 0 .. TX_RING - 1 : ~tx_ring[i].dd => tx_ring[i].frame \in Requests
GetsAnswers(A) ==
  /\ RxTyped(Arriving) /\ RxOwnership
  /\ \A i \in 0 .. RX_RING - 1 : rx_ring[i].dd => rx_ring[i].frame \in A \cup Strays

\* The result that is ready is its owner's, and so is what each task has read.
Told(A) ==
  /\ DOMAIN got = Pids
  /\ result_state = "ready" => result.pid = open_owner /\ Genuine(result, A)
  /\ \A p \in Pids : got[p].rc # "none" => got[p].pid = p /\ Genuine(got[p], A)

\* A read that runs a command is its owner's: nobody else writes meanwhile.
NetInv ==
  /\ SendsRequests /\ GetsAnswers(answers) /\ Told(answers)
  /\ answers \subseteq Replies
  /\ result_addr \in Ips \cup {NoFrame} /\ seq \in Nat /\ seq_next \in Nat
  /\ npc # "idle" => open_owner \in Pids

\* Both kinds of request are requests.
LEMMA RequestKinds ==
  ASSUME NEW ip \in Ips \cup {NoFrame}, NEW s \in Nat
  PROVE  ArpRequest(ip) \in Requests /\ EchoRequest(ip, s) \in Requests
  BY SMTT(20) DEF ArpRequest, EchoRequest, Requests

\* What answers a request is a reply.
LEMMA ReplyKinds ==
  ASSUME NEW f \in Requests
  PROVE  Reply(f) \in Replies
  <1> DEFINE t == IF f.type = "arp?" THEN "arp" ELSE "echo"
  <1>1. Reply(f) = [type |-> t, ip |-> f.ip, seq |-> f.seq, ours |-> f.ours, valid |-> f.valid]
    BY SMT DEF Reply, Requests
  <1>2. f.ip \in Ips \cup {NoFrame} /\ f.seq \in Nat /\ f.ours \in BOOLEAN /\ f.valid \in BOOLEAN
    BY DEF Requests
  <1>3. t \in {"arp", "echo"}
    OBVIOUS
  <1> HIDE DEF t
  <1>4. QED
    BY SMTT(20), <1>1, <1>2, <1>3 DEF Replies

\* The reply to an echo.
LEMMA EchoReply ==
  ASSUME NEW ip, NEW s
  PROVE  Reply(EchoRequest(ip, s))
           = [type |-> "echo", ip |-> ip, seq |-> s, ours |-> TRUE, valid |-> TRUE]
  <1> DEFINE e == [type |-> "echo?", ip |-> ip, seq |-> s, ours |-> TRUE, valid |-> TRUE]
  <1>1. e.type # "arp?"
    BY SMT
  <1>2. [e EXCEPT !.type = "echo"]
          = [type |-> "echo", ip |-> ip, seq |-> s, ours |-> TRUE, valid |-> TRUE]
    <2>1. ASSUME NEW o, NEW v
          PROVE  [[type |-> "echo?", ip |-> ip, seq |-> s, ours |-> o, valid |-> v] EXCEPT !.type = "echo"]
                   = [type |-> "echo", ip |-> ip, seq |-> s, ours |-> o, valid |-> v]
      BY SMT
    <2>2. QED
      BY <2>1
  <1>3. QED
    BY <1>1, <1>2 DEF Reply, EchoRequest

\* An echo reply that is for us and valid is the reply to the echo with its
\* address and number; no stray is.
LEMMA EchoOfRequest ==
  ASSUME NEW A, A \subseteq Replies, NEW f \in A \cup Strays,
         f.type = "echo", f.valid, f.ours
  PROVE  f \in A /\ f = Reply(EchoRequest(f.ip, f.seq))
  <1>1. f \notin Strays
    <2> SUFFICES ASSUME f \in Strays PROVE FALSE
      OBVIOUS
    <2>1. PICK ip \in Hosts, ours \in BOOLEAN :
            f = [type |-> "echo", ip |-> ip, seq |-> 1, ours |-> ours, valid |-> ~ours]
      BY SMT DEF Strays
    <2>2. CASE ours = TRUE
      <3>1. f.valid = FALSE
        BY <2>1, <2>2
      <3>2. QED
        BY <3>1
    <2>3. CASE ours = FALSE
      <3>1. f.ours = FALSE
        BY <2>1, <2>3
      <3>2. QED
        BY <3>1
    <2>4. QED
      BY <2>2, <2>3
  <1>2. f \in Replies
    BY <1>1
  <1>3. Reply(EchoRequest(f.ip, f.seq))
          = [type |-> "echo", ip |-> f.ip, seq |-> f.seq, ours |-> TRUE, valid |-> TRUE]
    BY EchoReply
  <1>4. f = [type |-> f.type, ip |-> f.ip, seq |-> f.seq, ours |-> f.ours, valid |-> f.valid]
    BY SMT, <1>2 DEF Replies
  <1>5. f.ours = TRUE /\ f.valid = TRUE
    <2>1. f.ours \in BOOLEAN /\ f.valid \in BOOLEAN
      BY <1>2 DEF Replies
    <2>2. QED
      BY <2>1
  <1>6. QED
    BY <1>1, <1>3, <1>4, <1>5

\* A request put into the transmit ring.
LEMMA FillSends ==
  ASSUME NEW f \in Requests, SendsRequests, Fill(f)
  PROVE  SendsRequests'
  <1>1. TxTyped(Requests)' /\ TxOwnership'
    BY FillOwnership DEF SendsRequests
  <1>2. /\ tx_ring' = [tx_ring EXCEPT ![tx_tail] = [dd |-> FALSE, frame |-> f]]
        /\ tx_tail \in 0 .. TX_RING - 1 /\ DOMAIN tx_ring = 0 .. TX_RING - 1
    BY DEF Fill, SendsRequests, TxTyped
  <1>3. ASSUME NEW i \in 0 .. TX_RING - 1, ~tx_ring'[i].dd PROVE tx_ring'[i].frame \in Requests
    <2>1. CASE i = tx_tail
      BY SMTT(20), <1>2, <2>1
    <2>2. CASE i # tx_tail
      BY <1>2, <1>3, <2>2 DEF SendsRequests
    <2>3. QED
      BY <2>1, <2>2
  <1>4. QED
    BY <1>1, <1>3 DEF SendsRequests

\* e1000_send returns, or the ring is left alone.
LEMMA ReturnSends ==
  ASSUME SendsRequests, UNCHANGED <<tx_ring, tdh, tx_tail>>, tx_slot' \in {tx_slot, TX_RING}
  PROVE  SendsRequests'
  <1>1. tx_slot' \in 0 .. TX_RING
    BY SMT, E1000Assumption DEF SendsRequests, TxTyped
  <1>2. QED
    BY <1>1 DEF SendsRequests, TxTyped, TxOwnership

\* The card sends what is at TDH, which is a request.
LEMMA CardSendsRequest ==
  ASSUME SendsRequests, CardSends
  PROVE  SendsRequests' /\ tx_ring[tdh].frame \in Requests
  <1>1. TxTyped(Requests)' /\ TxOwnership'
    BY CardSendsOwnership DEF SendsRequests
  <1>2. /\ tx_ring' = [tx_ring EXCEPT ![tdh] = [dd |-> TRUE, frame |-> NoFrame]]
        /\ tdh \in 0 .. TX_RING - 1 /\ tx_tail \in 0 .. TX_RING - 1 /\ tdh # tx_tail
        /\ DOMAIN tx_ring = 0 .. TX_RING - 1
    BY DEF CardSends, SendsRequests, TxTyped
  <1>3. ~tx_ring[tdh].dd
    <2>1. Between(tdh, tx_tail, TX_RING) = Arc(tdh, tx_tail, TX_RING)
      BY <1>2, BetweenIsArc, E1000Assumption
    <2>2. tdh \in Arc(tdh, tx_tail, TX_RING)
      BY SMT, <1>2, E1000Assumption DEF Arc
    <2>3. QED
      BY <1>2, <2>1, <2>2 DEF SendsRequests, TxOwnership
  <1>4. ASSUME NEW i \in 0 .. TX_RING - 1, ~tx_ring'[i].dd PROVE tx_ring'[i].frame \in Requests
    <2>1. CASE i = tdh
      BY SMTT(20), <1>2, <1>4, <2>1
    <2>2. CASE i # tdh
      BY <1>2, <1>4, <2>2 DEF SendsRequests
    <2>3. QED
      BY <2>1, <2>2
  <1>5. QED
    BY <1>1, <1>2, <1>3, <1>4 DEF SendsRequests

\* A frame of the network arrives.
LEMMA DeliverGets ==
  ASSUME answers \subseteq Replies, NEW f \in answers \cup Strays, GetsAnswers(answers),
         CardReceives(f, TRUE, TRUE), answers' = answers
  PROVE  GetsAnswers(answers)'
  <1>1. f \in Arriving
    BY DEF Arriving
  <1>2. RxTyped(Arriving)' /\ RxOwnership'
    BY <1>1, CardReceivesOwnership DEF GetsAnswers
  <1>3. /\ rx_ring' = [rx_ring EXCEPT ![rdh] = Desc(TRUE, TRUE, TRUE, f)]
        /\ rdh \in 0 .. RX_RING - 1 /\ DOMAIN rx_ring = 0 .. RX_RING - 1
    BY DEF CardReceives, GetsAnswers, RxTyped
  <1>4. ASSUME NEW i \in 0 .. RX_RING - 1, rx_ring'[i].dd
        PROVE  rx_ring'[i].frame \in answers \cup Strays
    <2>1. CASE i = rdh
      BY <1>3, <2>1 DEF Desc
    <2>2. CASE i # rdh
      BY <1>3, <1>4, <2>2 DEF GetsAnswers
    <2>3. QED
      BY <2>1, <2>2
  <1>5. QED
    BY <1>2, <1>4 DEF GetsAnswers

\* e1000_poll, or a step that leaves the receive ring alone, while hosts may answer.
LEMMA PollGets ==
  ASSUME GetsAnswers(answers), answers \subseteq answers', e1000_poll \/ UNCHANGED rxVars
  PROVE  GetsAnswers(answers)'
  <1>1. CASE e1000_poll
    <2>1. RxTyped(Arriving)' /\ RxOwnership'
      BY <1>1, PollOwnership DEF GetsAnswers
    <2>2. /\ rx_ring' = [rx_ring EXCEPT ![rx_next] = Empty]
          /\ rx_next \in 0 .. RX_RING - 1 /\ DOMAIN rx_ring = 0 .. RX_RING - 1
      BY <1>1 DEF e1000_poll, GetsAnswers, RxTyped
    <2>3. ASSUME NEW i \in 0 .. RX_RING - 1, rx_ring'[i].dd
          PROVE  rx_ring'[i].frame \in answers' \cup Strays
      <3>1. CASE i = rx_next
        BY <2>2, <2>3, <3>1 DEF Empty, Desc
      <3>2. CASE i # rx_next
        BY <2>2, <2>3, <3>2 DEF GetsAnswers
      <3>3. QED
        BY <3>1, <3>2
    <2>4. QED
      BY <2>1, <2>3 DEF GetsAnswers
  <1>2. CASE UNCHANGED rxVars
    <2>1. RxTyped(Arriving)' /\ RxOwnership'
      BY <1>2, RingsUntouched DEF GetsAnswers
    <2>2. rx_ring' = rx_ring
      BY <1>2 DEF rxVars
    <2>3. QED
      BY <2>1, <2>2 DEF GetsAnswers
  <1>3. QED
    BY <1>1, <1>2

\* What was told stays true while hosts may answer.
LEMMA ToldKept ==
  ASSUME Told(answers), answers \subseteq answers', UNCHANGED got,
         result_state' = "ready" => result_state = "ready" /\ UNCHANGED <<result, open_owner>>
  PROVE  Told(answers)'
  <1>1. DOMAIN got' = Pids
    BY DEF Told
  <1>2. ASSUME result_state' = "ready" PROVE result'.pid = open_owner' /\ Genuine(result', answers')
    BY <1>2 DEF Told, Genuine
  <1>3. ASSUME NEW p \in Pids, got'[p].rc # "none" PROVE got'[p].pid = p /\ Genuine(got'[p], answers')
    BY <1>3 DEF Told, Genuine
  <1>4. QED
    BY <1>1, <1>2, <1>3 DEF Told, Genuine

\* A result given to its owner.
LEMMA GotTold ==
  ASSUME Told(answers), answers' = answers, NEW p \in Pids, NEW r, r.pid = p, Genuine(r, answers),
         got' = [got EXCEPT ![p] = r], open_owner' = p,
         result_state' = "ready" => result' = r
  PROVE  Told(answers)'
  <1>1. DOMAIN got' = Pids
    BY DEF Told
  <1>2. ASSUME NEW q \in Pids, got'[q].rc # "none" PROVE got'[q].pid = q /\ Genuine(got'[q], answers')
    <2>1. CASE q = p
      <3>1. got'[q] = r
        BY <2>1 DEF Told
      <3>2. QED
        BY <2>1, <3>1
    <2>2. CASE q # p
      <3>1. got'[q] = got[q]
        BY <2>2 DEF Told
      <3>2. QED
        BY <1>2, <3>1 DEF Told
    <2>3. QED
      BY <2>1, <2>2
  <1>3. result_state' = "ready" => result'.pid = open_owner' /\ Genuine(result', answers')
    OBVIOUS
  <1>4. QED
    BY <1>1, <1>2, <1>3 DEF Told, Genuine

\* The end of a command: its result is its owner's.
LEMMA FinishTold ==
  ASSUME Told(answers), answers' = answers, open_owner \in Pids, NEW rc,
         rc = "ok" => Reply(EchoRequest(result_addr, seq)) \in answers,
         Finish(Outcome(open_owner, rc))
  PROVE  Told(answers)' /\ UNCHANGED <<result_addr, open_owner>>
  <1> DEFINE r == Outcome(open_owner, rc)
  <1>1. r.pid = open_owner /\ r.rc = rc /\ r.ip = result_addr /\ r.seq = seq
    BY DEF Outcome
  <1>2. Genuine(r, answers)
    BY <1>1 DEF Genuine
  <1>3. got' = [got EXCEPT ![open_owner] = r] /\ open_owner' = open_owner /\ result' = r
    BY DEF Finish
  <1> HIDE DEF r
  <1>4. Told(answers)'
    BY <1>1, <1>2, <1>3, GotTold
  <1>5. QED
    BY <1>4 DEF Finish

\* An exchange goes on, is tried again, or fails.
LEMMA NoAnswerTold ==
  ASSUME Told(answers), answers' = answers, open_owner \in Pids,
         KeepDevice \/ ArpRetry \/ EchoRetry \/ TxFail
  PROVE  Told(answers)' /\ UNCHANGED <<result_addr, open_owner>>
  <1>1. CASE KeepDevice
    BY <1>1, ToldKept DEF KeepDevice, deviceVars, userVars
  <1>2. ASSUME NEW rc \in {"arptimeout", "timeout", "txfail"}, Finish(Outcome(open_owner, rc))
        PROVE  Told(answers)' /\ UNCHANGED <<result_addr, open_owner>>
    BY <1>2, FinishTold
  <1>3. QED
    BY <1>1, <1>2 DEF ArpRetry, EchoRetry, TxFail, Restart

\* The invariant of the exchange, once its parts are known.
LEMMA NetInvFrom ==
  ASSUME NetInv, SendsRequests', GetsAnswers(answers)', Told(answers)', answers' = answers,
         UNCHANGED <<result_addr, open_owner>>, npc # "idle", seq' \in Nat, seq_next' \in Nat
  PROVE  NetInv'
  BY DEF NetInv

\* A request is put into the ring, or refused.
LEMMA SendStep ==
  ASSUME NetInv, SendRequest
  PROVE  NetInv'
  <1>1. /\ npc \in {"arp", "echo"} /\ UNCHANGED <<rxVars, seq, seq_next, answers>>
        /\ open_owner \in Pids /\ Told(answers) /\ GetsAnswers(answers) /\ SendsRequests
        /\ result_addr \in Ips \cup {NoFrame} /\ seq \in Nat /\ seq_next \in Nat
    BY DEF NetInv, SendRequest
  <1>2. GetsAnswers(answers)'
    BY <1>1, PollGets
  <1>3. Told(answers)' /\ UNCHANGED <<result_addr, open_owner>>
    BY <1>1, NoAnswerTold DEF SendRequest
  <1>4. SendsRequests'
    <2>1. CASE UNCHANGED txVars
      BY <1>1, <2>1, ReturnSends DEF txVars
    <2>2. CASE Fill(IF npc = "arp" THEN ArpRequest(result_addr) ELSE EchoRequest(result_addr, seq))
      <3>1. (IF npc = "arp" THEN ArpRequest(result_addr) ELSE EchoRequest(result_addr, seq)) \in Requests
        BY <1>1, RequestKinds
      <3>2. QED
        BY <1>1, <2>2, <3>1, FillSends
    <2>3. QED
      BY <2>1, <2>2 DEF SendRequest
  <1>5. QED
    BY <1>1, <1>2, <1>3, <1>4, NetInvFrom

\* e1000_send returns.
LEMMA SentStep ==
  ASSUME NetInv, RequestSent
  PROVE  NetInv'
  <1>1. /\ npc \in {"arptx", "echotx"} /\ UNCHANGED <<rxVars, seq, seq_next, answers>>
        /\ UNCHANGED <<tx_ring, tdh, tx_tail>> /\ tx_slot' = TX_RING
        /\ open_owner \in Pids /\ Told(answers) /\ GetsAnswers(answers) /\ SendsRequests
        /\ seq \in Nat /\ seq_next \in Nat
    BY DEF NetInv, RequestSent, SpinEnds
  <1>2. GetsAnswers(answers)'
    BY <1>1, PollGets
  <1>3. Told(answers)' /\ UNCHANGED <<result_addr, open_owner>>
    BY <1>1, NoAnswerTold DEF RequestSent
  <1>4. SendsRequests'
    BY <1>1, ReturnSends
  <1>5. QED
    BY <1>1, <1>2, <1>3, <1>4, NetInvFrom

\* One pass of a wait loop: only a reply to the echo that was sent ends the
\* second one well.
LEMMA WaitStep ==
  ASSUME NetInv, WaitReply
  PROVE  NetInv'
  <1>1. /\ npc \in {"arpwait", "echowait"} /\ UNCHANGED <<txVars, answers>>
        /\ open_owner \in Pids /\ Told(answers) /\ GetsAnswers(answers) /\ SendsRequests
        /\ answers \subseteq Replies /\ seq \in Nat /\ seq_next \in Nat
        /\ e1000_poll \/ UNCHANGED rxVars
    BY DEF NetInv, WaitReply
  <1>2. GetsAnswers(answers)'
    BY <1>1, PollGets
  <1>3. SendsRequests'
    BY <1>1, ReturnSends DEF txVars
  <1>4. CASE Retry \/ Again
    <2>1. Told(answers)' /\ UNCHANGED <<result_addr, open_owner>>
      BY <1>1, <1>4, NoAnswerTold DEF Retry, Again
    <2>2. UNCHANGED <<seq, seq_next>>
      BY <1>4 DEF Retry, Again
    <2>3. QED
      BY <1>1, <1>2, <1>3, <2>1, <2>2, NetInvFrom
  <1>5. CASE npc = "arpwait" /\ Answered
    <2>1. KeepDevice
      BY SMTT(20), <1>5 DEF Answered
    <2>2. seq' \in Nat /\ seq_next' \in Nat
      BY SMTT(20), <1>1, <1>5 DEF Answered
    <2>3. Told(answers)' /\ UNCHANGED <<result_addr, open_owner>>
      BY <1>1, <2>1, NoAnswerTold
    <2>4. QED
      BY <1>1, <1>2, <1>3, <2>2, <2>3, NetInvFrom
  <1>6. CASE npc = "echowait" /\ Received.dd /\ ipv4_reply_ok(Received.frame) /\ Answered
    <2>1. Finish(Outcome(open_owner, "ok")) /\ UNCHANGED <<seq, seq_next>>
      BY SMT, <1>6 DEF Answered
    <2>2. Received.frame \in answers \cup Strays
      BY <1>1, <1>6 DEF GetsAnswers, RxTyped, Received
    <2>3. Reply(EchoRequest(result_addr, seq)) \in answers
      <3> DEFINE f == Received.frame
      <3>1. f.type = "echo" /\ f.valid /\ f.ours /\ f.ip = result_addr /\ f.seq = seq
        BY <1>6 DEF ipv4_reply_ok
      <3>2. f \in answers \cup Strays
        BY <2>2
      <3> HIDE DEF f
      <3>3. f \in answers /\ f = Reply(EchoRequest(f.ip, f.seq))
        BY <1>1, <3>1, <3>2, EchoOfRequest
      <3>4. QED
        BY <3>1, <3>3
    <2>4. Told(answers)' /\ UNCHANGED <<result_addr, open_owner>>
      BY <1>1, <2>1, <2>3, FinishTold
    <2>5. QED
      BY <1>1, <1>2, <1>3, <2>1, <2>4, NetInvFrom
  <1>7. QED
    BY <1>1, <1>4, <1>5, <1>6 DEF WaitReply

\* A write makes its task the owner of a command that is pending; a read gives
\* the owner its result, or runs the command.
LEMMA DeviceStep ==
  ASSUME NetInv, NEW p \in Pids, NEW c, NEW ip \in Ips \cup {NoFrame},
         netdev_write(p, c, ip) \/ netdev_read(p) \/ cmd_run(p) \/ Exit(p)
  PROVE  NetInv'
  <1>1. /\ npc = "idle" /\ UNCHANGED <<e1000Vars, answers, seq, seq_next>>
        /\ Told(answers) /\ GetsAnswers(answers) /\ SendsRequests
        /\ answers \subseteq Replies /\ result_addr \in Ips \cup {NoFrame}
        /\ seq \in Nat /\ seq_next \in Nat
    BY DEF NetInv, netdev_write, netdev_read, cmd_run, Exit, exchangeVars
  <1>2. GetsAnswers(answers)'
    BY <1>1, PollGets DEF e1000Vars
  <1>3. SendsRequests'
    BY <1>1, ReturnSends DEF e1000Vars, txVars
  <1>4. SUFFICES /\ Told(answers)' /\ result_addr' \in Ips \cup {NoFrame}
                 /\ npc' # "idle" => open_owner' \in Pids
    BY <1>1, <1>2, <1>3 DEF NetInv
  <1>5. CASE netdev_write(p, c, ip)
    <2>1. UNCHANGED <<got, npc>>
      BY <1>5 DEF netdev_write, exchangeVars
    <2>2. CASE UNCHANGED deviceVars
      BY <1>1, <2>1, <2>2, ToldKept DEF deviceVars
    <2>3. CASE result_state' = "pending" /\ result_addr' = ip
      BY <1>1, <2>1, <2>3, ToldKept
    <2>4. QED
      BY <1>5, <2>2, <2>3 DEF netdev_write
  <1>6. CASE netdev_read(p)
    <2>1. UNCHANGED <<npc, result_addr>>
      BY <1>6 DEF netdev_read, exchangeVars, deviceVars
    <2>2. CASE UNCHANGED <<deviceVars, got>>
      BY <1>1, <2>1, <2>2, ToldKept DEF deviceVars
    <2>3. CASE result_state' = "none" /\ UNCHANGED got
      BY <1>1, <2>1, <2>3, ToldKept
    <2>4. CASE /\ open_owner = p /\ result_state = "ready" /\ got' = [got EXCEPT ![p] = result]
               /\ UNCHANGED <<open_owner, result_state, result>>
      <3>1. result.pid = p /\ Genuine(result, answers)
        BY <1>1, <2>4 DEF Told
      <3>2. Told(answers)'
        BY <1>1, <2>4, <3>1, GotTold
      <3>3. QED
        BY <1>1, <2>1, <3>2
    <2>5. QED
      BY <1>6, <2>2, <2>3, <2>4 DEF netdev_read
  <1>7. CASE cmd_run(p)
    <2>1. open_owner = p
      BY <1>7 DEF cmd_run
    <2>2. CASE Finish(Outcome(p, "status"))
      <3>1. Told(answers)' /\ UNCHANGED <<result_addr, open_owner>>
        BY <1>1, <2>1, <2>2, FinishTold
      <3>2. QED
        BY <1>1, <2>1, <3>1
    <2>3. CASE UNCHANGED <<deviceVars, userVars>>
      BY <1>1, <2>1, <2>3, ToldKept DEF deviceVars, userVars
    <2>4. QED
      BY <1>7, <2>2, <2>3 DEF cmd_run
  <1>8. CASE Exit(p)
    BY <1>1, <1>8, ToldKept DEF Exit, deviceVars, exchangeVars
  <1>9. QED
    BY <1>5, <1>6, <1>7, <1>8

\* The card sends a request, which may be answered, and receives a frame.
LEMMA WireStep ==
  ASSUME NetInv, WireSends \/ WireDelivers
  PROVE  NetInv'
  <1>1. /\ UNCHANGED <<deviceVars, exchangeVars, userVars>>
        /\ Told(answers) /\ GetsAnswers(answers) /\ SendsRequests /\ answers \subseteq Replies
    BY DEF NetInv, WireSends, WireDelivers
  <1>2. SUFFICES /\ SendsRequests' /\ GetsAnswers(answers)'
                 /\ answers \subseteq answers' /\ answers' \subseteq Replies
    <2>1. Told(answers)'
      BY <1>1, <1>2, ToldKept DEF deviceVars, userVars
    <2>2. QED
      BY <1>1, <1>2, <2>1 DEF NetInv, deviceVars, exchangeVars
  <1>3. CASE WireSends
    <2>1. SendsRequests' /\ tx_ring[tdh].frame \in Requests
      BY <1>1, <1>3, CardSendsRequest DEF WireSends
    <2>2. answers' \in {answers, answers \cup {Reply(tx_ring[tdh].frame)}} /\ UNCHANGED rxVars
      BY <1>3 DEF WireSends
    <2>3. Reply(tx_ring[tdh].frame) \in Replies
      BY <2>1, ReplyKinds
    <2>4. answers \subseteq answers' /\ answers' \subseteq Replies
      BY <1>1, <2>2, <2>3
    <2>5. GetsAnswers(answers)'
      BY <1>1, <2>2, <2>4, PollGets
    <2>6. QED
      BY <2>1, <2>4, <2>5
  <1>4. CASE WireDelivers
    <2>1. UNCHANGED <<txVars, answers>>
      BY <1>4 DEF WireDelivers
    <2>2. GetsAnswers(answers)'
      BY <1>1, <1>4, <2>1, DeliverGets DEF WireDelivers
    <2>3. SendsRequests'
      BY <1>1, <2>1, ReturnSends DEF txVars
    <2>4. QED
      BY <1>1, <2>1, <2>2, <2>3
  <1>5. QED
    BY <1>3, <1>4

\* The driver is up, its rings are empty and /dev/net has no command.
LEMMA NetInitInv == NetInit => NetInv
  <1> SUFFICES ASSUME NetInit PROVE NetInv
    OBVIOUS
  <1>1. /\ RX_RING \in Nat \ {0} /\ 0 \in 0 .. RX_RING - 1 /\ RX_RING - 1 \in 0 .. RX_RING - 1
        /\ TX_RING \in Nat \ {0} /\ 0 \in 0 .. TX_RING - 1 /\ TX_RING \in 0 .. TX_RING
    BY SMT, E1000Assumption
  <1>2. TxTyped(Requests)
    BY <1>1 DEF NetInit, e1000_setup, TxTyped
  <1>3. RxTyped(Arriving)
    BY <1>1 DEF NetInit, e1000_setup, RxTyped, Empty, Desc
  <1>4. TxOwnership /\ RxOwnership
    BY SetupOwnership DEF NetInit
  <1>5. SendsRequests
    BY <1>2, <1>4 DEF NetInit, e1000_setup, SendsRequests
  <1>6. GetsAnswers(answers)
    BY <1>3, <1>4 DEF NetInit, e1000_setup, GetsAnswers, Empty, Desc
  <1>7. NoResult.rc = "none"
    BY DEF NoResult
  <1>8. Told(answers)
    BY <1>7 DEF NetInit, net_init, Told
  <1>9. 0 \in Nat /\ 1 \in Nat
    BY SMT
  <1>10. QED
    BY <1>5, <1>6, <1>8, <1>9 DEF NetInit, net_init, NetInv

\* Every step of the tasks, the kernel, the card and the network keeps the
\* invariant.
LEMMA NetStepInv == NetInv /\ [NetNext]_netVars => NetInv'
  <1> SUFFICES ASSUME NetInv, [NetNext]_netVars PROVE NetInv'
    OBVIOUS
  <1>1. result_addr \in Ips \cup {NoFrame}
    BY DEF NetInv
  <1>2. ASSUME NEW p \in Pids,
               \/ \E ip \in Ips : netdev_write(p, "ping", ip)
               \/ netdev_write(p, "status", result_addr)
               \/ netdev_read(p) \/ cmd_run(p) \/ Exit(p)
        PROVE  NetInv'
    BY <1>1, <1>2, DeviceStep
  <1>3. CASE KernelStep
    BY <1>3, SendStep, SentStep, WaitStep DEF KernelStep
  <1>4. CASE WireSends \/ WireDelivers
    BY <1>4, WireStep
  <1>5. CASE UNCHANGED netVars
    <2>1. /\ UNCHANGED <<answers, result_addr, seq, seq_next, npc, open_owner, got, result, result_state>>
          /\ UNCHANGED <<rxVars, txVars>>
      BY <1>5 DEF netVars, e1000Vars, deviceVars, exchangeVars, userVars
    <2>2. SendsRequests' /\ GetsAnswers(answers)' /\ Told(answers)'
      BY <2>1, ReturnSends, PollGets, ToldKept DEF NetInv, txVars
    <2>3. QED
      BY <2>1, <2>2 DEF NetInv
  <1>6. QED
    BY <1>2, <1>3, <1>4, <1>5 DEF NetNext

\* For any number of tasks, addresses and retries: what a task reads from
\* /dev/net is the result of its own command, and a reply it is told of is one
\* that the host has sent to the echo with that number.
THEOREM ResultsOwn == NetSpec => []ResultsGenuine
  <1>1. NetInv => ResultsGenuine
    BY DEF NetInv, Told, Genuine, ResultsGenuine
  <1>2. QED
    BY <1>1, NetInitInv, NetStepInv, PTL DEF NetSpec

\* The descriptors keep their one owner when it is /dev/net that sends, waits
\* and polls.
THEOREM NetDescriptorOwnership == NetSpec => []RingsOwned
  <1>1. NetInv => RingsOwned
    BY DEF NetInv, SendsRequests, GetsAnswers, RingsOwned
  <1>2. QED
    BY <1>1, NetInitInv, NetStepInv, PTL DEF NetSpec

-----------------------------------------------------------------------------
(* The USB keyboard.                                                       *)

\* A descriptor of endpoint 0 that is done was executed in the phase it was
\* armed for: the phase that begins turns it off.
UhciInv ==
  /\ DOMAIN td_ep0 = {"st", "addr"}
  /\ td_ep0.st = "done" => hc_ran

\* Every step of the driver, of its handler and of the controller keeps it.
LEMMA UhciStepInv == UhciInv /\ [UhciNext]_uhciVars => UhciInv'
  <1> SUFFICES ASSUME UhciInv, [UhciNext]_uhciVars PROVE UhciInv'
    OBVIOUS
  <1>1. CASE UNCHANGED <<td_ep0, hc_ran>>
    BY <1>1 DEF UhciInv
  <1>2. ASSUME NEW s, s # "done", td_ep0' = [td_ep0 EXCEPT !.st = s]
        PROVE  UhciInv'
    BY SMTT(20), <1>2 DEF UhciInv
  <1>3. CASE uhci_ep0_phase
    BY SMT, <1>3 DEF uhci_ep0_phase, UhciInv
  <1>4. CASE uhci_arm
    BY <1>2, <1>4 DEF uhci_arm
  <1>5. CASE uhci_wait \/ uhci_wait_timeout
    BY <1>2, <1>5 DEF uhci_wait, uhci_wait_timeout, PhaseEnds
  <1>6. CASE uhci_wait_hint \/ ArmInt \/ SetFlags \/ uhci_irq_handler \/ IrqEp0
    BY <1>1, <1>6 DEF uhci_wait_hint, ArmInt, SetFlags, uhci_irq_handler, IrqEp0, tdVars, dialogVars
  <1>7. CASE uhci_process_kbd
    BY <1>1, <1>7 DEF uhci_process_kbd, uhci_reenumerate, dialogVars
  <1>8. CASE HcRunsEp0
    <2>1. hc_ran' /\ \E s : td_ep0' = [td_ep0 EXCEPT !.st = s]
      BY <1>8 DEF HcRunsEp0
    <2>2. QED
      BY SMTT(20), <2>1 DEF UhciInv
  <1>9. CASE HcRunsInt \/ KbdLosesAddress
    BY <1>1, <1>9 DEF HcRunsInt, KbdLosesAddress, tdVars, dialogVars
  <1>10. CASE UNCHANGED uhciVars
    BY <1>1, <1>10 DEF uhciVars, tdVars, dialogVars
  <1>11. QED
    BY <1>3, <1>4, <1>5, <1>6, <1>7, <1>8, <1>9, <1>10 DEF UhciNext, UhciCpu

\* A phase of a control transfer is taken for successful only when the
\* controller has executed that phase's own descriptor: no interrupt of an
\* earlier one, and no flag set late, ends uhci_wait.
THEOREM PhasesExecuted == UhciSpec => PhaseExecuted
  <1> DEFINE Ran == wpc = "wait" /\ wpc' = "start" /\ phase' # "setup" => hc_ran
  <1>1. UhciInit => UhciInv
    <2> SUFFICES ASSUME UhciInit PROVE UhciInv
      OBVIOUS
    <2>1. td_ep0 = [st |-> "off", addr |-> 0]
      BY DEF UhciInit
    <2>2. QED
      BY SMT, <2>1 DEF UhciInv
  <1>2. UhciInv /\ [UhciNext]_uhciVars => [Ran]_uhciVars
    <2> SUFFICES ASSUME UhciInv, UhciNext, wpc = "wait", wpc' = "start", phase' # "setup"
                 PROVE  hc_ran
      OBVIOUS
    <2>1. CASE uhci_wait
      BY <2>1 DEF uhci_wait, PhaseEnds, UhciInv
    <2>2. CASE uhci_wait_timeout
      BY <2>2 DEF uhci_wait_timeout, PhaseEnds
    <2>3. CASE uhci_process_kbd
      BY <2>3 DEF uhci_process_kbd, uhci_reenumerate, dialogVars
    <2>4. CASE uhci_ep0_phase \/ uhci_arm
      BY <2>4 DEF uhci_ep0_phase, uhci_arm
    <2>5. CASE UNCHANGED dialogVars
      BY <2>5 DEF dialogVars
    <2>6. QED
      BY <2>1, <2>2, <2>3, <2>4, <2>5
         DEF UhciNext, UhciCpu, uhci_wait_hint, ArmInt, SetFlags, uhci_irq_handler, IrqEp0,
             HcRunsEp0, HcRunsInt, KbdLosesAddress, dialogVars
  <1>3. QED
    BY <1>1, <1>2, UhciStepInv, PTL DEF UhciSpec, PhaseExecuted
=============================================================================
