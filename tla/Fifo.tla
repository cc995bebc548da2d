-------------------------------- MODULE Fifo --------------------------------
(***************************************************************************)
(* What the keyboard ring promises the readers of the console, and the    *)
(* receive ring of the network card its clients: what was put in comes out *)
(* in order and once; what comes when the queue is full is dropped; the    *)
(* keyboard discards all that nobody has taken yet on Ctrl+C, and only then.*)
(***************************************************************************)
EXTENDS Naturals, Sequences

CONSTANTS Chars, Capacity

VARIABLES
  queue,  \* what was put in and not yet taken
  out,    \* the last thing taken
  sigint  \* the taker has been interrupted and does not know yet

Put(c) ==
  /\ Len(queue) < Capacity
  /\ queue' = Append(queue, c)
  /\ UNCHANGED <<out, sigint>>

Take ==
  /\ queue # <<>>
  /\ out' = Head(queue)
  /\ queue' = Tail(queue)
  /\ UNCHANGED sigint

\* Only an interrupt discards.
Flush == queue' = <<>> /\ sigint' = TRUE /\ UNCHANGED out
Notice == sigint' = FALSE /\ UNCHANGED <<queue, out>>

FifoNext == (\E c \in Chars : Put(c)) \/ Take \/ Flush \/ Notice

FifoSpec == queue = <<>> /\ sigint = FALSE /\ [][FifoNext]_<<queue, out, sigint>>
=============================================================================
