-------------------------------- MODULE Kbd --------------------------------
(***************************************************************************)
(* The keyboard ring of kernel/src/drivers/kbd.c between the interrupt     *)
(* handlers that fill it (PS/2, and USB through kbd_usb_push) and the task *)
(* that reads the console.  Interrupt handlers run with IF clear and are   *)
(* single steps.  The reader is cut where an interrupt can come: between   *)
(* the signal test and kbd_poll, between kbd_poll's load of the character  *)
(* and its store of kb_tail, and at hlt.  A system call starts with IF     *)
(* clear, unless it was preempted at entry (see Process); the first sti    *)
(* leaves it set until the call returns.  Readers do not interleave        *)
(* with each other: kbd_getchar yields only before kbd_poll.  The          *)
(* scheduler's part of kbd_getchar is in Process.                          *)
(***************************************************************************)
EXTENDS Naturals, Sequences

CONSTANTS
  KB_BUFFER_SIZE,  \* 128 in the code
  MaxRead          \* bound on the count of one read

ASSUME KbdAssumption == KB_BUFFER_SIZE \in Nat \ {0} /\ MaxRead \in Nat \ {0}

Keys == {"c", "enter", "f1"}  \* a letter, a key without case, an unmapped one
Modifiers == {"shift", "ctrl"}
Chars == {"c", "C", "\n"}
Nul == "nul"

VARIABLES
  kb_buf, kb_head, kb_tail, shift, ctrl,
  kbd_sig,   \* SIGINT is pending for the reader
  rpc,       \* the reader: "user", "loop", "poll", "store" or "hlt"
  riflag,    \* IF while the reader is in the kernel
  rchar,     \* kbd_poll's *out
  rleft,     \* characters the call still wants
  taken      \* the last character kbd_poll returned

ringVars == <<kb_buf, kb_head, kb_tail>>
readerVars == <<rpc, riflag, rchar, rleft, taken>>
kbdVars == <<ringVars, shift, ctrl, kbd_sig, readerVars>>

Index == 0 .. KB_BUFFER_SIZE - 1

Succ(i) == (i + 1) % KB_BUFFER_SIZE

translate(key) ==
  CASE key = "c" -> IF shift THEN "C" ELSE "c"
    [] key = "enter" -> "\n"
    [] OTHER -> Nul

\* Fault: the character overwrites the oldest one when the ring is full.
buf_pushOverwrites(c) ==
  /\ kb_buf' = [kb_buf EXCEPT ![kb_head] = c]
  /\ kb_head' = Succ(kb_head)
  /\ UNCHANGED kb_tail

buf_push(c) ==
  IF Succ(kb_head) = kb_tail THEN UNCHANGED ringVars
  ELSE /\ kb_buf' = [kb_buf EXCEPT ![kb_head] = c]
       /\ kb_head' = Succ(kb_head)
       /\ UNCHANGED kb_tail

\* For a reader in the foreground group.
raise_sigint ==
  /\ kb_head' = kb_tail
  /\ kbd_sig' = TRUE
  /\ UNCHANGED <<kb_buf, kb_tail>>

-----------------------------------------------------------------------------
(* Interrupts.  Any of them ends the reader's hlt.                         *)

InterruptsOn == riflag \/ rpc = "user"
WakeFromHlt ==
  /\ rpc' = IF rpc = "hlt" THEN "loop" ELSE rpc
  /\ UNCHANGED <<riflag, rchar, rleft, taken>>

KeyPress(key) ==
  LET c == translate(key) IN
  /\ InterruptsOn /\ WakeFromHlt
  /\ IF c = Nul THEN UNCHANGED <<ringVars, kbd_sig>>
     ELSE IF ctrl /\ c \in {"c", "C"} THEN raise_sigint
     ELSE buf_push(c) /\ UNCHANGED kbd_sig
  /\ UNCHANGED <<shift, ctrl>>

ModifierKey(key, down) ==
  /\ InterruptsOn /\ WakeFromHlt
  /\ shift' = IF key = "shift" THEN down ELSE shift
  /\ ctrl' = IF key = "ctrl" THEN down ELSE ctrl
  /\ UNCHANGED <<ringVars, kbd_sig>>

kbd_interrupt ==
  \/ \E key \in Keys : KeyPress(key)
  \/ \E key \in Modifiers, down \in BOOLEAN : ModifierKey(key, down)

kbd_usb_push ==
  /\ InterruptsOn /\ WakeFromHlt
  /\ \E c \in Chars : buf_push(c)
  /\ UNCHANGED <<shift, ctrl, kbd_sig>>

Tick ==
  /\ rpc = "hlt" /\ WakeFromHlt
  /\ UNCHANGED <<ringVars, shift, ctrl, kbd_sig>>

-----------------------------------------------------------------------------
(* The reader.  deliver_signals clears SIGINT at system call entry: the    *)
(* shell ignores it.                                                       *)

ReadCall ==
  /\ rpc = "user"
  /\ rpc' = "loop" /\ riflag' \in BOOLEAN /\ kbd_sig' = FALSE
  /\ rleft' \in 1 .. MaxRead
  /\ UNCHANGED <<ringVars, shift, ctrl, rchar, taken>>

kbd_getchar ==
  /\ rpc = "loop"
  /\ rpc' = IF kbd_sig THEN "user" ELSE "poll"
  /\ UNCHANGED <<ringVars, shift, ctrl, kbd_sig, riflag, rchar, rleft, taken>>

\* Fault: the test takes a ring of one character for an empty one.
kbd_pollOffByOne ==
  /\ rpc = "poll"
  /\ \/ /\ kb_head = Succ(kb_tail) \/ kb_head = kb_tail
        /\ rpc' = "hlt" /\ riflag' = TRUE /\ UNCHANGED rchar
     \/ /\ ~(kb_head = Succ(kb_tail) \/ kb_head = kb_tail)
        /\ rpc' = "store" /\ rchar' = kb_buf[kb_tail] /\ UNCHANGED riflag
  /\ UNCHANGED <<ringVars, shift, ctrl, kbd_sig, rleft, taken>>

\* An empty ring: sti and hlt.
kbd_poll ==
  /\ rpc = "poll"
  /\ \/ /\ kb_head = kb_tail
        /\ rpc' = "hlt" /\ riflag' = TRUE /\ UNCHANGED rchar
     \/ /\ kb_head # kb_tail
        /\ rpc' = "store" /\ rchar' = kb_buf[kb_tail] /\ UNCHANGED riflag
  /\ UNCHANGED <<ringVars, shift, ctrl, kbd_sig, rleft, taken>>

\* The store of kb_tail, and console_read's loop around kbd_getchar.
console_read ==
  /\ rpc = "store"
  /\ kb_tail' = Succ(kb_tail) /\ taken' = rchar
  /\ rleft' = rleft - 1
  /\ rpc' = IF rchar = "\n" \/ rleft = 1 THEN "user" ELSE "loop"
  /\ UNCHANGED <<kb_buf, kb_head, shift, ctrl, kbd_sig, riflag, rchar>>

-----------------------------------------------------------------------------
KbdInit ==
  /\ kb_buf = [i \in Index |-> Nul] /\ kb_head = 0 /\ kb_tail = 0
  /\ shift = FALSE /\ ctrl = FALSE /\ kbd_sig = FALSE
  /\ rpc = "user" /\ riflag = FALSE /\ rchar = Nul /\ rleft = 0 /\ taken = Nul

ReaderStep == kbd_getchar \/ kbd_poll \/ console_read
KbdNext == kbd_interrupt \/ kbd_usb_push \/ Tick \/ ReadCall \/ ReaderStep
KbdSpec == KbdInit /\ [][KbdNext]_kbdVars

KbdTypeOK ==
  /\ kb_buf \in [Index -> Chars \cup {Nul}] /\ kb_head \in Index /\ kb_tail \in Index
  /\ shift \in BOOLEAN /\ ctrl \in BOOLEAN /\ kbd_sig \in BOOLEAN
  /\ rpc \in {"user", "loop", "poll", "store", "hlt"} /\ riflag \in BOOLEAN
  /\ rchar \in Chars \cup {Nul} /\ rleft \in 0 .. MaxRead /\ taken \in Chars \cup {Nul}

\* The characters in the ring, oldest first.
Pending == (kb_head + KB_BUFFER_SIZE - kb_tail) % KB_BUFFER_SIZE
Unread == [i \in 1 .. Pending |-> kb_buf[((kb_tail + i) - 1) % KB_BUFFER_SIZE]]
Promise == INSTANCE Fifo WITH
  Chars <- Chars, Capacity <- KB_BUFFER_SIZE - 1, queue <- Unread, out <- taken, sigint <- kbd_sig

\* The ring implements the bounded queue of Fifo: whatever the interrupts
\* do between two instructions of kbd_poll, buf_push neither overwrites nor
\* reorders nor repeats a character, and nothing but Ctrl+C empties the queue.
ImplementsFifo == Promise!FifoSpec

\* kbd_poll is between its load and its store, and a flush has emptied the
\* ring meanwhile: the store will move kb_tail past kb_head.
FlushedInPoll == rpc = "store" /\ kb_head = kb_tail
NoFlushInPoll == ~FlushedInPoll

\* A reader never sleeps on in hlt with a character in the ring, although an
\* interrupt may push one after kbd_poll found it empty and before hlt: the
\* next timer tick ends the hlt and the loop polls again.
TypedIsRead == kb_head # kb_tail ~> (rpc = "store" \/ kb_head = kb_tail)
=============================================================================
