------------------------------- MODULE Audio -------------------------------
(***************************************************************************)
(* Playback on the Sound Blaster 16, kernel/src/drivers/audio.c: audio_write*)
(* cuts a write into DMA transfers and waits for each, by the completion   *)
(* interrupt, by the DMA controller's count, or until a timeout.  The write*)
(* never yields the CPU, so it runs against the card and the interrupts    *)
(* only.  It normally enters with IF clear; a call that was preempted at   *)
(* entry may run with IF set (see Process).  After its first sti IF stays  *)
(* set.                                                                    *)
(***************************************************************************)
EXTENDS Naturals

CONSTANTS
  AUDIO_DMA_SIZE,  \* 4096 in the code
  MaxWrite,        \* bound on the bytes of one write
  MaxWaits         \* passes of sb16_wait_done's loop, 20000 in the code

VARIABLES
  sb16_present, sb16_done, sb16_busy,
  dma_left,   \* bytes the card has still to fetch; the count register is one less
  sb_irq,     \* IRQ 5 is latched
  apc,        \* audio_write: "user", "copy", "start", "clear", "wait" or "hlt"
  aif,        \* IF while in the kernel
  off, todo,  \* bytes before and after the chunk being played
  waits       \* w of sb16_wait_done

cardVars == <<dma_left, sb_irq>>
audioVars == <<sb16_present, sb16_done, sb16_busy, cardVars, apc, aif, off, todo, waits>>

Chunk == IF todo > AUDIO_DMA_SIZE THEN AUDIO_DMA_SIZE ELSE todo

\* A write without a card, or of no bytes, does nothing.
audio_write ==
  /\ apc = "user" /\ sb16_present /\ ~sb16_busy
  /\ \E n \in 1 .. MaxWrite : todo' = n
  /\ sb16_busy' = TRUE /\ off' = 0 /\ apc' = "copy"
  /\ aif' \in BOOLEAN
  /\ UNCHANGED <<sb16_present, sb16_done, cardVars, waits>>

\* memcpy and dma_start_8bit: masking the channel ends what was playing.
dma_start_8bit ==
  /\ apc = "copy"
  /\ dma_left' = 0 /\ apc' = "start"
  /\ UNCHANGED <<sb16_present, sb16_done, sb16_busy, sb_irq, aif, off, todo, waits>>

sb16_start_out ==
  /\ apc = "start"
  /\ dma_left' = Chunk /\ apc' = "clear"
  /\ UNCHANGED <<sb16_present, sb16_done, sb16_busy, sb_irq, aif, off, todo, waits>>

ClearDone ==
  /\ apc = "clear"
  /\ sb16_done' = FALSE /\ waits' = 0 /\ apc' = "wait"
  /\ UNCHANGED <<sb16_present, sb16_busy, cardVars, aif, off, todo>>

NextChunk ==
  /\ off' = off + Chunk /\ todo' = todo - Chunk
  /\ apc' = IF todo = Chunk THEN "user" ELSE "copy"
  /\ sb16_busy' = (todo # Chunk)
  /\ UNCHANGED <<aif, waits>>

\* Fault: without its counter, the loop trusts the interrupt or the count.
sb16_wait_doneForever ==
  /\ apc = "wait"
  /\ IF sb16_done \/ dma_left = 1
     THEN NextChunk
     ELSE /\ apc' = "hlt" /\ aif' = TRUE
          /\ UNCHANGED <<sb16_busy, off, todo, waits>>
  /\ UNCHANGED <<sb16_present, sb16_done, cardVars>>

\* The register reads 0 while the last byte is outstanding, 0xFFFF after it.
sb16_wait_done ==
  /\ apc = "wait"
  /\ IF sb16_done \/ dma_left = 1 \/ waits = MaxWaits
     THEN NextChunk
     ELSE /\ apc' = "hlt" /\ aif' = TRUE /\ waits' = waits + 1
          /\ UNCHANGED <<sb16_busy, off, todo>>
  /\ UNCHANGED <<sb16_present, sb16_done, cardVars>>

-----------------------------------------------------------------------------
(* The card and the interrupts.                                            *)

CardPlays ==
  /\ dma_left > 0
  /\ dma_left' = dma_left - 1
  /\ sb_irq' = (sb_irq \/ dma_left = 1)
  /\ UNCHANGED <<sb16_present, sb16_done, sb16_busy, apc, aif, off, todo, waits>>

Resume == apc' = IF apc = "hlt" THEN "wait" ELSE apc

sb16_irq ==
  /\ sb_irq /\ (aif \/ apc = "user")
  /\ sb_irq' = FALSE /\ sb16_done' = TRUE
  /\ Resume
  /\ UNCHANGED <<sb16_present, sb16_busy, dma_left, aif, off, todo, waits>>

AudioTick ==
  /\ apc = "hlt" /\ Resume
  /\ UNCHANGED <<sb16_present, sb16_done, sb16_busy, cardVars, aif, off, todo, waits>>

\* After a successful audio_init; without a card or a DMA buffer below 16 MiB
\* the device is absent.
audio_init ==
  /\ sb16_present = TRUE /\ sb16_done = FALSE /\ sb16_busy = FALSE
  /\ dma_left = 0 /\ sb_irq = FALSE
  /\ apc = "user" /\ aif = FALSE /\ off = 0 /\ todo = 0 /\ waits = 0

WriterStep == dma_start_8bit \/ sb16_start_out \/ ClearDone \/ sb16_wait_done
AudioNext == audio_write \/ WriterStep \/ CardPlays \/ sb16_irq \/ AudioTick

AudioTypeOK ==
  /\ sb16_present \in BOOLEAN /\ sb16_done \in BOOLEAN /\ sb16_busy \in BOOLEAN
  /\ dma_left \in 0 .. AUDIO_DMA_SIZE /\ sb_irq \in BOOLEAN
  /\ apc \in {"user", "copy", "start", "clear", "wait", "hlt"} /\ aif \in BOOLEAN
  /\ off \in 0 .. MaxWrite /\ todo \in 0 .. MaxWrite /\ off + todo <= MaxWrite
  /\ waits \in 0 .. MaxWaits

\* A write ends although a completion may come too early, be taken for that
\* of the next chunk, or be lost (sb16_wait_done clears the flag after the
\* transfer was started): the count and the timeout bound the loop,
\* and the device is free for the next writer.
AudioReturns == apc # "user" ~> apc = "user" /\ ~sb16_busy
=============================================================================
