----------------------------- MODULE PageBitmap -----------------------------
(***************************************************************************)
(* The searches and the clearing of kernel/src/mm/pmm.c on a set bits of   *)
(* pages whose bit is set.                                                 *)
(***************************************************************************)
EXTENDS Integers

CONSTANT total_pages  \* pages below the top of the memory map

Pages == 0 .. total_pages - 1
Run(start, n) == start .. start + n - 1

\* Fault: the run may begin in the middle of an allocated one.
FitsAtLastPageOnly(bits, start, n, limit) ==
  /\ start \in Nat /\ start + n <= limit
  /\ start + n - 1 \notin bits

\* The scan's run of n clear bits beginning at start and ending below limit.
FitsAt(bits, start, n, limit) ==
  /\ start \in Nat /\ start + n <= limit
  /\ Run(start, n) \cap bits = {}

FirstFit(bits, start, n, limit) ==
  /\ FitsAt(bits, start, n, limit)
  /\ \A s \in 0 .. start - 1 : ~FitsAt(bits, s, n, limit)

\* The pages pmm_free clears: it stops at the first one that is already free.
Freed(bits, start, n) ==
  {p \in Run(start, n) : \A q \in start .. p : q \in bits}
=============================================================================
