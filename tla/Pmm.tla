-------------------------------- MODULE Pmm --------------------------------
(***************************************************************************)
(* The physical memory manager of kernel/src/mm/pmm.c: a bitmap of pages   *)
(* with first-fit allocation of runs, below 4 GiB for DMA, and a count of  *)
(* free pages.  bitmap is the set of pages whose bit is set.  The client   *)
(* is the rest of the kernel: it keeps the runs it was given in held, with *)
(* the bound of the allocator they came from, and frees each one once.     *)
(***************************************************************************)
EXTENDS PageBitmap, FiniteSets

CONSTANTS
  max_page,     \* pmm_alloc_dma: pages below 4 GiB, at most total_pages
  Usable,       \* pages of the LIMINE_MEMMAP_USABLE entries
  bm_page,      \* first page of the bitmap itself,
  bm_count,     \*   and how many it takes
  MaxRun        \* bound on the pages of one request

ASSUME PmmAssumption ==
  /\ total_pages \in Nat /\ max_page \in 0 .. total_pages
  /\ Usable \subseteq 0 .. total_pages - 1
  /\ bm_page \in Nat /\ bm_count \in Nat /\ Run(bm_page, bm_count) \subseteq Usable
  /\ MaxRun \in Nat

VARIABLES
  bitmap,      \* the pages whose bit is set: not available
  free_pages,
  held         \* runs handed out and not freed: start, n and the limit asked for

pmmVars == <<bitmap, free_pages, held>>

alloc_below(n, limit) ==
  \E start \in Pages :
    /\ FirstFit(bitmap, start, n, limit)
    /\ bitmap' = bitmap \cup Run(start, n)
    /\ free_pages' = free_pages - n
    /\ held' = held \cup {[start |-> start, n |-> n, limit |-> limit]}

pmm_alloc == \E n \in 1 .. MaxRun : alloc_below(n, total_pages)
pmm_alloc_dma == \E n \in 1 .. MaxRun : alloc_below(n, max_page)

\* Fault: the count is raised by the pages asked for.
pmm_freeAsked(r) ==
  /\ bitmap' = bitmap \ Freed(bitmap, r.start, r.n - 1)
  /\ free_pages' = free_pages + r.n
  /\ held' = held \ {r}

pmm_free(r) ==
  /\ bitmap' = bitmap \ Freed(bitmap, r.start, r.n)
  /\ free_pages' = free_pages + Cardinality(Freed(bitmap, r.start, r.n))
  /\ held' = held \ {r}

\* pmm_init: everything reserved, usable entries cleared, the bitmap's own
\* pages taken out again.
PmmInit ==
  /\ bitmap = (Pages \ Usable) \cup Run(bm_page, bm_count)
  /\ free_pages = Cardinality(Usable) - bm_count
  /\ held = {}

PmmNext == pmm_alloc \/ pmm_alloc_dma \/ \E r \in held : pmm_free(r)

PmmSpec == PmmInit /\ [][PmmNext]_pmmVars

-----------------------------------------------------------------------------
Request == [start : Nat, n : Nat \ {0}, limit : {total_pages, max_page}]

PmmTypeOK ==
  /\ bitmap \subseteq Pages
  /\ free_pages \in Int
  /\ held \subseteq Request

\* free_pages, which sysinfo and /proc/meminfo report, is the number of clear
\* bits, through every mix of allocations and frees.
FreeCount == free_pages = Cardinality(Pages \ bitmap)

\* No page is given to two holders: the runs handed out are disjoint, are
\* marked in the bitmap, hold usable pages other than the bitmap's own, and
\* those for DMA lie below the limit.
HeldDisjoint ==
  /\ \A r \in held :
       /\ Run(r.start, r.n) \subseteq bitmap \cap (Usable \ Run(bm_page, bm_count))
       /\ r.start + r.n <= r.limit
  /\ \A r, s \in held :
       r # s => Run(r.start, r.n) \cap Run(s.start, s.n) = {}
=============================================================================
