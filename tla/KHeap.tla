------------------------------- MODULE KHeap -------------------------------
(***************************************************************************)
(* The kernel heap of kernel/src/mm/kheap.c: one list of blocks, first-fit *)
(* kmalloc with splitting, kfree with a single coalescing pass, krealloc,  *)
(* and expansion by whole pages from the page allocator, which the rest of *)
(* the kernel uses at the same time.  A block is its header's address, the *)
(* bytes after the header, and the free flag; bytes are counted in a unit  *)
(* that divides PAGE_SIZE and the header.                                  *)
(***************************************************************************)
EXTENDS Pmm, Sequences

CONSTANTS
  PAGE_SIZE,
  HDR,                 \* sizeof(struct heap_block)
  ALIGN,               \* kmalloc rounds sizes up to this (16 in the code)
  HEAP_MIN_SPLIT,
  HEAP_INITIAL_PAGES,  \* 16 in the code
  MIN_PAGES,           \* least expansion, 4 in the code
  MaxSize              \* bound on the size of a request

ASSUME KHeapAssumption ==
  /\ {PAGE_SIZE, ALIGN, MIN_PAGES, HEAP_INITIAL_PAGES} \subseteq Nat \ {0}
  /\ {HDR, HEAP_MIN_SPLIT, MaxSize} \subseteq Nat

VARIABLES
  heap,    \* the list from heap_start
  arenas   \* first pages of the expansions, in order, with their length

heapVars == <<heap, arenas>>
allVars == <<pmmVars, heapVars>>

heap_block(addr, size, free) == [addr |-> addr, size |-> size, free |-> free]
Align(size) == ((size + ALIGN - 1) \div ALIGN) * ALIGN
PagesFor(size) ==
  LET pages == (size + PAGE_SIZE - 1) \div PAGE_SIZE
  IN IF pages < MIN_PAGES THEN MIN_PAGES ELSE pages

Arena(start, n) == [start |-> start, n |-> n, limit |-> total_pages]
ArenaBlock(a) == heap_block(a.start * PAGE_SIZE, a.n * PAGE_SIZE - HDR, TRUE)
Taken(as) == UNION {Run(as[i].start, as[i].n) : i \in DOMAIN as}

-----------------------------------------------------------------------------
(* The list.                                                               *)

Fits(h, size) == {i \in DOMAIN h : h[i].free /\ h[i].size >= size}
First(S) == CHOOSE i \in S : \A j \in S : i <= j

\* Fault: the new block is given the size of the whole remainder.
TakeForgetsHeader(h, i, size) ==
  IF h[i].size > size + HDR + HEAP_MIN_SPLIT
  THEN SubSeq(h, 1, i - 1)
       \o <<heap_block(h[i].addr, size, FALSE),
            heap_block(h[i].addr + HDR + size, h[i].size - size, TRUE)>>
       \o SubSeq(h, i + 1, Len(h))
  ELSE [h EXCEPT ![i].free = FALSE]

\* Fault: the remainder is linked in front of the block it was split from.
TakeLinksInFront(h, i, size) ==
  IF h[i].size > size + HDR + HEAP_MIN_SPLIT
  THEN SubSeq(h, 1, i - 1)
       \o <<heap_block(h[i].addr + HDR + size, h[i].size - size - HDR, TRUE),
            heap_block(h[i].addr, size, FALSE)>>
       \o SubSeq(h, i + 1, Len(h))
  ELSE [h EXCEPT ![i].free = FALSE]

Take(h, i, size) ==
  IF h[i].size > size + HDR + HEAP_MIN_SPLIT
  THEN SubSeq(h, 1, i - 1)
       \o <<heap_block(h[i].addr, size, FALSE),
            heap_block(h[i].addr + HDR + size, h[i].size - size - HDR, TRUE)>>
       \o SubSeq(h, i + 1, Len(h))
  ELSE [h EXCEPT ![i].free = FALSE]

\* The block b comes behind those of the pass: a free one takes it in, unless
\* it has just taken in another.
Merge(pass, b) ==
  LET n == Len(pass.list)
  IN IF n > 0 /\ ~pass.merged /\ pass.list[n].free /\ b.free
     THEN [list |-> [pass.list EXCEPT ![n].size = @ + HDR + b.size], merged |-> TRUE]
     ELSE [list |-> Append(pass.list, b), merged |-> FALSE]

heap_coalesce(h) ==
  LET pass[k \in 0 .. Len(h)] ==
        IF k = 0 THEN [list |-> <<>>, merged |-> FALSE] ELSE Merge(pass[k - 1], h[k])
  IN pass[Len(h)].list

Release(h, addr) ==
  heap_coalesce([i \in DOMAIN h |->
                   IF h[i].addr = addr THEN [h[i] EXCEPT !.free = TRUE] ELSE h[i]])

-----------------------------------------------------------------------------
(* Expansion.  kmalloc expands and calls itself until a block fits or the  *)
(* page allocator fails.                                                   *)

\* The arenas e.new that were added, the bitmap with them, and whether that was
\* the last expansion: there is a block of size now, or there are no pages.
heap_expand(e, size) ==
  LET n == PagesFor(size)
      starts == {s \in Pages : FitsAt(e.bits, s, n, total_pages)}
      a == Arena(First(starts), n)
  IN IF e.done THEN e
     ELSE IF starts = {} THEN [e EXCEPT !.done = TRUE]
     ELSE [bits |-> e.bits \cup Run(a.start, n), new |-> Append(e.new, a),
           done |-> ArenaBlock(a).size >= size]

\* Every expansion takes a page, so there are at most total_pages.
Expansions(size) ==
  LET e[k \in 0 .. total_pages] ==
        IF k = 0 THEN [bits |-> bitmap, new |-> <<>>, done |-> Fits(heap, size) # {}]
        ELSE heap_expand(e[k - 1], size)
  IN e[total_pages].new

Expanded(new) == heap \o [i \in DOMAIN new |-> ArenaBlock(new[i])]

\* The list after kmalloc(size), size being aligned.
Allocated(h, size) ==
  IF Fits(h, size) = {} THEN h ELSE Take(h, First(Fits(h, size)), size)

AddArenas(new) ==
  /\ arenas' = arenas \o new
  /\ bitmap' = bitmap \cup Taken(new)
  /\ free_pages' = free_pages - Cardinality(Taken(new))
  /\ held' = held \cup {new[i] : i \in DOMAIN new}

kmalloc ==
  /\ arenas # <<>>
  /\ \E size \in 1 .. MaxSize :
       LET want == Align(size)
           new == Expansions(want)
       IN /\ heap' = Allocated(Expanded(new), want)
          /\ AddArenas(new)

InUse == {i \in DOMAIN heap : ~heap[i].free}

kfree ==
  /\ \E i \in InUse : heap' = Release(heap, heap[i].addr)
  /\ UNCHANGED <<pmmVars, arenas>>

\* Growing a block: a new one is taken, the contents copied, the old released.
krealloc ==
  \E i \in InUse, size \in 1 .. MaxSize :
    LET want == Align(size)
        new == Expansions(want)
        h == Expanded(new)
    IN /\ heap[i].size < size
       /\ heap' = IF Fits(h, want) = {} THEN h
                  ELSE Release(Allocated(h, want), heap[i].addr)
       /\ AddArenas(new)

\* The rest of the kernel allocates and frees its own pages.
OtherPages ==
  /\ \/ pmm_alloc \/ pmm_alloc_dma
     \/ \E r \in held \ {arenas[i] : i \in DOMAIN arenas} : pmm_free(r)
  /\ UNCHANGED heapVars

heap_init ==
  /\ arenas = <<>>
  /\ \E start \in Pages :
       /\ FirstFit(bitmap, start, HEAP_INITIAL_PAGES, total_pages)
       /\ AddArenas(<<Arena(start, HEAP_INITIAL_PAGES)>>)
       /\ heap' = <<ArenaBlock(Arena(start, HEAP_INITIAL_PAGES))>>

HeapInit == PmmInit /\ heap = <<>> /\ arenas = <<>>

HeapNext ==
  heap_init \/ kmalloc \/ kfree \/ krealloc \/ OtherPages

HeapSpec == HeapInit /\ [][HeapNext]_allVars

-----------------------------------------------------------------------------
End(b) == b.addr + HDR + b.size

HeapTypeOK ==
  /\ heap \in Seq([addr : Nat, size : Nat, free : BOOLEAN])
  /\ arenas \in Seq(Request)

Total(sizes) ==
  LET sum[k \in 0 .. Len(sizes)] == IF k = 0 THEN 0 ELSE sum[k - 1] + sizes[k]
  IN sum[Len(sizes)]
Extents(h) == [i \in DOMAIN h |-> HDR + h[i].size]
Lengths(as) == [i \in DOMAIN as |-> as[i].n]

BytesConserved ==
  /\ Total(Extents(heap)) = PAGE_SIZE * Total(Lengths(arenas))
  /\ \A i \in DOMAIN arenas : arenas[i] \in held

Contiguous ==
  \A i \in 1 .. Len(arenas) - 1 : arenas[i + 1].start = arenas[i].start + arenas[i].n

\* No byte is lost or invented by splitting, coalescing and expanding: the
\* blocks with their headers add up to the pages taken from the allocator,
\* all of which are still the heap's.  As long as each expansion begins where
\* the one before it ends, the blocks tile those pages in list order: no two
\* overlap, none reaches outside, and no sequence of kmalloc, kfree and
\* krealloc changes that.
HeapTiles ==
  /\ BytesConserved
  /\ arenas # <<>> /\ Contiguous =>
       /\ heap[1].addr = arenas[1].start * PAGE_SIZE
       /\ \A i \in 1 .. Len(heap) - 1 : heap[i + 1].addr = End(heap[i])
       /\ LET a == arenas[Len(arenas)]
          IN End(heap[Len(heap)]) = (a.start + a.n) * PAGE_SIZE

\* kmalloc's block is never also somebody else's page: the memory of a block
\* in use lies in pages held by the heap.
InsideHeap ==
  \A i \in InUse : \A p \in heap[i].addr \div PAGE_SIZE .. (End(heap[i]) - 1) \div PAGE_SIZE :
    p \in Taken(arenas)
=============================================================================
