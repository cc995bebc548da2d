---------------------------- MODULE MemoryProofs ----------------------------
(***************************************************************************)
(* The page allocator and the heap on it are correct for every memory map  *)
(* and all request sizes: proofs about PmmSpec and HeapSpec.               *)
(***************************************************************************)
EXTENDS KHeap, LoopProofs, FiniteSetTheorems, SequenceTheorems

\* What pmm_init reserves is never handed out or cleared.
Reserved == (Pages \ Usable) \cup Run(bm_page, bm_count)

PmmInv == PmmTypeOK /\ FreeCount /\ HeldDisjoint /\ Reserved \subseteq bitmap

-----------------------------------------------------------------------------
\* The page numbers of the memory map are a finite set, and so is the part of
\* them that is free in the bitmap.
LEMMA PagesFinite ==
  ASSUME NEW S, S \subseteq Pages
  PROVE  IsFiniteSet(S) /\ Cardinality(S) \in Nat
  <1>1. IsFiniteSet(Pages)
    BY PmmAssumption, FS_Interval DEF Pages
  <1>2. QED
    BY <1>1, FS_Subset, FS_CardinalityType

\* A run of n pages, as pmm_alloc and pmm_free count them, has n pages.
LEMMA RunCardinality ==
  ASSUME NEW start \in Nat, NEW n \in Nat
  PROVE  IsFiniteSet(Run(start, n)) /\ Cardinality(Run(start, n)) = n
  BY FS_Interval DEF Run

\* Taking a subset out of a finite set lowers its size by the size of the
\* subset: the arithmetic of free_pages in pmm_alloc and pmm_free.
LEMMA CardinalitySplit ==
  ASSUME NEW S, NEW T, IsFiniteSet(S), T \subseteq S
  PROVE  Cardinality(S \ T) = Cardinality(S) - Cardinality(T)
  <1>1. S \cap T = T
    OBVIOUS
  <1>2. QED
    BY Zenon, <1>1, FS_Difference

\* pmm_free of a run that is still marked clears all of it.
LEMMA FreesWholeRun ==
  ASSUME NEW bits, NEW start \in Nat, NEW n \in Nat, Run(start, n) \subseteq bits
  PROVE  Freed(bits, start, n) = Run(start, n)
  BY DEF Freed, Run

-----------------------------------------------------------------------------
\* pmm_init establishes the invariant.
LEMMA PmmInitInv == PmmInit => PmmInv
  <1> SUFFICES ASSUME PmmInit PROVE PmmInv
    OBVIOUS
  <1> USE DEF PmmInit
  <1>1. Run(bm_page, bm_count) \subseteq Usable /\ Usable \subseteq Pages
    BY PmmAssumption DEF Pages
  <1>2. IsFiniteSet(Usable) /\ Cardinality(Usable) \in Nat
    BY <1>1, PagesFinite
  <1>3. Pages \ bitmap = Usable \ Run(bm_page, bm_count)
    BY <1>1
  <1>4. Cardinality(Usable \ Run(bm_page, bm_count)) = Cardinality(Usable) - bm_count
    BY <1>1, <1>2, CardinalitySplit, RunCardinality, PmmAssumption
  <1>5. FreeCount
    BY <1>3, <1>4 DEF FreeCount
  <1>6. PmmTypeOK
    <2>1. bitmap \subseteq Pages
      BY <1>1
    <2>2. free_pages \in Int
      BY <1>2, PmmAssumption
    <2>3. QED
      BY <2>1, <2>2 DEF PmmTypeOK
  <1>7. HeldDisjoint /\ Reserved \subseteq bitmap
    BY DEF HeldDisjoint, Reserved
  <1>8. QED
    BY <1>5, <1>6, <1>7 DEF PmmInv

\* An allocation below either limit preserves the invariant.
LEMMA AllocInv ==
  ASSUME PmmInv, NEW n \in 1 .. MaxRun, NEW limit \in {total_pages, max_page},
         alloc_below(n, limit)
  PROVE  PmmInv'
  <1> USE PmmAssumption DEF PmmInv
  <1> PICK start \in Pages :
        /\ FirstFit(bitmap, start, n, limit)
        /\ bitmap' = bitmap \cup Run(start, n)
        /\ free_pages' = free_pages - n
        /\ held' = held \cup {[start |-> start, n |-> n, limit |-> limit]}
    BY DEF alloc_below
  <1> DEFINE R == Run(start, n)
  <1> DEFINE new == [start |-> start, n |-> n, limit |-> limit]
  <1>1. start \in Nat /\ n \in Nat \ {0} /\ limit \in Nat /\ limit <= total_pages
    BY DEF Pages
  <1>2. start + n <= limit /\ R \cap bitmap = {}
    BY DEF FirstFit, FitsAt
  <1>3. R \subseteq Pages
    BY <1>1, <1>2 DEF Run, Pages
  <1>4. R \subseteq Pages \ bitmap
    BY <1>2, <1>3
  <1>5. PmmTypeOK'
    <2>1. new \in Request
      BY <1>1 DEF Request
    <2>2. bitmap' \subseteq Pages
      BY <1>3 DEF PmmTypeOK
    <2>3. free_pages' \in Int
      BY <1>1 DEF PmmTypeOK
    <2>4. held' \subseteq Request
      BY <2>1 DEF PmmTypeOK
    <2>5. Pages' = Pages /\ Request' = Request
      BY DEF Pages, Request
    <2>6. QED
      BY <2>2, <2>3, <2>4, <2>5 DEF PmmTypeOK
  <1>6. FreeCount'
    <2>1. IsFiniteSet(Pages \ bitmap)
      BY PagesFinite
    <2>2. Cardinality((Pages \ bitmap) \ R) = Cardinality(Pages \ bitmap) - Cardinality(R)
      BY <1>4, <2>1, CardinalitySplit
    <2>3. Cardinality(R) = n
      BY <1>1, RunCardinality
    <2>4. Pages \ bitmap' = (Pages \ bitmap) \ R
      OBVIOUS
    <2>5. QED
      BY Zenon, <2>2, <2>3, <2>4 DEF FreeCount, Pages
  <1>7. (Reserved \subseteq bitmap)'
    BY DEF Reserved, Pages
  <1>8. R \subseteq Usable \ Run(bm_page, bm_count)
    BY <1>4 DEF Reserved
  <1>9. HeldDisjoint'
    <2>1. \A r \in held : /\ Run(r.start, r.n) \subseteq bitmap
                          /\ Run(r.start, r.n) \cap R = {}
      BY <1>4 DEF HeldDisjoint
    <2>2. ASSUME NEW r \in held'
          PROVE  /\ Run(r.start, r.n) \subseteq bitmap' \cap (Usable \ Run(bm_page, bm_count))
                 /\ r.start + r.n <= r.limit
      <3>1. CASE r \in held
        BY <3>1 DEF HeldDisjoint
      <3>2. CASE r = new
        BY <3>2, <1>2, <1>8
      <3>3. QED
        BY <3>1, <3>2
    <2>3. ASSUME NEW r \in held', NEW s \in held', r # s
          PROVE  Run(r.start, r.n) \cap Run(s.start, s.n) = {}
      <3>1. CASE r \in held /\ s \in held
        BY <3>1, <2>3 DEF HeldDisjoint
      <3>2. CASE r = new /\ s \in held
        BY <3>2, <2>1
      <3>3. CASE r \in held /\ s = new
        BY <3>3, <2>1
      <3>4. QED
        BY <3>1, <3>2, <3>3, <2>3
    <2>4. QED
      BY <2>2, <2>3 DEF HeldDisjoint
  <1>10. QED
    BY <1>5, <1>6, <1>7, <1>9

\* Freeing a run that is held preserves the invariant.
LEMMA FreeInv ==
  ASSUME PmmInv, NEW r \in held, pmm_free(r)
  PROVE  PmmInv'
  <1> USE PmmAssumption DEF PmmInv
  <1> DEFINE R == Run(r.start, r.n)
  <1>1. r.start \in Nat /\ r.n \in Nat
    BY DEF PmmTypeOK, Request
  <1>2. R \subseteq bitmap /\ R \subseteq Usable \ Run(bm_page, bm_count)
    BY DEF HeldDisjoint
  <1>3. Freed(bitmap, r.start, r.n) = R
    BY <1>1, <1>2, FreesWholeRun
  <1>4. /\ bitmap' = bitmap \ R
        /\ free_pages' = free_pages + Cardinality(R)
        /\ held' = held \ {r}
    BY <1>3 DEF pmm_free
  <1>5. Cardinality(R) \in Nat
    BY <1>1, RunCardinality
  <1>6. PmmTypeOK'
    BY <1>4, <1>5 DEF PmmTypeOK
  <1>7. FreeCount'
    <2>1. IsFiniteSet(Pages \ bitmap')
      BY <1>4, PagesFinite
    <2>2. R \subseteq Pages \ bitmap' /\ (Pages \ bitmap') \ R = Pages \ bitmap
      BY <1>2, <1>4 DEF PmmTypeOK
    <2>3. Cardinality(Pages \ bitmap) = Cardinality(Pages \ bitmap') - Cardinality(R)
      BY <2>1, <2>2, CardinalitySplit
    <2>4. Cardinality(Pages \ bitmap') \in Nat
      BY PagesFinite
    <2>5. QED
      BY <1>4, <1>5, <2>3, <2>4 DEF FreeCount, Pages
  <1>8. (Reserved \subseteq bitmap)'
    BY <1>2, <1>4 DEF Reserved, Pages
  <1>9. HeldDisjoint'
    <2>1. ASSUME NEW s \in held'
          PROVE  Run(s.start, s.n) \subseteq bitmap'
      BY <1>4 DEF HeldDisjoint
    <2>2. QED
      BY <1>4, <2>1 DEF HeldDisjoint
  <1>10. QED
    BY <1>6, <1>7, <1>8, <1>9

\* Every step of the allocator and its clients preserves the invariant.
LEMMA PmmStepInv == PmmInv /\ [PmmNext]_pmmVars => PmmInv'
  <1> SUFFICES ASSUME PmmInv, [PmmNext]_pmmVars PROVE PmmInv'
    OBVIOUS
  <1>1. CASE pmm_alloc
    BY <1>1, AllocInv DEF pmm_alloc
  <1>2. CASE pmm_alloc_dma
    BY <1>2, AllocInv DEF pmm_alloc_dma
  <1>3. CASE \E r \in held : pmm_free(r)
    BY <1>3, FreeInv
  <1>4. CASE UNCHANGED pmmVars
    BY <1>4 DEF pmmVars, PmmInv, PmmTypeOK, FreeCount, HeldDisjoint, Reserved
  <1>5. QED
    BY <1>1, <1>2, <1>3, <1>4 DEF PmmNext

\* PmmInv is an invariant of the allocator: pmm_init establishes it and
\* pmm_alloc, pmm_alloc_dma and pmm_free preserve it.
LEMMA PmmInvHolds == PmmSpec => []PmmInv
  BY PmmInitInv, PmmStepInv, PTL DEF PmmSpec

-----------------------------------------------------------------------------
\* The counter free_pages is exact for every memory map: what sysinfo and
\* /proc/meminfo report is the number of pages pmm_alloc could still hand out.
THEOREM FreeCountExact == PmmSpec => []FreeCount
  BY PmmInvHolds, PTL DEF PmmInv

\* No page has two holders, none of them is the bitmap's or outside usable
\* memory, and DMA runs lie below the limit, for every memory map.
THEOREM NoPageTwice == PmmSpec => []HeldDisjoint
  BY PmmInvHolds, PTL DEF PmmInv

-----------------------------------------------------------------------------
(* Sums.                                                                   *)

USE Zenon

\* f[k] is the sum of the first k elements of s.
Sums(f, s) ==
  /\ f \in [0 .. Len(s) -> Int] /\ f[0] = 0
  /\ \A k \in 0 .. Len(s) - 1 : f[k + 1] = f[k] + s[k + 1]

\* Total is the last of these sums.
LEMMA TotalSums ==
  ASSUME NEW s \in Seq(Int)
  PROVE  \E f : Sums(f, s) /\ Total(s) = f[Len(s)]
  <1> DEFINE n == Len(s)
             g == [j \in 0 .. n - 1 |-> [x \in Int |-> x + s[j + 1]]]
             Eq(f) == f = [k \in 0 .. n |-> IF k = 0 THEN 0 ELSE f[k - 1] + s[k]]
             sum == CHOOSE f : Eq(f)
  <1>1. n \in Nat /\ 0 \in Nat /\ 0 <= n /\ 0 \in Int /\ \A k \in 1 .. n : s[k] \in Int
    BY SMT
  <1>2. g \in [0 .. n - 1 -> [Int -> Int]]
    <2>1. \A j \in 0 .. n - 1, x \in Int : x + s[j + 1] \in Int
      <3> HIDE DEF n
      <3>1. \A j \in 0 .. n - 1 : j + 1 \in 1 .. n
        BY SMT, <1>1
      <3>2. \A j \in 0 .. n - 1 : s[j + 1] \in Int
        BY <1>1, <3>1
      <3>3. QED
        BY SMT, <3>2
    <2> HIDE DEF n
    <2>2. QED
      BY <2>1
  <1> HIDE DEF n
  <1>3. PICK h \in [0 .. n -> Int] : Unrolls(h, g, 0, 0, n)
    <2> HIDE DEF g
    <2>1. QED
      BY <1>1, <1>2, Unrolled
  <1>4. ASSUME NEW k \in 0 .. n PROVE h[k] = IF k = 0 THEN 0 ELSE h[k - 1] + s[k]
    <2>1. CASE k = 0
      BY <1>3, <2>1 DEF Unrolls
    <2>2. CASE k # 0
      <3>1. k - 1 \in 0 .. n - 1 /\ (k - 1) + 1 = k /\ k - 1 \in 0 .. n
        BY SMT, <1>1, <2>2
      <3>2. h[k] = g[k - 1][h[k - 1]]
        BY <1>3, <2>2 DEF Unrolls
      <3>3. h[k - 1] \in Int
        BY <3>1
      <3>4. g[k - 1][h[k - 1]] = h[k - 1] + s[(k - 1) + 1]
        BY <3>1, <3>3
      <3>5. QED
        BY <2>2, <3>1, <3>2, <3>4
    <2>3. QED
      BY <2>1, <2>2
  <1>5. Eq(h)
    <2>1. h = [k \in 0 .. n |-> h[k]]
      OBVIOUS
    <2>2. QED
      BY <1>4, <2>1
  <1> HIDE DEF Eq
  <1>6. Eq(sum)
    BY <1>5
  <1> HIDE DEF sum
  <1>7. \A k \in 0 .. n : sum[k] = IF k = 0 THEN 0 ELSE sum[k - 1] + s[k]
    BY <1>6 DEF Eq
  <1>8. sum[0] = 0 /\ \A k \in 0 .. n - 1 : sum[k + 1] = sum[k] + s[k + 1]
    <2>1. 0 \in 0 .. n
      BY SMT, <1>1
    <2>2. \A k \in 0 .. n - 1 : k + 1 \in 0 .. n /\ k + 1 # 0 /\ (k + 1) - 1 = k
      BY SMT, <1>1
    <2>3. QED
      BY <1>7, <2>1, <2>2
  <1>9. \A k \in 0 .. n : sum[k] \in Int
    <2>1. \A k \in 0 .. n - 1 : sum[k] \in Int => sum[k + 1] \in Int
      <3>1. \A k \in 0 .. n - 1 : s[k + 1] \in Int
        BY SMT, <1>1
      <3>2. QED
        BY SMT, <1>8, <3>1
    <2>2. QED
      BY <1>1, <1>8, <2>1, StaysIn
  <1>10. sum = [k \in 0 .. n |-> sum[k]]
    BY <1>6 DEF Eq
  <1>11. sum \in [0 .. n -> Int]
    BY <1>9, <1>10
  <1>12. Total(s) = sum[n]
    BY DEF Total, sum, Eq, n
  <1>13. QED
    BY <1>8, <1>11, <1>12 DEF Sums, n

\* The total of a concatenation.
LEMMA TotalConcat ==
  ASSUME NEW s \in Seq(Int), NEW t \in Seq(Int)
  PROVE  Total(s \o t) = Total(s) + Total(t) /\ Total(s) \in Int /\ Total(t) \in Int
  <1> DEFINE m == Len(s)
             n == Len(t)
  <1>1. m \in Nat /\ n \in Nat /\ s \o t \in Seq(Int) /\ Len(s \o t) = m + n /\ 0 \in Nat
    BY SMT
  <1>2. PICK f : Sums(f, s) /\ Total(s) = f[Len(s)]
    BY TotalSums
  <1>3. PICK g : Sums(g, t) /\ Total(t) = g[Len(t)]
    BY TotalSums
  <1>4. PICK h : Sums(h, s \o t) /\ Total(s \o t) = h[Len(s \o t)]
    BY <1>1, TotalSums
  <1>5. /\ \A k \in 0 .. m - 1 : (s \o t)[k + 1] = s[k + 1]
        /\ \A k \in 0 .. n - 1 : (s \o t)[m + k + 1] = t[k + 1]
    BY SMTT(20)
  <1>6. \A k \in 0 .. m : h[k] = f[k]
    <2> DEFINE G == {k \in 0 .. m : h[k] = f[k]}
    <2>1. 0 \in G
      <3>1. 0 \in 0 .. m
        BY SMT, <1>1
      <3>2. QED
        BY <1>2, <1>4, <3>1 DEF Sums
    <2>2. ASSUME NEW k \in 0 .. m - 1, k \in G PROVE k + 1 \in G
      <3>1. k + 1 \in 0 .. m /\ k \in 0 .. (m + n) - 1
        BY SMT, <1>1
      <3>2. h[k + 1] = h[k] + (s \o t)[k + 1]
        BY <1>1, <1>4, <3>1 DEF Sums
      <3>3. f[k + 1] = f[k] + s[k + 1]
        BY <1>2 DEF Sums
      <3>4. QED
        BY <1>5, <2>2, <3>1, <3>2, <3>3
    <2> HIDE DEF G
    <2>3. \A k \in 0 .. m : k \in G
      BY <1>1, <2>1, <2>2, LoopInduction
    <2>4. QED
      BY <2>3 DEF G
  <1>7. \A k \in 0 .. n : h[m + k] = f[m] + g[k]
    <2> DEFINE G == {k \in 0 .. n : h[m + k] = f[m] + g[k]}
    <2>1. 0 \in G
      <3>1. 0 \in 0 .. n /\ m \in 0 .. m /\ m + 0 = m
        BY SMT, <1>1
      <3>2. f[m] \in Int
        BY <1>2, <3>1 DEF Sums
      <3>3. f[m] + 0 = f[m]
        BY SMT, <3>2
      <3>4. g[0] = 0
        BY <1>3 DEF Sums
      <3>5. QED
        BY <1>6, <3>1, <3>3, <3>4
    <2>2. ASSUME NEW k \in 0 .. n - 1, k \in G PROVE k + 1 \in G
      <3>1. k + 1 \in 0 .. n /\ k \in 0 .. n /\ m + k \in 0 .. (m + n) - 1 /\ m + (k + 1) = (m + k) + 1
              /\ m \in 0 .. m /\ k + 1 \in 1 .. n
        BY SMT, <1>1
      <3>2. h[(m + k) + 1] = h[m + k] + (s \o t)[(m + k) + 1]
        BY <1>1, <1>4, <3>1 DEF Sums
      <3>3. g[k + 1] = g[k] + t[k + 1]
        BY <1>3 DEF Sums
      <3>4. (s \o t)[(m + k) + 1] = t[k + 1]
        BY <1>5
      <3>5. f[m] \in Int /\ g[k] \in Int
        BY <1>2, <1>3, <3>1 DEF Sums
      <3>6. t[k + 1] \in Int
        BY SMT, <3>1
      <3>7. h[m + k] = f[m] + g[k]
        BY <2>2
      <3>8. (f[m] + g[k]) + t[k + 1] = f[m] + (g[k] + t[k + 1])
        BY SMT, <3>5, <3>6
      <3>9. QED
        BY <3>1, <3>2, <3>3, <3>4, <3>7, <3>8
    <2> HIDE DEF G
    <2>3. \A k \in 0 .. n : k \in G
      BY <1>1, <2>1, <2>2, LoopInduction
    <2>4. QED
      BY <2>3 DEF G
  <1>8. m \in 0 .. m /\ n \in 0 .. n
    BY SMT, <1>1
  <1>9. f[m] \in Int /\ g[n] \in Int
    BY <1>2, <1>3, <1>8 DEF Sums
  <1>10. QED
    BY <1>1, <1>2, <1>3, <1>4, <1>7, <1>8, <1>9

\* The totals of no element and of one.
LEMMA TotalFew ==
  ASSUME NEW x \in Int
  PROVE  Total(<<>>) = 0 /\ Total(<<x>>) = x
  <1>1. <<>> \in Seq(Int) /\ Len(<<>>) = 0 /\ <<x>> \in Seq(Int) /\ Len(<<x>>) = 1 /\ <<x>>[1] = x
    BY SMT
  <1>2. Total(<<>>) = 0
    BY <1>1, TotalSums DEF Sums
  <1>3. PICK f : Sums(f, <<x>>) /\ Total(<<x>>) = f[Len(<<x>>)]
    BY <1>1, TotalSums
  <1>4. 0 \in 0 .. 1 - 1 /\ 0 + 1 = 1 /\ 0 + x = x
    BY SMT
  <1>5. f[0 + 1] = f[0] + <<x>>[0 + 1] /\ f[0] = 0
    BY <1>1, <1>3, <1>4 DEF Sums
  <1>6. QED
    BY <1>1, <1>2, <1>3, <1>4, <1>5

-----------------------------------------------------------------------------
(* The list of blocks.                                                     *)

Block == [addr : Int, size : Int, free : BOOLEAN]

\* The bytes of the blocks with their headers.
Weight(h) == Total(Extents(h))

\* The blocks lie one behind the other from a to z.
Tiled(h, a, z) ==
  /\ h # <<>> /\ h[1].addr = a
  /\ \A i \in 1 .. Len(h) - 1 : h[i + 1].addr = End(h[i])
  /\ End(h[Len(h)]) = z

\* The numbers among the constants.
LEMMA HeapConstants ==
  HDR \in Nat /\ PAGE_SIZE \in Nat /\ PAGE_SIZE # 0 /\ HDR \in Int /\ PAGE_SIZE \in Int
  <1>1. HDR \in Nat /\ PAGE_SIZE \in Nat /\ PAGE_SIZE # 0
    BY KHeapAssumption
  <1>2. QED
    BY SMT, <1>1

\* The indices of a list, and the fields of its blocks.
LEMMA ListFacts ==
  ASSUME NEW h \in Seq(Block)
  PROVE  /\ Len(h) \in Nat /\ DOMAIN h = 1 .. Len(h) /\ h \in [1 .. Len(h) -> Block]
         /\ h # <<>> <=> Len(h) >= 1
         /\ \A i \in 1 .. Len(h) : h[i] \in Block /\ h[i].addr \in Int /\ h[i].size \in Int /\ h[i].free \in BOOLEAN
  <1>1. Len(h) \in Nat /\ DOMAIN h = 1 .. Len(h) /\ (h # <<>> <=> Len(h) >= 1) /\ h \in [1 .. Len(h) -> Block]
    BY SMT
  <1>2. \A i \in 1 .. Len(h) : h[i] \in Block
    BY <1>1
  <1>3. \A b \in Block : b.addr \in Int /\ b.size \in Int /\ b.free \in BOOLEAN
    BY DEF Block
  <1>4. QED
    BY <1>1, <1>2, <1>3

\* The bytes of each block.
LEMMA ExtentFacts ==
  ASSUME NEW h \in Seq(Block)
  PROVE  /\ Extents(h) \in Seq(Int) /\ Len(Extents(h)) = Len(h)
         /\ \A i \in 1 .. Len(h) : Extents(h)[i] = HDR + h[i].size
  <1>1. Len(h) \in Nat /\ DOMAIN h = 1 .. Len(h) /\ \A i \in 1 .. Len(h) : h[i].size \in Int
    BY ListFacts
  <1>2. Extents(h) = [i \in 1 .. Len(h) |-> HDR + h[i].size]
    BY <1>1 DEF Extents
  <1>3. \A i \in 1 .. Len(h) : HDR + h[i].size \in Int
    BY SMT, <1>1, HeapConstants
  <1>4. Extents(h) \in [1 .. Len(h) -> Int]
    BY <1>2, <1>3
  <1>5. Extents(h) \in Seq(Int) /\ Len(Extents(h)) = Len(h)
    BY SMT, <1>1, <1>4
  <1>6. QED
    BY <1>2, <1>5

\* The bytes of a concatenation of lists, and of a block.
LEMMA WeightConcat ==
  ASSUME NEW h \in Seq(Block), NEW k \in Seq(Block)
  PROVE  Weight(h \o k) = Weight(h) + Weight(k) /\ Weight(h) \in Int /\ Weight(k) \in Int
  <1>1. /\ Extents(h) \in Seq(Int) /\ Len(Extents(h)) = Len(h)
        /\ \A i \in 1 .. Len(h) : Extents(h)[i] = HDR + h[i].size
    BY ExtentFacts
  <1>2. /\ Extents(k) \in Seq(Int) /\ Len(Extents(k)) = Len(k)
        /\ \A i \in 1 .. Len(k) : Extents(k)[i] = HDR + k[i].size
    BY ExtentFacts
  <1>3. /\ h \o k \in Seq(Block) /\ Len(h) \in Nat /\ Len(k) \in Nat /\ Len(h \o k) = Len(h) + Len(k)
        /\ \A i \in 1 .. Len(h) + Len(k) : (h \o k)[i] = IF i <= Len(h) THEN h[i] ELSE k[i - Len(h)]
    BY SMT
  <1>4. /\ Extents(h \o k) \in Seq(Int) /\ Len(Extents(h \o k)) = Len(h \o k)
        /\ \A i \in 1 .. Len(h \o k) : Extents(h \o k)[i] = HDR + (h \o k)[i].size
    BY <1>3, ExtentFacts
  <1> DEFINE a == Extents(h)
             b == Extents(k)
             c == Extents(h \o k)
  <1>5. ASSUME NEW i \in 1 .. Len(a) + Len(b) PROVE c[i] = (a \o b)[i]
    <2>1. (a \o b)[i] = IF i <= Len(a) THEN a[i] ELSE b[i - Len(a)]
      <3>1. a \in Seq(Int) /\ b \in Seq(Int)
        BY <1>1, <1>2
      <3> HIDE DEF a, b
      <3>2. QED
        BY SMT, <3>1
    <2>2. c[i] = HDR + (h \o k)[i].size
      BY <1>1, <1>2, <1>3, <1>4
    <2>3. CASE i <= Len(h)
      <3>1. i \in 1 .. Len(h)
        BY SMT, <1>1, <1>2, <1>3, <2>3
      <3>2. QED
        BY <1>1, <1>2, <1>3, <2>1, <2>2, <2>3, <3>1
    <2>4. CASE ~(i <= Len(h))
      <3>1. i - Len(h) \in 1 .. Len(k)
        BY SMT, <1>1, <1>2, <1>3, <2>4
      <3>2. QED
        BY <1>1, <1>2, <1>3, <2>1, <2>2, <2>4, <3>1
    <2>5. QED
      BY <2>3, <2>4
  <1>6. c = a \o b
    <2>1. a \in Seq(Int) /\ b \in Seq(Int) /\ c \in Seq(Int) /\ Len(c) = Len(a) + Len(b)
      BY <1>1, <1>2, <1>3, <1>4
    <2> HIDE DEF a, b, c
    <2>2. a \o b \in Seq(Int) /\ Len(a \o b) = Len(a) + Len(b)
      BY SMT, <2>1
    <2>3. QED
      BY <1>5, <2>1, <2>2, SeqEqual
  <1>7. QED
    BY <1>1, <1>2, <1>6, TotalConcat DEF Weight

\* The weight of one block and of none.
LEMMA WeightOne ==
  ASSUME NEW b \in Block
  PROVE  Weight(<<b>>) = HDR + b.size /\ <<b>> \in Seq(Block) /\ Weight(<<>>) = 0
  <1>1. <<b>> \in Seq(Block) /\ Len(<<b>>) = 1 /\ <<b>>[1] = b /\ <<>> \in Seq(Block) /\ Len(<<>>) = 0
    BY SMT
  <1>2. HDR + b.size \in Int
    <2>1. b.size \in Int
      BY DEF Block
    <2>2. QED
      BY SMT, <2>1, HeapConstants
  <1>3. Extents(<<b>>) = <<HDR + b.size>>
    <2>1. Extents(<<b>>) \in Seq(Int) /\ Len(Extents(<<b>>)) = 1 /\ Extents(<<b>>)[1] = HDR + b.size
      <3>1. 1 \in 1 .. 1
        BY SMT
      <3>2. QED
        BY ZenonT(40), <1>1, <3>1, ExtentFacts
    <2>2. ASSUME NEW u \in Seq(Int), Len(u) = 1 PROVE u = <<u[1]>>
      BY SMT, <2>2
    <2>3. QED
      BY <2>1, <2>2
  <1>4. Extents(<<>>) = <<>>
    <2>1. Extents(<<>>) \in Seq(Int) /\ Len(Extents(<<>>)) = 0
      BY <1>1, ExtentFacts
    <2>2. ASSUME NEW u \in Seq(Int), Len(u) = 0 PROVE u = <<>>
      BY SMT, <2>2
    <2>3. QED
      BY <2>1, <2>2
  <1>5. QED
    BY <1>1, <1>2, <1>3, <1>4, TotalFew DEF Weight

\* k has the bytes of h, cut into other blocks.
Recut(h, k) ==
  /\ k \in Seq(Block) /\ (h = <<>> <=> k = <<>>) /\ Weight(k) = Weight(h)
  /\ \A a, z : Tiled(h, a, z) => Tiled(k, a, z)

\* Another flag of a block changes nothing else.
LEMMA SameBlocks ==
  ASSUME NEW h \in Seq(Block), NEW k \in Seq(Block), Len(k) = Len(h),
         \A i \in 1 .. Len(h) : k[i].addr = h[i].addr /\ k[i].size = h[i].size
  PROVE  Recut(h, k)
  <1>1. Len(h) \in Nat /\ (h # <<>> <=> Len(h) >= 1) /\ (k # <<>> <=> Len(h) >= 1)
    BY ListFacts
  <1>2. Extents(k) = Extents(h)
    <2>1. Extents(h) \in Seq(Int) /\ Len(Extents(h)) = Len(h) /\ \A i \in 1 .. Len(h) : Extents(h)[i] = HDR + h[i].size
      BY ExtentFacts
    <2>2. Extents(k) \in Seq(Int) /\ Len(Extents(k)) = Len(k) /\ \A i \in 1 .. Len(k) : Extents(k)[i] = HDR + k[i].size
      BY ExtentFacts
    <2>3. \A i \in 1 .. Len(Extents(k)) : Extents(k)[i] = Extents(h)[i]
      BY <2>1, <2>2
    <2>4. QED
      BY <2>1, <2>2, <2>3, SeqEqual
  <1>3. ASSUME NEW a, NEW z, Tiled(h, a, z) PROVE Tiled(k, a, z)
    <2>1. \A i \in 1 .. Len(h) : End(k[i]) = End(h[i])
      BY DEF End
    <2>2. h # <<>> /\ Len(h) >= 1
      BY <1>1, <1>3 DEF Tiled
    <2>3. 1 \in 1 .. Len(h) /\ Len(h) \in 1 .. Len(h)
            /\ \A i \in 1 .. Len(h) - 1 : i \in 1 .. Len(h) /\ i + 1 \in 1 .. Len(h)
      BY SMT, <1>1, <2>2
    <2>4. QED
      BY <1>1, <1>3, <2>1, <2>2, <2>3 DEF Tiled
  <1>4. QED
    BY <1>1, <1>2, <1>3 DEF Recut, Weight

\* A block b behind a list.
LEMMA TiledAppend ==
  ASSUME NEW h \in Seq(Block), NEW b \in Block, NEW a, NEW z
  PROVE  Tiled(Append(h, b), a, z) <=>
           End(b) = z /\ IF h = <<>> THEN b.addr = a ELSE Tiled(h, a, b.addr)
  <1> DEFINE k == Append(h, b)
             n == Len(h)
  <1>1. /\ n \in Nat /\ k \in Seq(Block) /\ Len(k) = n + 1 /\ k # <<>> /\ k[n + 1] = b
        /\ \A i \in 1 .. n : k[i] = h[i]
    BY SMT
  <1>2. h # <<>> <=> n >= 1
    BY ListFacts
  <1>3. (n + 1) - 1 = n
    BY SMT, <1>1
  <1> HIDE DEF k, n
  <1>4. CASE h = <<>>
    <2>1. n = 0 /\ 0 + 1 = 1 /\ 1 .. 0 = {}
      BY SMT, <1>1, <1>2, <1>4
    <2>2. Tiled(k, a, z) <=> b.addr = a /\ End(b) = z
      BY <1>1, <1>3, <2>1 DEF Tiled
    <2>3. QED
      BY <1>4, <2>2 DEF k
  <1>5. CASE h # <<>>
    <2>1. n >= 1
      BY <1>2, <1>5
    <2>2. 1 \in 1 .. n /\ n \in 1 .. n
            /\ \A i \in 1 .. n - 1 : i \in 1 .. n /\ i + 1 \in 1 .. n
      BY SMT, <1>1, <2>1
    <2>3. \A i \in 1 .. n : i \in 1 .. n - 1 \/ i = n
      BY SMT, <1>1
    <2>4. ASSUME Tiled(k, a, z) PROVE End(b) = z /\ Tiled(h, a, b.addr)
      <3>1. k[1].addr = a /\ End(k[n + 1]) = z /\ \A i \in 1 .. n : k[i + 1].addr = End(k[i])
        BY <1>1, <1>3, <2>4 DEF Tiled
      <3>2. h[1].addr = a /\ End(b) = z /\ b.addr = End(h[n]) /\ \A i \in 1 .. n - 1 : h[i + 1].addr = End(h[i])
        BY <1>1, <2>2, <3>1
      <3>3. QED
        BY <1>5, <3>2 DEF Tiled, n
    <2>5. ASSUME End(b) = z, Tiled(h, a, b.addr) PROVE Tiled(k, a, z)
      <3>1. h[1].addr = a /\ b.addr = End(h[n]) /\ \A i \in 1 .. n - 1 : h[i + 1].addr = End(h[i])
        BY <2>5 DEF Tiled, n
      <3>2. k[1].addr = a /\ End(k[n + 1]) = z
        BY <1>1, <2>2, <2>5, <3>1
      <3>3. ASSUME NEW i \in 1 .. n PROVE k[i + 1].addr = End(k[i])
        <4>1. CASE i = n
          BY <1>1, <2>2, <3>1, <4>1
        <4>2. CASE i \in 1 .. n - 1
          BY <1>1, <2>2, <3>1, <4>2
        <4>3. QED
          BY <2>3, <4>1, <4>2
      <3>4. QED
        BY <1>1, <1>3, <3>2, <3>3 DEF Tiled
    <2>6. QED
      BY <1>5, <2>4, <2>5 DEF k
  <1>6. QED
    BY <1>4, <1>5

\* The bytes of a list and a block behind it.
LEMMA WeightAppend ==
  ASSUME NEW h \in Seq(Block), NEW b \in Block
  PROVE  Weight(Append(h, b)) = Weight(h) + (HDR + b.size) /\ Append(h, b) \in Seq(Block)
  <1>1. Append(h, b) = h \o <<b>> /\ <<b>> \in Seq(Block) /\ Append(h, b) \in Seq(Block)
    BY SMT
  <1>2. QED
    BY <1>1, WeightConcat, WeightOne

\* A list is the one without its last block, and that.
LEMMA LastBlock ==
  ASSUME NEW h \in Seq(Block), h # <<>>
  PROVE  /\ SubSeq(h, 1, Len(h) - 1) \in Seq(Block) /\ h[Len(h)] \in Block
         /\ h = Append(SubSeq(h, 1, Len(h) - 1), h[Len(h)])
  <1>1. Len(h) \in Nat /\ Len(h) >= 1
    BY ListFacts
  <1>2. SubSeq(h, 1, Len(h) - 1) \in Seq(Block) /\ h[Len(h)] \in Block
    BY SMT, <1>1
  <1>3. h = Append(SubSeq(h, 1, Len(h) - 1), h[Len(h)])
    BY SMT, <1>1
  <1>4. QED
    BY <1>2, <1>3

-----------------------------------------------------------------------------
(* heap_coalesce.                                                          *)

\* A prefix of a list.
LEMMA PrefixFacts ==
  ASSUME NEW S, NEW s \in Seq(S), NEW k \in 0 .. Len(s)
  PROVE  /\ SubSeq(s, 1, k) \in Seq(S) /\ Len(SubSeq(s, 1, k)) = k
         /\ \A i \in 1 .. k : SubSeq(s, 1, k)[i] = s[i]
  <1>1. k \in Int /\ 1 \in Int /\ \A i \in 1 .. k : s[i] \in S
    BY SMT
  <1> DEFINE w == SubSeq(s, 1, k)
  <1>2. /\ w \in Seq(S) /\ Len(w) = IF 1 <= k THEN k - 1 + 1 ELSE 0
        /\ \A i \in 1 .. k - 1 + 1 : w[i] = s[1 + i - 1]
    BY <1>1, SubSeqProperties, SMT
  <1> HIDE DEF w
  <1>3. Len(w) = k /\ \A i \in 1 .. k : w[i] = s[i]
    BY SMT, <1>1, <1>2
  <1>4. QED
    BY <1>2, <1>3 DEF w

\* One block further.
LEMMA PrefixNext ==
  ASSUME NEW S, NEW s \in Seq(S), NEW k \in 1 .. Len(s)
  PROVE  s[k] \in S /\ SubSeq(s, 1, k) = Append(SubSeq(s, 1, k - 1), s[k])
  <1> DEFINE u == SubSeq(s, 1, k)
             v == SubSeq(s, 1, k - 1)
  <1>1. k \in 0 .. Len(s) /\ k - 1 \in 0 .. Len(s) /\ s[k] \in S /\ k \in Nat /\ k >= 1
    BY SMT
  <1>2. u \in Seq(S) /\ Len(u) = k /\ \A i \in 1 .. k : u[i] = s[i]
    BY <1>1, PrefixFacts
  <1>3. v \in Seq(S) /\ Len(v) = k - 1 /\ \A i \in 1 .. k - 1 : v[i] = s[i]
    BY <1>1, PrefixFacts
  <1> HIDE DEF u, v
  <1>4. /\ Append(v, s[k]) \in Seq(S) /\ Len(Append(v, s[k])) = k
        /\ \A i \in 1 .. k : Append(v, s[k])[i] = s[i]
    BY SMT, <1>1, <1>3
  <1>5. u = Append(v, s[k])
    BY <1>2, <1>4, SeqEqual
  <1>6. QED
    BY <1>1, <1>5 DEF u, v

PassState == [list : Seq(Block), merged : BOOLEAN]

\* The last block of a list takes in b.
Swollen(l, b) == [l EXCEPT ![Len(l)].size = @ + HDR + b.size]

\* What that makes of the bytes and of the order.
LEMMA SwollenFacts ==
  ASSUME NEW l \in Seq(Block), l # <<>>, NEW b \in Block
  PROVE  /\ Swollen(l, b) \in Seq(Block) /\ Swollen(l, b) # <<>>
         /\ Weight(Swollen(l, b)) = Weight(l) + (HDR + b.size)
         /\ \A a : Tiled(l, a, b.addr) => Tiled(Swollen(l, b), a, End(b))
  <1> DEFINE n == Len(l)
             f == SubSeq(l, 1, n - 1)
             x == l[n]
             y == [x EXCEPT !.size = @ + HDR + b.size]
  <1>1. f \in Seq(Block) /\ x \in Block /\ l = Append(f, x)
    BY LastBlock
  <1>2. n \in Nat /\ n >= 1 /\ l \in [1 .. n -> Block] /\ DOMAIN l = 1 .. n
    BY ListFacts
  <1>3. x.addr \in Int /\ x.size \in Int /\ b.addr \in Int /\ b.size \in Int /\ HDR \in Int
    BY <1>1, HeapConstants DEF Block
  <1> HIDE DEF x
  <1>4. y \in Block /\ y.addr = x.addr /\ y.size = x.size + HDR + b.size
    <2>1. x.size + HDR + b.size \in Int
      BY SMT, <1>3
    <2>2. QED
      BY <1>1, <2>1 DEF Block
  <1> HIDE DEF y
  <1>5. Swollen(l, b) = Append(f, y)
    <2>1. Swollen(l, b) = [l EXCEPT ![n] = y]
      BY DEF Swollen, y, x
    <2>2. ASSUME NEW S, NEW s \in Seq(S), Len(s) >= 1, NEW e \in S
          PROVE  [s EXCEPT ![Len(s)] = e] = Append(SubSeq(s, 1, Len(s) - 1), e)
      <3> DEFINE u == [s EXCEPT ![Len(s)] = e]
                 v == Append(SubSeq(s, 1, Len(s) - 1), e)
      <3>1. /\ Len(s) \in Nat /\ u \in Seq(S) /\ Len(u) = Len(s) /\ u[Len(s)] = e
            /\ \A i \in 1 .. Len(s) : i # Len(s) => u[i] = s[i]
        BY SMT, <2>2
      <3>2. /\ v \in Seq(S) /\ Len(v) = Len(s) /\ v[Len(s)] = e
            /\ \A i \in 1 .. Len(s) : i # Len(s) => v[i] = s[i]
        <4> DEFINE w == SubSeq(s, 1, Len(s) - 1)
        <4>1. /\ Len(s) \in Nat /\ w \in Seq(S) /\ Len(w) = Len(s) - 1
              /\ \A i \in 1 .. Len(s) - 1 : w[i] = s[i]
          <5>1. Len(s) \in Nat /\ Len(s) - 1 \in 0 .. Len(s)
            BY SMT, <2>2
          <5>2. QED
            BY <2>2, <5>1, PrefixFacts
        <4> HIDE DEF w
        <4>2. Append(w, e) \in Seq(S) /\ Len(Append(w, e)) = Len(s) /\ Append(w, e)[Len(s)] = e
          BY SMT, <2>2, <4>1
        <4>3. \A i \in 1 .. Len(s) : i # Len(s) => Append(w, e)[i] = s[i]
          BY SMT, <2>2, <4>1
        <4>4. QED
          BY <4>2, <4>3 DEF w
      <3> HIDE DEF u, v
      <3>3. \A i \in 1 .. Len(u) : u[i] = v[i]
        BY <3>1, <3>2
      <3>4. u = v
        BY <3>1, <3>2, <3>3, SeqEqual
      <3>5. QED
        BY <3>4 DEF u, v
    <2>3. QED
      BY <1>2, <1>4, <2>1, <2>2
  <1> HIDE DEF f
  <1>6. Weight(Append(f, y)) = Weight(l) + (HDR + b.size)
    <2>1. /\ Weight(Append(f, y)) = Weight(f) + (HDR + y.size)
          /\ Weight(Append(f, x)) = Weight(f) + (HDR + x.size)
      BY <1>1, <1>4, WeightAppend
    <2>2. Weight(f) \in Int
      BY <1>1, WeightConcat
    <2>3. Weight(l) = Weight(f) + (HDR + x.size)
      BY <1>1, <2>1
    <2>4. (Weight(f) + (HDR + x.size)) + (HDR + b.size) = Weight(f) + (HDR + y.size)
      BY SMT, <1>3, <1>4, <2>2
    <2>5. QED
      BY <2>1, <2>3, <2>4
  <1>7. ASSUME NEW a, Tiled(l, a, b.addr) PROVE Tiled(Append(f, y), a, End(b))
    <2>1. End(x) = b.addr /\ IF f = <<>> THEN x.addr = a ELSE Tiled(f, a, x.addr)
      BY <1>1, <1>7, TiledAppend
    <2>2. End(y) = End(b)
      BY SMT, <1>3, <1>4, <2>1 DEF End
    <2>3. IF f = <<>> THEN y.addr = a ELSE Tiled(f, a, y.addr)
      BY <1>4, <2>1
    <2>4. QED
      BY <1>1, <1>4, <2>2, <2>3, TiledAppend
  <1>8. Append(f, y) # <<>> /\ Append(f, y) \in Seq(Block)
    BY SMT, <1>1, <1>4
  <1>9. QED
    BY <1>5, <1>6, <1>7, <1>8

\* A step of the pass leaves the bytes of the blocks it has come to.
LEMMA MergeStep ==
  ASSUME NEW p \in Seq(Block), NEW s \in PassState, Recut(p, s.list), NEW b \in Block
  PROVE  Merge(s, b) \in PassState /\ Recut(Append(p, b), Merge(s, b).list)
  <1> DEFINE l == s.list
             m == Merge(s, b)
  <1>1. l \in Seq(Block) /\ (p = <<>> <=> l = <<>>) /\ Weight(l) = Weight(p)
    BY DEF Recut
  <1>2. Weight(Append(p, b)) = Weight(p) + (HDR + b.size) /\ Append(p, b) \in Seq(Block) /\ Append(p, b) # <<>>
    <2>1. Append(p, b) # <<>>
      BY AppendProperties
    <2>2. QED
      BY <2>1, WeightAppend
  <1>3. Len(l) > 0 <=> l # <<>>
    <2>1. l # <<>> <=> Len(l) >= 1
      BY <1>1, ListFacts
    <2>2. Len(l) \in Nat
      BY <1>1, ListFacts
    <2>3. Len(l) >= 1 <=> Len(l) > 0
      BY SMT, <2>2
    <2>4. QED
      BY <2>1, <2>3
  <1>4. ASSUME NEW a, NEW z, Tiled(Append(p, b), a, z)
        PROVE  End(b) = z /\ IF l = <<>> THEN b.addr = a ELSE Tiled(l, a, b.addr)
    <2>1. End(b) = z /\ IF p = <<>> THEN b.addr = a ELSE Tiled(p, a, b.addr)
      BY <1>4, TiledAppend
    <2>2. QED
      BY <1>1, <2>1 DEF Recut
  <1>5. CASE m = [list |-> Append(l, b), merged |-> FALSE]
    <2> HIDE DEF m, l
    <2>1. m.list = Append(l, b) /\ m.merged = FALSE
      BY <1>5
    <2>2. Append(l, b) \in Seq(Block) /\ Weight(Append(l, b)) = Weight(l) + (HDR + b.size)
      BY <1>1, WeightAppend
    <2>3. Append(l, b) # <<>>
      BY <1>1, AppendProperties
    <2>4. \A a, z : Tiled(Append(p, b), a, z) => Tiled(Append(l, b), a, z)
      BY <1>1, <1>4, TiledAppend
    <2>5. QED
      BY <1>1, <1>2, <1>5, <2>1, <2>2, <2>3, <2>4 DEF Recut, PassState, m
  <1>6. CASE l # <<>> /\ m = [list |-> Swollen(l, b), merged |-> TRUE]
    <2> HIDE DEF m, l
    <2>1. m.list = Swollen(l, b) /\ m.merged = TRUE
      BY <1>6
    <2>2. /\ Swollen(l, b) \in Seq(Block) /\ Swollen(l, b) # <<>>
          /\ Weight(Swollen(l, b)) = Weight(l) + (HDR + b.size)
          /\ \A a : Tiled(l, a, b.addr) => Tiled(Swollen(l, b), a, End(b))
      BY <1>1, <1>6, SwollenFacts
    <2>3. \A a, z : Tiled(Append(p, b), a, z) => Tiled(Swollen(l, b), a, z)
      BY <1>4, <1>6, <2>2
    <2>4. QED
      BY <1>1, <1>2, <1>6, <2>1, <2>2, <2>3 DEF Recut, PassState, m
  <1>7. QED
    BY <1>3, <1>5, <1>6 DEF Merge, Swollen

\* A step of the pass from any list.
LEMMA MergeTyped ==
  ASSUME NEW s \in PassState, NEW b \in Block
  PROVE  Merge(s, b) \in PassState
  <1>1. s.list \in Seq(Block)
    BY DEF PassState
  <1>2. Recut(s.list, s.list)
    BY <1>1 DEF Recut
  <1>3. QED
    BY <1>1, <1>2, MergeStep

\* The pass of heap_coalesce: what it has after k blocks.
IsPass(f, h) == f = [k \in 0 .. Len(h) |-> IF k = 0 THEN [list |-> <<>>, merged |-> FALSE] ELSE Merge(f[k - 1], h[k])]

\* There is such a function.
LEMMA PassExists ==
  ASSUME NEW h \in Seq(Block)
  PROVE  \E f : IsPass(f, h)
  <1> DEFINE n == Len(h)
             m == [list |-> <<>>, merged |-> FALSE]
             g == [j \in 0 .. n - 1 |-> [x \in PassState |-> Merge(x, h[j + 1])]]
  <1>1. n \in Nat /\ 0 \in Nat /\ 0 <= n /\ \A k \in 1 .. n : h[k] \in Block
    BY SMT
  <1>2. m \in PassState
    <2>1. <<>> \in Seq(Block)
      BY SMT
    <2>2. QED
      BY <2>1 DEF PassState
  <1>3. \A x \in PassState, b \in Block : Merge(x, b) \in PassState
    BY MergeTyped
  <1>4. g \in [0 .. n - 1 -> [PassState -> PassState]]
    <2> HIDE DEF n
    <2>1. \A j \in 0 .. n - 1 : j + 1 \in 1 .. n
      BY SMT, <1>1
    <2>2. \A j \in 0 .. n - 1 : h[j + 1] \in Block
      BY <1>1, <2>1
    <2>3. \A j \in 0 .. n - 1, x \in PassState : Merge(x, h[j + 1]) \in PassState
      BY <1>3, <2>2
    <2>4. QED
      BY <2>3
  <1> HIDE DEF n, m
  <1>5. PICK f \in [0 .. n -> PassState] : Unrolls(f, g, m, 0, n)
    <2> HIDE DEF g
    <2>1. QED
      BY <1>1, <1>2, <1>4, Unrolled
  <1>6. ASSUME NEW k \in 0 .. n PROVE f[k] = IF k = 0 THEN m ELSE Merge(f[k - 1], h[k])
    <2>1. CASE k = 0
      BY <1>5, <2>1 DEF Unrolls
    <2>2. CASE k # 0
      <3>1. k - 1 \in 0 .. n - 1 /\ (k - 1) + 1 = k /\ k - 1 \in 0 .. n
        BY SMT, <1>1, <2>2
      <3>2. f[k] = g[k - 1][f[k - 1]]
        BY <1>5, <2>2 DEF Unrolls
      <3>3. f[k - 1] \in PassState
        BY <3>1
      <3>4. g[k - 1][f[k - 1]] = Merge(f[k - 1], h[(k - 1) + 1])
        BY <3>1, <3>3
      <3>5. QED
        BY <2>2, <3>1, <3>2, <3>4
    <2>3. QED
      BY <2>1, <2>2
  <1>7. f = [k \in 0 .. n |-> f[k]]
    OBVIOUS
  <1>8. f = [k \in 0 .. n |-> IF k = 0 THEN m ELSE Merge(f[k - 1], h[k])]
    BY <1>6, <1>7
  <1>9. QED
    BY <1>8 DEF IsPass, n, m

\* heap_coalesce cuts the same bytes into blocks anew.
LEMMA CoalesceRecut ==
  ASSUME NEW h \in Seq(Block)
  PROVE  Recut(h, heap_coalesce(h))
  <1> DEFINE n == Len(h)
             f == CHOOSE w : IsPass(w, h)
             G == {k \in 0 .. n : f[k] \in PassState /\ Recut(SubSeq(h, 1, k), f[k].list)}
  <1>1. n \in Nat /\ 0 \in Nat /\ 0 <= n /\ 0 \in 0 .. n /\ n \in 0 .. n
    BY SMT
  <1>2. IsPass(f, h)
    BY PassExists
  <1>3. heap_coalesce(h) = f[n].list
    BY DEF heap_coalesce, IsPass
  <1> HIDE DEF f, n
  <1>4. \A k \in 0 .. n : f[k] = IF k = 0 THEN [list |-> <<>>, merged |-> FALSE] ELSE Merge(f[k - 1], h[k])
    BY <1>2 DEF IsPass, n
  <1>5. 0 \in G
    <2>1. f[0] = [list |-> <<>>, merged |-> FALSE]
      BY <1>1, <1>4
    <2>2. <<>> \in Seq(Block)
      BY SMT
    <2>3. f[0] \in PassState /\ f[0].list = <<>>
      <3>1. [list |-> <<>>, merged |-> FALSE] \in PassState
        BY <2>2 DEF PassState
      <3>2. [list |-> <<>>, merged |-> FALSE].list = <<>>
        OBVIOUS
      <3>3. QED
        BY <2>1, <3>1, <3>2
    <2>4. SubSeq(h, 1, 0) = <<>>
      BY SMT
    <2>5. Recut(<<>>, <<>>)
      BY <2>2 DEF Recut
    <2>6. QED
      BY <1>1, <2>3, <2>4, <2>5
  <1>6. ASSUME NEW k \in 0 .. n - 1, k \in G PROVE k + 1 \in G
    <2>1. k + 1 \in 1 .. n /\ k + 1 \in 0 .. n /\ k + 1 # 0 /\ (k + 1) - 1 = k
      BY SMT, <1>1
    <2>2. h[k + 1] \in Block /\ SubSeq(h, 1, k + 1) = Append(SubSeq(h, 1, k), h[k + 1])
      <3>1. k + 1 \in 1 .. Len(h)
        BY <2>1 DEF n
      <3>2. h[k + 1] \in Block /\ SubSeq(h, 1, k + 1) = Append(SubSeq(h, 1, (k + 1) - 1), h[k + 1])
        BY <3>1, PrefixNext
      <3>3. QED
        BY <2>1, <3>2
    <2>3. SubSeq(h, 1, k) \in Seq(Block)
      <3>1. k \in 0 .. Len(h)
        BY SMT, <1>1 DEF n
      <3>2. QED
        BY <3>1, PrefixFacts
    <2>4. f[k + 1] = Merge(f[k], h[k + 1])
      BY <1>4, <2>1
    <2>5. f[k] \in PassState /\ Recut(SubSeq(h, 1, k), f[k].list)
      BY <1>6
    <2>6. Merge(f[k], h[k + 1]) \in PassState /\ Recut(Append(SubSeq(h, 1, k), h[k + 1]), Merge(f[k], h[k + 1]).list)
      BY <2>2, <2>3, <2>5, MergeStep
    <2>7. QED
      BY <2>1, <2>2, <2>4, <2>6
  <1>7. n \in G
    <2>1. \A k \in 0 .. n - 1 : k \in G => k + 1 \in G
      BY <1>6
    <2> HIDE DEF G
    <2>2. \A k \in 0 .. n : k \in G
      BY <1>1, <1>5, <2>1, LoopInduction
    <2>3. QED
      BY <1>1, <2>2
  <1>8. SubSeq(h, 1, n) = h
    BY SMT DEF n
  <1>9. QED
    BY <1>3, <1>7, <1>8

-----------------------------------------------------------------------------
(* kmalloc's choice of a block, and kfree.                                 *)

\* A list is what stands before its block i, that block, and what follows.
LEMMA CutAt ==
  ASSUME NEW S, NEW h \in Seq(S), NEW i \in 1 .. Len(h)
  PROVE  /\ SubSeq(h, 1, i - 1) \in Seq(S) /\ Len(SubSeq(h, 1, i - 1)) = i - 1
         /\ \A j \in 1 .. i - 1 : SubSeq(h, 1, i - 1)[j] = h[j]
         /\ SubSeq(h, i + 1, Len(h)) \in Seq(S) /\ Len(SubSeq(h, i + 1, Len(h))) = Len(h) - i
         /\ \A j \in 1 .. Len(h) - i : SubSeq(h, i + 1, Len(h))[j] = h[j + i]
         /\ h = Append(SubSeq(h, 1, i - 1), h[i]) \o SubSeq(h, i + 1, Len(h))
  <1> DEFINE n == Len(h)
             A == SubSeq(h, 1, i - 1)
             C == SubSeq(h, i + 1, n)
  <1>1. n \in Nat /\ i \in Nat /\ 1 <= i /\ i <= n /\ i - 1 \in 0 .. n /\ i + 1 \in Int /\ n \in Int /\ h[i] \in S
    BY SMT
  <1>2. A \in Seq(S) /\ Len(A) = i - 1 /\ \A j \in 1 .. i - 1 : A[j] = h[j]
    BY <1>1, PrefixFacts
  <1>3. C \in Seq(S) /\ Len(C) = n - i /\ \A j \in 1 .. n - i : C[j] = h[j + i]
    <2>1. \A j \in i + 1 .. n : h[j] \in S
      BY SMT, <1>1
    <2> HIDE DEF n
    <2>2. /\ C \in Seq(S) /\ Len(C) = IF i + 1 <= n THEN n - (i + 1) + 1 ELSE 0
          /\ \A j \in 1 .. n - (i + 1) + 1 : C[j] = h[(i + 1) + j - 1]
      BY <1>1, <2>1, SubSeqProperties, SMT
    <2> HIDE DEF C
    <2>3. Len(C) = n - i /\ n - (i + 1) + 1 = n - i /\ \A j \in 1 .. n - i : (i + 1) + j - 1 = j + i
      BY SMT, <1>1, <2>2
    <2>4. \A j \in 1 .. n - i : C[j] = h[j + i]
      BY <2>2, <2>3
    <2>5. QED
      BY <2>2, <2>3, <2>4
  <1> HIDE DEF A, C, n
  <1>4. h = Append(A, h[i]) \o C
    <2> DEFINE B == Append(A, h[i])
    <2>1. B \in Seq(S) /\ Len(B) = i /\ \A j \in 1 .. i : B[j] = h[j]
      BY SMT, <1>1, <1>2
    <2> HIDE DEF B
    <2>2. /\ B \o C \in Seq(S) /\ Len(B \o C) = i + (n - i)
          /\ \A j \in 1 .. i + (n - i) : (B \o C)[j] = IF j <= i THEN B[j] ELSE C[j - i]
      <3>0. B \in Seq(S) /\ C \in Seq(S)
        BY <1>3, <2>1
      <3>1. /\ B \o C \in Seq(S) /\ Len(B \o C) = Len(B) + Len(C)
            /\ \A j \in 1 .. Len(B) + Len(C) : (B \o C)[j] = IF j <= Len(B) THEN B[j] ELSE C[j - Len(B)]
        BY <3>0, ConcatProperties
      <3>2. Len(B) = i /\ Len(C) = n - i
        BY <1>3, <2>1
      <3>3. QED
        BY <3>1, <3>2
    <2>3. i + (n - i) = n
      BY SMT, <1>1
    <2>4. ASSUME NEW j \in 1 .. n PROVE (B \o C)[j] = h[j]
      <3>1. CASE j <= i
        <4>1. j \in 1 .. i
          BY SMT, <1>1, <3>1
        <4>2. QED
          BY <2>1, <2>2, <2>3, <3>1, <4>1
      <3>2. CASE ~ (j <= i)
        <4>1. j - i \in 1 .. n - i /\ (j - i) + i = j
          BY SMT, <1>1, <3>2
        <4>2. QED
          BY <1>3, <2>2, <2>3, <3>2, <4>1
      <3>3. QED
        BY <3>1, <3>2
    <2>5. h = B \o C
      <3>1. Len(h) = n
        BY DEF n
      <3>2. \A j \in 1 .. Len(h) : h[j] = (B \o C)[j]
        BY <2>4, <3>1
      <3>3. QED
        BY <2>2, <2>3, <3>1, <3>2, SeqEqual
    <2>6. QED
      BY <2>5 DEF B
  <1>5. QED
    BY <1>2, <1>3, <1>4 DEF A, C, n

\* Two lists, one after the other: the second begins where the first ends.
LEMMA TiledConcat ==
  ASSUME NEW h \in Seq(Block), NEW k \in Seq(Block), h # <<>>, k # <<>>, NEW a, NEW z
  PROVE  Tiled(h \o k, a, z) <=> Tiled(h, a, k[1].addr) /\ Tiled(k, k[1].addr, z)
  <1> DEFINE n == Len(h)
             m == Len(k)
             p == h \o k
  <1>1. n \in Nat /\ n >= 1 /\ m \in Nat /\ m >= 1
    BY ListFacts
  <1>2. /\ p \in Seq(Block) /\ Len(p) = n + m
        /\ \A i \in 1 .. n + m : p[i] = IF i <= n THEN h[i] ELSE k[i - n]
    BY ConcatProperties
  <1> HIDE DEF n, m, p
  <1>3. \A i \in 1 .. n : p[i] = h[i]
    <2>1. \A i \in 1 .. n : i \in 1 .. n + m /\ i <= n
      BY SMT, <1>1
    <2>2. QED
      BY <1>2, <2>1
  <1>4. \A j \in 1 .. m : p[n + j] = k[j]
    <2>1. \A j \in 1 .. m : n + j \in 1 .. n + m /\ ~ (n + j <= n) /\ (n + j) - n = j
      BY SMT, <1>1
    <2>2. QED
      BY <1>2, <2>1
  <1>5. p # <<>>
    <2>1. Len(p) >= 1
      BY SMT, <1>1, <1>2
    <2>2. QED
      BY <1>2, <2>1, ListFacts
  <1>6. 1 \in 1 .. n /\ n \in 1 .. n /\ 1 \in 1 .. m /\ m \in 1 .. m
    BY SMT, <1>1
  <1>7. p[1] = h[1] /\ p[n] = h[n] /\ p[n + 1] = k[1] /\ p[n + m] = k[m]
    BY <1>3, <1>4, <1>6
  <1>8. ASSUME Tiled(p, a, z) PROVE Tiled(h, a, k[1].addr) /\ Tiled(k, k[1].addr, z)
    <2>1. p[1].addr = a /\ End(p[n + m]) = z /\ \A i \in 1 .. (n + m) - 1 : p[i + 1].addr = End(p[i])
      BY <1>2, <1>8 DEF Tiled
    <2>2. \A i \in 1 .. n - 1 : h[i + 1].addr = End(h[i])
      <3>1. \A i \in 1 .. n - 1 : i \in 1 .. (n + m) - 1 /\ i \in 1 .. n /\ i + 1 \in 1 .. n
        BY SMT, <1>1
      <3>2. QED
        BY <1>3, <2>1, <3>1
    <2>3. \A j \in 1 .. m - 1 : k[j + 1].addr = End(k[j])
      <3>1. \A j \in 1 .. m - 1 : n + j \in 1 .. (n + m) - 1 /\ j \in 1 .. m /\ j + 1 \in 1 .. m /\ (n + j) + 1 = n + (j + 1)
        BY SMT, <1>1
      <3>2. QED
        BY <1>4, <2>1, <3>1
    <2>4. k[1].addr = End(h[n])
      <3>1. n \in 1 .. (n + m) - 1
        BY SMT, <1>1
      <3>2. QED
        BY <1>7, <2>1, <3>1
    <2>5. QED
      BY <1>7, <2>1, <2>2, <2>3, <2>4 DEF Tiled, n, m
  <1>9. ASSUME Tiled(h, a, k[1].addr), Tiled(k, k[1].addr, z) PROVE Tiled(p, a, z)
    <2>1. h[1].addr = a /\ End(h[n]) = k[1].addr /\ \A i \in 1 .. n - 1 : h[i + 1].addr = End(h[i])
      BY <1>9 DEF Tiled, n
    <2>2. End(k[m]) = z /\ \A j \in 1 .. m - 1 : k[j + 1].addr = End(k[j])
      BY <1>9 DEF Tiled, m
    <2>3. ASSUME NEW i \in 1 .. (n + m) - 1 PROVE p[i + 1].addr = End(p[i])
      <3>1. CASE i \in 1 .. n - 1
        <4>1. i \in 1 .. n /\ i + 1 \in 1 .. n
          BY SMT, <1>1, <3>1
        <4>2. p[i] = h[i] /\ p[i + 1] = h[i + 1]
          BY <1>3, <4>1
        <4>3. QED
          BY <2>1, <3>1, <4>2
      <3>2. CASE i = n
        BY <1>7, <2>1, <3>2
      <3>3. CASE i - n \in 1 .. m - 1
        <4>1. i - n \in 1 .. m /\ (i - n) + 1 \in 1 .. m /\ n + (i - n) = i /\ n + ((i - n) + 1) = i + 1
          BY SMT, <1>1, <3>3
        <4>2. p[n + (i - n)] = k[i - n] /\ p[n + ((i - n) + 1)] = k[(i - n) + 1]
          BY <1>4, <4>1
        <4>3. k[(i - n) + 1].addr = End(k[i - n])
          BY <2>2, <3>3
        <4>4. QED
          BY <4>1, <4>2, <4>3
      <3>4. i \in 1 .. n - 1 \/ i = n \/ i - n \in 1 .. m - 1
        BY SMT, <1>1
      <3>5. QED
        BY <3>1, <3>2, <3>3, <3>4
    <2>4. \A i \in 1 .. Len(p) - 1 : p[i + 1].addr = End(p[i])
      BY <1>2, <2>3
    <2>5. QED
      BY <1>2, <1>5, <1>7, <2>1, <2>2, <2>4 DEF Tiled
  <1>10. QED
    BY <1>8, <1>9 DEF p

\* What follows the blocks that were cut anew is as it was.
LEMMA RecutConcat ==
  ASSUME NEW h \in Seq(Block), NEW k, Recut(h, k), h # <<>>, NEW c \in Seq(Block)
  PROVE  Recut(h \o c, k \o c)
  <1>1. k \in Seq(Block) /\ k # <<>> /\ Weight(k) = Weight(h)
    BY DEF Recut
  <1>2. CASE c = <<>>
    <2>1. h \o c = h /\ k \o c = k
      BY <1>1, <1>2, ConcatEmptySeq
    <2>2. QED
      BY <2>1
  <1>3. CASE c # <<>>
    <2>1. Weight(k \o c) = Weight(h \o c)
      BY ZenonT(40), <1>1, WeightConcat
    <2>2. k \o c \in Seq(Block)
      BY <1>1, ConcatProperties
    <2>3. h \o c # <<>> /\ k \o c # <<>>
      BY SMT, <1>1, <1>3
    <2>4. ASSUME NEW a, NEW z, Tiled(h \o c, a, z) PROVE Tiled(k \o c, a, z)
      <3>1. Tiled(h, a, c[1].addr) /\ Tiled(c, c[1].addr, z)
        BY <1>3, <2>4, TiledConcat
      <3>2. Tiled(k, a, c[1].addr)
        BY <3>1 DEF Recut
      <3>3. QED
        BY <1>1, <1>3, <3>1, <3>2, TiledConcat
    <2> DEFINE hc == h \o c
               kc == k \o c
    <2> HIDE DEF hc, kc
    <2>5. Recut(hc, kc)
      BY <2>1, <2>2, <2>3, <2>4 DEF Recut, hc, kc
    <2>6. QED
      BY <2>5 DEF hc, kc
  <1>4. QED
    BY <1>2, <1>3

\* Two blocks in the place of the last one: they begin where it began and end
\* where it ended, and the second begins where the first ends.
LEMMA TwoForOne ==
  ASSUME NEW A \in Seq(Block), NEW b \in Block, NEW c \in Block, NEW d \in Block,
         c.addr = b.addr, d.addr = End(c), End(d) = End(b),
         (HDR + c.size) + (HDR + d.size) = HDR + b.size
  PROVE  Recut(Append(A, b), Append(Append(A, c), d))
  <1> DEFINE h == Append(A, b)
             e == Append(A, c)
             k == Append(e, d)
  <1>1. h \in Seq(Block) /\ h # <<>> /\ e \in Seq(Block) /\ e # <<>>
    BY ZenonT(40), AppendProperties
  <1>2. /\ Weight(A) \in Int /\ Weight(h) = Weight(A) + (HDR + b.size)
        /\ Weight(e) = Weight(A) + (HDR + c.size)
    BY WeightAppend, WeightConcat
  <1>3. \A a, z : Tiled(h, a, z) => z = End(b) /\ Tiled(e, a, End(c))
    BY TiledAppend
  <1> HIDE DEF h, e
  <1>4. k \in Seq(Block) /\ k # <<>> /\ Weight(k) = Weight(e) + (HDR + d.size)
    BY ZenonT(40), <1>1, AppendProperties, WeightAppend
  <1>5. \A a : Tiled(e, a, End(c)) => Tiled(k, a, End(d))
    <2>1. ASSUME NEW a, Tiled(e, a, End(c)) PROVE Tiled(k, a, End(d))
      <3>1. Tiled(e, a, d.addr)
        BY <2>1
      <3>2. Tiled(k, a, End(d)) <=> End(d) = End(d) /\ IF e = <<>> THEN d.addr = a ELSE Tiled(e, a, d.addr)
        BY <1>1, TiledAppend
      <3>3. QED
        BY <1>1, <3>1, <3>2
    <2>2. QED
      BY <2>1
  <1> HIDE DEF k
  <1>6. b.size \in Int /\ c.size \in Int /\ d.size \in Int /\ HDR \in Int
    BY HeapConstants DEF Block
  <1>7. Weight(k) = Weight(h)
    BY SMTT(20), <1>2, <1>4, <1>6
  <1>8. \A a, z : Tiled(h, a, z) => Tiled(k, a, z)
    BY <1>3, <1>5
  <1>9. Recut(h, k)
    BY <1>1, <1>4, <1>7, <1>8 DEF Recut
  <1>10. QED
    BY <1>9 DEF h, e, k

\* The list with other flags.
LEMMA FlagsFacts ==
  ASSUME NEW h \in Seq(Block), NEW F \in [DOMAIN h -> BOOLEAN]
  PROVE  Recut(h, [i \in DOMAIN h |-> [h[i] EXCEPT !.free = F[i]]])
  <1> DEFINE k == [i \in DOMAIN h |-> [h[i] EXCEPT !.free = F[i]]]
  <1>1. Len(h) \in Nat /\ DOMAIN h = 1 .. Len(h) /\ \A i \in 1 .. Len(h) : h[i] \in Block
    BY ListFacts
  <1>2. \A i \in 1 .. Len(h) : /\ [h[i] EXCEPT !.free = F[i]] \in Block
                               /\ [h[i] EXCEPT !.free = F[i]].addr = h[i].addr
                               /\ [h[i] EXCEPT !.free = F[i]].size = h[i].size
    <2>1. ASSUME NEW b \in Block, NEW f \in BOOLEAN
          PROVE  /\ [b EXCEPT !.free = f] \in Block
                 /\ [b EXCEPT !.free = f].addr = b.addr /\ [b EXCEPT !.free = f].size = b.size
      BY DEF Block
    <2>2. QED
      BY <1>1, <2>1
  <1>3. k \in Seq(Block) /\ Len(k) = Len(h) /\ \A i \in 1 .. Len(h) : k[i] = [h[i] EXCEPT !.free = F[i]]
    <2> DEFINE v == [i \in 1 .. Len(h) |-> [h[i] EXCEPT !.free = F[i]]]
    <2>1. k = v
      BY <1>1
    <2>2. v \in [1 .. Len(h) -> Block] /\ \A i \in 1 .. Len(h) : v[i] = [h[i] EXCEPT !.free = F[i]]
      BY <1>2
    <2> HIDE DEF v
    <2>3. v \in Seq(Block) /\ Len(v) = Len(h)
      BY SMT, <1>1, <2>2
    <2>4. QED
      BY <2>1, <2>2, <2>3
  <1> HIDE DEF k
  <1>4. \A i \in 1 .. Len(h) : k[i].addr = h[i].addr /\ k[i].size = h[i].size
    BY <1>2, <1>3
  <1>5. Recut(h, k)
    BY <1>3, <1>4, SameBlocks
  <1>6. QED
    BY <1>5 DEF k

\* kmalloc splits block i or takes it whole.
LEMMA TakeRecut ==
  ASSUME NEW h \in Seq(Block), NEW i \in 1 .. Len(h), NEW size \in Int
  PROVE  Recut(h, Take(h, i, size))
  <1> DEFINE A == SubSeq(h, 1, i - 1)
             C == SubSeq(h, i + 1, Len(h))
             b == h[i]
             c == heap_block(b.addr, size, FALSE)
             d == heap_block(b.addr + HDR + size, b.size - size - HDR, TRUE)
  <1>1. A \in Seq(Block) /\ C \in Seq(Block) /\ h = Append(A, b) \o C
    BY CutAt
  <1>2. b \in Block /\ Len(h) \in Nat /\ DOMAIN h = 1 .. Len(h)
    BY ListFacts
  <1>3. CASE b.size > size + HDR + HEAP_MIN_SPLIT
    <2>1. Take(h, i, size) = (A \o <<c, d>>) \o C
      BY <1>3 DEF Take
    <2> HIDE DEF A, C, b
    <2>2. b.addr \in Int /\ b.size \in Int /\ HDR \in Int
      BY <1>2, HeapConstants DEF Block
    <2>3. b.addr + HDR + size \in Int /\ b.size - size - HDR \in Int
      BY SMT, <2>2
    <2>4. /\ c \in Block /\ c.addr = b.addr /\ c.size = size
          /\ d \in Block /\ d.addr = b.addr + HDR + size /\ d.size = b.size - size - HDR
      BY <2>2, <2>3 DEF heap_block, Block
    <2> HIDE DEF c, d
    <2>5. /\ d.addr = End(c) /\ End(d) = End(b)
          /\ (HDR + c.size) + (HDR + d.size) = HDR + b.size
      BY SMT, <2>2, <2>4 DEF End
    <2>6. Recut(Append(A, b), Append(Append(A, c), d))
      BY <1>1, <1>2, <2>4, <2>5, TwoForOne
    <2>7. Append(Append(A, c), d) = A \o <<c, d>>
      BY SMT, <1>1, <2>4
    <2>8. Append(A, b) # <<>> /\ Append(A, b) \in Seq(Block)
      <3>1. A \in Seq(Block) /\ b \in Block
        BY <1>1, <1>2
      <3>2. QED
        BY ZenonT(40), <3>1, AppendProperties
    <2>9. Recut(Append(A, b) \o C, (A \o <<c, d>>) \o C)
      BY <1>1, <2>6, <2>7, <2>8, RecutConcat
    <2>10. QED
      BY <1>1, <2>1, <2>9
  <1>4. CASE ~ (b.size > size + HDR + HEAP_MIN_SPLIT)
    <2>1. Take(h, i, size) = [h EXCEPT ![i].free = FALSE]
      BY <1>4 DEF Take
    <2> DEFINE F == [j \in DOMAIN h |-> IF j = i THEN FALSE ELSE h[j].free]
    <2>2. \A j \in DOMAIN h : h[j] \in Block /\ h[j].free \in BOOLEAN
      <3>1. \A j \in 1 .. Len(h) : h[j] \in Block
        BY ListFacts
      <3>2. QED
        BY <1>2, <3>1 DEF Block
    <2>3. F \in [DOMAIN h -> BOOLEAN]
      BY <2>2
    <2>4. ASSUME NEW j \in DOMAIN h
          PROVE  (IF j = i THEN [h[j] EXCEPT !.free = FALSE] ELSE h[j]) = [h[j] EXCEPT !.free = F[j]]
      <3>1. CASE j = i
        BY <3>1
      <3>2. CASE j # i
        <4>1. F[j] = h[j].free /\ h[j] \in Block
          BY <2>2, <3>2
        <4>2. [h[j] EXCEPT !.free = h[j].free] = h[j]
          BY <4>1 DEF Block
        <4>3. QED
          BY <3>2, <4>1, <4>2
      <3>3. QED
        BY <3>1, <3>2
    <2> HIDE DEF F
    <2>5. [h EXCEPT ![i].free = FALSE] = [j \in DOMAIN h |-> [h[j] EXCEPT !.free = F[j]]]
      <3>1. [h EXCEPT ![i].free = FALSE]
              = [j \in DOMAIN h |-> IF j = i THEN [h[j] EXCEPT !.free = FALSE] ELSE h[j]]
        <4>1. h = [j \in DOMAIN h |-> h[j]] /\ i \in DOMAIN h
          BY <1>2, ListFacts
        <4>2. QED
          BY <4>1
      <3>2. QED
        BY <2>4, <3>1
    <2>6. Recut(h, [j \in DOMAIN h |-> [h[j] EXCEPT !.free = F[j]]])
      BY <2>3, FlagsFacts
    <2>7. QED
      BY <2>1, <2>5, <2>6
  <1>5. QED
    BY <1>3, <1>4

\* Cut anew twice.
LEMMA RecutTwice ==
  ASSUME NEW h, NEW k, NEW l, Recut(h, k), Recut(k, l)
  PROVE  Recut(h, l)
  BY DEF Recut

\* The first of a set of numbers is one of them.
LEMMA FirstIsIn ==
  ASSUME NEW S \in SUBSET Nat, S # {}
  PROVE  First(S) \in S /\ \A j \in S : First(S) <= j
  <1>1. \E i \in S : \A j \in S : i <= j
    BY LeastNatural
  <1>2. QED
    BY <1>1 DEF First

\* kmalloc, once there is room or no more pages.
LEMMA AllocatedRecut ==
  ASSUME NEW h \in Seq(Block), NEW size \in Int
  PROVE  Recut(h, Allocated(h, size))
  <1>1. CASE Fits(h, size) = {}
    BY <1>1 DEF Allocated, Recut
  <1>2. CASE Fits(h, size) # {}
    <2>1. DOMAIN h = 1 .. Len(h) /\ Len(h) \in Nat
      BY ListFacts
    <2>2. Fits(h, size) \subseteq 1 .. Len(h)
      BY <2>1 DEF Fits
    <2>3. 1 .. Len(h) \subseteq Nat
      BY SMT, <2>1
    <2>4. First(Fits(h, size)) \in 1 .. Len(h)
      BY <1>2, <2>2, <2>3, FirstIsIn
    <2>5. Allocated(h, size) = Take(h, First(Fits(h, size)), size)
      BY <1>2 DEF Allocated
    <2>6. QED
      BY <2>4, <2>5, TakeRecut
  <1>3. QED
    BY <1>1, <1>2

\* kfree: the flag, and heap_coalesce.
LEMMA ReleaseRecut ==
  ASSUME NEW h \in Seq(Block), NEW addr
  PROVE  Recut(h, Release(h, addr))
  <1> DEFINE F == [i \in DOMAIN h |-> IF h[i].addr = addr THEN TRUE ELSE h[i].free]
             k == [i \in DOMAIN h |-> [h[i] EXCEPT !.free = F[i]]]
             l == [i \in DOMAIN h |-> IF h[i].addr = addr THEN [h[i] EXCEPT !.free = TRUE] ELSE h[i]]
  <1>1. \A i \in DOMAIN h : h[i] \in Block /\ h[i].free \in BOOLEAN
    <2>1. DOMAIN h = 1 .. Len(h) /\ \A i \in 1 .. Len(h) : h[i] \in Block
      BY ListFacts
    <2>2. QED
      BY <2>1 DEF Block
  <1>2. F \in [DOMAIN h -> BOOLEAN]
    BY <1>1
  <1>3. ASSUME NEW i \in DOMAIN h
        PROVE  (IF h[i].addr = addr THEN [h[i] EXCEPT !.free = TRUE] ELSE h[i]) = [h[i] EXCEPT !.free = F[i]]
    <2>1. CASE h[i].addr = addr
      BY <2>1
    <2>2. CASE h[i].addr # addr
      <3>1. F[i] = h[i].free /\ h[i] \in Block
        BY <1>1, <2>2
      <3>2. [h[i] EXCEPT !.free = h[i].free] = h[i]
        BY <3>1 DEF Block
      <3>3. QED
        BY <2>2, <3>1, <3>2
    <2>3. QED
      BY <2>1, <2>2
  <1> HIDE DEF F
  <1>4. l = k
    BY <1>3
  <1>5. Recut(h, k)
    BY <1>2, FlagsFacts
  <1>6. Release(h, addr) = heap_coalesce(l)
    BY DEF Release
  <1> HIDE DEF k, l
  <1>7. Recut(k, heap_coalesce(k))
    <2>1. k \in Seq(Block)
      BY <1>5 DEF Recut
    <2>2. QED
      BY <2>1, CoalesceRecut
  <1>8. QED
    BY <1>4, <1>5, <1>6, <1>7, RecutTwice

-----------------------------------------------------------------------------
(* The blocks over the expansions.                                         *)

\* Each expansion begins where the one before it ends.
Chained(ar) == \A i \in 1 .. Len(ar) - 1 : ar[i + 1].start = ar[i].start + ar[i].n

\* The byte behind an expansion.
Beyond(a) == (a.start + a.n) * PAGE_SIZE

\* The list h and the expansions ar have the same bytes.
Covers(h, ar) ==
  /\ h \in Seq(Block) /\ (ar = <<>> <=> h = <<>>)
  /\ Weight(h) = PAGE_SIZE * Total(Lengths(ar))
  /\ ar # <<>> /\ Chained(ar) => Tiled(h, ar[1].start * PAGE_SIZE, Beyond(ar[Len(ar)]))

\* Cutting the blocks anew leaves them.
LEMMA CoversRecut ==
  ASSUME NEW h, NEW k, NEW ar, Covers(h, ar), Recut(h, k)
  PROVE  Covers(k, ar)
  BY DEF Covers, Recut

\* The lengths of the expansions.
LEMMA LengthsFacts ==
  ASSUME NEW ar \in Seq(Request), NEW a \in Request
  PROVE  /\ Lengths(ar) \in Seq(Int) /\ Total(Lengths(ar)) \in Int
         /\ Total(Lengths(Append(ar, a))) = Total(Lengths(ar)) + a.n
  <1>1. \A r \in Request : r.n \in Int
    <2>1. \A r \in Request : r.n \in Nat \ {0}
      BY DEF Request
    <2>2. Nat \ {0} \subseteq Int
      BY SMT
    <2>3. QED
      BY <2>1, <2>2
  <1>2. \A s \in Seq(Request) : /\ Lengths(s) \in Seq(Int) /\ Len(Lengths(s)) = Len(s)
                                /\ \A i \in 1 .. Len(s) : Lengths(s)[i] = s[i].n
    <2>1. SUFFICES ASSUME NEW s \in Seq(Request)
                   PROVE  /\ Lengths(s) \in Seq(Int) /\ Len(Lengths(s)) = Len(s)
                          /\ \A i \in 1 .. Len(s) : Lengths(s)[i] = s[i].n
      OBVIOUS
    <2>2. Len(s) \in Nat /\ DOMAIN s = 1 .. Len(s) /\ \A i \in 1 .. Len(s) : s[i] \in Request
      BY SMT
    <2> DEFINE v == [i \in 1 .. Len(s) |-> s[i].n]
    <2>3. Lengths(s) = v
      BY <2>2 DEF Lengths
    <2>4. v \in [1 .. Len(s) -> Int] /\ \A i \in 1 .. Len(s) : v[i] = s[i].n
      BY <1>1, <2>2
    <2> HIDE DEF v
    <2>5. v \in Seq(Int) /\ Len(v) = Len(s)
      BY SMT, <2>2, <2>4
    <2>6. QED
      BY <2>3, <2>4, <2>5
  <1>3. Lengths(Append(ar, a)) = Lengths(ar) \o <<a.n>>
    <2> DEFINE u == Lengths(Append(ar, a))
               w == Lengths(ar)
               v == w \o <<a.n>>
               n == Len(ar)
    <2>1. /\ Append(ar, a) \in Seq(Request) /\ Len(Append(ar, a)) = n + 1 /\ n \in Nat
          /\ Append(ar, a)[n + 1] = a /\ \A i \in 1 .. n : Append(ar, a)[i] = ar[i]
      <3>1. n \in Nat
        BY SMT
      <3>2. QED
        BY SMT, <3>1, AppendProperties
    <2>2. u \in Seq(Int) /\ Len(u) = n + 1 /\ \A i \in 1 .. n + 1 : u[i] = Append(ar, a)[i].n
      BY <1>2, <2>1
    <2>3. w \in Seq(Int) /\ Len(w) = n /\ \A i \in 1 .. n : w[i] = ar[i].n
      BY <1>2
    <2> HIDE DEF u, w
    <2>4. a.n \in Int
      BY <1>1
    <2>5. v \in Seq(Int) /\ Len(v) = n + 1 /\ v[n + 1] = a.n /\ \A i \in 1 .. n : v[i] = w[i]
      <3>1. v = Append(w, a.n)
        BY SMT, <2>3, <2>4
      <3>2. /\ Append(w, a.n) \in Seq(Int) /\ Len(Append(w, a.n)) = Len(w) + 1
            /\ Append(w, a.n)[Len(w) + 1] = a.n /\ \A i \in 1 .. Len(w) : Append(w, a.n)[i] = w[i]
        BY SMT, <2>3, <2>4, AppendProperties
      <3>3. QED
        BY <2>3, <3>1, <3>2
    <2> HIDE DEF v, n
    <2>6. ASSUME NEW i \in 1 .. n + 1 PROVE u[i] = v[i]
      <3>1. CASE i \in 1 .. n
        BY <2>1, <2>2, <2>3, <2>5, <3>1
      <3>2. CASE i = n + 1
        BY <2>1, <2>2, <2>5, <3>2
      <3>3. i \in 1 .. n \/ i = n + 1
        BY SMT, <2>1
      <3>4. QED
        BY <3>1, <3>2, <3>3
    <2>7. u = v
      BY <2>2, <2>5, <2>6, SeqEqual
    <2>8. QED
      BY <2>7 DEF u, v, w
  <1>4. a.n \in Int /\ <<a.n>> \in Seq(Int)
    <2>1. a.n \in Int
      BY <1>1
    <2>2. QED
      BY SMT, <2>1
  <1>5. Total(<<a.n>>) = a.n
    BY <1>4, TotalFew
  <1>6. Lengths(ar) \in Seq(Int)
    BY <1>2
  <1>7. QED
    BY <1>3, <1>4, <1>5, <1>6, TotalConcat

\* heap_expand's block over the pages of an expansion.
LEMMA ArenaBlockFacts ==
  ASSUME NEW a \in Request
  PROVE  /\ ArenaBlock(a) \in Block /\ ArenaBlock(a).size \in Int
         /\ ArenaBlock(a).addr = a.start * PAGE_SIZE /\ ArenaBlock(a).size = a.n * PAGE_SIZE - HDR
  <1>1. a.start \in Nat /\ a.n \in Nat /\ PAGE_SIZE \in Nat /\ HDR \in Nat
    BY HeapConstants DEF Request
  <1>2. a.start * PAGE_SIZE \in Int /\ a.n * PAGE_SIZE - HDR \in Int
    BY SMT, <1>1
  <1>3. QED
    BY <1>2 DEF ArenaBlock, heap_block, Block

\* One expansion more, with its block at the end of the list.
LEMMA CoversOneMore ==
  ASSUME NEW h, NEW ar \in Seq(Request), Covers(h, ar), NEW a \in Request
  PROVE  Covers(Append(h, ArenaBlock(a)), Append(ar, a))
  <1> DEFINE b == ArenaBlock(a)
             hb == Append(h, b)
             aa == Append(ar, a)
             n == Len(ar)
  <1>1. a.start \in Nat /\ a.n \in Nat /\ PAGE_SIZE \in Nat /\ HDR \in Nat
    BY HeapConstants DEF Request
  <1>3. b \in Block /\ b.addr = a.start * PAGE_SIZE /\ b.size = a.n * PAGE_SIZE - HDR
    BY ArenaBlockFacts
  <1>4. h \in Seq(Block) /\ (ar = <<>> <=> h = <<>>) /\ Weight(h) = PAGE_SIZE * Total(Lengths(ar))
    BY DEF Covers
  <1> HIDE DEF b
  <1>5. hb \in Seq(Block) /\ hb # <<>> /\ Weight(hb) = Weight(h) + (HDR + b.size)
    BY ZenonT(40), <1>3, <1>4, AppendProperties, WeightAppend
  <1>6. n \in Nat /\ (n >= 1 <=> ar # <<>>) /\ (n = 0 <=> ar = <<>>)
    BY SMT
  <1>7. /\ aa # <<>> /\ Len(aa) = n + 1 /\ aa[n + 1] = a /\ \A i \in 1 .. n : aa[i] = ar[i]
    BY SMT, <1>6, AppendProperties
  <1>8. Total(Lengths(aa)) = Total(Lengths(ar)) + a.n /\ Total(Lengths(ar)) \in Int
    BY LengthsFacts
  <1>9. Weight(hb) = PAGE_SIZE * Total(Lengths(aa))
    <2> DEFINE T == Total(Lengths(ar))
    <2>1. T \in Int /\ HDR + b.size = a.n * PAGE_SIZE
      <3>1. HDR + b.size = a.n * PAGE_SIZE
        BY SMT, <1>1, <1>3
      <3>2. QED
        BY <1>8, <3>1
    <2> HIDE DEF T
    <2>2. PAGE_SIZE * T + a.n * PAGE_SIZE = PAGE_SIZE * (T + a.n)
      BY SMT, <1>1, <2>1
    <2>3. QED
      BY <1>4, <1>5, <1>8, <2>1, <2>2 DEF T
  <1>10. End(b) = Beyond(a)
    BY SMT, <1>1, <1>3 DEF End, Beyond
  <1>11. ASSUME Chained(aa) PROVE Tiled(hb, aa[1].start * PAGE_SIZE, Beyond(aa[Len(aa)]))
    <2>1. aa[Len(aa)] = a
      BY <1>7
    <2>2. CASE ar = <<>>
      <3>1. aa[1] = a /\ h = <<>>
        <4>1. n = 0 /\ 0 + 1 = 1
          BY SMT, <1>6, <2>2
        <4>2. QED
          BY <1>4, <1>7, <2>2, <4>1
      <3>2. Tiled(hb, b.addr, End(b))
        BY <1>3, <1>4, <3>1, TiledAppend
      <3>3. QED
        BY <1>3, <1>10, <2>1, <3>1, <3>2
    <2>3. CASE ar # <<>>
      <3>1. n >= 1 /\ 1 \in 1 .. n /\ n \in 1 .. n /\ n \in 1 .. (n + 1) - 1
        BY SMT, <1>6, <2>3
      <3>2. aa[1] = ar[1] /\ aa[n] = ar[n]
        BY <1>7, <3>1
      <3>3. \A i \in 1 .. (n + 1) - 1 : aa[i + 1].start = aa[i].start + aa[i].n
        BY <1>7, <1>11 DEF Chained
      <3>4. a.start = ar[n].start + ar[n].n
        BY <1>7, <3>1, <3>2, <3>3
      <3>5. Chained(ar)
        <4>1. ASSUME NEW i \in 1 .. n - 1 PROVE ar[i + 1].start = ar[i].start + ar[i].n
          <5>1. i \in 1 .. (n + 1) - 1 /\ i \in 1 .. n /\ i + 1 \in 1 .. n
            BY SMT, <1>6
          <5>2. aa[i] = ar[i] /\ aa[i + 1] = ar[i + 1]
            BY <1>7, <5>1
          <5>3. QED
            BY <3>3, <5>1, <5>2
        <4>2. QED
          BY <4>1 DEF Chained
      <3>6. Tiled(h, ar[1].start * PAGE_SIZE, Beyond(ar[n]))
        BY <2>3, <3>5 DEF Covers
      <3>7. Beyond(ar[n]) = b.addr /\ h # <<>>
        BY <1>3, <1>4, <2>3, <3>4 DEF Beyond
      <3>8. Tiled(hb, ar[1].start * PAGE_SIZE, End(b))
        <4>1. Tiled(h, ar[1].start * PAGE_SIZE, b.addr)
          BY <3>6, <3>7
        <4>2. QED
          BY <1>3, <1>4, <3>7, <4>1, TiledAppend
      <3>9. QED
        BY <1>10, <2>1, <3>2, <3>8
    <2>4. QED
      BY <2>2, <2>3
  <1> HIDE DEF hb, aa
  <1>12. Covers(hb, aa)
    BY <1>5, <1>7, <1>9, <1>11 DEF Covers
  <1>13. QED
    BY <1>12 DEF hb, aa, b

\* The blocks of expansions that were made one after the other.
BlocksOf(new) == [i \in DOMAIN new |-> ArenaBlock(new[i])]

\* They are blocks.
LEMMA BlocksOfFacts ==
  ASSUME NEW new \in Seq(Request)
  PROVE  /\ BlocksOf(new) \in Seq(Block) /\ Len(BlocksOf(new)) = Len(new)
         /\ \A i \in 1 .. Len(new) : BlocksOf(new)[i] = ArenaBlock(new[i])
  <1>1. Len(new) \in Nat /\ DOMAIN new = 1 .. Len(new) /\ \A i \in 1 .. Len(new) : new[i] \in Request
    BY SMT
  <1>2. \A a \in Request : ArenaBlock(a) \in Block
    BY ArenaBlockFacts
  <1> DEFINE v == [i \in 1 .. Len(new) |-> ArenaBlock(new[i])]
  <1>3. BlocksOf(new) = v
    BY <1>1 DEF BlocksOf
  <1>4. v \in [1 .. Len(new) -> Block] /\ \A i \in 1 .. Len(new) : v[i] = ArenaBlock(new[i])
    BY <1>1, <1>2
  <1> HIDE DEF v
  <1>5. v \in Seq(Block) /\ Len(v) = Len(new)
    BY SMT, <1>1, <1>4
  <1>6. QED
    BY <1>3, <1>4, <1>5

\* Behind a list, one element more.
LEMMA ConcatNext ==
  ASSUME NEW S, NEW s \in Seq(S), NEW t \in Seq(S), NEW k \in 1 .. Len(t)
  PROVE  s \o SubSeq(t, 1, k) = Append(s \o SubSeq(t, 1, k - 1), t[k])
  <1>1. t[k] \in S /\ SubSeq(t, 1, k) = Append(SubSeq(t, 1, k - 1), t[k])
    BY PrefixNext
  <1>2. SubSeq(t, 1, k - 1) \in Seq(S)
    <2>1. k - 1 \in 0 .. Len(t)
      BY SMT
    <2>2. QED
      BY <2>1, PrefixFacts
  <1> DEFINE u == SubSeq(t, 1, k - 1)
             x == t[k]
  <1> HIDE DEF u, x
  <1>3. s \o Append(u, x) = Append(s \o u, x)
    <2>1. u \in Seq(S) /\ x \in S
      BY <1>1, <1>2 DEF u, x
    <2>2. QED
      BY SMT, <2>1
  <1>4. QED
    BY <1>1, <1>3 DEF u, x

\* Several expansions more.
LEMMA CoversMore ==
  ASSUME NEW h, NEW ar \in Seq(Request), Covers(h, ar), NEW new \in Seq(Request)
  PROVE  Covers(h \o BlocksOf(new), ar \o new)
  <1> DEFINE n == Len(new)
             B == BlocksOf(new)
             G == {k \in 0 .. n : Covers(h \o SubSeq(B, 1, k), ar \o SubSeq(new, 1, k))}
  <1>1. n \in Nat /\ 0 \in Nat /\ 0 \in 0 .. n /\ n \in 0 .. n /\ h \in Seq(Block)
    <2>1. h \in Seq(Block)
      BY DEF Covers
    <2>2. QED
      BY SMT, <2>1
  <1>2. B \in Seq(Block) /\ Len(B) = n /\ \A i \in 1 .. n : B[i] = ArenaBlock(new[i])
    BY BlocksOfFacts
  <1> HIDE DEF B
  <1>3. 0 \in G
    <2>1. SubSeq(B, 1, 0) = <<>> /\ SubSeq(new, 1, 0) = <<>>
      BY SMT, <1>2
    <2>2. h \o <<>> = h /\ ar \o <<>> = ar
      BY <1>1, ConcatEmptySeq
    <2>3. QED
      BY <1>1, <2>1, <2>2
  <1>4. ASSUME NEW k \in 0 .. n - 1, k \in G PROVE k + 1 \in G
    <2>1. k + 1 \in 1 .. n /\ k + 1 \in 0 .. n /\ (k + 1) - 1 = k /\ k \in 0 .. n
      BY SMT, <1>1
    <2>2. h \o SubSeq(B, 1, k + 1) = Append(h \o SubSeq(B, 1, k), B[k + 1])
      <3>1. k + 1 \in 1 .. Len(B)
        BY <1>2, <2>1
      <3>2. h \o SubSeq(B, 1, k + 1) = Append(h \o SubSeq(B, 1, (k + 1) - 1), B[k + 1])
        BY <1>1, <1>2, <3>1, ConcatNext
      <3>3. QED
        BY <2>1, <3>2
    <2>3. ar \o SubSeq(new, 1, k + 1) = Append(ar \o SubSeq(new, 1, k), new[k + 1])
      <3>1. k + 1 \in 1 .. Len(new)
        BY <2>1
      <3>2. ar \o SubSeq(new, 1, k + 1) = Append(ar \o SubSeq(new, 1, (k + 1) - 1), new[k + 1])
        BY <3>1, ConcatNext
      <3>3. QED
        BY <2>1, <3>2
    <2>4. new[k + 1] \in Request /\ B[k + 1] = ArenaBlock(new[k + 1])
      <3>1. new[k + 1] \in Request
        BY SMT, <2>1
      <3>2. QED
        BY <1>2, <2>1, <3>1
    <2>5. ar \o SubSeq(new, 1, k) \in Seq(Request)
      <3>1. SubSeq(new, 1, k) \in Seq(Request)
        BY <2>1, PrefixFacts
      <3>2. QED
        BY <3>1, ConcatProperties
    <2>6. Covers(h \o SubSeq(B, 1, k), ar \o SubSeq(new, 1, k))
      BY <1>4
    <2> DEFINE u == h \o SubSeq(B, 1, k)
               w == ar \o SubSeq(new, 1, k)
    <2> HIDE DEF u, w
    <2>7. Covers(Append(u, ArenaBlock(new[k + 1])), Append(w, new[k + 1]))
      <3>1. w \in Seq(Request) /\ Covers(u, w)
        BY <2>5, <2>6 DEF u, w
      <3>2. QED
        BY <2>4, <3>1, CoversOneMore
    <2>8. Covers(h \o SubSeq(B, 1, k + 1), ar \o SubSeq(new, 1, k + 1))
      BY <2>2, <2>3, <2>4, <2>7 DEF u, w
    <2>9. QED
      BY <2>1, <2>8
  <1>5. n \in G
    <2>1. \A k \in 0 .. n - 1 : k \in G => k + 1 \in G
      BY <1>4
    <2> HIDE DEF G, n
    <2>2. \A k \in 0 .. n : k \in G
      BY <1>1, <1>3, <2>1, LoopInduction
    <2>3. QED
      BY <1>1, <2>2
  <1>6. SubSeq(B, 1, n) = B /\ SubSeq(new, 1, n) = new
    <2>1. SubSeq(new, 1, n) = new
      BY SMT
    <2>2. SubSeq(B, 1, Len(B)) = B
      BY SMT, <1>2
    <2>3. QED
      BY <1>2, <2>1, <2>2
  <1>7. QED
    BY <1>5, <1>6 DEF B

-----------------------------------------------------------------------------
(* The expansions, and the page allocator under them.                      *)

Place(a) == Run(a.start, a.n)

\* Runs of pages that pmm_alloc can hand out one after the other.
Sound(new) ==
  /\ new \in Seq(Request)
  /\ \A i \in 1 .. Len(new) : new[i].start + new[i].n <= new[i].limit /\ Place(new[i]) \subseteq Pages \ bitmap
  /\ \A i, j \in 1 .. Len(new) : i # j => Place(new[i]) \cap Place(new[j]) = {}

\* What kmalloc has when it asks for pages again.
Growth == {e \in [bits : SUBSET Pages, new : Seq(Request), done : BOOLEAN] :
             Sound(e.new) /\ e.bits = bitmap \cup Taken(e.new)}

\* The pages of a list of expansions.
LEMMA TakenFacts ==
  ASSUME NEW new \in Seq(Request)
  PROVE  Taken(new) = UNION {Place(new[i]) : i \in 1 .. Len(new)}
  <1>1. DOMAIN new = 1 .. Len(new)
    BY SMT
  <1>2. QED
    BY <1>1 DEF Taken, Place

\* One expansion more, on pages that are clear in the bitmap with the others.
LEMMA SoundOneMore ==
  ASSUME NEW new, Sound(new), NEW a \in Request, a.start + a.n <= a.limit,
         Place(a) \subseteq Pages \ (bitmap \cup Taken(new))
  PROVE  Sound(Append(new, a)) /\ Taken(Append(new, a)) = Taken(new) \cup Place(a)
  <1> DEFINE n == Len(new)
             p == Append(new, a)
  <1>1. new \in Seq(Request)
    BY DEF Sound
  <1>2. n \in Nat
    BY SMT, <1>1
  <1>3. p \in Seq(Request) /\ Len(p) = n + 1 /\ p[n + 1] = a /\ \A i \in 1 .. n : p[i] = new[i]
    BY SMT, <1>1, <1>2, AppendProperties
  <1> HIDE DEF p
  <1>4. \A i \in 1 .. n + 1 : i \in 1 .. n \/ i = n + 1
    BY SMT, <1>2
  <1>5. 1 .. n \subseteq 1 .. n + 1 /\ n + 1 \in 1 .. n + 1
    BY SMT, <1>2
  <1>6. Taken(p) = Taken(new) \cup Place(a)
    <2>1. Taken(p) = UNION {Place(p[i]) : i \in 1 .. n + 1}
      BY <1>3, TakenFacts
    <2>2. Taken(new) = UNION {Place(new[i]) : i \in 1 .. n}
      BY <1>1, TakenFacts
    <2>3. UNION {Place(p[i]) : i \in 1 .. n + 1} = (UNION {Place(new[i]) : i \in 1 .. n}) \cup Place(a)
      <3>1. ASSUME NEW x, NEW i \in 1 .. n + 1, x \in Place(p[i])
            PROVE  x \in (UNION {Place(new[j]) : j \in 1 .. n}) \cup Place(a)
        BY <1>3, <1>4, <3>1
      <3>2. ASSUME NEW x, NEW i \in 1 .. n, x \in Place(new[i])
            PROVE  x \in UNION {Place(p[j]) : j \in 1 .. n + 1}
        <4>1. x \in Place(p[i]) /\ i \in 1 .. n + 1
          BY <1>3, <1>5, <3>2
        <4>2. QED
          BY <4>1
      <3>3. ASSUME NEW x \in Place(a) PROVE x \in UNION {Place(p[j]) : j \in 1 .. n + 1}
        <4>1. x \in Place(p[n + 1])
          BY <1>3
        <4>2. QED
          BY <1>5, <4>1
      <3>4. QED
        BY <3>1, <3>2, <3>3
    <2>4. QED
      BY <2>1, <2>2, <2>3
  <1>7. \A i \in 1 .. n : Place(new[i]) \subseteq Taken(new)
    BY <1>1, TakenFacts
  <1>8. ASSUME NEW i \in 1 .. n + 1
        PROVE  p[i].start + p[i].n <= p[i].limit /\ Place(p[i]) \subseteq Pages \ bitmap
    <2>1. CASE i \in 1 .. n
      BY <1>3, <2>1 DEF Sound
    <2>2. CASE i = n + 1
      <3>1. p[i] = a
        BY <1>3, <2>2
      <3>2. QED
        BY <3>1
    <2>3. QED
      BY <1>4, <2>1, <2>2
  <1>9. ASSUME NEW i \in 1 .. n + 1, NEW j \in 1 .. n + 1, i # j
        PROVE  Place(p[i]) \cap Place(p[j]) = {}
    <2>1. CASE i \in 1 .. n /\ j \in 1 .. n
      BY <1>3, <1>9, <2>1 DEF Sound
    <2>2. CASE i \in 1 .. n /\ j = n + 1
      <3>1. p[i] = new[i] /\ p[j] = a
        BY <1>3, <2>2
      <3>2. QED
        BY <1>7, <2>2, <3>1
    <2>3. CASE i = n + 1 /\ j \in 1 .. n
      <3>1. p[j] = new[j] /\ p[i] = a
        BY <1>3, <2>3
      <3>2. QED
        BY <1>7, <2>3, <3>1
    <2>4. QED
      BY <1>4, <1>9, <2>1, <2>2, <2>3
  <1>10. Sound(p)
    BY <1>3, <1>8, <1>9 DEF Sound
  <1>11. QED
    BY <1>6, <1>10 DEF p

\* heap_expand asks for some pages.
LEMMA PagesForFacts ==
  ASSUME NEW size \in Int
  PROVE  PagesFor(size) \in Nat \ {0}
  <1>1. PAGE_SIZE \in Nat \ {0} /\ MIN_PAGES \in Nat \ {0}
    BY KHeapAssumption
  <1> DEFINE pages == (size + PAGE_SIZE - 1) \div PAGE_SIZE
  <1>2. pages \in Int
    BY SMT, <1>1
  <1> HIDE DEF pages
  <1>3. (IF pages < MIN_PAGES THEN MIN_PAGES ELSE pages) \in Nat \ {0}
    BY SMT, <1>1, <1>2
  <1>4. QED
    BY <1>3 DEF PagesFor, pages

\* A round of heap_expand goes from one such state to another.
LEMMA ExpandStays ==
  ASSUME NEW e \in Growth, NEW size \in Int
  PROVE  heap_expand(e, size) \in Growth
  <1> DEFINE n == PagesFor(size)
             starts == {s \in Pages : FitsAt(e.bits, s, n, total_pages)}
             start == First(starts)
             a == Arena(start, n)
             q == [bits |-> e.bits \cup Run(a.start, n), new |-> Append(e.new, a), done |-> ArenaBlock(a).size >= size]
  <1>1. /\ e \in [bits : SUBSET Pages, new : Seq(Request), done : BOOLEAN]
        /\ e.bits \subseteq Pages /\ e.new \in Seq(Request) /\ Sound(e.new) /\ e.bits = bitmap \cup Taken(e.new)
    BY DEF Growth
  <1>2. CASE e.done
    BY <1>2 DEF heap_expand
  <1>3. CASE ~e.done /\ starts = {}
    <2>1. heap_expand(e, size) = [e EXCEPT !.done = TRUE]
      BY <1>3 DEF heap_expand
    <2> DEFINE r == [e EXCEPT !.done = TRUE]
    <2>2. r \in [bits : SUBSET Pages, new : Seq(Request), done : BOOLEAN] /\ r.bits = e.bits /\ r.new = e.new
      BY <1>1
    <2> HIDE DEF r
    <2>3. r \in Growth
      BY <1>1, <2>2 DEF Growth
    <2>4. QED
      BY <2>1, <2>3 DEF r
  <1>4. CASE ~e.done /\ starts # {}
    <2>1. heap_expand(e, size) = q
      BY <1>4 DEF heap_expand
    <2>2. n \in Nat \ {0}
      BY PagesForFacts
    <2>3. Pages \subseteq Nat /\ total_pages \in Nat
      BY SMT, PmmAssumption DEF Pages
    <2>4. start \in starts
      <3>1. starts \in SUBSET Nat
        BY <2>3
      <3> HIDE DEF starts
      <3>2. QED
        BY <1>4, <3>1, FirstIsIn
    <2>5. start \in Nat /\ FitsAt(e.bits, start, n, total_pages)
      BY <2>3, <2>4
    <2> HIDE DEF n, start
    <2>6. start + n <= total_pages /\ Run(start, n) \cap e.bits = {}
      BY <2>5 DEF FitsAt
    <2>7. Run(start, n) \subseteq Pages
      BY SMT, <2>2, <2>3, <2>5, <2>6 DEF Run, Pages
    <2>8. a \in Request /\ a.start = start /\ a.n = n /\ a.limit = total_pages
      BY <2>2, <2>5 DEF Arena, Request
    <2> HIDE DEF a
    <2>9. Place(a) = Run(start, n) /\ Run(a.start, n) = Run(start, n)
      BY <2>8 DEF Place
    <2>10. Place(a) \subseteq Pages \ (bitmap \cup Taken(e.new)) /\ a.start + a.n <= a.limit
      BY <1>1, <2>6, <2>7, <2>8, <2>9
    <2>11. Sound(Append(e.new, a)) /\ Taken(Append(e.new, a)) = Taken(e.new) \cup Place(a)
      BY <1>1, <2>8, <2>10, SoundOneMore
    <2> DEFINE more == Append(e.new, a)
               b == e.bits \cup Run(a.start, n)
               d == ArenaBlock(a).size >= size
    <2>12. Sound(more) /\ more \in Seq(Request)
      BY <2>11 DEF Sound
    <2>13. b \subseteq Pages /\ b = bitmap \cup Taken(more)
      BY <1>1, <2>7, <2>9, <2>11
    <2>14. d \in BOOLEAN
      <3>1. ArenaBlock(a).size \in Int
        BY <2>8, ArenaBlockFacts
      <3>2. QED
        BY SMT, <3>1
    <2>15. q = [bits |-> b, new |-> more, done |-> d]
      OBVIOUS
    <2> HIDE DEF q, more, b, d
    <2>16. q \in Growth
      <3>1. q.bits = b /\ q.new = more
        BY <2>15
      <3>2. q \in [bits : SUBSET Pages, new : Seq(Request), done : BOOLEAN]
        BY <2>12, <2>13, <2>14, <2>15
      <3>3. QED
        BY <2>12, <2>13, <3>1, <3>2 DEF Growth
    <2>17. QED
      BY <2>1, <2>16
  <1>5. QED
    BY <1>2, <1>3, <1>4

\* The rounds of heap_expand on behalf of one request.
IsRounds(f, size) ==
  f = [k \in 0 .. total_pages |->
         IF k = 0 THEN [bits |-> bitmap, new |-> <<>>, done |-> Fits(heap, size) # {}]
         ELSE heap_expand(f[k - 1], size)]

\* Before the first round.
LEMMA FirstRound ==
  ASSUME bitmap \subseteq Pages, NEW size
  PROVE  [bits |-> bitmap, new |-> <<>>, done |-> Fits(heap, size) # {}] \in Growth
  <1> DEFINE d == Fits(heap, size) # {}
             m == [bits |-> bitmap, new |-> <<>>, done |-> d]
  <1>1. <<>> \in Seq(Request) /\ Len(<<>>) = 0 /\ 1 .. 0 = {}
    BY SMT
  <1>2. Sound(<<>>)
    BY <1>1 DEF Sound
  <1>3. Taken(<<>>) = {}
    BY <1>1, TakenFacts
  <1>4. d \in BOOLEAN
    OBVIOUS
  <1> HIDE DEF d
  <1>5. m \in [bits : SUBSET Pages, new : Seq(Request), done : BOOLEAN] /\ m.bits = bitmap /\ m.new = <<>>
    BY <1>1, <1>4
  <1> HIDE DEF m
  <1>6. m \in Growth
    BY <1>2, <1>3, <1>5 DEF Growth
  <1>7. QED
    BY <1>6 DEF m, d

\* The rounds exist, and each leaves pages that were clear.
LEMMA RoundsExist ==
  ASSUME bitmap \subseteq Pages, NEW size \in Int
  PROVE  \E f : IsRounds(f, size)
  <1> DEFINE n == total_pages
             m == [bits |-> bitmap, new |-> <<>>, done |-> Fits(heap, size) # {}]
             g == [j \in 0 .. n - 1 |-> [x \in Growth |-> heap_expand(x, size)]]
  <1>1. n \in Nat /\ 0 \in Nat /\ 0 <= n
    BY SMT, PmmAssumption
  <1>2. m \in Growth
    BY FirstRound
  <1> HIDE DEF m
  <1>3. g \in [0 .. n - 1 -> [Growth -> Growth]]
    BY ExpandStays
  <1>4. PICK f \in [0 .. n -> Growth] : Unrolls(f, g, m, 0, n)
    <2> HIDE DEF g
    <2>1. QED
      BY <1>1, <1>2, <1>3, Unrolled
  <1>5. ASSUME NEW k \in 0 .. n PROVE f[k] = IF k = 0 THEN m ELSE heap_expand(f[k - 1], size)
    <2>1. CASE k = 0
      BY <1>4, <2>1 DEF Unrolls
    <2>2. CASE k # 0
      <3>1. k - 1 \in 0 .. n - 1 /\ k - 1 \in 0 .. n
        BY SMT, <1>1, <2>2
      <3>2. f[k] = g[k - 1][f[k - 1]]
        BY <1>4, <2>2 DEF Unrolls
      <3>3. f[k - 1] \in Growth
        BY <3>1
      <3>4. g[k - 1][f[k - 1]] = heap_expand(f[k - 1], size)
        BY <3>1, <3>3
      <3>5. QED
        BY <2>2, <3>2, <3>4
    <2>3. QED
      BY <2>1, <2>2
  <1>6. f = [k \in 0 .. n |-> f[k]]
    OBVIOUS
  <1>7. f = [k \in 0 .. n |-> IF k = 0 THEN m ELSE heap_expand(f[k - 1], size)]
    BY <1>5, <1>6
  <1>8. QED
    BY <1>7 DEF IsRounds, m

\* The expansions kmalloc makes are on pages that were clear, no two on the
\* same page.
LEMMA ExpansionsSound ==
  ASSUME bitmap \subseteq Pages, NEW size \in Int
  PROVE  Sound(Expansions(size))
  <1> DEFINE n == total_pages
             f == CHOOSE w : IsRounds(w, size)
  <1>1. n \in Nat /\ 0 \in Nat /\ 0 <= n /\ n \in 0 .. n /\ 0 \in 0 .. n
    BY SMT, PmmAssumption
  <1>2. IsRounds(f, size)
    BY RoundsExist
  <1>3. Expansions(size) = f[n].new
    BY DEF Expansions, IsRounds
  <1> HIDE DEF f
  <1>4. \A k \in 0 .. n : f[k] = IF k = 0 THEN [bits |-> bitmap, new |-> <<>>, done |-> Fits(heap, size) # {}]
                                ELSE heap_expand(f[k - 1], size)
    BY <1>2 DEF IsRounds
  <1>5. f[0] \in Growth
    <2>1. f[0] = [bits |-> bitmap, new |-> <<>>, done |-> Fits(heap, size) # {}]
      BY <1>1, <1>4
    <2>2. QED
      BY <2>1, FirstRound
  <1>6. ASSUME NEW k \in 0 .. n - 1, f[k] \in Growth PROVE f[k + 1] \in Growth
    <2>1. k + 1 \in 0 .. n /\ k + 1 # 0 /\ (k + 1) - 1 = k
      BY SMT, <1>1
    <2>2. f[k + 1] = heap_expand(f[k], size)
      BY <1>4, <2>1
    <2>3. QED
      BY <1>6, <2>2, ExpandStays
  <1>7. \A k \in 0 .. n : f[k] \in Growth
    <2>1. \A k \in 0 .. n - 1 : f[k] \in Growth => f[k + 1] \in Growth
      BY <1>6
    <2>2. QED
      BY <1>1, <1>5, <2>1, StaysIn
  <1>8. f[n] \in Growth
    BY <1>1, <1>7
  <1>9. QED
    BY <1>3, <1>8 DEF Growth

\* heap_expand's calls of pmm_alloc preserve the invariant of the allocator.
LEMMA AddArenasInv ==
  ASSUME PmmInv, NEW new, Sound(new), AddArenas(new)
  PROVE  PmmInv'
  <1> DEFINE n == Len(new)
             T == Taken(new)
  <1>1. /\ bitmap' = bitmap \cup T /\ free_pages' = free_pages - Cardinality(T)
        /\ held' = held \cup {new[i] : i \in DOMAIN new}
    BY DEF AddArenas
  <1>2. new \in Seq(Request)
    BY DEF Sound
  <1>3. n \in Nat /\ DOMAIN new = 1 .. n /\ \A i \in 1 .. n : new[i] \in Request
    BY SMT, <1>2
  <1>4. T = UNION {Place(new[i]) : i \in 1 .. n}
    BY <1>2, TakenFacts
  <1>5. /\ \A i \in 1 .. n : Place(new[i]) \subseteq Pages \ bitmap
        /\ \A i \in 1 .. n : new[i].start + new[i].n <= new[i].limit
        /\ \A i, j \in 1 .. n : i # j => Place(new[i]) \cap Place(new[j]) = {}
    BY DEF Sound
  <1> HIDE DEF T, n
  <1>6. T \subseteq Pages \ bitmap /\ \A i \in 1 .. n : Place(new[i]) \subseteq T
    BY <1>4, <1>5
  <1>7. PmmTypeOK /\ FreeCount /\ HeldDisjoint /\ Reserved \subseteq bitmap
    BY DEF PmmInv
  <1>8. IsFiniteSet(Pages \ bitmap) /\ Cardinality(T) \in Nat
    BY <1>6, PagesFinite
  <1>9. PmmTypeOK'
    <2>1. bitmap' \subseteq Pages
      BY <1>1, <1>6, <1>7 DEF PmmTypeOK
    <2>2. free_pages \in Int
      BY <1>7 DEF PmmTypeOK
    <2>3. free_pages' \in Int
      BY SMT, <1>1, <1>8, <2>2
    <2>4. held' \subseteq Request
      BY <1>1, <1>3, <1>7 DEF PmmTypeOK
    <2>5. QED
      BY <2>1, <2>3, <2>4 DEF PmmTypeOK, Pages, Request
  <1>10. FreeCount'
    <2>1. Cardinality((Pages \ bitmap) \ T) = Cardinality(Pages \ bitmap) - Cardinality(T)
      BY <1>6, <1>8, CardinalitySplit
    <2>2. Pages \ bitmap' = (Pages \ bitmap) \ T
      BY <1>1
    <2>3. QED
      BY <1>1, <1>7, <2>1, <2>2 DEF FreeCount, Pages
  <1>11. (Reserved \subseteq bitmap)'
    BY <1>1, <1>7 DEF Reserved, Pages
  <1>12. T \subseteq Usable \ Run(bm_page, bm_count)
    BY <1>6, <1>7 DEF Reserved
  <1>13. HeldDisjoint'
    <2>1. \A r \in held : /\ Place(r) \subseteq bitmap \cap (Usable \ Run(bm_page, bm_count))
                          /\ r.start + r.n <= r.limit
      BY <1>7 DEF HeldDisjoint, Place
    <2>2. \A r, s \in held : r # s => Place(r) \cap Place(s) = {}
      BY <1>7 DEF HeldDisjoint, Place
    <2>3. ASSUME NEW r \in held'
          PROVE  /\ Place(r) \subseteq bitmap' \cap (Usable \ Run(bm_page, bm_count))
                 /\ r.start + r.n <= r.limit
      <3>1. CASE r \in held
        BY <1>1, <2>1, <3>1
      <3>2. CASE \E i \in 1 .. n : r = new[i]
        BY <1>1, <1>5, <1>6, <1>12, <3>2
      <3>3. QED
        BY <1>1, <1>3, <3>1, <3>2
    <2>4. ASSUME NEW r \in held', NEW s \in held', r # s PROVE Place(r) \cap Place(s) = {}
      <3>1. \A x \in held' : x \in held \/ \E i \in 1 .. n : x = new[i]
        BY <1>1, <1>3
      <3>2. CASE r \in held /\ s \in held
        BY <2>2, <2>4, <3>2
      <3>3. CASE r \in held /\ \E i \in 1 .. n : s = new[i]
        <4>1. Place(r) \subseteq bitmap /\ Place(s) \subseteq Pages \ bitmap
          BY <1>5, <2>1, <3>3
        <4>2. QED
          BY <4>1
      <3>4. CASE s \in held /\ \E i \in 1 .. n : r = new[i]
        <4>1. Place(s) \subseteq bitmap /\ Place(r) \subseteq Pages \ bitmap
          BY <1>5, <2>1, <3>4
        <4>2. QED
          BY <4>1
      <3>5. CASE (\E i \in 1 .. n : r = new[i]) /\ (\E j \in 1 .. n : s = new[j])
        BY <1>5, <2>4, <3>5
      <3>6. QED
        BY <3>1, <3>2, <3>3, <3>4, <3>5
    <2>5. QED
      BY <2>3, <2>4 DEF HeldDisjoint, Place
  <1>14. QED
    BY <1>9, <1>10, <1>11, <1>13 DEF PmmInv

-----------------------------------------------------------------------------
(* The heap.                                                               *)

\* The allocator below is in order, every expansion is still the heap's, and
\* the blocks have exactly its bytes.
HeapInv ==
  /\ PmmInv
  /\ arenas \in Seq(Request) /\ \A i \in DOMAIN arenas : arenas[i] \in held
  /\ Covers(heap, arenas)

\* Before heap_init there is neither.
LEMMA HeapStarts == HeapInit => HeapInv
  <1> SUFFICES ASSUME HeapInit PROVE HeapInv
    OBVIOUS
  <1>1. PmmInv /\ heap = <<>> /\ arenas = <<>>
    BY PmmInitInv DEF HeapInit
  <1>2. <<>> \in Seq(Request) /\ <<>> \in Seq(Block) /\ DOMAIN <<>> = {} /\ PAGE_SIZE * 0 = 0
    BY SMT, HeapConstants
  <1>3. Weight(<<>>) = 0 /\ Total(Lengths(<<>>)) = 0
    <2>1. Extents(<<>>) = <<>> /\ Lengths(<<>>) = <<>>
      BY SMT DEF Extents, Lengths
    <2>2. Total(<<>>) = 0
      <3>1. 0 \in Int
        BY SMT
      <3>2. QED
        BY <3>1, TotalFew
    <2>3. QED
      BY <2>1, <2>2 DEF Weight
  <1>4. Covers(<<>>, <<>>)
    BY <1>2, <1>3 DEF Covers
  <1>5. QED
    BY <1>1, <1>2, <1>4 DEF HeapInv

\* The expansions of one request, and their blocks behind the list.
LEMMA ArenasAdded ==
  ASSUME HeapInv, NEW new, Sound(new), AddArenas(new)
  PROVE  /\ PmmInv' /\ arenas' \in Seq(Request) /\ (\A i \in DOMAIN arenas' : arenas'[i] \in held')
         /\ Covers(Expanded(new), arenas') /\ Expanded(new) \in Seq(Block)
  <1>1. PmmInv /\ arenas \in Seq(Request) /\ (\A i \in DOMAIN arenas : arenas[i] \in held) /\ Covers(heap, arenas)
    BY DEF HeapInv
  <1>2. new \in Seq(Request)
    BY DEF Sound
  <1>3. arenas' = arenas \o new /\ held' = held \cup {new[i] : i \in DOMAIN new}
    BY DEF AddArenas
  <1>4. PmmInv'
    BY <1>1, AddArenasInv
  <1>5. arenas \o new \in Seq(Request)
    BY <1>1, <1>2, ConcatProperties
  <1>6. \A i \in DOMAIN (arenas \o new) : (arenas \o new)[i] \in held'
    <2> DEFINE m == Len(arenas)
               n == Len(new)
    <2>1. m \in Nat /\ n \in Nat /\ DOMAIN arenas = 1 .. m /\ DOMAIN new = 1 .. n
      BY <1>1, <1>2, LenProperties
    <2>2. /\ DOMAIN (arenas \o new) = 1 .. m + n
          /\ \A i \in 1 .. m + n : (arenas \o new)[i] = IF i <= m THEN arenas[i] ELSE new[i - m]
      <3>1. arenas \o new \in Seq(Request) /\ Len(arenas \o new) = m + n
        BY <1>1, <1>2, ConcatProperties
      <3>2. DOMAIN (arenas \o new) = 1 .. Len(arenas \o new)
        BY <3>1, LenProperties
      <3>3. \A i \in 1 .. m + n : (arenas \o new)[i] = IF i <= m THEN arenas[i] ELSE new[i - m]
        BY <1>1, <1>2, ConcatProperties
      <3>4. QED
        BY <3>1, <3>2, <3>3
    <2> HIDE DEF m, n
    <2>3. ASSUME NEW i \in 1 .. m + n PROVE (arenas \o new)[i] \in held'
      <3>1. CASE i <= m
        <4>1. i \in 1 .. m
          BY SMT, <2>1, <3>1
        <4>2. QED
          BY <1>1, <1>3, <2>1, <2>2, <3>1, <4>1
      <3>2. CASE ~ (i <= m)
        <4>1. i - m \in 1 .. n
          BY SMT, <2>1, <3>2
        <4>2. QED
          BY <1>3, <2>1, <2>2, <3>2, <4>1
      <3>3. QED
        BY <3>1, <3>2
    <2>4. QED
      BY <2>2, <2>3
  <1>7. Covers(heap \o BlocksOf(new), arenas \o new)
    BY <1>1, <1>2, CoversMore
  <1>8. Expanded(new) = heap \o BlocksOf(new)
    BY DEF Expanded, BlocksOf
  <1>9. Covers(Expanded(new), arenas \o new)
    BY <1>7, <1>8
  <1>10. QED
    BY <1>3, <1>4, <1>5, <1>6, <1>9 DEF Covers

\* The sizes kmalloc works with are numbers.
LEMMA AlignFacts ==
  ASSUME NEW size \in 1 .. MaxSize
  PROVE  Align(size) \in Int
  <1>1. ALIGN \in Nat \ {0} /\ MaxSize \in Nat
    BY KHeapAssumption
  <1>2. size \in Int
    BY SMT, <1>1
  <1> DEFINE q == (size + ALIGN - 1) \div ALIGN
  <1>3. q \in Int
    BY SMT, <1>1, <1>2
  <1> HIDE DEF q
  <1>4. q * ALIGN \in Int
    BY SMT, <1>1, <1>3
  <1>5. QED
    BY <1>4 DEF Align, q

\* The bits of the bitmap are pages.
LEMMA BitmapPages == HeapInv => bitmap \subseteq Pages
  BY DEF HeapInv, PmmInv, PmmTypeOK

\* kmalloc.
LEMMA MallocKeeps ==
  ASSUME HeapInv, kmalloc
  PROVE  HeapInv'
  <1>1. PICK size \in 1 .. MaxSize :
          /\ heap' = Allocated(Expanded(Expansions(Align(size))), Align(size))
          /\ AddArenas(Expansions(Align(size)))
    BY DEF kmalloc
  <1> DEFINE want == Align(size)
             new == Expansions(want)
  <1>2. want \in Int
    BY AlignFacts
  <1> HIDE DEF want
  <1>3. Sound(new)
    BY <1>2, BitmapPages, ExpansionsSound
  <1> HIDE DEF new
  <1>4. heap' = Allocated(Expanded(new), want) /\ AddArenas(new)
    BY <1>1 DEF new, want
  <1>5. /\ PmmInv' /\ arenas' \in Seq(Request) /\ (\A i \in DOMAIN arenas' : arenas'[i] \in held')
        /\ Covers(Expanded(new), arenas') /\ Expanded(new) \in Seq(Block)
    BY <1>3, <1>4, ArenasAdded
  <1>6. Recut(Expanded(new), heap')
    BY <1>2, <1>4, <1>5, AllocatedRecut
  <1>7. Covers(heap', arenas')
    BY <1>5, <1>6, CoversRecut
  <1>8. QED
    BY <1>5, <1>7 DEF HeapInv, Covers, Chained, Beyond

\* kfree.
LEMMA FreeKeeps ==
  ASSUME HeapInv, kfree
  PROVE  HeapInv'
  <1>1. PICK i \in InUse : heap' = Release(heap, heap[i].addr)
    BY DEF kfree
  <1>2. UNCHANGED <<bitmap, free_pages, held, arenas>>
    BY DEF kfree, pmmVars
  <1>3. PmmInv /\ arenas \in Seq(Request) /\ (\A j \in DOMAIN arenas : arenas[j] \in held) /\ Covers(heap, arenas)
    BY DEF HeapInv
  <1>4. heap \in Seq(Block)
    BY <1>3 DEF Covers
  <1>5. Recut(heap, heap')
    BY <1>1, <1>4, ReleaseRecut
  <1>6. Covers(heap', arenas)
    BY <1>3, <1>5, CoversRecut
  <1>7. PmmInv'
    BY <1>2, <1>3 DEF PmmInv, PmmTypeOK, FreeCount, HeldDisjoint, Reserved
  <1>8. Covers(heap', arenas')
    BY <1>2, <1>6
  <1>9. QED
    BY <1>2, <1>3, <1>7, <1>8 DEF HeapInv

\* krealloc, as a kmalloc and the kfree of the old block, or with no room.
LEMMA ReallocKeeps ==
  ASSUME HeapInv, krealloc
  PROVE  HeapInv'
  <1>1. PICK i \in InUse, size \in 1 .. MaxSize :
          /\ heap' = IF Fits(Expanded(Expansions(Align(size))), Align(size)) = {}
                     THEN Expanded(Expansions(Align(size)))
                     ELSE Release(Allocated(Expanded(Expansions(Align(size))), Align(size)), heap[i].addr)
          /\ AddArenas(Expansions(Align(size)))
    BY DEF krealloc
  <1> DEFINE want == Align(size)
             new == Expansions(want)
             h == Expanded(new)
  <1>2. want \in Int
    BY AlignFacts
  <1> HIDE DEF want
  <1>3. Sound(new)
    BY <1>2, BitmapPages, ExpansionsSound
  <1> HIDE DEF new
  <1>4. AddArenas(new)
    BY <1>1 DEF new, want
  <1>5. /\ PmmInv' /\ arenas' \in Seq(Request) /\ (\A j \in DOMAIN arenas' : arenas'[j] \in held')
        /\ Covers(h, arenas') /\ h \in Seq(Block)
    BY <1>3, <1>4, ArenasAdded
  <1>6. heap' = h \/ heap' = Release(Allocated(h, want), heap[i].addr)
    BY <1>1 DEF new, want
  <1> HIDE DEF h
  <1>7. Recut(h, h)
    BY <1>5 DEF Recut
  <1>8. Recut(h, Release(Allocated(h, want), heap[i].addr))
    <2> DEFINE k == Allocated(h, want)
    <2>1. Recut(h, k)
      BY <1>2, <1>5, AllocatedRecut
    <2>2. k \in Seq(Block)
      BY <2>1 DEF Recut
    <2> HIDE DEF k
    <2>3. Recut(k, Release(k, heap[i].addr))
      BY <2>2, ReleaseRecut
    <2>4. Recut(h, Release(k, heap[i].addr))
      BY <2>1, <2>3, RecutTwice
    <2>5. QED
      BY <2>4 DEF k
  <1>9. Recut(h, heap')
    BY <1>6, <1>7, <1>8
  <1>10. Covers(heap', arenas')
    BY <1>5, <1>9, CoversRecut
  <1>11. QED
    BY <1>5, <1>10 DEF HeapInv

\* heap_init takes the first expansion.
LEMMA InitKeeps ==
  ASSUME HeapInv, heap_init
  PROVE  HeapInv'
  <1>1. PICK start \in Pages :
          /\ FirstFit(bitmap, start, HEAP_INITIAL_PAGES, total_pages)
          /\ AddArenas(<<Arena(start, HEAP_INITIAL_PAGES)>>)
          /\ heap' = <<ArenaBlock(Arena(start, HEAP_INITIAL_PAGES))>>
    BY DEF heap_init
  <1> DEFINE n == HEAP_INITIAL_PAGES
             a == Arena(start, n)
  <1>2. start \in Nat /\ start + n <= total_pages /\ Run(start, n) \cap bitmap = {}
    BY <1>1 DEF FirstFit, FitsAt
  <1>3. n \in Nat \ {0} /\ total_pages \in Nat
    BY KHeapAssumption, PmmAssumption
  <1>4. Run(start, n) \subseteq Pages
    BY SMT, <1>2, <1>3 DEF Run, Pages
  <1>5. a \in Request /\ a.start = start /\ a.n = n /\ a.limit = total_pages
    BY <1>2, <1>3 DEF Arena, Request
  <1> HIDE DEF a
  <1>6. Sound(<<>>) /\ Taken(<<>>) = {} /\ Append(<<>>, a) = <<a>>
    <2>1. <<>> \in Seq(Request) /\ Len(<<>>) = 0 /\ 1 .. 0 = {} /\ Append(<<>>, a) = <<a>>
      BY SMT
    <2>2. Sound(<<>>)
      BY <2>1 DEF Sound
    <2>3. Taken(<<>>) = {}
      BY <2>1, TakenFacts
    <2>4. QED
      BY <2>1, <2>2, <2>3
  <1>7. Sound(<<a>>)
    <2>1. Place(a) \subseteq Pages \ (bitmap \cup Taken(<<>>)) /\ a.start + a.n <= a.limit
      BY <1>2, <1>4, <1>5, <1>6 DEF Place
    <2>2. Sound(Append(<<>>, a))
      BY <1>5, <1>6, <2>1, SoundOneMore
    <2>3. QED
      BY <1>6, <2>2
  <1>8. AddArenas(<<a>>) /\ heap' = <<ArenaBlock(a)>>
    BY <1>1 DEF a
  <1>9. /\ PmmInv' /\ arenas' \in Seq(Request) /\ (\A j \in DOMAIN arenas' : arenas'[j] \in held')
        /\ Covers(Expanded(<<a>>), arenas')
    BY <1>7, <1>8, ArenasAdded
  <1>10. Expanded(<<a>>) = <<ArenaBlock(a)>>
    <2>1. arenas = <<>>
      BY DEF heap_init
    <2>2. heap = <<>>
      BY <2>1 DEF HeapInv, Covers
    <2> DEFINE b == ArenaBlock(a)
    <2> HIDE DEF b
    <2>3. [i \in DOMAIN <<a>> |-> ArenaBlock(<<a>>[i])] = <<b>>
      BY SMT DEF b
    <2>4. <<>> \o <<b>> = <<b>>
      BY SMT
    <2>5. QED
      BY <2>2, <2>3, <2>4 DEF Expanded, b
  <1>11. QED
    BY <1>8, <1>9, <1>10 DEF HeapInv

\* The rest of the kernel leaves the heap's pages.
LEMMA OthersKeep ==
  ASSUME HeapInv, OtherPages
  PROVE  HeapInv'
  <1>1. PmmInv /\ arenas \in Seq(Request) /\ (\A j \in DOMAIN arenas : arenas[j] \in held) /\ Covers(heap, arenas)
    BY DEF HeapInv
  <1>2. heap' = heap /\ arenas' = arenas
    BY DEF OtherPages, heapVars
  <1>3. PmmInv' /\ \A j \in DOMAIN arenas : arenas[j] \in held'
    <2>1. CASE pmm_alloc
      <3>1. PICK n \in 1 .. MaxRun : alloc_below(n, total_pages)
        BY <2>1 DEF pmm_alloc
      <3>2. PmmInv'
        BY <1>1, <3>1, AllocInv
      <3>3. held \subseteq held'
        BY <3>1 DEF alloc_below
      <3>4. QED
        BY <1>1, <3>2, <3>3
    <2>2. CASE pmm_alloc_dma
      <3>1. PICK n \in 1 .. MaxRun : alloc_below(n, max_page)
        BY <2>2 DEF pmm_alloc_dma
      <3>2. PmmInv'
        BY <1>1, <3>1, AllocInv
      <3>3. held \subseteq held'
        BY <3>1 DEF alloc_below
      <3>4. QED
        BY <1>1, <3>2, <3>3
    <2>3. CASE \E r \in held \ {arenas[i] : i \in DOMAIN arenas} : pmm_free(r)
      <3>1. PICK r \in held \ {arenas[i] : i \in DOMAIN arenas} : pmm_free(r)
        BY <2>3
      <3>2. PmmInv'
        BY <1>1, <3>1, FreeInv
      <3>3. held' = held \ {r}
        BY <3>1 DEF pmm_free
      <3>4. QED
        BY <1>1, <3>1, <3>2, <3>3
    <2>4. QED
      BY <2>1, <2>2, <2>3 DEF OtherPages
  <1>4. Covers(heap', arenas')
    BY <1>1, <1>2
  <1>5. QED
    BY <1>1, <1>2, <1>3, <1>4 DEF HeapInv

\* Every step of the heap and of the allocator's other clients.
LEMMA HeapStep == HeapInv /\ [HeapNext]_allVars => HeapInv'
  <1> SUFFICES ASSUME HeapInv, [HeapNext]_allVars PROVE HeapInv'
    OBVIOUS
  <1>1. CASE heap_init
    BY <1>1, InitKeeps
  <1>2. CASE kmalloc
    BY <1>2, MallocKeeps
  <1>3. CASE kfree
    BY <1>3, FreeKeeps
  <1>4. CASE krealloc
    BY <1>4, ReallocKeeps
  <1>5. CASE OtherPages
    BY <1>5, OthersKeep
  <1>6. CASE UNCHANGED allVars
    <2>1. UNCHANGED <<bitmap, free_pages, held, heap, arenas>>
      BY <1>6 DEF allVars, pmmVars, heapVars
    <2>2. PmmInv /\ arenas \in Seq(Request) /\ (\A j \in DOMAIN arenas : arenas[j] \in held) /\ Covers(heap, arenas)
      BY DEF HeapInv
    <2>3. PmmInv'
      BY <2>1, <2>2 DEF PmmInv, PmmTypeOK, FreeCount, HeldDisjoint, Reserved
    <2>4. Covers(heap', arenas')
      BY <2>1, <2>2
    <2>5. QED
      BY <2>1, <2>2, <2>3, <2>4 DEF HeapInv
  <1>7. QED
    BY <1>1, <1>2, <1>3, <1>4, <1>5, <1>6 DEF HeapNext

\* What the invariant says of the list.
LEMMA InvTiles == HeapInv => HeapTiles
  <1> SUFFICES ASSUME HeapInv PROVE HeapTiles
    OBVIOUS
  <1>1. Covers(heap, arenas) /\ \A i \in DOMAIN arenas : arenas[i] \in held
    BY DEF HeapInv
  <1>2. BytesConserved
    BY <1>1 DEF Covers, Weight, BytesConserved
  <1>3. ASSUME arenas # <<>>, Contiguous
        PROVE  /\ heap[1].addr = arenas[1].start * PAGE_SIZE
               /\ \A i \in 1 .. Len(heap) - 1 : heap[i + 1].addr = End(heap[i])
               /\ LET a == arenas[Len(arenas)] IN End(heap[Len(heap)]) = (a.start + a.n) * PAGE_SIZE
    <2>1. Chained(arenas)
      BY <1>3 DEF Contiguous, Chained
    <2>2. Tiled(heap, arenas[1].start * PAGE_SIZE, Beyond(arenas[Len(arenas)]))
      BY <1>1, <1>3, <2>1 DEF Covers
    <2>3. QED
      BY <2>2 DEF Tiled, Beyond
  <1>4. QED
    BY <1>2, <1>3 DEF HeapTiles

\* The invariant holds throughout: heap_init, kmalloc with any number of
\* expansions, kfree, krealloc, and the page allocations of everybody else.
THEOREM HeapInvariant == HeapSpec => []HeapInv
  BY HeapStarts, HeapStep, PTL DEF HeapSpec

\* No byte is lost or invented by splitting, coalescing and expanding, for
\* every memory map, request size and header size: the blocks add up to the
\* pages of the expansions, which are still the heap's, and tile them in list
\* order as long as each expansion begins where the one before it ends.
THEOREM HeapTilesItsPages == HeapSpec => []HeapTiles
  <1>1. HeapSpec => []HeapInv
    BY HeapInvariant
  <1>2. QED
    BY <1>1, InvTiles, PTL

\* With the heap on top, whose expansions take several runs in one step, the
\* counter free_pages stays exact and no page has two holders.
THEOREM PagesUnderTheHeap == HeapSpec => [](FreeCount /\ HeldDisjoint)
  <1>1. HeapInv => FreeCount /\ HeldDisjoint
    BY DEF HeapInv, PmmInv
  <1>2. HeapSpec => []HeapInv
    BY HeapInvariant
  <1>3. QED
    BY <1>1, <1>2, PTL
=============================================================================
