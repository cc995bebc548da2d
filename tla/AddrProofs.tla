----------------------------- MODULE AddrProofs -----------------------------
(***************************************************************************)
(* Every page has one owner, for every memory size, layout and number of   *)
(* processes: proofs about AddrSpec.                                       *)
(*                                                                         *)
(* The calls work on a record m of the memory and one address space.  Pool *)
(* says how m's bitmap and counts relate to a set of used pages; the       *)
(* lemmas about frames, tables, loops and images say which pages each of   *)
(* them adds to that set or takes from it; the last part relates the       *)
(* processes to each other.                                                *)
(***************************************************************************)
EXTENDS AddrSpace, LoopProofs, FiniteSetTheorems

USE Zenon

Memory == [bits : SUBSET Pages, refs : [Pages -> Nat], space : Space, ok : BOOLEAN, oom : BOOLEAN]

\* The pages of a space: the user's frames, and the page tables with their root.
Frames(s) == {s.pte[va] : va \in VAs} \ {NoPage}
Structure(s) == ({s.tab[t] : t \in Tables} \cup {s.root}) \ {NoPage}
Uses(s) == Frames(s) \cup Structure(s)

\* A space names no page twice, has a table for each of its frames, and has
\* neither when it has no root.
WellFormed(s) ==
  /\ \A va, wa \in VAs : s.pte[va] # NoPage /\ s.pte[va] = s.pte[wa] => va = wa
  /\ \A t, u \in Tables : s.tab[t] # NoPage /\ s.tab[t] = s.tab[u] => t = u
  /\ Frames(s) \cap Structure(s) = {}
  /\ s.root # NoPage => \A t \in Tables : s.tab[t] # s.root
  /\ \A va \in VAs : s.pte[va] # NoPage => s.tab[TableOf(va)] # NoPage
  /\ s.root = NoPage => s = NoSpace

\* The used pages are taken, and a frame among them has at most one count.  A
\* page that is neither used nor available was lost to a failed allocation.
Pool(m, used, frames) ==
  /\ Reserved \subseteq m.bits /\ used \subseteq m.bits \ Reserved /\ frames \subseteq used
  /\ \A p \in Pages \ m.bits : m.refs[p] = 0
  /\ \A p \in used \ frames : m.refs[p] = 0
  /\ \A p \in frames : m.refs[p] <= 1
  /\ ~m.oom => m.bits = Reserved \cup used

\* m is sound beside the pages that others use.
Sound(m, others, otherFrames) ==
  /\ m \in Memory /\ WellFormed(m.space) /\ otherFrames \subseteq others
  /\ Uses(m.space) \cap others = {}
  /\ Pool(m, others \cup Uses(m.space), otherFrames \cup Frames(m.space))

\* The pages of all processes whose spaces are sp and kernel stacks ks, and
\* those of all but p.
Stacks(ks) == {ks[p] : p \in Procs} \ {NoPage}
AllFrames(sp) == UNION {Frames(sp[p]) : p \in Procs}
AllUses(sp, ks) == Stacks(ks) \cup UNION {Uses(sp[p]) : p \in Procs}
FramesBut(sp, p) == UNION {Frames(sp[q]) : q \in Procs \ {p}}
UsesBut(sp, ks, p) == Stacks(ks) \cup UNION {Uses(sp[q]) : q \in Procs \ {p}}

\* What mmap and brk are about to map is not mapped.
RoomAbove(s, brk, top) ==
  /\ \A va \in brk .. MMAP_AREA_BASE - 1 : s.pte[va] = NoPage
  /\ \A va \in top .. MMAP_AREA_END - 1 : s.pte[va] = NoPage

\* No page is in two processes, or twice in one.
Separate(sp, ks) ==
  /\ \A p \in Procs : WellFormed(sp[p]) /\ Uses(sp[p]) \cap UsesBut(sp, ks, p) = {}
  /\ \A p \in Procs : ks[p] = NoPage <=> sp[p] = NoSpace
  /\ \A p, q \in Procs : ks[p] # NoPage /\ ks[p] = ks[q] => p = q

\* The inductive invariant.
AddrInv ==
  /\ AddrTypeOK
  /\ \A p \in Procs : /\ brk_cur[p] \in brk_base .. MMAP_AREA_BASE
                      /\ mmap_top[p] \in MMAP_AREA_BASE .. MMAP_AREA_END
  /\ ~shrunk => /\ Separate(space, kstack)
                /\ Pool(Mem(NoSpace), AllUses(space, kstack), AllFrames(space))
                /\ ~oom => \A p \in Procs : RoomAbove(space[p], brk_cur[p], mmap_top[p])

-----------------------------------------------------------------------------
(* Pages.                                                                  *)

\* pmm_alloc(1) returns a page that was available, or none when none is.
LEMMA NextPageFacts ==
  ASSUME NEW m \in Memory
  PROVE  /\ NextPage(m) \in Pages
         /\ NextPage(m) # NoPage => NextPage(m) \notin m.bits
         /\ 0 \in m.bits /\ NextPage(m) = NoPage => m.bits = Pages
  <1> DEFINE clear == Pages \ m.bits
  <1>1. NoPage \in Pages
    BY AddrAssumption DEF Pages, NoPage
  <1>2. m.bits \subseteq Pages
    BY DEF Memory
  <1>3. CASE clear = {}
    BY <1>1, <1>2, <1>3 DEF NextPage
  <1>4. CASE clear # {}
    <2>1. PICK p \in clear : \A q \in clear : p <= q
      <3>1. clear \subseteq Nat
        BY SMT DEF Pages
      <3>2. QED
        BY <1>4, <3>1, LeastNatural
    <2>2. NextPage(m) \in clear
      BY <1>4, <2>1 DEF NextPage
    <2>3. QED
      BY <2>2 DEF NoPage
  <1>5. QED
    BY <1>3, <1>4

\* pmm_alloc(1) in the record: what it changes.
LEMMA ClaimFacts ==
  ASSUME NEW m \in Memory
  PROVE  /\ Claim(m) \in Memory
         /\ Claim(m).bits = m.bits \cup {NextPage(m)} /\ Claim(m).refs = m.refs
         /\ Claim(m).space = m.space /\ Claim(m).ok = m.ok
         /\ Claim(m).oom <=> m.oom \/ NextPage(m) = NoPage
  BY NextPageFacts DEF Claim, Memory

\* pmm_free(p, 1) clears p's bit, set or not.
LEMMA FreeFacts ==
  ASSUME NEW m \in Memory, NEW p \in Pages
  PROVE  /\ FreePage(m, p) \in Memory
         /\ FreePage(m, p).bits = m.bits \ {p} /\ FreePage(m, p).refs = m.refs
         /\ FreePage(m, p).space = m.space /\ FreePage(m, p).ok = m.ok
         /\ FreePage(m, p).oom = m.oom
  <1>1. Freed(m.bits, p, 1) = m.bits \cap {p}
    BY SMT DEF Freed, Run, Pages
  <1>2. FreePage(m, p) = [m EXCEPT !.bits = m.bits \ Freed(m.bits, p, 1)]
    BY DEF FreePage
  <1>3. m.bits \ Freed(m.bits, p, 1) = m.bits \ {p}
    BY <1>1
  <1>4. QED
    BY <1>2, <1>3 DEF Memory

\* frame_ref_dec and pmm_free: the last count frees the page.
LEMMA ReleaseFacts ==
  ASSUME NEW m \in Memory, NEW p \in Pages
  PROVE  /\ ReleaseFrame(m, p) \in Memory
         /\ m.refs[p] <= 1 => /\ ReleaseFrame(m, p).bits = m.bits \ {p}
                              /\ ReleaseFrame(m, p).refs = [m.refs EXCEPT ![p] = 0]
         /\ ReleaseFrame(m, p).space = m.space /\ ReleaseFrame(m, p).ok = m.ok
         /\ ReleaseFrame(m, p).oom = m.oom
  <1> DEFINE n == frame_ref_dec(m.refs[p])
             dropped == [m EXCEPT !.refs[p] = n]
  <1>1. m.refs[p] \in Nat
    BY DEF Memory
  <1>2. n \in Nat /\ (m.refs[p] <= 1 => n = 0)
    BY SMT, <1>1 DEF frame_ref_dec
  <1>3. /\ dropped \in Memory /\ dropped.bits = m.bits
        /\ dropped.refs = [m.refs EXCEPT ![p] = n]
        /\ dropped.space = m.space /\ dropped.ok = m.ok /\ dropped.oom = m.oom
    <2> HIDE DEF n
    <2>1. QED
      BY <1>2 DEF Memory
  <1>4. ReleaseFrame(m, p) = IF n = 0 THEN FreePage(dropped, p) ELSE dropped
    BY DEF ReleaseFrame
  <1> HIDE DEF n, dropped
  <1>5. /\ FreePage(dropped, p) \in Memory
        /\ FreePage(dropped, p).bits = m.bits \ {p} /\ FreePage(dropped, p).refs = dropped.refs
        /\ FreePage(dropped, p).space = m.space /\ FreePage(dropped, p).ok = m.ok
        /\ FreePage(dropped, p).oom = m.oom
    BY SMT, <1>3, FreeFacts
  <1>6. QED
    BY <1>2, <1>3, <1>4, <1>5

-----------------------------------------------------------------------------
(* The pool.                                                               *)

\* An allocated page joins the used ones, as a frame or not.
LEMMA PoolClaim ==
  ASSUME NEW m \in Memory, NEW used, NEW frames, Pool(m, used, frames), NextPage(m) # NoPage
  PROVE  /\ NextPage(m) \notin used /\ NextPage(m) \notin Reserved
         /\ Pool(Claim(m), used \cup {NextPage(m)}, frames)
         /\ Pool(Claim(m), used \cup {NextPage(m)}, frames \cup {NextPage(m)})
         /\ m.refs[NextPage(m)] = 0
  BY SMT, NextPageFacts, ClaimFacts DEF Pool, Memory

\* A failed allocation changes nothing but the history.
LEMMA PoolEmpty ==
  ASSUME NEW m \in Memory, NEW used, NEW frames, Pool(m, used, frames), NextPage(m) = NoPage
  PROVE  Claim(m).oom /\ Pool(Claim(m), used, frames)
  <1>1. NoPage \in m.bits
    BY AddrAssumption DEF Pool, NoPage
  <1>2. Claim(m).bits = m.bits /\ Claim(m).refs = m.refs /\ Claim(m).oom
    BY <1>1, ClaimFacts
  <1>3. QED
    BY <1>2 DEF Pool

\* Freeing a page that is not a frame.
LEMMA PoolFree ==
  ASSUME NEW m \in Memory, NEW used, NEW frames, Pool(m, used, frames),
         NEW p \in used, p \notin frames
  PROVE  p \in Pages /\ Pool(FreePage(m, p), used \ {p}, frames)
  <1>1. p \in Pages
    BY DEF Pool, Memory
  <1>2. QED
    BY SMT, <1>1, FreeFacts DEF Pool

\* Releasing a frame.
LEMMA PoolRelease ==
  ASSUME NEW m \in Memory, NEW used, NEW frames, Pool(m, used, frames), NEW p \in frames
  PROVE  p \in Pages /\ Pool(ReleaseFrame(m, p), used \ {p}, frames \ {p})
  <1>1. p \in Pages /\ m.refs[p] <= 1 /\ m.refs \in [Pages -> Nat] /\ p \in m.bits \ Reserved
    BY DEF Pool, Memory
  <1>2. /\ ReleaseFrame(m, p).bits = m.bits \ {p}
        /\ ReleaseFrame(m, p).refs = [m.refs EXCEPT ![p] = 0]
        /\ ReleaseFrame(m, p).oom = m.oom
    BY <1>1, ReleaseFacts
  <1>3. QED
    BY SMT, <1>1, <1>2 DEF Pool, Memory

\* After a failure a page may be lost.
LEMMA PoolLose ==
  ASSUME NEW m \in Memory, NEW used, NEW frames, Pool(m, used, frames), m.oom, NEW lost
  PROVE  Pool(m, used \ lost, frames \ lost)
  BY DEF Pool

-----------------------------------------------------------------------------
(* Virtual pages and their tables.                                         *)

\* The areas follow one another.
LEMMA Layout ==
  /\ brk_base \in Nat /\ MMAP_AREA_BASE \in Nat /\ MMAP_AREA_END \in Nat
  /\ StackBase \in Nat /\ USER_STACK_TOP \in Nat
  /\ 0 < brk_base /\ brk_base <= MMAP_AREA_BASE /\ MMAP_AREA_BASE <= MMAP_AREA_END
  /\ MMAP_AREA_END <= StackBase /\ StackBase < USER_STACK_TOP
  /\ ImagePages = brk_base /\ NoPage \in Pages
  BY SMT, AddrAssumption
     DEF brk_base, MMAP_AREA_BASE, MMAP_AREA_END, StackBase, USER_STACK_TOP, NoPage, Pages

\* A page's table: the t with t * PER_TABLE <= va < (t + 1) * PER_TABLE.
LEMMA Division ==
  ASSUME NEW d \in Nat \ {0}, NEW v \in Nat, NEW t \in Nat
  PROVE  /\ v \div d \in Nat
         /\ v \div d = t <=> t * d <= v /\ v < (t + 1) * d
  <1>1. v \div d \in Nat /\ (v \div d) * d <= v /\ v < ((v \div d) + 1) * d
    BY SMT
  <1>2. ASSUME t * d <= v, v < (t + 1) * d PROVE v \div d = t
    BY <1>2, SMT
  <1>3. QED
    BY <1>1, <1>2

\* Multiples of a positive number keep their order.
LEMMA Multiples ==
  ASSUME NEW d \in Nat \ {0}, NEW t \in Nat, NEW u \in Nat, t <= u
  PROVE  t * d \in Nat /\ u * d \in Nat /\ t * d <= u * d
  BY SMT

\* pmap_destroy's inner loop over table t visits its virtual pages, and the
\* outer loop every table in use.
LEMMA TablePages ==
  /\ TableCount \in Nat
  /\ \A va \in VAs : TableOf(va) \in Tables
  /\ \A t \in Tables : /\ FirstVa(t) \in Nat /\ FirstVa(t + 1) \in Nat
                       /\ FirstVa(t) <= FirstVa(t + 1) /\ FirstVa(t + 1) <= USER_STACK_TOP
                       /\ \A va \in VAs : TableOf(va) = t <=> va \in FirstVa(t) .. FirstVa(t + 1) - 1
  <1> DEFINE d == PER_TABLE
             last == TableOf(USER_STACK_TOP - 1)
  <1>1. d \in Nat \ {0} /\ USER_STACK_TOP \in Nat \ {0} /\ USER_STACK_TOP - 1 \in Nat
    BY SMT, AddrAssumption, Layout
  <1>2. \A v \in Nat : TableOf(v) \in Nat
    BY <1>1, Division DEF TableOf
  <1>3. \A v, t \in Nat : TableOf(v) = t <=> t * d <= v /\ v < (t + 1) * d
    BY <1>1, Division DEF TableOf
  <1>4. last \in Nat /\ TableCount = last + 1 /\ USER_STACK_TOP - 1 < (last + 1) * d
    BY <1>1, <1>2, <1>3 DEF TableCount
  <1>5. ASSUME NEW va \in VAs PROVE TableOf(va) \in Tables
    <2>1. va \in Nat /\ TableOf(va) \in Nat /\ TableOf(va) * d <= va /\ va <= USER_STACK_TOP - 1
      BY SMT, <1>1, <1>2, <1>3 DEF VAs
    <2>2. ASSUME last + 1 <= TableOf(va) PROVE FALSE
      <3>1. (last + 1) * d <= TableOf(va) * d /\ (last + 1) * d \in Nat /\ TableOf(va) * d \in Nat
        BY SMT, <1>1, <1>4, <2>1, <2>2, Multiples
      <3>2. QED
        BY SMT, <1>1, <1>4, <2>1, <3>1
    <2>3. QED
      BY SMT, <1>4, <2>1, <2>2 DEF Tables
  <1>6. ASSUME NEW t \in Tables
        PROVE  /\ FirstVa(t) \in Nat /\ FirstVa(t + 1) \in Nat
               /\ FirstVa(t) <= FirstVa(t + 1) /\ FirstVa(t + 1) <= USER_STACK_TOP
               /\ \A va \in VAs : TableOf(va) = t <=> va \in FirstVa(t) .. FirstVa(t + 1) - 1
    <2>1. t \in Nat /\ t + 1 \in Nat
      BY SMT, <1>4 DEF Tables
    <2>2. t * d \in Nat /\ (t + 1) * d \in Nat /\ t * d <= (t + 1) * d
      BY SMT, <1>1, <2>1, Multiples
    <2>3. \A va \in VAs : TableOf(va) = t <=> t * d <= va /\ va < (t + 1) * d
      BY SMT, <1>3, <2>1 DEF VAs
    <2> DEFINE x == t * d
               y == (t + 1) * d
    <2>4. /\ FirstVa(t) = IF x < USER_STACK_TOP THEN x ELSE USER_STACK_TOP
          /\ FirstVa(t + 1) = IF y < USER_STACK_TOP THEN y ELSE USER_STACK_TOP
      BY DEF FirstVa
    <2>5. x \in Nat /\ y \in Nat /\ x <= y /\ \A va \in VAs : TableOf(va) = t <=> x <= va /\ va < y
      BY <2>2, <2>3
    <2> HIDE DEF x, y
    <2>6. QED
      BY SMT, <1>1, <2>4, <2>5 DEF VAs
  <1>7. QED
    BY SMT, <1>4, <1>5, <1>6

-----------------------------------------------------------------------------
(* pmap_map.                                                               *)

\* What pmap_map returns: the table is there, is allocated, or is not to be had.
LEMMA MapFacts ==
  ASSUME NEW m \in Memory, NEW va \in VAs, NEW pa \in Pages,
         NEW r, r = pmap_map(m, va, pa), NEW t, t = TableOf(va)
  PROVE  /\ r \in Memory /\ r.refs = m.refs /\ r.ok = m.ok /\ r.space.root = m.space.root
         /\ m.space.tab[t] # NoPage =>
              /\ r.bits = m.bits /\ r.oom = m.oom /\ r.space.tab = m.space.tab
              /\ r.space.pte = [m.space.pte EXCEPT ![va] = pa]
         /\ m.space.tab[t] = NoPage /\ NextPage(m) # NoPage =>
              /\ r.bits = m.bits \cup {NextPage(m)} /\ r.oom = m.oom
              /\ r.space.tab = [m.space.tab EXCEPT ![t] = NextPage(m)]
              /\ r.space.pte = [m.space.pte EXCEPT ![va] = pa]
         /\ m.space.tab[t] = NoPage /\ NextPage(m) = NoPage => r = Claim(m)
  <1> DEFINE q == NextPage(m)
             c == Claim(m)
             w == [c EXCEPT !.space.tab[t] = q]
  <1>1. t \in Tables /\ q \in Pages
    BY TablePages, NextPageFacts
  <1>2. /\ c \in Memory /\ c.bits = m.bits \cup {q} /\ c.refs = m.refs
        /\ c.space = m.space /\ c.ok = m.ok /\ (c.oom <=> m.oom \/ q = NoPage)
    BY ClaimFacts
  <1>3. r =
          IF m.space.tab[t] # NoPage
          THEN IF m.space.tab[t] = NoPage THEN m ELSE [m EXCEPT !.space.pte[va] = pa]
          ELSE IF w.space.tab[t] = NoPage THEN w ELSE [w EXCEPT !.space.pte[va] = pa]
    BY DEF pmap_map
  <1> HIDE DEF q, c
  <1>4. /\ w \in Memory /\ w.bits = c.bits /\ w.refs = c.refs /\ w.ok = c.ok /\ w.oom = c.oom
        /\ w.space.root = c.space.root /\ w.space.pte = c.space.pte
        /\ w.space.tab = [c.space.tab EXCEPT ![t] = q]
    BY <1>1, <1>2 DEF Memory, Space
  <1>5. ASSUME NEW x \in Memory
        PROVE  LET e == [x EXCEPT !.space.pte[va] = pa] IN
               /\ e \in Memory /\ e.bits = x.bits /\ e.refs = x.refs /\ e.ok = x.ok /\ e.oom = x.oom
               /\ e.space.root = x.space.root /\ e.space.tab = x.space.tab
               /\ e.space.pte = [x.space.pte EXCEPT ![va] = pa]
    BY DEF Memory, Space
  <1>6. m.space.tab \in [Tables -> Pages]
    BY DEF Memory, Space
  <1>7. w.space.tab[t] = q
    BY SMT, <1>1, <1>2, <1>4, <1>6
  <1>8. ASSUME m.space.tab[t] = NoPage, q = NoPage PROVE w = c
    BY SMT, <1>2, <1>4, <1>6, <1>8 DEF Memory, Space
  <1> HIDE DEF w
  <1>9. CASE m.space.tab[t] # NoPage
    BY <1>3, <1>5, <1>9
  <1>10. CASE m.space.tab[t] = NoPage /\ q # NoPage
    <2>1. r = [w EXCEPT !.space.pte[va] = pa]
      BY <1>3, <1>7, <1>10
    <2>2. /\ r \in Memory /\ r.bits = w.bits /\ r.refs = w.refs /\ r.ok = w.ok /\ r.oom = w.oom
          /\ r.space.root = w.space.root /\ r.space.tab = w.space.tab
          /\ r.space.pte = [w.space.pte EXCEPT ![va] = pa]
      BY SMT, <1>4, <1>5, <2>1
    <2>3. w.oom = m.oom
      BY <1>2, <1>4, <1>10 DEF Memory
    <2>4. QED
      BY SMT, <1>2, <1>4, <1>10, <2>2, <2>3 DEF q
  <1>11. CASE m.space.tab[t] = NoPage /\ q = NoPage
    BY <1>2, <1>3, <1>7, <1>8, <1>11 DEF q, c
  <1>12. QED
    BY <1>9, <1>10, <1>11 DEF q

-----------------------------------------------------------------------------
(* Entries of a space.                                                     *)

\* A new table joins the structure.
LEMMA TableAdded ==
  ASSUME NEW s \in Space, NEW w \in Space, WellFormed(s), s.root # NoPage,
         NEW t \in Tables, s.tab[t] = NoPage,
         NEW q \in Pages, q # NoPage, q \notin Uses(s),
         w.root = s.root, w.pte = s.pte, w.tab = [s.tab EXCEPT ![t] = q]
  PROVE  WellFormed(w) /\ Frames(w) = Frames(s) /\ Structure(w) = Structure(s) \cup {q}
  <1>1. s.tab \in [Tables -> Pages] /\ s.pte \in [VAs -> Pages]
    BY DEF Space
  <1>2. w.tab[t] = q /\ \A u \in Tables : u # t => w.tab[u] = s.tab[u]
    BY <1>1
  <1>3. Frames(w) = Frames(s)
    BY DEF Frames
  <1>4. Structure(w) = Structure(s) \cup {q}
    BY SMT, <1>2 DEF Structure
  <1>5. \A va \in VAs : TableOf(va) \in Tables
    BY TablePages
  <1>6. q \notin Frames(s) /\ q \notin Structure(s)
    BY DEF Uses
  <1>7. \A u \in Tables : s.tab[u] # q
    BY <1>6 DEF Structure
  <1>8. q # s.root
    BY <1>6 DEF Structure
  <1>9. \A u, v \in Tables : w.tab[u] # NoPage /\ w.tab[u] = w.tab[v] => u = v
    BY SMT, <1>2, <1>7 DEF WellFormed
  <1>10. \A va \in VAs : w.pte[va] # NoPage => w.tab[TableOf(va)] # NoPage
    BY SMT, <1>2, <1>5 DEF WellFormed
  <1>11. QED
    BY SMT, <1>2, <1>3, <1>4, <1>6, <1>8, <1>9, <1>10 DEF WellFormed

\* A new frame replaces what the entry named.
LEMMA EntrySet ==
  ASSUME NEW s \in Space, NEW w \in Space, WellFormed(s), s.root # NoPage,
         NEW va \in VAs, s.tab[TableOf(va)] # NoPage,
         NEW p \in Pages, p # NoPage, p \notin Uses(s),
         w.root = s.root, w.tab = s.tab, w.pte = [s.pte EXCEPT ![va] = p]
  PROVE  /\ WellFormed(w) /\ Structure(w) = Structure(s)
         /\ Frames(w) = (Frames(s) \ {s.pte[va]}) \cup {p}
  <1>1. s.pte \in [VAs -> Pages]
    BY DEF Space
  <1>2. w.pte[va] = p /\ \A u \in VAs : u # va => w.pte[u] = s.pte[u]
    BY <1>1
  <1>3. Structure(w) = Structure(s)
    BY DEF Structure
  <1>4. \A u \in VAs : u # va /\ s.pte[u] # NoPage => s.pte[u] # s.pte[va]
    BY DEF WellFormed
  <1>5. Frames(w) = (Frames(s) \ {s.pte[va]}) \cup {p}
    BY SMT, <1>2, <1>4 DEF Frames
  <1>6. p \notin Structure(s) /\ \A u \in VAs : s.pte[u] # p
    BY DEF Uses, Frames
  <1>7. \A u, v \in VAs : w.pte[u] # NoPage /\ w.pte[u] = w.pte[v] => u = v
    BY SMT, <1>2, <1>6 DEF WellFormed
  <1>8. QED
    BY SMT, <1>2, <1>3, <1>5, <1>6, <1>7 DEF WellFormed

\* sys_munmap clears the entry.
LEMMA EntryCleared ==
  ASSUME NEW s \in Space, NEW w \in Space, WellFormed(s), s.root # NoPage, NEW va \in VAs,
         w.root = s.root, w.tab = s.tab, w.pte = [s.pte EXCEPT ![va] = NoPage]
  PROVE  /\ WellFormed(w) /\ Structure(w) = Structure(s)
         /\ Frames(w) = Frames(s) \ {s.pte[va]}
  <1>1. s.pte \in [VAs -> Pages]
    BY DEF Space
  <1>2. w.pte[va] = NoPage /\ \A u \in VAs : u # va => w.pte[u] = s.pte[u]
    BY <1>1
  <1>3. Structure(w) = Structure(s)
    BY DEF Structure
  <1>4. \A u \in VAs : u # va /\ s.pte[u] # NoPage => s.pte[u] # s.pte[va]
    BY DEF WellFormed
  <1>5. Frames(w) = Frames(s) \ {s.pte[va]}
    BY SMT, <1>2, <1>4 DEF Frames
  <1>6. QED
    BY SMT, <1>2, <1>3, <1>5 DEF WellFormed

\* r differs from m at virtual page va alone, and forgets no failure.
OnlyAt(r, m, va) ==
  /\ r.space.root = m.space.root /\ (m.oom => r.oom)
  /\ \A u \in VAs : u # va => r.space.pte[u] = m.space.pte[u]

\* pmap_map of a page p just allocated: it becomes a frame of the space, or is
\* lost when its table cannot be allocated.
LEMMA MapSound ==
  ASSUME NEW m \in Memory, NEW others, NEW otherFrames, NEW va \in VAs, NEW p,
         WellFormed(m.space), m.space.root # NoPage, otherFrames \subseteq others,
         Uses(m.space) \cap others = {}, p \notin others, p \notin Uses(m.space),
         Pool(m, others \cup Uses(m.space) \cup {p}, otherFrames \cup Frames(m.space) \cup {p}),
         m.oom \/ m.space.pte[va] = NoPage
  PROVE  /\ Sound(pmap_map(m, va, p), others, otherFrames)
         /\ OnlyAt(pmap_map(m, va, p), m, va) /\ pmap_map(m, va, p).ok = m.ok
  <1> DEFINE s == m.space
             t == TableOf(va)
             q == NextPage(m)
             r == pmap_map(m, va, p)
             used == others \cup Uses(s) \cup {p}
             frames == otherFrames \cup Frames(s) \cup {p}
             old == {s.pte[va]} \ {NoPage}
  <1>1. p \in Pages /\ p # NoPage /\ q \in Pages /\ t \in Tables
    BY AddrAssumption, TablePages, NextPageFacts DEF Pool, Memory, NoPage
  <1>2. /\ r \in Memory /\ r.refs = m.refs /\ r.ok = m.ok /\ r.space.root = s.root
        /\ s.tab[t] # NoPage =>
             /\ r.bits = m.bits /\ r.oom = m.oom /\ r.space.tab = s.tab
             /\ r.space.pte = [s.pte EXCEPT ![va] = p]
        /\ s.tab[t] = NoPage /\ q # NoPage =>
             /\ r.bits = m.bits \cup {q} /\ r.oom = m.oom
             /\ r.space.tab = [s.tab EXCEPT ![t] = q]
             /\ r.space.pte = [s.pte EXCEPT ![va] = p]
        /\ s.tab[t] = NoPage /\ q = NoPage => r = Claim(m)
    BY SMT, <1>1, MapFacts
  <1>3. s \in Space /\ r.space \in Space /\ s.pte \in [VAs -> Pages]
    BY <1>2 DEF Memory, Space
  <1>4. old \subseteq Frames(s) /\ old \cap others = {} /\ p \notin old
        /\ old \cap Structure(s) = {} /\ (m.oom \/ old = {})
    BY SMT DEF Frames, Uses, WellFormed
  <1> HIDE DEF s, t, q, r, old
  <1>5. Pool(m, used \ old, frames \ old)
    <2>1. CASE old = {}
      <3>1. used \ old = used /\ frames \ old = frames
        BY <2>1
      <3>2. QED
        BY <3>1 DEF s
    <2>2. CASE m.oom
      <3>1. Pool(m, used, frames)
        BY DEF s
      <3>2. QED
        BY <2>2, <3>1, PoolLose
    <2>3. QED
      BY <1>4, <2>1, <2>2
  <1>6. ASSUME NEW st, s.root = r.space.root,
               WellFormed(r.space), Structure(r.space) = st,
               Frames(r.space) = (Frames(s) \ {s.pte[va]}) \cup {p},
               r.space.pte = [s.pte EXCEPT ![va] = p], r.oom = m.oom,
               Pool(r, others \cup (Frames(s) \ old) \cup st \cup {p}, frames \ old),
               st \cap others = {}
        PROVE  Sound(r, others, otherFrames) /\ OnlyAt(r, m, va)
    <2>1. Frames(r.space) = (Frames(s) \ old) \cup {p}
      BY <1>6 DEF old, Frames
    <2>2. Uses(r.space) = (Frames(s) \ old) \cup {p} \cup st
      BY <1>6, <2>1 DEF Uses
    <2>3. /\ others \cup Uses(r.space) = others \cup (Frames(s) \ old) \cup st \cup {p}
          /\ otherFrames \cup Frames(r.space) = frames \ old
      BY <1>4, <2>1, <2>2
    <2>4. Uses(r.space) \cap others = {}
      BY <1>6, <2>2 DEF Uses, s
    <2>5. Sound(r, others, otherFrames)
      BY <1>2, <1>6, <2>3, <2>4 DEF Sound
    <2>6. OnlyAt(r, m, va)
      BY <1>3, <1>6 DEF OnlyAt, s
    <2>7. QED
      BY <2>5, <2>6
  <1>7. CASE s.tab[t] # NoPage
    <2>1. WellFormed(r.space) /\ Structure(r.space) = Structure(s)
          /\ Frames(r.space) = (Frames(s) \ {s.pte[va]}) \cup {p}
      BY SMT, <1>1, <1>2, <1>3, <1>7, EntrySet DEF s, t
    <2>2. used \ old = others \cup (Frames(s) \ old) \cup Structure(s) \cup {p}
      BY <1>4 DEF Uses
    <2>3. Pool(r, used \ old, frames \ old)
      BY <1>2, <1>5, <1>7 DEF Pool
    <2>4. Structure(s) \cap others = {}
      BY DEF Uses, s
    <2>5. QED
      BY <1>2, <1>6, <1>7, <2>1, <2>2, <2>3, <2>4 DEF r
  <1>8. CASE s.tab[t] = NoPage /\ q # NoPage
    <2> DEFINE w == [root |-> s.root, tab |-> [s.tab EXCEPT ![t] = q], pte |-> s.pte]
    <2>1. w \in Space
      BY <1>1, <1>3 DEF Space
    <2>2. q \notin used /\ Pool(Claim(m), (used \ old) \cup {q}, frames \ old)
      BY <1>5, <1>8, PoolClaim DEF q, s
    <2>3. q \notin Uses(s) /\ q \notin others /\ q # p
      BY <2>2
    <2>4. WellFormed(w) /\ Frames(w) = Frames(s) /\ Structure(w) = Structure(s) \cup {q}
      BY SMT, <1>1, <1>3, <1>8, <2>1, <2>3, TableAdded DEF s
    <2>5. p \notin Uses(w) /\ w.tab[t] # NoPage
      BY <1>1, <1>3, <1>8, <2>3, <2>4 DEF Uses, Space, s
    <2>6. /\ WellFormed(r.space) /\ Structure(r.space) = Structure(w)
          /\ Frames(r.space) = (Frames(w) \ {w.pte[va]}) \cup {p}
      BY SMT, <1>1, <1>2, <1>3, <1>8, <2>1, <2>4, <2>5, EntrySet DEF s, t
    <2> HIDE DEF w
    <2>7. Frames(r.space) = (Frames(s) \ {s.pte[va]}) \cup {p}
      BY <2>4, <2>6 DEF w
    <2>8. (used \ old) \cup {q} = others \cup (Frames(s) \ old) \cup Structure(w) \cup {p}
      BY <1>4, <2>4 DEF Uses
    <2>9. Pool(r, (used \ old) \cup {q}, frames \ old)
      BY SMT, <1>2, <1>8, <2>2, ClaimFacts DEF Pool, q
    <2>10. Structure(w) \cap others = {}
      BY <2>3, <2>4 DEF Uses, s
    <2>11. QED
      BY <1>2, <1>6, <1>8, <2>6, <2>7, <2>8, <2>9, <2>10 DEF r
  <1>9. CASE s.tab[t] = NoPage /\ q = NoPage
    <2>1. r = Claim(m) /\ r.space = s /\ r.oom
      BY <1>2, <1>9, ClaimFacts DEF q, s
    <2>2. Pool(r, used, frames)
      BY <1>9, <2>1, PoolEmpty DEF q, s
    <2>3. Pool(r, used \ {p}, frames \ {p})
      BY <1>2, <2>1, <2>2, PoolLose
    <2>4. used \ {p} = others \cup Uses(s) /\ frames \ {p} = otherFrames \cup Frames(s)
      BY DEF s, Uses
    <2>5. QED
      BY <1>2, <2>1, <2>3, <2>4 DEF Sound, OnlyAt, s, r
  <1>10. QED
    BY <1>7, <1>8, <1>9 DEF r

-----------------------------------------------------------------------------
(* One iteration of the loops that map pages.                              *)

\* Giving up.
LEMMA GiveUp ==
  ASSUME NEW m \in Memory, NEW r, r = [Claim(m) EXCEPT !.ok = FALSE]
  PROVE  /\ r \in Memory /\ r.bits = Claim(m).bits /\ r.refs = m.refs /\ r.space = m.space
         /\ r.ok = FALSE /\ r.oom = Claim(m).oom
  <1>1. Claim(m) \in Memory /\ Claim(m).refs = m.refs /\ Claim(m).space = m.space
    BY ClaimFacts
  <1>2. QED
    BY <1>1 DEF Memory

\* MapNew keeps the types, even where a lowered break has left stale entries.
LEMMA NewTyped ==
  ASSUME NEW m \in Memory, NEW va \in VAs
  PROVE  MapNew(m, va) \in Memory
  <1>1. Claim(m) \in Memory /\ NextPage(m) \in Pages
    BY ClaimFacts, NextPageFacts
  <1>2. pmap_map(Claim(m), va, NextPage(m)) \in Memory
    BY <1>1, MapFacts
  <1>3. [Claim(m) EXCEPT !.ok = FALSE] \in Memory
    BY GiveUp
  <1>4. QED
    BY <1>2, <1>3 DEF MapNew

\* What an iteration leaves: a sound memory that differs at va alone, and a
\* failure that is remembered.
Iterates(r, m, va, others, otherFrames) ==
  /\ Sound(r, others, otherFrames) /\ OnlyAt(r, m, va)
  /\ m.ok /\ ~r.ok => r.oom

\* A failed allocation in a loop.
LEMMA GiveUpSound ==
  ASSUME NEW m, NEW others, NEW otherFrames, Sound(m, others, otherFrames), NEW va \in VAs,
         NextPage(m) = NoPage, NEW r, r = [Claim(m) EXCEPT !.ok = FALSE]
  PROVE  Iterates(r, m, va, others, otherFrames)
  <1> DEFINE used == others \cup Uses(m.space)
             frames == otherFrames \cup Frames(m.space)
  <1>1. m \in Memory /\ Pool(m, used, frames)
    BY DEF Sound
  <1>2. /\ r \in Memory /\ r.bits = Claim(m).bits /\ r.refs = m.refs /\ r.space = m.space
        /\ r.ok = FALSE /\ r.oom = Claim(m).oom
    BY <1>1, GiveUp
  <1>3. Claim(m).oom /\ Pool(Claim(m), used, frames) /\ Claim(m).refs = m.refs
    BY <1>1, PoolEmpty, ClaimFacts
  <1>4. Pool(r, used, frames)
    BY <1>2, <1>3 DEF Pool
  <1>5. QED
    BY <1>2, <1>3, <1>4 DEF Iterates, Sound, OnlyAt

\* c is m with a page allocated, counted or not.
Allocated(c, m) ==
  /\ c \in Memory /\ c.bits = Claim(m).bits /\ c.space = m.space
  /\ c.ok = m.ok /\ c.oom = Claim(m).oom
  /\ \E n \in {0, 1} : c.refs = [m.refs EXCEPT ![NextPage(m)] = n]

\* The page an iteration has allocated is mapped.
LEMMA NewFrameSound ==
  ASSUME NEW m, NEW others, NEW otherFrames, Sound(m, others, otherFrames),
         m.space.root # NoPage, NEW va \in VAs, m.oom \/ m.space.pte[va] = NoPage,
         NextPage(m) # NoPage, NEW c, Allocated(c, m)
  PROVE  Iterates(pmap_map(c, va, NextPage(m)), m, va, others, otherFrames)
  <1> DEFINE p == NextPage(m)
             used == others \cup Uses(m.space)
             frames == otherFrames \cup Frames(m.space)
             r == pmap_map(c, va, p)
  <1>a. /\ c \in Memory /\ c.bits = Claim(m).bits /\ c.space = m.space
        /\ c.ok = m.ok /\ c.oom = Claim(m).oom
    BY DEF Allocated
  <1>b. PICK n \in {0, 1} : c.refs = [m.refs EXCEPT ![p] = n]
    BY DEF Allocated
  <1>1. m \in Memory /\ Pool(m, used, frames) /\ p \in Pages /\ m.refs \in [Pages -> Nat]
    BY NextPageFacts DEF Sound, Memory
  <1>2. p \notin used /\ Pool(Claim(m), used \cup {p}, frames \cup {p})
    BY <1>1, PoolClaim
  <1>3. c.oom = m.oom /\ Claim(m).refs = m.refs /\ Claim(m).bits = m.bits \cup {p}
    BY <1>a, <1>1, ClaimFacts DEF Memory
  <1>4. Pool(c, used \cup {p}, frames \cup {p})
    <2> HIDE DEF p, used, frames
    <2>1. /\ c.refs[p] <= 1 /\ c.refs[p] \in Nat
          /\ \A x \in Pages \ {p} : c.refs[x] = Claim(m).refs[x]
      BY SMT, <1>b, <1>1, <1>3 DEF p
    <2>2. p \in c.bits /\ used \subseteq Pages
      BY <1>a, <1>1, <1>3 DEF Pool, Memory
    <2>3. QED
      BY <1>a, <1>2, <2>1, <2>2 DEF Pool
  <1>5. /\ Sound(r, others, otherFrames) /\ OnlyAt(r, c, va) /\ r.ok = c.ok
    <2> HIDE DEF p
    <2>1. p \notin others /\ p \notin Uses(c.space)
      BY <1>a, <1>2
    <2>2. WellFormed(c.space) /\ otherFrames \subseteq others /\ Uses(c.space) \cap others = {}
      BY <1>a DEF Sound
    <2>3. Pool(c, others \cup Uses(c.space) \cup {p}, otherFrames \cup Frames(c.space) \cup {p})
      BY <1>a, <1>4
    <2>4. c.oom \/ c.space.pte[va] = NoPage
      BY <1>a, <1>3
    <2>5. QED
      BY SMT, <1>a, <2>1, <2>2, <2>3, <2>4, MapSound
  <1>6. QED
    BY <1>a, <1>3, <1>5 DEF Iterates, OnlyAt

\* A zeroed page at va, for mmap, brk, the image and the stack.
LEMMA NewSound ==
  ASSUME NEW m, NEW others, NEW otherFrames, Sound(m, others, otherFrames),
         m.space.root # NoPage, NEW va \in VAs, m.oom \/ m.space.pte[va] = NoPage
  PROVE  Iterates(MapNew(m, va), m, va, others, otherFrames)
  <1>1. m \in Memory /\ m.refs \in [Pages -> Nat]
    BY DEF Sound, Memory
  <1>2. CASE ~m.ok
    <2>1. MapNew(m, va) = m
      BY <1>2 DEF MapNew
    <2>2. QED
      BY <1>2, <2>1 DEF Iterates, OnlyAt
  <1>3. CASE m.ok /\ NextPage(m) = NoPage
    BY <1>3, GiveUpSound DEF MapNew
  <1>4. CASE m.ok /\ NextPage(m) # NoPage
    <2>1. /\ Claim(m) \in Memory /\ Claim(m).space = m.space /\ Claim(m).ok = m.ok
          /\ Claim(m).refs = m.refs
      BY <1>1, ClaimFacts
    <2>2. NextPage(m) \in Pages /\ m.refs[NextPage(m)] = 0
      BY <1>1, <1>4, NextPageFacts, PoolClaim DEF Sound
    <2>3. Claim(m).refs = [m.refs EXCEPT ![NextPage(m)] = 0]
      BY <1>1, <2>1, <2>2
    <2>4. MapNew(m, va) = pmap_map(Claim(m), va, NextPage(m))
      BY <1>4 DEF MapNew
    <2>5. Allocated(Claim(m), m)
      BY <2>1, <2>3 DEF Allocated
    <2>6. QED
      BY <1>4, <2>4, <2>5, NewFrameSound
  <1>5. QED
    BY <1>2, <1>3, <1>4

\* pmap_fork's copy of one page, whose frame is counted.
LEMMA CopyTyped ==
  ASSUME NEW m \in Memory, NEW va \in VAs, NEW parent
  PROVE  CopyPage(parent, m, va) \in Memory
  <1> DEFINE p == NextPage(m)
             c == [Claim(m) EXCEPT !.refs[p] = @ + 1]
  <1>1. Claim(m) \in Memory /\ p \in Pages
    BY ClaimFacts, NextPageFacts
  <1>2. c \in Memory
    <2> HIDE DEF p
    <2>1. QED
      BY SMT, <1>1 DEF Memory
  <1>3. [Claim(m) EXCEPT !.ok = FALSE] \in Memory
    BY GiveUp
  <1> HIDE DEF c
  <1>4. pmap_map(c, va, p) \in Memory
    BY <1>1, <1>2, MapFacts
  <1>5. QED
    BY <1>3, <1>4 DEF CopyPage, c

\* One page of pmap_fork's copy: copied, skipped, or the pool is exhausted.
LEMMA CopySound ==
  ASSUME NEW m, NEW others, NEW otherFrames, Sound(m, others, otherFrames), NEW parent,
         m.space.root # NoPage, NEW va \in VAs, m.oom \/ m.space.pte[va] = NoPage
  PROVE  Iterates(CopyPage(parent, m, va), m, va, others, otherFrames)
  <1> DEFINE p == NextPage(m)
             c == [Claim(m) EXCEPT !.refs[p] = @ + 1]
  <1>1. m \in Memory /\ m.refs \in [Pages -> Nat]
    BY DEF Sound, Memory
  <1>2. CASE ~m.ok \/ parent.pte[va] = NoPage
    <2>1. CopyPage(parent, m, va) = m
      BY <1>2 DEF CopyPage
    <2>2. QED
      BY <1>2, <2>1 DEF Iterates, OnlyAt
  <1>3. CASE ~(~m.ok \/ parent.pte[va] = NoPage) /\ p = NoPage
    BY <1>3, GiveUpSound DEF CopyPage
  <1>4. CASE ~(~m.ok \/ parent.pte[va] = NoPage) /\ p # NoPage
    <2>1. /\ Claim(m) \in Memory /\ Claim(m).space = m.space /\ Claim(m).ok = m.ok
          /\ Claim(m).refs = m.refs
      BY <1>1, ClaimFacts
    <2>2. p \in Pages /\ m.refs[p] = 0
      BY <1>1, <1>4, NextPageFacts, PoolClaim DEF Sound
    <2>3. /\ c \in Memory /\ c.bits = Claim(m).bits /\ c.space = m.space /\ c.ok = m.ok
          /\ c.oom = Claim(m).oom /\ c.refs = [m.refs EXCEPT ![p] = 1]
      <3> HIDE DEF p
      <3>1. QED
        BY SMT, <1>1, <2>1, <2>2 DEF Memory
    <2>4. CopyPage(parent, m, va) = pmap_map(c, va, p)
      BY <1>4 DEF CopyPage
    <2>5. Allocated(c, m)
      BY <2>3 DEF Allocated
    <2> HIDE DEF c
    <2>6. QED
      BY <1>4, <2>4, <2>5, NewFrameSound
  <1>5. QED
    BY <1>2, <1>3, <1>4

-----------------------------------------------------------------------------
(* Loops.                                                                  *)

\* The states of map_zeroed_range(m, a, b).
Zeroes(f, m, a, b) ==
  /\ f \in [a .. b -> Memory] /\ f[a] = m
  /\ f[b] = map_zeroed_range(m, a, b)
  /\ \A k \in a .. b - 1 : f[k + 1] = MapNew(f[k], k)

\* map_zeroed_range's loop has the states Zeroes describes.
LEMMA ZeroedLoop ==
  ASSUME NEW m \in Memory, NEW a \in Nat, NEW b \in Nat, a <= b, b <= USER_STACK_TOP
  PROVE  \E f : Zeroes(f, m, a, b)
  <1> DEFINE g == [k \in a .. b - 1 |-> [x \in Memory |-> MapNew(x, k)]]
             P(f) == f = [va \in a .. b |-> IF va = a THEN m ELSE MapNew(f[va - 1], va - 1)]
             f == CHOOSE f : P(f)
  <1>1. \A x \in Memory, k \in a .. b - 1 : MapNew(x, k) \in Memory
    BY SMT, Layout, NewTyped DEF VAs
  <1>2. PICK h \in [a .. b -> Memory] : Unrolls(h, g, m, a, b)
    <2>1. g \in [a .. b - 1 -> [Memory -> Memory]]
      BY <1>1
    <2> HIDE DEF g
    <2>2. QED
      BY <2>1, Unrolled
  <1>3. \A va \in a .. b : va # a => g[va - 1][h[va - 1]] = MapNew(h[va - 1], va - 1)
    BY SMT
  <1>4. P(h)
    <2> HIDE DEF g
    <2>1. QED
      BY <1>2, <1>3 DEF Unrolls
  <1>5. P(f)
    BY <1>4
  <1>6. map_zeroed_range(m, a, b) = IF a < b THEN f[b] ELSE m
    BY DEF map_zeroed_range, For
  <1> HIDE DEF f
  <1>7. f[a] = m /\ \A k \in a .. b - 1 : f[k + 1] = MapNew(f[k], k)
    BY SMT, <1>5
  <1>8. \A k \in a .. b : f[k] \in Memory
    BY <1>1, <1>7, StaysIn
  <1>9. f \in [a .. b -> Memory]
    BY <1>5, <1>8
  <1>10. QED
    BY SMT, <1>6, <1>7, <1>9 DEF Zeroes

\* pmap_create: a root, or none.
LEMMA CreateFacts ==
  ASSUME NEW m \in Memory, NEW r, r = pmap_create(m)
  PROVE  /\ r \in Memory /\ r.bits = Claim(m).bits /\ r.refs = m.refs /\ r.oom = Claim(m).oom
         /\ r.ok <=> NextPage(m) # NoPage
         /\ r.space.root = NextPage(m) /\ r.space.tab = NoSpace.tab /\ r.space.pte = NoSpace.pte
         /\ NoSpace \in Space
  <1> DEFINE s == [NoSpace EXCEPT !.root = NextPage(m)]
  <1>1. NextPage(m) \in Pages /\ Claim(m) \in Memory /\ Claim(m).refs = m.refs
    BY NextPageFacts, ClaimFacts
  <1>2. NoSpace \in Space
    BY Layout DEF NoSpace, Space
  <1>3. s \in Space /\ s.root = NextPage(m) /\ s.tab = NoSpace.tab /\ s.pte = NoSpace.pte
    BY <1>1, <1>2 DEF Space
  <1>4. r = [Claim(m) EXCEPT !.space = s, !.ok = NextPage(m) # NoPage]
    BY DEF pmap_create
  <1> HIDE DEF s
  <1>5. /\ r \in Memory /\ r.bits = Claim(m).bits /\ r.refs = m.refs /\ r.oom = Claim(m).oom
        /\ r.ok = (NextPage(m) # NoPage) /\ r.space = s
    BY <1>1, <1>3, <1>4 DEF Memory
  <1>6. QED
    BY <1>2, <1>3, <1>5

\* The states of pmap_fork's loop over the pages of parent.
Copies(f, m, parent) ==
  /\ f \in [0 .. USER_STACK_TOP -> Memory] /\ f[0] = pmap_create(m)
  /\ f[USER_STACK_TOP] = pmap_fork(m, parent)
  /\ \A k \in 0 .. USER_STACK_TOP - 1 : f[k + 1] = CopyPage(parent, f[k], k)

\* pmap_fork's loop has the states Copies describes.
LEMMA CopyLoop ==
  ASSUME NEW m \in Memory, NEW parent
  PROVE  \E f : Copies(f, m, parent)
  <1> DEFINE g == [k \in 0 .. USER_STACK_TOP - 1 |-> [x \in Memory |-> CopyPage(parent, x, k)]]
             P(f) == f = [va \in 0 .. USER_STACK_TOP |-> IF va = 0 THEN pmap_create(m) ELSE CopyPage(parent, f[va - 1], va - 1)]
             f == CHOOSE f : P(f)
  <1>0. pmap_create(m) \in Memory /\ USER_STACK_TOP \in Nat /\ 0 <= USER_STACK_TOP
    BY SMT, CreateFacts, Layout
  <1>1. \A x \in Memory, k \in 0 .. USER_STACK_TOP - 1 : CopyPage(parent, x, k) \in Memory
    BY Layout, CopyTyped DEF VAs
  <1>2. PICK h \in [0 .. USER_STACK_TOP -> Memory] : Unrolls(h, g, pmap_create(m), 0, USER_STACK_TOP)
    <2>1. g \in [0 .. USER_STACK_TOP - 1 -> [Memory -> Memory]]
      BY <1>1
    <2> HIDE DEF g
    <2>2. QED
      BY <1>0, <2>1, Unrolled
  <1>3. \A va \in 0 .. USER_STACK_TOP : va # 0 => g[va - 1][h[va - 1]] = CopyPage(parent, h[va - 1], va - 1)
    BY SMT, <1>0
  <1>4. P(h)
    <2> HIDE DEF g
    <2>1. QED
      BY <1>2, <1>3 DEF Unrolls
  <1>5. P(f)
    BY <1>4
  <1>6. pmap_fork(m, parent) = IF 0 < USER_STACK_TOP THEN f[USER_STACK_TOP] ELSE pmap_create(m)
    BY DEF pmap_fork, For
  <1> HIDE DEF f
  <1>7. f[0] = pmap_create(m) /\ \A k \in 0 .. USER_STACK_TOP - 1 : f[k + 1] = CopyPage(parent, f[k], k)
    BY SMT, <1>0, <1>5
  <1>8. \A k \in 0 .. USER_STACK_TOP : f[k] \in Memory
    BY <1>0, <1>1, <1>7, StaysIn
  <1>9. f \in [0 .. USER_STACK_TOP -> Memory]
    BY <1>5, <1>8
  <1>10. QED
    BY SMT, <1>0, <1>6, <1>7, <1>9 DEF Copies

\* Releasing what an entry names keeps the types.
LEMMA ReleaseTyped ==
  ASSUME NEW m \in Memory, NEW va \in VAs
  PROVE  ReleaseVa(m, va) \in Memory /\ ReleaseVa(m, va).space = m.space
  <1>1. m.space.pte[va] \in Pages
    BY DEF Memory, Space
  <1>2. QED
    BY <1>1, ReleaseFacts DEF ReleaseVa

\* The states of the loop over the pages of one table, and of a lowered break.
Releases(f, m, a, b) ==
  /\ f \in [a .. b -> Memory] /\ f[a] = m
  /\ f[b] = For(ReleaseVa, m, a, b)
  /\ \A k \in a .. b - 1 : f[k + 1] = ReleaseVa(f[k], k)

\* The loops of pmap_destroy and sys_brk over frames have the states Releases describes.
LEMMA ReleaseLoop ==
  ASSUME NEW m \in Memory, NEW a \in Nat, NEW b \in Nat, a <= b, b <= USER_STACK_TOP
  PROVE  \E f : Releases(f, m, a, b)
  <1> DEFINE g == [k \in a .. b - 1 |-> [x \in Memory |-> ReleaseVa(x, k)]]
             P(f) == f = [va \in a .. b |-> IF va = a THEN m ELSE ReleaseVa(f[va - 1], va - 1)]
             f == CHOOSE f : P(f)
  <1>1. \A x \in Memory, k \in a .. b - 1 : ReleaseVa(x, k) \in Memory
    BY SMT, Layout, ReleaseTyped DEF VAs
  <1>2. PICK h \in [a .. b -> Memory] : Unrolls(h, g, m, a, b)
    <2>1. g \in [a .. b - 1 -> [Memory -> Memory]]
      BY <1>1
    <2> HIDE DEF g
    <2>2. QED
      BY <2>1, Unrolled
  <1>3. \A va \in a .. b : va # a => g[va - 1][h[va - 1]] = ReleaseVa(h[va - 1], va - 1)
    BY SMT
  <1>4. P(h)
    <2> HIDE DEF g
    <2>1. QED
      BY <1>2, <1>3 DEF Unrolls
  <1>5. P(f)
    BY <1>4
  <1>6. For(ReleaseVa, m, a, b) = IF a < b THEN f[b] ELSE m
    BY DEF For
  <1> HIDE DEF f
  <1>7. f[a] = m /\ \A k \in a .. b - 1 : f[k + 1] = ReleaseVa(f[k], k)
    BY SMT, <1>5
  <1>8. \A k \in a .. b : f[k] \in Memory
    BY <1>1, <1>7, StaysIn
  <1>9. f \in [a .. b -> Memory]
    BY <1>5, <1>8
  <1>10. QED
    BY SMT, <1>6, <1>7, <1>9 DEF Releases

\* One iteration of sys_munmap.
LEMMA UnmapFacts ==
  ASSUME NEW m \in Memory, NEW va \in VAs, m.space.pte[va] # NoPage,
         NEW x, x = ReleaseFrame(m, m.space.pte[va])
  PROVE  /\ UnmapVa(m, va) \in Memory /\ UnmapVa(m, va).bits = x.bits
         /\ UnmapVa(m, va).refs = x.refs /\ UnmapVa(m, va).ok = x.ok /\ UnmapVa(m, va).oom = x.oom
         /\ UnmapVa(m, va).space.root = m.space.root /\ UnmapVa(m, va).space.tab = m.space.tab
         /\ UnmapVa(m, va).space.pte = [m.space.pte EXCEPT ![va] = NoPage]
  <1>1. m.space.pte[va] \in Pages /\ NoPage \in Pages
    BY Layout DEF Memory, Space
  <1>2. x \in Memory /\ x.space = m.space
    BY <1>1, ReleaseFacts
  <1>3. UnmapVa(m, va) = [x EXCEPT !.space.pte[va] = NoPage]
    BY DEF UnmapVa
  <1> DEFINE r == [x EXCEPT !.space.pte[va] = NoPage]
  <1>4. /\ r \in Memory /\ r.bits = x.bits /\ r.refs = x.refs /\ r.ok = x.ok /\ r.oom = x.oom
        /\ r.space.root = x.space.root /\ r.space.tab = x.space.tab
        /\ r.space.pte = [x.space.pte EXCEPT ![va] = NoPage]
    BY <1>1, <1>2 DEF Memory, Space
  <1> HIDE DEF r
  <1>5. UnmapVa(m, va) = r
    BY <1>3 DEF r
  <1>6. QED
    BY <1>2, <1>4, <1>5

\* sys_munmap's iteration keeps the types.
LEMMA UnmapTyped ==
  ASSUME NEW m \in Memory, NEW va \in VAs
  PROVE  UnmapVa(m, va) \in Memory
  <1>1. CASE m.space.pte[va] = NoPage
    BY <1>1 DEF UnmapVa
  <1>2. CASE m.space.pte[va] # NoPage
    BY <1>2, UnmapFacts
  <1>3. QED
    BY <1>1, <1>2

\* The states of sys_munmap's loop.
Unmaps(f, m, a, b) ==
  /\ f \in [a .. b -> Memory] /\ f[a] = m
  /\ f[b] = For(UnmapVa, m, a, b)
  /\ \A k \in a .. b - 1 : f[k + 1] = UnmapVa(f[k], k)

\* sys_munmap's loop has the states Unmaps describes.
LEMMA UnmapLoop ==
  ASSUME NEW m \in Memory, NEW a \in Nat, NEW b \in Nat, a <= b, b <= USER_STACK_TOP
  PROVE  \E f : Unmaps(f, m, a, b)
  <1> DEFINE g == [k \in a .. b - 1 |-> [x \in Memory |-> UnmapVa(x, k)]]
             P(f) == f = [va \in a .. b |-> IF va = a THEN m ELSE UnmapVa(f[va - 1], va - 1)]
             f == CHOOSE f : P(f)
  <1>1. \A x \in Memory, k \in a .. b - 1 : UnmapVa(x, k) \in Memory
    BY SMT, Layout, UnmapTyped DEF VAs
  <1>2. PICK h \in [a .. b -> Memory] : Unrolls(h, g, m, a, b)
    <2>1. g \in [a .. b - 1 -> [Memory -> Memory]]
      BY <1>1
    <2> HIDE DEF g
    <2>2. QED
      BY <2>1, Unrolled
  <1>3. \A va \in a .. b : va # a => g[va - 1][h[va - 1]] = UnmapVa(h[va - 1], va - 1)
    BY SMT
  <1>4. P(h)
    <2> HIDE DEF g
    <2>1. QED
      BY <1>2, <1>3 DEF Unrolls
  <1>5. P(f)
    BY <1>4
  <1>6. For(UnmapVa, m, a, b) = IF a < b THEN f[b] ELSE m
    BY DEF For
  <1> HIDE DEF f
  <1>7. f[a] = m /\ \A k \in a .. b - 1 : f[k + 1] = UnmapVa(f[k], k)
    BY SMT, <1>5
  <1>8. \A k \in a .. b : f[k] \in Memory
    BY <1>1, <1>7, StaysIn
  <1>9. f \in [a .. b -> Memory]
    BY <1>5, <1>8
  <1>10. QED
    BY SMT, <1>6, <1>7, <1>9 DEF Unmaps

-----------------------------------------------------------------------------
(* Mapping a range.                                                        *)

\* r is m with pages of a .. b - 1 mapped.
Extends(r, m, a, b, others, otherFrames) ==
  /\ Sound(r, others, otherFrames) /\ r.space.root = m.space.root
  /\ m.oom => r.oom
  /\ m.ok /\ ~r.ok => r.oom
  /\ \A u \in VAs : u \notin a .. b - 1 => r.space.pte[u] = m.space.pte[u]

\* One more iteration extends what a mapping loop has done.
LEMMA ExtendsOne ==
  ASSUME NEW m, NEW a \in Nat, NEW k \in Nat, a <= k, NEW others, NEW otherFrames, NEW x, NEW y,
         Extends(x, m, a, k, others, otherFrames), x.ok \in BOOLEAN,
         Iterates(y, x, k, others, otherFrames)
  PROVE  Extends(y, m, a, k + 1, others, otherFrames)
  <1>1. ASSUME NEW u \in VAs, u \notin a .. (k + 1) - 1 PROVE u \notin a .. k - 1 /\ u # k
    BY SMT, <1>1 DEF VAs
  <1>2. \A u \in VAs : u \notin a .. (k + 1) - 1 => y.space.pte[u] = m.space.pte[u]
    BY <1>1 DEF Extends, Iterates, OnlyAt
  <1>3. QED
    BY <1>2 DEF Extends, Iterates, OnlyAt

\* map_zeroed_range over pages that were not mapped, or after a failure.
LEMMA ZeroedSound ==
  ASSUME NEW m, NEW others, NEW otherFrames, Sound(m, others, otherFrames),
         m.space.root # NoPage, NEW a \in Nat, NEW b \in Nat, a <= b, b <= USER_STACK_TOP,
         m.oom \/ \A va \in a .. b - 1 : m.space.pte[va] = NoPage
  PROVE  Extends(map_zeroed_range(m, a, b), m, a, b, others, otherFrames)
  <1>1. m \in Memory
    BY DEF Sound
  <1>2. PICK f : Zeroes(f, m, a, b)
    BY <1>1, ZeroedLoop
  <1> DEFINE G == {k \in a .. b : Extends(f[k], m, a, k, others, otherFrames)}
  <1>3. a \in G
    BY SMT, <1>2 DEF Extends, Zeroes
  <1>4. ASSUME NEW k \in a .. b - 1, k \in G PROVE k + 1 \in G
    <2>1. k \in VAs /\ f[k] \in Memory /\ f[k].ok \in BOOLEAN
      BY SMT, <1>2, Layout DEF VAs, Memory, Zeroes
    <2>2. Sound(f[k], others, otherFrames) /\ f[k].space.root # NoPage
          /\ (f[k].oom \/ f[k].space.pte[k] = NoPage)
      BY SMT, <1>4, <2>1 DEF Extends
    <2>3. Iterates(MapNew(f[k], k), f[k], k, others, otherFrames)
      BY <2>1, <2>2, NewSound
    <2>4. Extends(f[k + 1], m, a, k + 1, others, otherFrames)
      BY SMT, <1>2, <1>4, <2>1, <2>3, ExtendsOne DEF Zeroes
    <2>5. QED
      BY SMT, <2>4
  <1>5. b \in G
    <2> HIDE DEF G
    <2>1. \A k \in a .. b : k \in G
      BY <1>3, <1>4, LoopInduction
    <2>2. QED
      BY SMT, <2>1
  <1>6. QED
    BY <1>2, <1>5 DEF Zeroes

\* A space that was only created, with nothing in it.
LEMMA EmptySpace ==
  ASSUME NEW s \in Space, s.tab = NoSpace.tab, s.pte = NoSpace.pte
  PROVE  /\ \A va \in VAs : s.pte[va] = NoPage
         /\ \A t \in Tables : s.tab[t] = NoPage
         /\ Frames(s) = {} /\ Structure(s) = {s.root} \ {NoPage} /\ WellFormed(s)
         /\ s.root = NoPage => s = NoSpace
  <1>1. /\ \A va \in VAs : s.pte[va] = NoPage
        /\ \A t \in Tables : s.tab[t] = NoPage
    BY DEF NoSpace
  <1>2. Frames(s) = {} /\ Structure(s) = {s.root} \ {NoPage}
    BY <1>1 DEF Frames, Structure
  <1>3. s.root = NoPage => s = NoSpace
    BY DEF NoSpace, Space
  <1>4. QED
    BY <1>1, <1>2, <1>3 DEF WellFormed

\* pmap_create beside the pages in use.
LEMMA CreateSound ==
  ASSUME NEW m, NEW others, NEW otherFrames, Sound(m, others, otherFrames), m.space = NoSpace,
         NEW r, r = pmap_create(m)
  PROVE  /\ Sound(r, others, otherFrames) /\ (m.oom => r.oom) /\ (~r.ok => r.oom)
         /\ r.ok <=> r.space.root # NoPage
         /\ \A va \in VAs : r.space.pte[va] = NoPage
  <1> DEFINE q == NextPage(m)
  <1>1. m \in Memory
    BY DEF Sound
  <1>2. /\ r \in Memory /\ r.bits = Claim(m).bits /\ r.refs = m.refs /\ r.oom = Claim(m).oom
        /\ r.ok <=> q # NoPage
        /\ r.space.root = q /\ r.space.tab = NoSpace.tab /\ r.space.pte = NoSpace.pte
        /\ NoSpace \in Space
    BY <1>1, CreateFacts
  <1>3. r.space \in Space /\ Claim(m).refs = m.refs /\ (m.oom => r.oom) /\ (q = NoPage => r.oom)
    BY <1>1, <1>2, ClaimFacts DEF Memory
  <1>4. /\ Frames(r.space) = {} /\ Structure(r.space) = {q} \ {NoPage} /\ WellFormed(r.space)
        /\ \A va \in VAs : r.space.pte[va] = NoPage
    BY <1>2, <1>3, EmptySpace
  <1>5. Uses(m.space) = {} /\ Frames(m.space) = {}
    <2>1. NoSpace.root = NoPage
      BY DEF NoSpace
    <2>2. QED
      BY <1>2, <2>1, EmptySpace DEF Uses
  <1>6. Pool(m, others, otherFrames) /\ otherFrames \subseteq others
    <2>1. others \cup Uses(m.space) = others /\ otherFrames \cup Frames(m.space) = otherFrames
      BY <1>5
    <2>2. QED
      BY <2>1 DEF Sound
  <1> HIDE DEF q
  <1>7. CASE q = NoPage
    <2>1. Pool(Claim(m), others, otherFrames)
      BY <1>1, <1>6, <1>7, PoolEmpty DEF q
    <2>2. Pool(r, others, otherFrames) /\ Uses(r.space) = {}
      BY <1>2, <1>3, <1>4, <1>7, <2>1 DEF Pool, Uses
    <2>3. others \cup Uses(r.space) = others /\ otherFrames \cup Frames(r.space) = otherFrames
      BY <1>4, <2>2
    <2>4. QED
      BY <1>2, <1>3, <1>4, <1>6, <1>7, <2>2, <2>3 DEF Sound
  <1>8. CASE q # NoPage
    <2>1. q \notin others /\ Pool(Claim(m), others \cup {q}, otherFrames)
      BY <1>1, <1>6, <1>8, PoolClaim DEF q
    <2>2. Pool(r, others \cup {q}, otherFrames) /\ Uses(r.space) = {q}
      BY SMT, <1>2, <1>3, <1>4, <1>8, <2>1 DEF Pool, Uses
    <2>3. otherFrames \cup Frames(r.space) = otherFrames
      BY <1>4
    <2>4. QED
      BY <1>2, <1>3, <1>4, <1>6, <1>8, <2>1, <2>2, <2>3 DEF Sound
  <1>9. QED
    BY <1>7, <1>8

\* pmap_fork: a copy, or what was built before the memory ran out.
LEMMA ForkSound ==
  ASSUME NEW m, NEW others, NEW otherFrames, Sound(m, others, otherFrames), m.space = NoSpace,
         m.ok, NEW parent, NEW r, r = pmap_fork(m, parent)
  PROVE  /\ Sound(r, others, otherFrames) /\ (m.oom => r.oom) /\ (~r.ok => r.oom)
         /\ r.ok => r.space.root # NoPage
         /\ \A va \in VAs : parent.pte[va] = NoPage => r.space.pte[va] = NoPage
  <1> DEFINE c == pmap_create(m)
             Copied(x) == \A va \in VAs : parent.pte[va] = NoPage => x.space.pte[va] = NoPage
             top == USER_STACK_TOP
  <1>1. m \in Memory /\ top \in Nat /\ 0 <= top
    BY SMT, Layout DEF Sound
  <1>2. /\ Sound(c, others, otherFrames) /\ (m.oom => c.oom) /\ (~c.ok => c.oom)
        /\ c.ok <=> c.space.root # NoPage
        /\ \A va \in VAs : c.space.pte[va] = NoPage
    BY CreateSound
  <1>3. PICK f : Copies(f, m, parent)
    BY <1>1, CopyLoop
  <1>4. /\ f[0] = c /\ f[top] = r /\ f \in [0 .. top -> Memory]
        /\ \A k \in 0 .. top - 1 : k \in VAs /\ f[k + 1] = CopyPage(parent, f[k], k)
    BY <1>1, <1>3 DEF Copies, VAs
  <1> HIDE DEF c, top
  <1>5. CASE ~c.ok
    <2> DEFINE G == {k \in 0 .. top : f[k] = c}
    <2>1. 0 \in G
      BY SMT, <1>1, <1>4
    <2>2. ASSUME NEW k \in 0 .. top - 1, k \in G PROVE k + 1 \in G
      <3>1. CopyPage(parent, c, k) = c
        BY <1>5 DEF CopyPage
      <3>2. QED
        BY SMT, <1>1, <1>4, <2>2, <3>1
    <2>3. top \in G
      <3> HIDE DEF G
      <3>1. \A k \in 0 .. top : k \in G
        BY <1>1, <2>1, <2>2, LoopInduction
      <3>2. QED
        BY SMT, <1>1, <3>1
    <2>4. r = c
      BY <1>4, <2>3
    <2>5. QED
      BY <1>2, <1>5, <2>4
  <1>6. CASE c.ok
    <2> DEFINE Inv(k) == Extends(f[k], c, 0, k, others, otherFrames) /\ Copied(f[k])
               G == {k \in 0 .. top : Inv(k)}
    <2>1. 0 \in G
      BY SMT, <1>1, <1>2, <1>4 DEF Extends
    <2>2. ASSUME NEW k \in 0 .. top - 1, k \in G PROVE k + 1 \in G
      <3>1. k \in VAs /\ k \in Nat /\ f[k] \in Memory /\ f[k].ok \in BOOLEAN /\ k + 1 \in 0 .. top
        BY SMT, <1>1, <1>4 DEF Memory
      <3>2. Sound(f[k], others, otherFrames) /\ f[k].space.root # NoPage
            /\ f[k].space.pte[k] = NoPage
        BY SMT, <1>2, <1>6, <2>2, <3>1 DEF Extends
      <3>3. Iterates(f[k + 1], f[k], k, others, otherFrames)
        BY <1>4, <3>1, <3>2, CopySound
      <3>4. Extends(f[k + 1], c, 0, k + 1, others, otherFrames)
        BY SMT, <2>2, <3>1, <3>3, ExtendsOne
      <3>5. Copied(f[k + 1])
        <4>1. CASE parent.pte[k] = NoPage
          <5>1. f[k + 1] = f[k]
            BY <1>4, <4>1 DEF CopyPage
          <5>2. QED
            BY <2>2, <5>1
        <4>2. CASE parent.pte[k] # NoPage
          BY <2>2, <3>3, <4>2 DEF Iterates, OnlyAt
        <4>3. QED
          BY <4>1, <4>2
      <3>6. QED
        BY <3>1, <3>4, <3>5
    <2>3. top \in G
      <3> HIDE DEF G
      <3>1. \A k \in 0 .. top : k \in G
        BY <1>1, <2>1, <2>2, LoopInduction
      <3>2. QED
        BY SMT, <1>1, <3>1
    <2>4. Extends(r, c, 0, top, others, otherFrames) /\ Copied(r)
      BY <1>4, <2>3
    <2>5. QED
      BY <1>2, <1>6, <2>4 DEF Extends
  <1>7. QED
    BY <1>5, <1>6

-----------------------------------------------------------------------------
(* Unmapping.                                                              *)

\* r is m with some pages no longer mapped.
Shrinks(r, m, others, otherFrames) ==
  /\ Sound(r, others, otherFrames) /\ r.space.root = m.space.root
  /\ r.oom = m.oom /\ r.ok = m.ok
  /\ \A u \in VAs : r.space.pte[u] \in {m.space.pte[u], NoPage}

\* One page of sys_munmap.
LEMMA UnmapOne ==
  ASSUME NEW m, NEW others, NEW otherFrames, Sound(m, others, otherFrames),
         m.space.root # NoPage, NEW va \in VAs
  PROVE  Shrinks(UnmapVa(m, va), m, others, otherFrames)
  <1> DEFINE p == m.space.pte[va]
             r == UnmapVa(m, va)
             x == ReleaseFrame(m, p)
             used == others \cup Uses(m.space)
             frames == otherFrames \cup Frames(m.space)
  <1>1. m \in Memory /\ m.space \in Space /\ WellFormed(m.space) /\ m.space.pte \in [VAs -> Pages]
    BY DEF Sound, Memory, Space
  <1>2. CASE p = NoPage
    <2>1. r = m
      BY <1>2 DEF UnmapVa
    <2>2. QED
      BY <2>1 DEF Shrinks
  <1>3. CASE p # NoPage
    <2>1. p \in Frames(m.space) /\ p \in Pages
      BY <1>1, <1>3 DEF Frames
    <2>2. Pool(m, used, frames)
      BY DEF Sound
    <2>3. Pool(x, used \ {p}, frames \ {p})
      <3> HIDE DEF p, used
      <3>1. p \in frames
        BY <2>1
      <3> HIDE DEF frames
      <3>2. QED
        BY <1>1, <2>2, <3>1, PoolRelease
    <2>4. /\ r \in Memory /\ r.bits = x.bits /\ r.refs = x.refs /\ r.ok = x.ok /\ r.oom = x.oom
          /\ r.space.root = m.space.root /\ r.space.tab = m.space.tab
          /\ r.space.pte = [m.space.pte EXCEPT ![va] = NoPage]
      BY SMT, <1>1, <1>3, UnmapFacts
    <2>5. x.ok = m.ok /\ x.oom = m.oom
      BY <1>1, <2>1, ReleaseFacts
    <2>6. r.space \in Space
      BY <2>4 DEF Memory
    <2>7. WellFormed(r.space) /\ Structure(r.space) = Structure(m.space)
          /\ Frames(r.space) = Frames(m.space) \ {p}
      BY <1>1, <2>4, <2>6, EntryCleared
    <2> HIDE DEF p, r, x
    <2>8. others \cup Uses(r.space) = used \ {p} /\ otherFrames \cup Frames(r.space) = frames \ {p}
          /\ Uses(r.space) \cap others = {} /\ otherFrames \subseteq others
      BY <2>1, <2>7 DEF Uses, Sound, WellFormed
    <2>9. Pool(r, used \ {p}, frames \ {p})
      BY <2>3, <2>4 DEF Pool
    <2>10. Sound(r, others, otherFrames)
      BY <2>4, <2>7, <2>8, <2>9 DEF Sound
    <2>11. \A u \in VAs : r.space.pte[u] \in {m.space.pte[u], NoPage}
      BY <1>1, <2>4
    <2>12. QED
      BY <2>4, <2>5, <2>10, <2>11 DEF Shrinks, r
  <1>4. QED
    BY <1>2, <1>3

\* sys_munmap's loop.
LEMMA UnmapSound ==
  ASSUME NEW m, NEW others, NEW otherFrames, Sound(m, others, otherFrames),
         m.space.root # NoPage, NEW a \in Nat, NEW b \in Nat, a <= b, b <= USER_STACK_TOP
  PROVE  Shrinks(For(UnmapVa, m, a, b), m, others, otherFrames)
  <1>1. m \in Memory
    BY DEF Sound
  <1>2. PICK f : Unmaps(f, m, a, b)
    BY <1>1, UnmapLoop
  <1> DEFINE G == {k \in a .. b : Shrinks(f[k], m, others, otherFrames)}
  <1>3. a \in G
    BY SMT, <1>2 DEF Shrinks, Unmaps
  <1>4. ASSUME NEW k \in a .. b - 1, k \in G PROVE k + 1 \in G
    <2>1. k \in VAs /\ f[k + 1] = UnmapVa(f[k], k) /\ k + 1 \in a .. b
      BY SMT, <1>2, Layout DEF VAs, Unmaps
    <2>2. Shrinks(f[k], m, others, otherFrames)
      BY <1>4
    <2>3. Sound(f[k], others, otherFrames) /\ f[k].space.root # NoPage
      BY <2>2 DEF Shrinks
    <2>4. Shrinks(f[k + 1], f[k], others, otherFrames)
      BY <2>1, <2>3, UnmapOne
    <2>5. Shrinks(f[k + 1], m, others, otherFrames)
      BY <2>2, <2>4 DEF Shrinks
    <2>6. QED
      BY <2>1, <2>5
  <1>5. b \in G
    <2> HIDE DEF G
    <2>1. \A k \in a .. b : k \in G
      BY <1>3, <1>4, LoopInduction
    <2>2. QED
      BY SMT, <2>1
  <1>6. f[b] = For(UnmapVa, m, a, b)
    BY <1>2 DEF Unmaps
  <1>7. QED
    BY <1>5, <1>6

-----------------------------------------------------------------------------
(* Tearing a space down: pmap_destroy reads the entries and leaves them.   *)

\* The frames of virtual pages a .. b - 1.
FramesIn(s, a, b) == {s.pte[va] : va \in a .. b - 1} \ {NoPage}

\* What is the same all through a teardown.
SameBut(r, m) == r.space = m.space /\ r.oom = m.oom /\ r.ok = m.ok

\* Releasing the frame of an entry changes the bitmap and the counts only.
LEMMA ReleaseKeeps ==
  ASSUME NEW m \in Memory, NEW va \in VAs
  PROVE  SameBut(ReleaseVa(m, va), m)
  <1>1. CASE m.space.pte[va] = NoPage
    BY <1>1 DEF ReleaseVa, SameBut
  <1>2. CASE m.space.pte[va] # NoPage
    <2>1. m.space.pte[va] \in Pages /\ ReleaseVa(m, va) = ReleaseFrame(m, m.space.pte[va])
      BY <1>2 DEF ReleaseVa, Memory, Space
    <2>2. QED
      BY <2>1, ReleaseFacts DEF SameBut
  <1>3. QED
    BY <1>1, <1>2

\* Freeing the frames of a range of pages, whose entries stay.
LEMMA ReleaseSound ==
  ASSUME NEW m \in Memory, NEW used, NEW frames, Pool(m, used, frames), WellFormed(m.space),
         NEW a \in Nat, NEW b \in Nat, a <= b, b <= USER_STACK_TOP,
         FramesIn(m.space, a, b) \subseteq frames, NEW r, r = For(ReleaseVa, m, a, b)
  PROVE  /\ r \in Memory /\ SameBut(r, m)
         /\ Pool(r, used \ FramesIn(m.space, a, b), frames \ FramesIn(m.space, a, b))
  <1>1. PICK f : Releases(f, m, a, b)
    BY ReleaseLoop
  <1> DEFINE s == m.space
             In(k) == FramesIn(s, a, k)
             G == {k \in a .. b : SameBut(f[k], m) /\ Pool(f[k], used \ In(k), frames \ In(k))}
  <1>2. a \in G
    <2>1. In(a) = {}
      BY SMT DEF FramesIn
    <2>2. used \ In(a) = used /\ frames \ In(a) = frames
      BY <2>1
    <2>3. f[a] = m /\ a \in a .. b /\ SameBut(f[a], m)
      BY SMT, <1>1 DEF SameBut, Releases
    <2> HIDE DEF In
    <2>4. Pool(f[a], used \ In(a), frames \ In(a))
      BY <2>2, <2>3
    <2>5. QED
      BY <2>3, <2>4
  <1>3. ASSUME NEW k \in a .. b - 1, k \in G PROVE k + 1 \in G
    <2> DEFINE p == s.pte[k]
    <2>1. k \in VAs /\ f[k] \in Memory /\ k + 1 \in a .. b /\ f[k + 1] = ReleaseVa(f[k], k)
      BY SMT, <1>1, Layout DEF VAs, Releases
    <2>2. SameBut(f[k], m) /\ Pool(f[k], used \ In(k), frames \ In(k)) /\ f[k].space = s
      BY <1>3 DEF SameBut
    <2>3. CASE p = NoPage
      <3>1. In(k + 1) = In(k)
        BY SMT, <2>3 DEF FramesIn
      <3>2. f[k + 1] = f[k]
        BY <2>1, <2>2, <2>3 DEF ReleaseVa
      <3> HIDE DEF In
      <3>3. QED
        BY <2>1, <2>2, <3>1, <3>2
    <2>4. CASE p # NoPage
      <3>1. In(k + 1) = In(k) \cup {p}
        BY SMT, <2>4 DEF FramesIn
      <3>2. \A va \in a .. k - 1 : va \in VAs /\ va # k
        BY SMT, <2>1, Layout DEF VAs
      <3>3. p \notin In(k)
        BY <2>1, <2>4, <3>2 DEF FramesIn, WellFormed
      <3>4. p \in FramesIn(s, a, b)
        BY <2>4 DEF FramesIn
      <3>5. p \in frames \ In(k)
        BY <3>3, <3>4
      <3>6. f[k + 1] = ReleaseFrame(f[k], p)
        BY <2>1, <2>2, <2>4 DEF ReleaseVa
      <3> HIDE DEF In, p
      <3>7. p \in Pages /\ Pool(f[k + 1], (used \ In(k)) \ {p}, (frames \ In(k)) \ {p})
        BY SMT, <2>1, <2>2, <3>5, <3>6, PoolRelease
      <3>8. SameBut(f[k + 1], m)
        <4>1. SameBut(f[k + 1], f[k])
          BY <2>1, ReleaseKeeps
        <4>2. QED
          BY <2>2, <4>1 DEF SameBut
      <3>9. /\ (used \ In(k)) \ {p} = used \ In(k + 1)
            /\ (frames \ In(k)) \ {p} = frames \ In(k + 1)
        BY <3>1
      <3>10. QED
        BY <2>1, <3>7, <3>8, <3>9
    <2>5. QED
      BY <2>3, <2>4
  <1>4. b \in G
    <2> HIDE DEF G
    <2>1. \A k \in a .. b : k \in G
      BY <1>2, <1>3, LoopInduction
    <2>2. QED
      BY SMT, <2>1
  <1>5. f[b] = r /\ r \in Memory
    BY SMT, <1>1 DEF Releases
  <1>6. QED
    BY <1>4, <1>5

\* The frames of one table.
FramesOf(s, t) == {s.pte[va] : va \in {va \in VAs : TableOf(va) = t}} \ {NoPage}

\* Freeing a table and its frames changes the bitmap and the counts only.
LEMMA DestroyTyped ==
  ASSUME NEW m \in Memory, NEW t \in Tables
  PROVE  DestroyTable(m, t) \in Memory /\ SameBut(DestroyTable(m, t), m)
  <1> DEFINE a == FirstVa(t)
             b == FirstVa(t + 1)
             x == For(ReleaseVa, m, a, b)
  <1>1. a \in Nat /\ b \in Nat /\ a <= b /\ b <= USER_STACK_TOP /\ m.space.tab[t] \in Pages
    BY TablePages DEF Memory, Space
  <1> HIDE DEF a, b
  <1>2. PICK f : Releases(f, m, a, b)
    BY <1>1, ReleaseLoop
  <1> DEFINE G == {k \in a .. b : SameBut(f[k], m)}
  <1>3. a \in G
    BY SMT, <1>1, <1>2 DEF SameBut, Releases
  <1>4. ASSUME NEW k \in a .. b - 1, k \in G PROVE k + 1 \in G
    <2>1. k \in VAs /\ f[k] \in Memory /\ k + 1 \in a .. b /\ f[k + 1] = ReleaseVa(f[k], k)
      BY SMT, <1>1, <1>2, Layout DEF VAs, Releases
    <2>2. SameBut(f[k + 1], f[k])
      BY <2>1, ReleaseKeeps
    <2>3. QED
      BY <1>4, <2>1, <2>2 DEF SameBut
  <1>5. b \in G
    <2> HIDE DEF G
    <2>1. \A k \in a .. b : k \in G
      BY <1>1, <1>3, <1>4, LoopInduction
    <2>2. QED
      BY SMT, <1>1, <2>1
  <1>6. x \in Memory /\ SameBut(x, m)
    BY <1>1, <1>2, <1>5 DEF Releases
  <1>7. DestroyTable(m, t) = IF m.space.tab[t] = NoPage THEN m ELSE FreePage(x, m.space.tab[t])
    BY DEF DestroyTable, a, b
  <1> HIDE DEF x
  <1>8. QED
    BY SMT, <1>1, <1>6, <1>7, FreeFacts DEF SameBut

\* ... and takes just those pages out of use.
LEMMA TableSound ==
  ASSUME NEW m \in Memory, NEW used, NEW frames, Pool(m, used, frames), WellFormed(m.space),
         NEW t \in Tables, FramesOf(m.space, t) \subseteq frames,
         m.space.tab[t] # NoPage => m.space.tab[t] \in used \ frames
  PROVE  Pool(DestroyTable(m, t), used \ (FramesOf(m.space, t) \cup {m.space.tab[t]}),
              frames \ FramesOf(m.space, t))
  <1> DEFINE s == m.space
             gone == FramesOf(s, t)
             a == FirstVa(t)
             b == FirstVa(t + 1)
             x == For(ReleaseVa, m, a, b)
             r == DestroyTable(m, t)
  <1>1. a \in Nat /\ b \in Nat /\ a <= b /\ b <= USER_STACK_TOP
    BY TablePages
  <1>2. gone = FramesIn(s, a, b)
    <2>1. \A va \in VAs : TableOf(va) = t <=> va \in a .. b - 1
      BY TablePages
    <2>2. a .. b - 1 \subseteq VAs
      BY SMT, <1>1, Layout DEF VAs
    <2> HIDE DEF a, b
    <2>3. {va \in VAs : TableOf(va) = t} = a .. b - 1
      BY <2>1, <2>2
    <2>4. QED
      BY <2>3 DEF FramesIn, FramesOf
  <1>3. CASE s.tab[t] = NoPage
    <2>1. r = m
      BY <1>3 DEF DestroyTable
    <2>2. gone = {}
      BY <1>3 DEF FramesOf, WellFormed
    <2>3. NoPage \notin used
      BY AddrAssumption DEF Pool, NoPage
    <2> HIDE DEF gone, r
    <2>4. used \ (gone \cup {s.tab[t]}) = used /\ frames \ gone = frames
      BY <1>3, <2>2, <2>3
    <2>5. QED
      BY <2>1, <2>4 DEF r, gone
  <1>4. CASE s.tab[t] # NoPage
    <2> DEFINE q == s.tab[t]
    <2>1. r = FreePage(x, q)
      BY <1>4 DEF DestroyTable
    <2> HIDE DEF a, b
    <2>2. x \in Memory /\ Pool(x, used \ gone, frames \ gone)
      <3> HIDE DEF gone
      <3>1. FramesIn(s, a, b) \subseteq frames
        BY <1>2 DEF gone
      <3>2. QED
        BY <1>1, <1>2, <3>1, ReleaseSound
    <2>3. q \in used \ frames /\ gone \subseteq frames
      BY <1>4
    <2> HIDE DEF gone, x, r, q
    <2>4. q \in used \ gone /\ q \notin frames \ gone
      BY <2>3
    <2>5. Pool(r, (used \ gone) \ {q}, frames \ gone)
      BY <2>1, <2>2, <2>4, PoolFree
    <2>6. (used \ gone) \ {q} = used \ (gone \cup {q})
      OBVIOUS
    <2>7. QED
      BY <2>5, <2>6 DEF r, gone, q
  <1>5. QED
    BY <1>3, <1>4

\* The states of pmap_destroy's loop over the tables.
Destroys(f, m, a, b) ==
  /\ f \in [a .. b -> Memory] /\ f[a] = m
  /\ f[b] = For(DestroyTable, m, a, b)
  /\ \A k \in a .. b - 1 : f[k + 1] = DestroyTable(f[k], k)

\* pmap_destroy's loop has the states Destroys describes.
LEMMA DestroyLoop ==
  ASSUME NEW m \in Memory, NEW a \in Nat, NEW b \in Nat, a <= b, b <= TableCount
  PROVE  \E f : Destroys(f, m, a, b)
  <1> DEFINE g == [k \in a .. b - 1 |-> [x \in Memory |-> DestroyTable(x, k)]]
             P(f) == f = [va \in a .. b |-> IF va = a THEN m ELSE DestroyTable(f[va - 1], va - 1)]
             f == CHOOSE f : P(f)
  <1>1. \A x \in Memory, k \in a .. b - 1 : DestroyTable(x, k) \in Memory
    BY SMT, TablePages, DestroyTyped DEF Tables
  <1>2. PICK h \in [a .. b -> Memory] : Unrolls(h, g, m, a, b)
    <2>1. g \in [a .. b - 1 -> [Memory -> Memory]]
      BY <1>1
    <2> HIDE DEF g
    <2>2. QED
      BY <2>1, Unrolled
  <1>3. \A va \in a .. b : va # a => g[va - 1][h[va - 1]] = DestroyTable(h[va - 1], va - 1)
    BY SMT
  <1>4. P(h)
    <2> HIDE DEF g
    <2>1. QED
      BY <1>2, <1>3 DEF Unrolls
  <1>5. P(f)
    BY <1>4
  <1>6. For(DestroyTable, m, a, b) = IF a < b THEN f[b] ELSE m
    BY DEF For
  <1> HIDE DEF f
  <1>7. f[a] = m /\ \A k \in a .. b - 1 : f[k + 1] = DestroyTable(f[k], k)
    BY SMT, <1>5
  <1>8. \A k \in a .. b : f[k] \in Memory
    BY <1>1, <1>7, StaysIn
  <1>9. f \in [a .. b -> Memory]
    BY <1>5, <1>8
  <1>10. QED
    BY SMT, <1>6, <1>7, <1>9 DEF Destroys

\* The frames of the tables below t, and those tables.
Below(s, t) == {s.pte[va] : va \in {va \in VAs : TableOf(va) < t}} \ {NoPage}
TabsBelow(s, t) == {s.tab[u] : u \in 0 .. t - 1}

\* What the tables below t + 1 map, from what those below t do.
LEMMA BelowStep ==
  ASSUME NEW s \in Space, WellFormed(s), NEW t \in Tables
  PROVE  /\ Below(s, t + 1) = Below(s, t) \cup FramesOf(s, t)
         /\ Below(s, t) \cap FramesOf(s, t) = {}
         /\ Below(s, t) \subseteq Frames(s) /\ FramesOf(s, t) \subseteq Frames(s)
         /\ TabsBelow(s, t + 1) = TabsBelow(s, t) \cup {s.tab[t]}
         /\ s.tab[t] # NoPage => s.tab[t] \notin TabsBelow(s, t) /\ s.tab[t] \in Structure(s)
  <1>1. t \in Nat /\ \A va \in VAs : TableOf(va) \in Nat
    BY SMT, TablePages DEF Tables
  <1>2. \A va \in VAs : TableOf(va) < t + 1 <=> TableOf(va) < t \/ TableOf(va) = t
    BY SMT, <1>1
  <1>3. \A va \in VAs : ~(TableOf(va) < t /\ TableOf(va) = t)
    BY SMT, <1>1
  <1>4. Below(s, t + 1) = Below(s, t) \cup FramesOf(s, t)
    BY <1>2 DEF Below, FramesOf
  <1>5. Below(s, t) \cap FramesOf(s, t) = {}
    BY <1>3 DEF Below, FramesOf, WellFormed
  <1>6. Below(s, t) \subseteq Frames(s) /\ FramesOf(s, t) \subseteq Frames(s)
    BY DEF Below, FramesOf, Frames
  <1>7. 0 .. (t + 1) - 1 = (0 .. t - 1) \cup {t}
    BY SMT, <1>1
  <1>8. TabsBelow(s, t + 1) = TabsBelow(s, t) \cup {s.tab[t]}
    BY <1>7 DEF TabsBelow
  <1>9. \A u \in 0 .. t - 1 : u \in Tables /\ u # t
    BY SMT, TablePages DEF Tables
  <1>10. s.tab[t] # NoPage => s.tab[t] \notin TabsBelow(s, t) /\ s.tab[t] \in Structure(s)
    BY <1>9 DEF TabsBelow, Structure, WellFormed
  <1>11. QED
    BY <1>4, <1>5, <1>6, <1>8, <1>10

\* pmap_destroy frees every page of the space, and no other.
LEMMA DestroySound ==
  ASSUME NEW m, NEW o, NEW of, Sound(m, o, of), m.space.root # NoPage, NEW r, r = pmap_destroy(m)
  PROVE  r \in Memory /\ r.space = NoSpace /\ r.ok = m.ok /\ r.oom = m.oom /\ Pool(r, o, of)
  <1> DEFINE s == m.space
             n == TableCount
             used(t) == (o \cup Uses(s)) \ (Below(s, t) \cup TabsBelow(s, t))
             frames(t) == (of \cup Frames(s)) \ Below(s, t)
  <1>1. /\ m \in Memory /\ s \in Space /\ WellFormed(s) /\ of \subseteq o
        /\ Uses(s) \cap o = {} /\ Pool(m, o \cup Uses(s), of \cup Frames(s))
    BY DEF Sound, Memory
  <1>2. n \in Nat /\ 0 \in Nat /\ 0 <= n /\ n <= TableCount
    BY SMT, TablePages
  <1>3. PICK f : Destroys(f, m, 0, n)
    BY <1>1, <1>2, DestroyLoop
  <1> DEFINE G == {t \in 0 .. n : SameBut(f[t], m) /\ Pool(f[t], used(t), frames(t))}
  <1>4. 0 \in G
    <2>1. Below(s, 0) = {} /\ TabsBelow(s, 0) = {}
      <3>1. \A va \in VAs : ~(TableOf(va) < 0)
        BY SMT, TablePages DEF Tables
      <3>2. QED
        BY SMT, <3>1 DEF Below, TabsBelow
    <2>2. used(0) = o \cup Uses(s) /\ frames(0) = of \cup Frames(s)
      BY <2>1
    <2>3. f[0] = m /\ 0 \in 0 .. n /\ SameBut(f[0], m)
      BY SMT, <1>2, <1>3 DEF SameBut, Destroys
    <2> HIDE DEF used, frames
    <2>4. Pool(f[0], used(0), frames(0))
      BY <1>1, <2>2, <2>3
    <2>5. QED
      BY <2>3, <2>4
  <1>5. ASSUME NEW t \in 0 .. n - 1, t \in G PROVE t + 1 \in G
    <2> DEFINE gone == FramesOf(s, t)
               q == s.tab[t]
    <2>1. t \in Tables /\ f[t] \in Memory /\ t + 1 \in 0 .. n /\ f[t + 1] = DestroyTable(f[t], t)
      BY SMT, <1>2, <1>3 DEF Destroys, Tables
    <2>2. SameBut(f[t], m) /\ Pool(f[t], used(t), frames(t)) /\ f[t].space = s
      BY <1>5 DEF SameBut
    <2>3. /\ Below(s, t + 1) = Below(s, t) \cup gone /\ Below(s, t) \cap gone = {}
          /\ Below(s, t) \subseteq Frames(s) /\ gone \subseteq Frames(s)
          /\ TabsBelow(s, t + 1) = TabsBelow(s, t) \cup {q}
          /\ q # NoPage => q \notin TabsBelow(s, t) /\ q \in Structure(s)
      BY <1>1, <2>1, BelowStep
    <2>4. Frames(s) \cap Structure(s) = {}
      BY <1>1 DEF WellFormed
    <2> HIDE DEF gone, q
    <2>5. gone \subseteq frames(t)
      BY <2>3
    <2>6. q # NoPage => q \in used(t) \ frames(t)
      BY <1>1, <2>3, <2>4 DEF Uses
    <2>7. used(t) \ (gone \cup {q}) = used(t + 1) /\ frames(t) \ gone = frames(t + 1)
      BY <2>3
    <2> HIDE DEF used, frames
    <2>8. Pool(f[t + 1], used(t) \ (gone \cup {q}), frames(t) \ gone)
      BY SMT, <1>1, <2>1, <2>2, <2>5, <2>6, TableSound DEF gone, q
    <2>9. SameBut(f[t + 1], m)
      <3>1. SameBut(f[t + 1], f[t])
        BY <2>1, DestroyTyped
      <3>2. QED
        BY <2>2, <3>1 DEF SameBut
    <2>10. QED
      BY <2>1, <2>7, <2>8, <2>9
  <1>6. n \in G
    <2> HIDE DEF G
    <2>1. \A k \in 0 .. n : k \in G
      BY <1>2, <1>4, <1>5, LoopInduction
    <2>2. QED
      BY SMT, <1>2, <2>1
  <1> DEFINE x == f[n]
             y == FreePage(x, s.root)
  <1>7. x \in Memory /\ SameBut(x, m) /\ Pool(x, used(n), frames(n)) /\ x = For(DestroyTable, m, 0, n)
    BY <1>2, <1>3, <1>6 DEF Destroys
  <1>8. Below(s, n) = Frames(s)
    <2>1. \A va \in VAs : TableOf(va) < n
      BY SMT, TablePages DEF Tables
    <2>2. QED
      BY <2>1 DEF Below, Frames
  <1>9. TabsBelow(s, n) = {s.tab[t] : t \in Tables}
    BY DEF TabsBelow, Tables
  <1>10. s.root \in Uses(s) /\ s.root \notin Frames(s) /\ s.root \notin TabsBelow(s, n)
    BY <1>1, <1>9 DEF Uses, Structure, WellFormed
  <1>11. s.root \in used(n) /\ s.root \notin frames(n)
    BY <1>1, <1>8, <1>10
  <1>12. Pool(y, used(n) \ {s.root}, frames(n)) /\ y \in Memory /\ SameBut(y, m)
    <2>1. s.root \in Pages
      BY <1>1 DEF Space
    <2> HIDE DEF used, frames, x
    <2>2. Pool(y, used(n) \ {s.root}, frames(n))
      BY <1>7, <1>11, PoolFree
    <2>3. y \in Memory /\ SameBut(y, x)
      BY <1>7, <2>1, FreeFacts DEF SameBut
    <2>4. QED
      BY <1>7, <2>2, <2>3 DEF SameBut
  <1>13. used(n) \ {s.root} = o /\ frames(n) = of
    <2>1. NoPage \notin o
      BY <1>1, AddrAssumption DEF Pool, NoPage
    <2>2. Uses(s) = (Frames(s) \cup TabsBelow(s, n) \cup {s.root}) \ {NoPage}
      BY <1>9 DEF Uses, Structure, Frames
    <2>3. Frames(s) \subseteq Uses(s)
      BY DEF Uses
    <2>4. QED
      BY <1>1, <1>8, <2>1, <2>2, <2>3
  <1>14. r = [y EXCEPT !.space = NoSpace] /\ NoSpace \in Space
    BY <1>1, <1>7, CreateFacts DEF pmap_destroy
  <1> HIDE DEF x, y, used, frames
  <1>15. Pool(y, o, of)
    BY <1>12, <1>13
  <1>16. /\ r \in Memory /\ r.space = NoSpace /\ r.ok = y.ok /\ r.oom = y.oom
         /\ r.bits = y.bits /\ r.refs = y.refs
    BY <1>12, <1>14 DEF Memory
  <1>17. Pool(r, o, of)
    BY <1>15, <1>16 DEF Pool
  <1>18. QED
    BY <1>12, <1>16, <1>17 DEF SameBut

-----------------------------------------------------------------------------
(* The calls keep the types, whatever the entries of a space say.          *)

\* The loops over virtual pages keep the types.
LEMMA LoopsTyped ==
  ASSUME NEW m \in Memory, NEW a \in Nat, NEW b \in Nat, a <= b, b <= USER_STACK_TOP
  PROVE  /\ map_zeroed_range(m, a, b) \in Memory
         /\ For(ReleaseVa, m, a, b) \in Memory
         /\ For(UnmapVa, m, a, b) \in Memory
  <1>1. PICK f : Zeroes(f, m, a, b)
    BY ZeroedLoop
  <1>2. PICK g : Releases(g, m, a, b)
    BY ReleaseLoop
  <1>3. PICK h : Unmaps(h, m, a, b)
    BY UnmapLoop
  <1>4. f[b] \in Memory /\ g[b] \in Memory /\ h[b] \in Memory
    BY SMT, <1>1, <1>2, <1>3 DEF Zeroes, Releases, Unmaps
  <1>5. /\ f[b] = map_zeroed_range(m, a, b) /\ g[b] = For(ReleaseVa, m, a, b)
        /\ h[b] = For(UnmapVa, m, a, b)
    BY <1>1, <1>2, <1>3 DEF Zeroes, Releases, Unmaps
  <1>6. QED
    BY <1>4, <1>5

\* pmap_destroy and pmap_fork keep the types.
LEMMA SpacesTyped ==
  ASSUME NEW m \in Memory
  PROVE  /\ pmap_destroy(m) \in Memory
         /\ \A parent : pmap_fork(m, parent) \in Memory
  <1> DEFINE n == TableCount
  <1>1. n \in Nat /\ 0 \in Nat /\ 0 <= n /\ n <= TableCount
    BY SMT, TablePages
  <1>2. PICK f : Destroys(f, m, 0, n)
    BY <1>1, DestroyLoop
  <1>3. f[n] \in Memory /\ f[n] = For(DestroyTable, m, 0, n)
    BY SMT, <1>1, <1>2 DEF Destroys
  <1> DEFINE x == f[n]
             y == FreePage(x, m.space.root)
  <1>4. m.space.root \in Pages
    BY DEF Memory, Space
  <1>5. y \in Memory
    BY <1>3, <1>4, FreeFacts
  <1>6. NoSpace \in Space /\ pmap_destroy(m) = [y EXCEPT !.space = NoSpace]
    BY <1>3, CreateFacts DEF pmap_destroy
  <1> HIDE DEF y
  <1>7. pmap_destroy(m) \in Memory
    BY <1>5, <1>6 DEF Memory
  <1>8. ASSUME NEW parent PROVE pmap_fork(m, parent) \in Memory
    <2>1. PICK g : Copies(g, m, parent)
      BY CopyLoop
    <2>2. USER_STACK_TOP \in 0 .. USER_STACK_TOP
      BY SMT, Layout
    <2>3. QED
      BY <2>1, <2>2 DEF Copies
  <1>9. QED
    BY <1>7, <1>8

\* A refused image.
LEMMA RefusedTyped ==
  ASSUME NEW m \in Memory, NEW r, r = [m EXCEPT !.ok = FALSE]
  PROVE  /\ r \in Memory /\ r.bits = m.bits /\ r.refs = m.refs /\ r.space = m.space
         /\ r.ok = FALSE /\ r.oom = m.oom
  BY DEF Memory

\* exec_build_image keeps the types.
LEMMA ExecTyped ==
  ASSUME NEW m \in Memory
  PROVE  exec_build_image(m) \in Memory
  <1> DEFINE created == pmap_create(m)
             image == map_zeroed_range(created, 0, ImagePages)
             stack == map_zeroed_range(image, StackBase, USER_STACK_TOP)
             refused == [pmap_destroy(stack) EXCEPT !.ok = FALSE]
  <1>1. created \in Memory
    BY CreateFacts
  <1>2. /\ 0 \in Nat /\ ImagePages \in Nat /\ 0 <= ImagePages /\ ImagePages <= USER_STACK_TOP
        /\ StackBase \in Nat /\ USER_STACK_TOP \in Nat /\ StackBase <= USER_STACK_TOP
        /\ USER_STACK_TOP <= USER_STACK_TOP
    BY SMT, Layout
  <1> HIDE DEF created
  <1>3. image \in Memory
    BY <1>1, <1>2, LoopsTyped
  <1> HIDE DEF image
  <1>4. stack \in Memory
    BY <1>2, <1>3, LoopsTyped
  <1> HIDE DEF stack
  <1>5. pmap_destroy(image) \in Memory /\ refused \in Memory
    BY <1>3, <1>4, SpacesTyped, RefusedTyped
  <1>6. exec_build_image(m) \in {created, pmap_destroy(image), refused, stack}
    BY DEF exec_build_image, created, image, stack
  <1>7. QED
    BY <1>1, <1>4, <1>5, <1>6

-----------------------------------------------------------------------------
(* exec_build_image.                                                       *)

\* A memory record without a space.
LEMMA SoundAlone ==
  ASSUME NEW m \in Memory, NEW o, NEW of, of \subseteq o, m.space = NoSpace
  PROVE  Sound(m, o, of) <=> Pool(m, o, of)
  <1>1. NoSpace \in Space
    BY CreateFacts
  <1>2. Frames(NoSpace) = {} /\ Structure(NoSpace) = {NoSpace.root} \ {NoPage} /\ WellFormed(NoSpace)
    BY <1>1, EmptySpace
  <1>3. NoSpace.root = NoPage
    BY DEF NoSpace
  <1>4. Uses(NoSpace) = {} /\ o \cup Uses(NoSpace) = o /\ of \cup Frames(NoSpace) = of
    BY <1>2, <1>3 DEF Uses
  <1>5. QED
    BY <1>2, <1>4 DEF Sound

\* The image is refused, and what was built of it is freed.
Refuses(r, m) ==
  r = [pmap_destroy(m) EXCEPT !.ok = FALSE] \/ (r = pmap_destroy(m) /\ ~m.ok)

\* A call that fails tears its new space down and leaves the rest as it was.
LEMMA RefusedSound ==
  ASSUME NEW m, NEW o, NEW of, Sound(m, o, of), m.space.root # NoPage, NEW r, Refuses(r, m)
  PROVE  Sound(r, o, of) /\ r.space = NoSpace /\ r.oom = m.oom /\ ~r.ok
  <1> DEFINE d == pmap_destroy(m)
  <1>1. d \in Memory /\ d.space = NoSpace /\ d.ok = m.ok /\ d.oom = m.oom /\ Pool(d, o, of)
    BY DestroySound
  <1>2. m.ok \in BOOLEAN /\ of \subseteq o
    BY DEF Sound, Memory
  <1> HIDE DEF d
  <1>3. /\ r \in Memory /\ r.bits = d.bits /\ r.refs = d.refs /\ r.space = d.space
        /\ r.oom = d.oom /\ ~r.ok
    BY <1>1, <1>2, RefusedTyped DEF d, Refuses
  <1>4. Pool(r, o, of)
    BY <1>1, <1>3 DEF Pool
  <1>5. Sound(r, o, of)
    BY <1>1, <1>2, <1>3, <1>4, SoundAlone
  <1>6. QED
    BY <1>1, <1>3, <1>5

\* exec_build_image makes a sound space with nothing mapped above the image, or none.
LEMMA ExecSound ==
  ASSUME NEW m, NEW o, NEW of, Sound(m, o, of), m.space = NoSpace,
         NEW r, r = exec_build_image(m)
  PROVE  /\ Sound(r, o, of) /\ (m.oom => r.oom) /\ (~r.ok => r.space = NoSpace)
         /\ r.ok => /\ r.space.root # NoPage
                    /\ \A va \in ImagePages .. StackBase - 1 : r.space.pte[va] = NoPage
  <1> DEFINE created == pmap_create(m)
             image == map_zeroed_range(created, 0, ImagePages)
             stack == map_zeroed_range(image, StackBase, USER_STACK_TOP)
             refused == [pmap_destroy(stack) EXCEPT !.ok = FALSE]
  <1>1. /\ Sound(created, o, of) /\ (m.oom => created.oom)
        /\ created.ok <=> created.space.root # NoPage
        /\ \A va \in VAs : created.space.pte[va] = NoPage
    BY CreateSound
  <1>2. /\ 0 \in Nat /\ ImagePages \in Nat /\ 0 <= ImagePages /\ ImagePages <= USER_STACK_TOP
        /\ StackBase \in Nat /\ USER_STACK_TOP \in Nat /\ StackBase <= USER_STACK_TOP
        /\ USER_STACK_TOP <= USER_STACK_TOP
    BY SMT, Layout
  <1>3. /\ 0 .. ImagePages - 1 \subseteq VAs /\ StackBase .. USER_STACK_TOP - 1 \subseteq VAs
        /\ ImagePages .. StackBase - 1 \subseteq VAs
        /\ \A va \in StackBase .. USER_STACK_TOP - 1 : va \notin 0 .. ImagePages - 1
        /\ \A va \in ImagePages .. StackBase - 1 :
             va \notin 0 .. ImagePages - 1 /\ va \notin StackBase .. USER_STACK_TOP - 1
    BY SMT, Layout DEF VAs
  <1>4. r = IF ~created.ok THEN created
            ELSE IF ~image.ok THEN pmap_destroy(image)
            ELSE IF ~stack.ok \/ stack.space.pte[USER_STACK_TOP - 1] = NoPage
            THEN refused ELSE stack
    BY DEF exec_build_image
  <1> HIDE DEF created
  <1>5. CASE ~created.ok
    <2>1. created.space = NoSpace
      BY <1>1, <1>5 DEF Sound, WellFormed
    <2>2. QED
      BY <1>1, <1>4, <1>5, <2>1
  <1>6. CASE created.ok
    <2>1. Extends(image, created, 0, ImagePages, o, of)
      BY <1>1, <1>2, <1>3, <1>6, ZeroedSound
    <2> HIDE DEF image
    <2>2. /\ Sound(image, o, of) /\ image.space.root # NoPage /\ (m.oom => image.oom)
          /\ \A va \in VAs : va \notin 0 .. ImagePages - 1 => image.space.pte[va] = NoPage
      BY <1>1, <1>6, <2>1 DEF Extends
    <2>3. CASE ~image.ok
      BY SMT, <1>4, <1>6, <2>2, <2>3, RefusedSound DEF Refuses
    <2>4. CASE image.ok
      <3>1. \A va \in StackBase .. USER_STACK_TOP - 1 : image.space.pte[va] = NoPage
        BY <1>3, <2>2
      <3>2. Extends(stack, image, StackBase, USER_STACK_TOP, o, of)
        BY <1>2, <2>2, <3>1, ZeroedSound
      <3> HIDE DEF stack
      <3>3. /\ Sound(stack, o, of) /\ stack.space.root # NoPage /\ (m.oom => stack.oom)
            /\ \A va \in ImagePages .. StackBase - 1 : stack.space.pte[va] = NoPage
        BY <1>3, <2>2, <3>2 DEF Extends
      <3>4. Refuses(refused, stack)
        BY DEF Refuses
      <3> HIDE DEF refused
      <3>5. Sound(refused, o, of) /\ refused.space = NoSpace /\ refused.oom = stack.oom /\ ~refused.ok
        BY <3>3, <3>4, RefusedSound
      <3>6. r = IF ~stack.ok \/ stack.space.pte[USER_STACK_TOP - 1] = NoPage THEN refused ELSE stack
        BY <1>4, <1>6, <2>4
      <3>7. r = refused \/ (r = stack /\ stack.ok)
        BY <3>6
      <3>8. QED
        BY <3>3, <3>5, <3>7
    <2>5. QED
      BY <2>3, <2>4
  <1>7. QED
    BY <1>5, <1>6

-----------------------------------------------------------------------------
(* From the processes to the record a call works on, and back.             *)

\* What the unions hold.
LEMMA Members ==
  ASSUME NEW sp, NEW ks, NEW p, NEW x
  PROVE  /\ x \in Stacks(ks) <=> x # NoPage /\ \E q \in Procs : x = ks[q]
         /\ x \in AllUses(sp, ks) <=> x \in Stacks(ks) \/ \E q \in Procs : x \in Uses(sp[q])
         /\ x \in UsesBut(sp, ks, p) <=>
              x \in Stacks(ks) \/ \E q \in Procs \ {p} : x \in Uses(sp[q])
         /\ x \in FramesBut(sp, p) <=> \E q \in Procs \ {p} : x \in Frames(sp[q])
  <1>1. x \in Stacks(ks) <=> x # NoPage /\ \E q \in Procs : x = ks[q]
    BY DEF Stacks
  <1>2. x \in AllUses(sp, ks) <=> x \in Stacks(ks) \/ \E q \in Procs : x \in Uses(sp[q])
    BY DEF AllUses
  <1>3. x \in UsesBut(sp, ks, p) <=> x \in Stacks(ks) \/ \E q \in Procs \ {p} : x \in Uses(sp[q])
    BY DEF UsesBut
  <1>4. x \in FramesBut(sp, p) <=> \E q \in Procs \ {p} : x \in Frames(sp[q])
    BY DEF FramesBut
  <1>5. QED
    BY <1>1, <1>2, <1>3, <1>4

\* The pages of one process and those of the others are all.
LEMMA Parts ==
  ASSUME NEW sp, NEW ks, NEW p \in Procs
  PROVE  /\ AllUses(sp, ks) = UsesBut(sp, ks, p) \cup Uses(sp[p])
         /\ AllFrames(sp) = FramesBut(sp, p) \cup Frames(sp[p])
         /\ FramesBut(sp, p) \subseteq UsesBut(sp, ks, p)
         /\ AllFrames(sp) \subseteq AllUses(sp, ks)
  <1>1. AllUses(sp, ks) = UsesBut(sp, ks, p) \cup Uses(sp[p])
    BY DEF AllUses, UsesBut
  <1>2. AllFrames(sp) = FramesBut(sp, p) \cup Frames(sp[p])
    BY DEF AllFrames, FramesBut
  <1>3. \A q \in Procs : Frames(sp[q]) \subseteq Uses(sp[q])
    BY DEF Uses
  <1>4. FramesBut(sp, p) \subseteq UsesBut(sp, ks, p)
    BY <1>3 DEF FramesBut, UsesBut
  <1>5. QED
    BY <1>1, <1>2, <1>3, <1>4

\* f2 is f with the value v for process p.
Updates(f2, f, p, v) == f2[p] = v /\ \A q \in Procs \ {p} : f2[q] = f[q]

\* The processes are separate, and use just these pages.
Owns(sp, ks, used, frames) ==
  Separate(sp, ks) /\ AllUses(sp, ks) = used /\ AllFrames(sp) = frames

\* s can be the space of p.
Fits(s, sp, ks, p) ==
  /\ WellFormed(s) /\ Uses(s) \cap UsesBut(sp, ks, p) = {}
  /\ ks[p] = NoPage <=> s = NoSpace

\* A call starts on the space of p ...
LEMMA Enter ==
  ASSUME NEW sp, NEW ks, NEW p \in Procs, Separate(sp, ks), NEW m \in Memory, m.space = sp[p],
         Pool(m, AllUses(sp, ks), AllFrames(sp))
  PROVE  Sound(m, UsesBut(sp, ks, p), FramesBut(sp, p))
  BY Parts DEF Sound, Separate

\* ... and gives p another space.
LEMMA Replace ==
  ASSUME NEW sp \in [Procs -> Space], NEW ks, NEW p \in Procs, Separate(sp, ks),
         NEW s, Fits(s, sp, ks, p), NEW sp2, Updates(sp2, sp, p, s)
  PROVE  Owns(sp2, ks, UsesBut(sp, ks, p) \cup Uses(s), FramesBut(sp, p) \cup Frames(s))
  <1>1. sp2[p] = s /\ \A q \in Procs \ {p} : sp2[q] = sp[q]
    BY DEF Updates
  <1>2. UsesBut(sp2, ks, p) = UsesBut(sp, ks, p) /\ FramesBut(sp2, p) = FramesBut(sp, p)
    BY <1>1 DEF UsesBut, FramesBut
  <1>3. ASSUME NEW q \in Procs
        PROVE  WellFormed(sp2[q]) /\ Uses(sp2[q]) \cap UsesBut(sp2, ks, q) = {}
    <2>1. CASE q = p
      BY <1>1, <1>2, <2>1 DEF Fits
    <2>2. CASE q # p
      <3>1. Uses(sp[q]) \cap UsesBut(sp, ks, q) = {} /\ WellFormed(sp[q])
        BY DEF Separate
      <3>2. UsesBut(sp2, ks, q) \subseteq UsesBut(sp, ks, q) \cup Uses(s)
        BY <1>1 DEF UsesBut
      <3>3. Uses(sp[q]) \subseteq UsesBut(sp, ks, p)
        BY <2>2 DEF UsesBut
      <3>4. QED
        BY <1>1, <2>2, <3>1, <3>2, <3>3 DEF Fits
    <2>3. QED
      BY <2>1, <2>2
  <1>4. \A q \in Procs : ks[q] = NoPage <=> sp2[q] = NoSpace
    BY <1>1 DEF Separate, Fits
  <1>5. Separate(sp2, ks)
    BY <1>3, <1>4 DEF Separate
  <1>6. /\ AllUses(sp2, ks) = UsesBut(sp2, ks, p) \cup Uses(sp2[p])
        /\ AllFrames(sp2) = FramesBut(sp2, p) \cup Frames(sp2[p])
    BY Parts
  <1>7. QED
    BY <1>1, <1>2, <1>5, <1>6 DEF Owns

\* A process takes a free slot, with the space s and the kernel stack page k.
LEMMA Spawn ==
  ASSUME NEW sp \in [Procs -> Space], NEW ks \in [Procs -> Pages], NEW c \in Procs,
         Separate(sp, ks), sp[c] = NoSpace,
         NEW s \in Space, WellFormed(s), s.root # NoPage, Uses(s) \cap AllUses(sp, ks) = {},
         NEW k, k # NoPage, k \notin AllUses(sp, ks) \cup Uses(s),
         NEW sp2, Updates(sp2, sp, c, s), NEW ks2, Updates(ks2, ks, c, k)
  PROVE  Owns(sp2, ks2, AllUses(sp, ks) \cup Uses(s) \cup {k}, AllFrames(sp) \cup Frames(s))
  <1>1. /\ sp2[c] = s /\ ks2[c] = k
        /\ \A q \in Procs \ {c} : sp2[q] = sp[q] /\ ks2[q] = ks[q]
    BY DEF Updates
  <1>2. ks[c] = NoPage /\ s # NoSpace
    BY SMT DEF Separate, NoSpace
  <1>3. Stacks(ks2) = Stacks(ks) \cup {k}
    BY <1>1, <1>2 DEF Stacks
  <1>4. Frames(sp[c]) = {} /\ Uses(sp[c]) = {}
    <2>1. NoSpace \in Space /\ NoSpace.root = NoPage
      BY Layout DEF NoSpace, Space
    <2>2. Frames(NoSpace) = {} /\ Structure(NoSpace) = {NoSpace.root} \ {NoPage}
      BY <2>1, EmptySpace
    <2>3. QED
      BY <2>1, <2>2 DEF Uses
  <1>5. \A x : (\E q \in Procs : x \in Uses(sp2[q])) <=> x \in Uses(s) \/ \E q \in Procs : x \in Uses(sp[q])
    BY <1>1, <1>4
  <1>6. AllFrames(sp2) = AllFrames(sp) \cup Frames(s)
    BY <1>1, <1>4 DEF AllFrames
  <1>7. AllUses(sp2, ks2) = AllUses(sp, ks) \cup Uses(s) \cup {k}
    <2>1. ASSUME NEW x
          PROVE  x \in AllUses(sp2, ks2) <=> x \in AllUses(sp, ks) \/ x \in Uses(s) \/ x = k
      <3>1. x \in AllUses(sp2, ks2) <=> x \in Stacks(ks2) \/ \E q \in Procs : x \in Uses(sp2[q])
        BY Members
      <3>2. x \in AllUses(sp, ks) <=> x \in Stacks(ks) \/ \E q \in Procs : x \in Uses(sp[q])
        BY Members
      <3>3. QED
        BY <1>3, <1>5, <3>1, <3>2
    <2>2. QED
      BY <2>1
  <1>8. ASSUME NEW q \in Procs
        PROVE  WellFormed(sp2[q]) /\ Uses(sp2[q]) \cap UsesBut(sp2, ks2, q) = {}
    <2>1. CASE q = c
      <3>1. UsesBut(sp2, ks2, c) \subseteq AllUses(sp, ks) \cup {k}
        <4>1. SUFFICES ASSUME NEW x \in UsesBut(sp2, ks2, c) PROVE x \in AllUses(sp, ks) \cup {k}
          OBVIOUS
        <4>2. x \in UsesBut(sp2, ks2, c) <=>
                x \in Stacks(ks2) \/ \E q1 \in Procs \ {c} : x \in Uses(sp2[q1])
          BY Members
        <4>3. x \in AllUses(sp, ks) <=> x \in Stacks(ks) \/ \E q1 \in Procs : x \in Uses(sp[q1])
          BY Members
        <4>4. QED
          BY <1>1, <1>3, <4>1, <4>2, <4>3
      <3>2. QED
        BY <1>1, <2>1, <3>1
    <2>2. CASE q # c
      <3>1. Uses(sp[q]) \cap UsesBut(sp, ks, q) = {} /\ WellFormed(sp[q])
        BY DEF Separate
      <3>2. UsesBut(sp2, ks2, q) \subseteq UsesBut(sp, ks, q) \cup Uses(s) \cup {k}
        <4>1. SUFFICES ASSUME NEW x \in UsesBut(sp2, ks2, q)
                       PROVE  x \in UsesBut(sp, ks, q) \cup Uses(s) \cup {k}
          OBVIOUS
        <4>2. x \in UsesBut(sp2, ks2, q) <=>
                x \in Stacks(ks2) \/ \E q1 \in Procs \ {q} : x \in Uses(sp2[q1])
          BY Members
        <4>3. x \in UsesBut(sp, ks, q) <=>
                x \in Stacks(ks) \/ \E q1 \in Procs \ {q} : x \in Uses(sp[q1])
          BY Members
        <4>4. QED
          BY <1>1, <1>3, <4>1, <4>2, <4>3
      <3>3. Uses(sp[q]) \subseteq AllUses(sp, ks)
        BY DEF AllUses
      <3>4. QED
        BY <1>1, <2>2, <3>1, <3>2, <3>3
    <2>3. QED
      BY <2>1, <2>2
  <1>9. \A q \in Procs : ks2[q] = NoPage <=> sp2[q] = NoSpace
    BY <1>1, <1>2 DEF Separate
  <1>10. \A q \in Procs : k # ks[q]
    BY Members
  <1>11. \A q, u \in Procs : ks2[q] # NoPage /\ ks2[q] = ks2[u] => q = u
    BY <1>1, <1>10 DEF Separate
  <1>12. QED
    BY <1>6, <1>7, <1>8, <1>9, <1>11 DEF Separate, Owns

\* A process leaves its slot.
LEMMA Leave ==
  ASSUME NEW sp \in [Procs -> Space], NEW ks \in [Procs -> Pages], NEW p \in Procs,
         Separate(sp, ks), ks[p] # NoPage,
         NEW sp2, Updates(sp2, sp, p, NoSpace), NEW ks2, Updates(ks2, ks, p, NoPage)
  PROVE  /\ Owns(sp2, ks2, UsesBut(sp, ks, p) \ {ks[p]}, FramesBut(sp, p))
         /\ ks[p] \in UsesBut(sp, ks, p) /\ ks[p] \notin Uses(sp[p]) /\ ks[p] \notin FramesBut(sp, p)
  <1>1. /\ sp2[p] = NoSpace /\ ks2[p] = NoPage
        /\ \A q \in Procs \ {p} : sp2[q] = sp[q] /\ ks2[q] = ks[q]
    BY DEF Updates
  <1>2. Stacks(ks2) = Stacks(ks) \ {ks[p]} /\ ks[p] \in Stacks(ks)
    BY SMT, <1>1 DEF Stacks, Separate
  <1>3. Frames(NoSpace) = {} /\ Uses(NoSpace) = {} /\ WellFormed(NoSpace)
    <2>1. NoSpace \in Space /\ NoSpace.root = NoPage
      BY Layout DEF NoSpace, Space
    <2>2. Frames(NoSpace) = {} /\ Structure(NoSpace) = {NoSpace.root} \ {NoPage} /\ WellFormed(NoSpace)
      BY <2>1, EmptySpace
    <2>3. QED
      BY <2>1, <2>2 DEF Uses
  <1>4. \A q \in Procs : ks[p] \notin Uses(sp[q])
    BY <1>2, Members DEF Separate
  <1>5. \A x : (\E q \in Procs : x \in Uses(sp2[q])) <=> \E q \in Procs \ {p} : x \in Uses(sp[q])
    BY <1>1, <1>3
  <1>6. AllFrames(sp2) = FramesBut(sp, p)
    BY <1>1, <1>3 DEF AllFrames, FramesBut
  <1>7. AllUses(sp2, ks2) = UsesBut(sp, ks, p) \ {ks[p]}
    <2>1. ASSUME NEW x PROVE x \in AllUses(sp2, ks2) <=> x \in UsesBut(sp, ks, p) /\ x # ks[p]
      <3>1. x \in AllUses(sp2, ks2) <=> x \in Stacks(ks2) \/ \E q \in Procs : x \in Uses(sp2[q])
        BY Members
      <3>2. x \in UsesBut(sp, ks, p) <=> x \in Stacks(ks) \/ \E q \in Procs \ {p} : x \in Uses(sp[q])
        BY Members
      <3>3. QED
        BY <1>2, <1>4, <1>5, <3>1, <3>2
    <2>2. QED
      BY <2>1
  <1>8. ASSUME NEW q \in Procs
        PROVE  WellFormed(sp2[q]) /\ Uses(sp2[q]) \cap UsesBut(sp2, ks2, q) = {}
    <2>1. CASE q = p
      BY <1>1, <1>3, <2>1
    <2>2. CASE q # p
      <3>1. Uses(sp[q]) \cap UsesBut(sp, ks, q) = {} /\ WellFormed(sp[q])
        BY DEF Separate
      <3>2. UsesBut(sp2, ks2, q) \subseteq UsesBut(sp, ks, q)
        <4>1. SUFFICES ASSUME NEW x \in UsesBut(sp2, ks2, q) PROVE x \in UsesBut(sp, ks, q)
          OBVIOUS
        <4>2. x \in UsesBut(sp2, ks2, q) <=>
                x \in Stacks(ks2) \/ \E q1 \in Procs \ {q} : x \in Uses(sp2[q1])
          BY Members
        <4>3. x \in UsesBut(sp, ks, q) <=>
                x \in Stacks(ks) \/ \E q1 \in Procs \ {q} : x \in Uses(sp[q1])
          BY Members
        <4>4. QED
          BY <1>1, <1>2, <1>3, <4>1, <4>2, <4>3
      <3>3. QED
        BY <1>1, <2>2, <3>1, <3>2
    <2>3. QED
      BY <2>1, <2>2
  <1>9. \A q \in Procs : ks2[q] = NoPage <=> sp2[q] = NoSpace
    BY <1>1 DEF Separate
  <1>10. \A q, u \in Procs : ks2[q] # NoPage /\ ks2[q] = ks2[u] => q = u
    BY <1>1 DEF Separate
  <1>11. ks[p] \in UsesBut(sp, ks, p) /\ ks[p] \notin FramesBut(sp, p)
    BY <1>2, <1>4, Members DEF Uses
  <1>12. QED
    BY <1>4, <1>6, <1>7, <1>8, <1>9, <1>10, <1>11 DEF Separate, Owns

-----------------------------------------------------------------------------
(* The calls.                                                              *)

\* The types of the variables.
LEMMA Typed ==
  ASSUME AddrInv
  PROVE  /\ space \in [Procs -> Space] /\ kstack \in [Procs -> Pages]
         /\ brk_cur \in [Procs -> brk_base .. MMAP_AREA_BASE]
         /\ mmap_top \in [Procs -> MMAP_AREA_BASE .. MMAP_AREA_END]
         /\ shrunk \in BOOLEAN /\ oom \in BOOLEAN
  BY DEF AddrInv, AddrTypeOK

\* The record a call starts with.
LEMMA Started ==
  ASSUME AddrInv, NEW s \in Space
  PROVE  /\ Mem(s) \in Memory /\ Mem(s).space = s /\ Mem(s).ok /\ Mem(s).oom = oom
         /\ ~shrunk => Pool(Mem(s), AllUses(space, kstack), AllFrames(space))
  <1>1. /\ Mem(s) \in Memory /\ Mem(s).space = s /\ Mem(s).ok /\ Mem(s).oom = oom
        /\ Mem(s).bits = Mem(NoSpace).bits /\ Mem(s).refs = Mem(NoSpace).refs
        /\ Mem(s).oom = Mem(NoSpace).oom
    BY DEF AddrInv, AddrTypeOK, Mem, Memory
  <1>2. ASSUME ~shrunk PROVE Pool(Mem(s), AllUses(space, kstack), AllFrames(space))
    <2>1. Pool(Mem(NoSpace), AllUses(space, kstack), AllFrames(space))
      BY <1>2 DEF AddrInv
    <2>2. QED
      BY <1>1, <2>1 DEF Pool
  <1>3. QED
    BY <1>1, <1>2

\* What a call has to leave for the invariant to hold after it.
LEMMA Established ==
  ASSUME NEW m \in Memory, Commit(m),
         space' \in [Procs -> Space], kstack' \in [Procs -> Pages], shrunk' \in BOOLEAN,
         brk_cur' \in [Procs -> brk_base .. MMAP_AREA_BASE],
         mmap_top' \in [Procs -> MMAP_AREA_BASE .. MMAP_AREA_END],
         ~shrunk' => /\ Separate(space', kstack')
                     /\ Pool(m, AllUses(space', kstack'), AllFrames(space'))
                     /\ ~m.oom => \A p \in Procs : RoomAbove(space'[p], brk_cur'[p], mmap_top'[p])
  PROVE  AddrInv'
  <1>1. bitmap' = m.bits /\ refs' = m.refs /\ oom' = m.oom
    BY DEF Commit
  <1>2. brk_base .. MMAP_AREA_BASE \subseteq VAs /\ MMAP_AREA_BASE .. MMAP_AREA_END \subseteq VAs
    BY SMT, Layout DEF VAs
  <1>3. AddrTypeOK'
    BY <1>1, <1>2 DEF AddrTypeOK, Memory
  <1>4. ASSUME ~shrunk' PROVE Pool(Mem(NoSpace)', AllUses(space', kstack'), AllFrames(space'))
    <2>1. Pool(m, AllUses(space', kstack'), AllFrames(space'))
      BY <1>4
    <2>2. Mem(NoSpace)'.bits = m.bits /\ Mem(NoSpace)'.refs = m.refs /\ Mem(NoSpace)'.oom = m.oom
      BY <1>1 DEF Mem
    <2>3. QED
      BY <2>1, <2>2 DEF Pool
  <1>5. QED
    BY <1>1, <1>3, <1>4 DEF AddrInv

\* A call of process p that works on its own space.
LEMMA OwnSpace ==
  ASSUME AddrInv, NEW p \in Live, NEW m \in Memory, Commit(m),
         space' = [space EXCEPT ![p] = m.space], kstack' = kstack, shrunk' \in BOOLEAN,
         NEW b \in brk_base .. MMAP_AREA_BASE, brk_cur' = [brk_cur EXCEPT ![p] = b],
         NEW t \in MMAP_AREA_BASE .. MMAP_AREA_END, mmap_top' = [mmap_top EXCEPT ![p] = t],
         ~shrunk' => /\ ~shrunk /\ Sound(m, UsesBut(space, kstack, p), FramesBut(space, p))
                     /\ m.space.root # NoPage /\ (oom => m.oom)
                     /\ ~m.oom => RoomAbove(m.space, b, t)
  PROVE  AddrInv'
  <1>1. p \in Procs /\ space[p] # NoSpace
    BY DEF Live
  <1>2. /\ space \in [Procs -> Space] /\ kstack \in [Procs -> Pages]
        /\ brk_cur \in [Procs -> brk_base .. MMAP_AREA_BASE]
        /\ mmap_top \in [Procs -> MMAP_AREA_BASE .. MMAP_AREA_END] /\ oom \in BOOLEAN
    BY Typed
  <1>3. m.space \in Space
    BY DEF Memory
  <1>4. /\ space' \in [Procs -> Space] /\ kstack' \in [Procs -> Pages]
        /\ brk_cur' \in [Procs -> brk_base .. MMAP_AREA_BASE]
        /\ mmap_top' \in [Procs -> MMAP_AREA_BASE .. MMAP_AREA_END]
    BY <1>2, <1>3
  <1>5. ASSUME ~shrunk'
        PROVE  /\ Separate(space', kstack')
               /\ Pool(m, AllUses(space', kstack'), AllFrames(space'))
               /\ ~m.oom => \A q \in Procs : RoomAbove(space'[q], brk_cur'[q], mmap_top'[q])
    <2>1. /\ ~shrunk /\ Sound(m, UsesBut(space, kstack, p), FramesBut(space, p))
          /\ m.space.root # NoPage /\ (oom => m.oom) /\ (~m.oom => RoomAbove(m.space, b, t))
      BY <1>5
    <2>2. Separate(space, kstack)
      BY <2>1 DEF AddrInv
    <2>3. Fits(m.space, space, kstack, p)
      <3>1. WellFormed(m.space) /\ Uses(m.space) \cap UsesBut(space, kstack, p) = {}
        BY <2>1 DEF Sound
      <3>2. kstack[p] # NoPage
        BY <1>1, <2>2 DEF Separate
      <3>3. m.space # NoSpace
        BY SMT, <2>1 DEF NoSpace
      <3>4. QED
        BY <3>1, <3>2, <3>3 DEF Fits
    <2>4. Updates(space', space, p, m.space)
      BY <1>1, <1>2 DEF Updates
    <2>5. Owns(space', kstack, UsesBut(space, kstack, p) \cup Uses(m.space),
               FramesBut(space, p) \cup Frames(m.space))
      BY <1>1, <1>2, <2>2, <2>3, <2>4, Replace
    <2>6. Separate(space', kstack') /\ Pool(m, AllUses(space', kstack'), AllFrames(space'))
      BY <2>1, <2>5 DEF Sound, Owns
    <2>7. ASSUME ~m.oom, NEW q \in Procs PROVE RoomAbove(space'[q], brk_cur'[q], mmap_top'[q])
      <3>1. CASE q = p
        BY <1>2, <2>1, <2>7, <3>1
      <3>2. CASE q # p
        <4>1. RoomAbove(space[q], brk_cur[q], mmap_top[q])
          BY <1>2, <2>1, <2>7 DEF AddrInv
        <4>2. space'[q] = space[q] /\ brk_cur'[q] = brk_cur[q] /\ mmap_top'[q] = mmap_top[q]
          BY <1>2, <3>2
        <4>3. QED
          BY <4>1, <4>2
      <3>3. QED
        BY <3>1, <3>2
    <2>8. QED
      BY <2>6, <2>7
  <1>6. QED
    BY <1>4, <1>5, Established

\* The record on which a live process's call starts.
LEMMA Ready ==
  ASSUME AddrInv, NEW p \in Live
  PROVE  /\ Mem(space[p]) \in Memory /\ Mem(space[p]).space = space[p]
         /\ Mem(space[p]).ok /\ Mem(space[p]).oom = oom
         /\ ~shrunk => /\ Sound(Mem(space[p]), UsesBut(space, kstack, p), FramesBut(space, p))
                       /\ space[p].root # NoPage
                       /\ ~oom => RoomAbove(space[p], brk_cur[p], mmap_top[p])
  <1>1. p \in Procs /\ space[p] # NoSpace /\ space[p] \in Space
    BY Typed DEF Live
  <1>2. /\ Mem(space[p]) \in Memory /\ Mem(space[p]).space = space[p]
        /\ Mem(space[p]).ok /\ Mem(space[p]).oom = oom
        /\ ~shrunk => Pool(Mem(space[p]), AllUses(space, kstack), AllFrames(space))
    BY <1>1, Started
  <1>3. ASSUME ~shrunk
        PROVE  /\ Sound(Mem(space[p]), UsesBut(space, kstack, p), FramesBut(space, p))
               /\ space[p].root # NoPage
               /\ ~oom => RoomAbove(space[p], brk_cur[p], mmap_top[p])
    <2>1. Separate(space, kstack) /\ (~oom => RoomAbove(space[p], brk_cur[p], mmap_top[p]))
      BY <1>1, <1>3 DEF AddrInv
    <2>2. Sound(Mem(space[p]), UsesBut(space, kstack, p), FramesBut(space, p))
      BY <1>1, <1>2, <1>3, <2>1, Enter
    <2>3. space[p].root # NoPage
      BY <1>1, <2>1 DEF Separate, WellFormed
    <2>4. QED
      BY <2>1, <2>2, <2>3
  <1>4. QED
    BY <1>2, <1>3

\* A function updated with the value it has.
LEMMA Unmoved ==
  ASSUME AddrInv, NEW p \in Live
  PROVE  /\ brk_cur = [brk_cur EXCEPT ![p] = brk_cur[p]] /\ brk_cur[p] \in brk_base .. MMAP_AREA_BASE
         /\ mmap_top = [mmap_top EXCEPT ![p] = mmap_top[p]]
         /\ mmap_top[p] \in MMAP_AREA_BASE .. MMAP_AREA_END
  BY Typed DEF Live

\* sys_mmap preserves AddrInv.
LEMMA MmapStep ==
  ASSUME AddrInv, NEW p \in Live, sys_mmap(p)
  PROVE  AddrInv'
  <1> DEFINE m0 == Mem(space[p])
             base == mmap_top[p]
             m(len) == map_zeroed_range(m0, base, base + len)
             top(len) == IF m(len).ok THEN base + len ELSE base
  <1>1. PICK len \in 1 .. MmapPages :
          /\ base + len <= MMAP_AREA_END /\ Commit(m(len))
          /\ space' = [space EXCEPT ![p] = m(len).space]
          /\ mmap_top' = [mmap_top EXCEPT ![p] = top(len)]
          /\ kstack' = kstack /\ brk_cur' = brk_cur /\ shrunk' = shrunk
    BY DEF sys_mmap
  <1> DEFINE r == m(len)
             b == brk_cur[p]
             t == IF r.ok THEN base + len ELSE base
  <1>2. /\ brk_cur' = [brk_cur EXCEPT ![p] = b] /\ b \in brk_base .. MMAP_AREA_BASE
        /\ base \in MMAP_AREA_BASE .. MMAP_AREA_END
    BY <1>1, Unmoved
  <1>3. /\ base \in Nat /\ base + len \in Nat /\ base <= base + len /\ base + len <= USER_STACK_TOP
        /\ t \in MMAP_AREA_BASE .. MMAP_AREA_END
    BY SMT, <1>1, <1>2, Layout
  <1>4. m0 \in Memory /\ m0.space = space[p] /\ m0.ok /\ m0.oom = oom
    BY Ready
  <1> HIDE DEF m0
  <1>5. r \in Memory
    BY <1>3, <1>4, LoopsTyped
  <1>6. ASSUME ~shrunk'
        PROVE  /\ ~shrunk /\ Sound(r, UsesBut(space, kstack, p), FramesBut(space, p))
               /\ r.space.root # NoPage /\ (oom => r.oom)
               /\ ~r.oom => RoomAbove(r.space, b, t)
    <2> DEFINE o == UsesBut(space, kstack, p)
               of == FramesBut(space, p)
    <2>1. /\ ~shrunk /\ Sound(m0, o, of) /\ space[p].root # NoPage
          /\ ~oom => RoomAbove(space[p], b, base)
      BY <1>1, <1>6, Ready DEF m0
    <2>2. m0.oom \/ \A va \in base .. (base + len) - 1 : m0.space.pte[va] = NoPage
      BY SMT, <1>1, <1>2, <1>3, <1>4, <2>1, Layout DEF RoomAbove
    <2> HIDE DEF o, of
    <2>3. Extends(r, m0, base, base + len, o, of)
      BY <1>3, <1>4, <2>1, <2>2, ZeroedSound
    <2> HIDE DEF r
    <2>4. /\ Sound(r, o, of) /\ r.space.root # NoPage /\ (oom => r.oom) /\ (~r.oom => r.ok)
          /\ \A u \in VAs : u \notin base .. (base + len) - 1 => r.space.pte[u] = space[p].pte[u]
      BY <1>4, <2>1, <2>3 DEF Extends
    <2>5. ASSUME ~r.oom PROVE RoomAbove(r.space, b, base + len)
      <3>1. RoomAbove(space[p], b, base)
        BY <2>1, <2>4, <2>5
      <3>2. /\ \A va \in b .. MMAP_AREA_BASE - 1 : va \in VAs /\ va \notin base .. (base + len) - 1
            /\ \A va \in base + len .. MMAP_AREA_END - 1 :
                 va \in VAs /\ va \notin base .. (base + len) - 1 /\ va \in base .. MMAP_AREA_END - 1
        BY SMT, <1>1, <1>2, <1>3, Layout DEF VAs
      <3>3. QED
        BY <2>4, <3>1, <3>2 DEF RoomAbove
    <2>6. ~r.oom => RoomAbove(r.space, b, t)
      BY <2>4, <2>5
    <2> HIDE DEF t
    <2>7. QED
      BY <2>1, <2>4, <2>6 DEF o, of
  <1>7. QED
    <2>1. /\ Commit(r) /\ space' = [space EXCEPT ![p] = r.space] /\ kstack' = kstack
          /\ shrunk' \in BOOLEAN /\ mmap_top' = [mmap_top EXCEPT ![p] = t]
      BY <1>1, Typed
    <2> HIDE DEF r, t
    <2>2. QED
      BY <1>2, <1>3, <1>5, <1>6, <2>1, OwnSpace

\* sys_munmap preserves AddrInv.
LEMMA MunmapStep ==
  ASSUME AddrInv, NEW p \in Live, sys_munmap(p)
  PROVE  AddrInv'
  <1> DEFINE m0 == Mem(space[p])
             m(from, len) == For(UnmapVa, m0, from, from + len)
             b == brk_cur[p]
             t == mmap_top[p]
  <1>1. PICK from \in VAs, len \in 1 .. MaxUnmap :
          /\ from + len <= USER_STACK_TOP /\ Commit(m(from, len))
          /\ space' = [space EXCEPT ![p] = m(from, len).space]
          /\ kstack' = kstack /\ brk_cur' = brk_cur /\ mmap_top' = mmap_top /\ shrunk' = shrunk
    BY DEF sys_munmap
  <1> DEFINE r == m(from, len)
  <1>2. /\ brk_cur' = [brk_cur EXCEPT ![p] = b] /\ b \in brk_base .. MMAP_AREA_BASE
        /\ mmap_top' = [mmap_top EXCEPT ![p] = t] /\ t \in MMAP_AREA_BASE .. MMAP_AREA_END
    BY <1>1, Unmoved
  <1>3. from \in Nat /\ from + len \in Nat /\ from <= from + len /\ from + len <= USER_STACK_TOP
    BY SMT, <1>1, AddrAssumption DEF VAs
  <1>4. m0 \in Memory /\ m0.space = space[p] /\ m0.oom = oom
    BY Ready
  <1> HIDE DEF m0
  <1>5. r \in Memory
    BY <1>3, <1>4, LoopsTyped
  <1>6. ASSUME ~shrunk'
        PROVE  /\ ~shrunk /\ Sound(r, UsesBut(space, kstack, p), FramesBut(space, p))
               /\ r.space.root # NoPage /\ (oom => r.oom)
               /\ ~r.oom => RoomAbove(r.space, b, t)
    <2> DEFINE o == UsesBut(space, kstack, p)
               of == FramesBut(space, p)
    <2>1. /\ ~shrunk /\ Sound(m0, o, of) /\ space[p].root # NoPage
          /\ ~oom => RoomAbove(space[p], b, t)
      BY <1>1, <1>6, Ready DEF m0
    <2> HIDE DEF o, of
    <2>2. Shrinks(r, m0, o, of)
      BY <1>3, <1>4, <2>1, UnmapSound
    <2> HIDE DEF r
    <2>3. /\ Sound(r, o, of) /\ r.space.root # NoPage /\ r.oom = oom
          /\ \A u \in VAs : r.space.pte[u] \in {space[p].pte[u], NoPage}
      BY <1>4, <2>1, <2>2 DEF Shrinks
    <2>4. b .. MMAP_AREA_BASE - 1 \subseteq VAs /\ t .. MMAP_AREA_END - 1 \subseteq VAs
      BY SMT, <1>2, Layout DEF VAs
    <2>5. ~r.oom => RoomAbove(r.space, b, t)
      BY <2>1, <2>3, <2>4 DEF RoomAbove
    <2>6. QED
      BY <2>1, <2>3, <2>5 DEF o, of
  <1>7. QED
    <2>1. /\ Commit(r) /\ space' = [space EXCEPT ![p] = r.space] /\ kstack' = kstack
          /\ shrunk' \in BOOLEAN
      BY <1>1, Typed
    <2> HIDE DEF r, b, t
    <2>2. QED
      BY <1>2, <1>5, <1>6, <2>1, OwnSpace

\* A page fault (stack growth or not) preserves AddrInv.
LEMMA FaultStep ==
  ASSUME AddrInv, NEW p \in Live, pmap_handle_fault(p)
  PROVE  AddrInv'
  <1> DEFINE m0 == Mem(space[p])
             b == brk_cur[p]
             t == mmap_top[p]
  <1>1. PICK va \in MMAP_AREA_END .. USER_STACK_TOP - 1 :
          /\ space[p].pte[va] = NoPage /\ Commit(MapNew(m0, va))
          /\ space' = [space EXCEPT ![p] = MapNew(m0, va).space]
          /\ kstack' = kstack /\ brk_cur' = brk_cur /\ mmap_top' = mmap_top /\ shrunk' = shrunk
    BY DEF pmap_handle_fault
  <1> DEFINE r == MapNew(m0, va)
  <1>2. /\ brk_cur' = [brk_cur EXCEPT ![p] = b] /\ b \in brk_base .. MMAP_AREA_BASE
        /\ mmap_top' = [mmap_top EXCEPT ![p] = t] /\ t \in MMAP_AREA_BASE .. MMAP_AREA_END
    BY <1>1, Unmoved
  <1>3. va \in VAs
    BY SMT, Layout DEF VAs
  <1>4. m0 \in Memory /\ m0.space = space[p] /\ m0.oom = oom
    BY Ready
  <1> HIDE DEF m0
  <1>5. r \in Memory
    BY <1>3, <1>4, NewTyped
  <1>6. ASSUME ~shrunk'
        PROVE  /\ ~shrunk /\ Sound(r, UsesBut(space, kstack, p), FramesBut(space, p))
               /\ r.space.root # NoPage /\ (oom => r.oom)
               /\ ~r.oom => RoomAbove(r.space, b, t)
    <2> DEFINE o == UsesBut(space, kstack, p)
               of == FramesBut(space, p)
    <2>1. /\ ~shrunk /\ Sound(m0, o, of) /\ space[p].root # NoPage
          /\ ~oom => RoomAbove(space[p], b, t)
      BY <1>1, <1>6, Ready DEF m0
    <2> HIDE DEF o, of
    <2>2. Iterates(r, m0, va, o, of)
      BY <1>1, <1>3, <1>4, <2>1, NewSound
    <2> HIDE DEF r
    <2>3. /\ Sound(r, o, of) /\ r.space.root # NoPage /\ (oom => r.oom)
          /\ \A u \in VAs : u # va => r.space.pte[u] = space[p].pte[u]
      BY <1>4, <2>1, <2>2 DEF Iterates, OnlyAt
    <2>4. /\ \A u \in b .. MMAP_AREA_BASE - 1 : u \in VAs /\ u # va
          /\ \A u \in t .. MMAP_AREA_END - 1 : u \in VAs /\ u # va
      BY SMT, <1>2, Layout DEF VAs
    <2>5. ~r.oom => RoomAbove(r.space, b, t)
      BY <2>1, <2>3, <2>4 DEF RoomAbove
    <2>6. QED
      BY <2>1, <2>3, <2>5 DEF o, of
  <1>7. QED
    <2>1. /\ Commit(r) /\ space' = [space EXCEPT ![p] = r.space] /\ kstack' = kstack
          /\ shrunk' \in BOOLEAN
      BY <1>1, Typed
    <2> HIDE DEF r, b, t
    <2>2. QED
      BY <1>2, <1>5, <1>6, <2>1, OwnSpace

\* The break: raised, left where it is, or lowered, after which only the types
\* are claimed.
LEMMA BrkStep ==
  ASSUME AddrInv, NEW p \in Live, sys_brk(p)
  PROVE  AddrInv'
  <1> DEFINE m0 == Mem(space[p])
             old == brk_cur[p]
             m(top) == IF top > old THEN map_zeroed_range(m0, old, top)
                       ELSE For(ReleaseVa, m0, top, old)
             t == mmap_top[p]
  <1>1. PICK top \in brk_base .. MMAP_AREA_BASE :
          /\ Commit(m(top)) /\ space' = [space EXCEPT ![p] = m(top).space]
          /\ brk_cur' = [brk_cur EXCEPT ![p] = top] /\ shrunk' = (shrunk \/ top < old)
          /\ kstack' = kstack /\ mmap_top' = mmap_top
    BY DEF sys_brk
  <1> DEFINE r == m(top)
  <1>2. /\ old \in brk_base .. MMAP_AREA_BASE
        /\ mmap_top' = [mmap_top EXCEPT ![p] = t] /\ t \in MMAP_AREA_BASE .. MMAP_AREA_END
    BY <1>1, Unmoved
  <1>3. top \in Nat /\ old \in Nat /\ top <= USER_STACK_TOP /\ old <= USER_STACK_TOP
    BY SMT, <1>2, Layout
  <1>4. m0 \in Memory /\ m0.space = space[p] /\ m0.ok /\ m0.oom = oom
    BY Ready
  <1> HIDE DEF m0
  <1>5. r \in Memory
    <2>1. CASE top > old
      BY SMT, <1>3, <1>4, <2>1, LoopsTyped
    <2>2. CASE ~(top > old)
      BY SMT, <1>3, <1>4, <2>2, LoopsTyped
    <2>3. QED
      BY <2>1, <2>2
  <1>6. ASSUME ~shrunk'
        PROVE  /\ ~shrunk /\ Sound(r, UsesBut(space, kstack, p), FramesBut(space, p))
               /\ r.space.root # NoPage /\ (oom => r.oom)
               /\ ~r.oom => RoomAbove(r.space, top, t)
    <2> DEFINE o == UsesBut(space, kstack, p)
               of == FramesBut(space, p)
    <2>1. /\ ~shrunk /\ ~(top < old) /\ Sound(m0, o, of) /\ space[p].root # NoPage
          /\ ~oom => RoomAbove(space[p], old, t)
      BY <1>1, <1>6, Ready DEF m0
    <2>2. CASE top = old
      <3>1. r = m0
        BY SMT, <1>3, <2>2 DEF For
      <3>2. QED
        BY <1>4, <2>1, <2>2, <3>1
    <2>3. CASE top > old
      <3>1. m0.oom \/ \A va \in old .. top - 1 : m0.space.pte[va] = NoPage
        BY SMT, <1>2, <1>3, <1>4, <2>1, Layout DEF RoomAbove
      <3>2. r = map_zeroed_range(m0, old, top)
        BY <2>3
      <3> HIDE DEF o, of, r
      <3>3. Extends(r, m0, old, top, o, of)
        <4>1. old <= top
          BY SMT, <1>3, <2>3
        <4>2. QED
          BY <1>3, <1>4, <2>1, <3>1, <3>2, <4>1, ZeroedSound
      <3>4. /\ Sound(r, o, of) /\ r.space.root # NoPage /\ (oom => r.oom)
            /\ \A u \in VAs : u \notin old .. top - 1 => r.space.pte[u] = space[p].pte[u]
        BY <1>4, <2>1, <3>3 DEF Extends
      <3>5. /\ \A va \in top .. MMAP_AREA_BASE - 1 :
                 va \in VAs /\ va \notin old .. top - 1 /\ va \in old .. MMAP_AREA_BASE - 1
            /\ \A va \in t .. MMAP_AREA_END - 1 : va \in VAs /\ va \notin old .. top - 1
        BY SMT, <1>2, <1>3, <2>3, Layout DEF VAs
      <3>6. ~r.oom => RoomAbove(r.space, top, t)
        BY <2>1, <3>4, <3>5 DEF RoomAbove
      <3>7. QED
        BY <2>1, <3>4, <3>6 DEF o, of
    <2>4. top < old \/ top = old \/ top > old
      BY SMT, <1>3
    <2>5. QED
      BY <2>1, <2>2, <2>3, <2>4
  <1>7. QED
    <2>1. /\ Commit(r) /\ space' = [space EXCEPT ![p] = r.space] /\ kstack' = kstack
          /\ shrunk' \in BOOLEAN
      BY <1>1, Typed
    <2> HIDE DEF r, t
    <2>2. QED
      BY <1>1, <1>2, <1>5, <1>6, <2>1, OwnSpace

\* A call that fails after it has changed the memory at most.
LEMMA SameOwners ==
  ASSUME AddrInv, NEW m \in Memory, Commit(m), space' = space, kstack' = kstack,
         brk_cur' = brk_cur, mmap_top' = mmap_top, shrunk' = shrunk,
         ~shrunk => Pool(m, AllUses(space, kstack), AllFrames(space)) /\ (oom => m.oom)
  PROVE  AddrInv'
  <1>1. ASSUME ~shrunk'
        PROVE  /\ Separate(space', kstack')
               /\ Pool(m, AllUses(space', kstack'), AllFrames(space'))
               /\ ~m.oom => \A q \in Procs : RoomAbove(space'[q], brk_cur'[q], mmap_top'[q])
    BY <1>1 DEF AddrInv
  <1>2. QED
    BY <1>1, Typed, Established

\* A memory record without a space, beside all processes.
LEMMA Alone ==
  ASSUME AddrInv
  PROVE  /\ Mem(NoSpace) \in Memory /\ Mem(NoSpace).space = NoSpace
         /\ Mem(NoSpace).ok /\ Mem(NoSpace).oom = oom
         /\ ~shrunk => Sound(Mem(NoSpace), AllUses(space, kstack), AllFrames(space))
  <1>1. NoSpace \in Space
    BY Layout DEF NoSpace, Space
  <1>2. /\ Mem(NoSpace) \in Memory /\ Mem(NoSpace).space = NoSpace
        /\ Mem(NoSpace).ok /\ Mem(NoSpace).oom = oom
        /\ ~shrunk => Pool(Mem(NoSpace), AllUses(space, kstack), AllFrames(space))
    BY <1>1, Started
  <1>3. AllFrames(space) \subseteq AllUses(space, kstack)
    BY Parts, AddrAssumption
  <1>4. QED
    BY <1>2, <1>3, SoundAlone

\* What a space that is given up leaves is lost, after a failure.
LEMMA Abandon ==
  ASSUME NEW m, NEW o, NEW of, Sound(m, o, of), m.oom
  PROVE  Pool(m, o, of)
  <1>1. /\ m \in Memory /\ of \subseteq o /\ Uses(m.space) \cap o = {}
        /\ Pool(m, o \cup Uses(m.space), of \cup Frames(m.space))
    BY DEF Sound
  <1>2. Frames(m.space) \subseteq Uses(m.space)
    BY DEF Uses
  <1>3. (o \cup Uses(m.space)) \ Uses(m.space) = o /\ (of \cup Frames(m.space)) \ Uses(m.space) = of
    BY <1>1, <1>2
  <1>4. Pool(m, (o \cup Uses(m.space)) \ Uses(m.space), (of \cup Frames(m.space)) \ Uses(m.space))
    BY <1>1, PoolLose
  <1>5. QED
    BY <1>3, <1>4

\* sys_fork preserves AddrInv, whichever allocation fails.
LEMMA ForkStep ==
  ASSUME AddrInv, NEW p \in Live, sys_fork(p)
  PROVE  AddrInv'
  <1> DEFINE m == pmap_fork(Mem(NoSpace), space[p])
             stack == Claim(m)
             k == NextPage(m)
             o == AllUses(space, kstack)
             of == AllFrames(space)
             end == IF ~m.ok THEN m ELSE pmap_destroy(IF Live = Procs THEN m ELSE stack)
  <1>1. shrunk' = shrunk /\ p \in Procs
    BY DEF sys_fork, Live
  <1>2. \/ /\ m.ok /\ k # NoPage
           /\ \E c \in Procs \ Live :
                /\ Commit(stack) /\ space' = [space EXCEPT ![c] = stack.space]
                /\ kstack' = [kstack EXCEPT ![c] = k]
                /\ brk_cur' = [brk_cur EXCEPT ![c] = brk_cur[p]]
                /\ mmap_top' = [mmap_top EXCEPT ![c] = mmap_top[p]]
        \/ /\ ~(m.ok /\ Live # Procs /\ k # NoPage) /\ Commit(end)
           /\ space' = space /\ kstack' = kstack /\ brk_cur' = brk_cur /\ mmap_top' = mmap_top
    BY DEF sys_fork
  <1>3. m \in Memory
    BY Alone, SpacesTyped
  <1>4. ~shrunk => /\ Sound(m, o, of) /\ (oom => m.oom) /\ (~m.ok => m.oom)
                   /\ m.ok => m.space.root # NoPage
                   /\ \A va \in VAs : space[p].pte[va] = NoPage => m.space.pte[va] = NoPage
    BY SMT, Alone, ForkSound
  <1> HIDE DEF m
  <1>5. /\ stack \in Memory /\ stack.space = m.space /\ k \in Pages
        /\ stack.oom <=> m.oom \/ k = NoPage
    BY <1>3, ClaimFacts, NextPageFacts
  <1> HIDE DEF stack, k, o, of
  <1>6. CASE /\ m.ok /\ k # NoPage
             /\ \E c \in Procs \ Live :
                  /\ Commit(stack) /\ space' = [space EXCEPT ![c] = stack.space]
                  /\ kstack' = [kstack EXCEPT ![c] = k]
                  /\ brk_cur' = [brk_cur EXCEPT ![c] = brk_cur[p]]
                  /\ mmap_top' = [mmap_top EXCEPT ![c] = mmap_top[p]]
    <2>1. PICK c \in Procs \ Live :
                  /\ Commit(stack) /\ space' = [space EXCEPT ![c] = stack.space]
                  /\ kstack' = [kstack EXCEPT ![c] = k]
                  /\ brk_cur' = [brk_cur EXCEPT ![c] = brk_cur[p]]
                  /\ mmap_top' = [mmap_top EXCEPT ![c] = mmap_top[p]]
      BY <1>6
    <2>2. /\ space \in [Procs -> Space] /\ kstack \in [Procs -> Pages]
          /\ brk_cur \in [Procs -> brk_base .. MMAP_AREA_BASE]
          /\ mmap_top \in [Procs -> MMAP_AREA_BASE .. MMAP_AREA_END] /\ oom \in BOOLEAN
          /\ shrunk \in BOOLEAN
      BY Typed
    <2>3. m.space \in Space /\ space[c] = NoSpace
      BY <1>3 DEF Memory, Live
    <2>4. /\ space' \in [Procs -> Space] /\ kstack' \in [Procs -> Pages]
          /\ brk_cur' \in [Procs -> brk_base .. MMAP_AREA_BASE]
          /\ mmap_top' \in [Procs -> MMAP_AREA_BASE .. MMAP_AREA_END] /\ shrunk' \in BOOLEAN
      BY <1>1, <1>5, <2>1, <2>2, <2>3
    <2>5. ASSUME ~shrunk'
          PROVE  /\ Separate(space', kstack')
                 /\ Pool(stack, AllUses(space', kstack'), AllFrames(space'))
                 /\ ~stack.oom => \A q \in Procs : RoomAbove(space'[q], brk_cur'[q], mmap_top'[q])
      <3>1. /\ Sound(m, o, of) /\ (oom => m.oom) /\ m.space.root # NoPage
            /\ \A va \in VAs : space[p].pte[va] = NoPage => m.space.pte[va] = NoPage
        BY <1>1, <1>4, <1>6, <2>5
      <3>2. Separate(space, kstack)
        BY <1>1, <2>5 DEF AddrInv
      <3>3. /\ WellFormed(m.space) /\ Uses(m.space) \cap o = {}
            /\ Pool(m, o \cup Uses(m.space), of \cup Frames(m.space))
        BY <3>1 DEF Sound
      <3>4. /\ k \notin o \cup Uses(m.space)
            /\ Pool(stack, o \cup Uses(m.space) \cup {k}, of \cup Frames(m.space))
        BY <1>3, <1>6, <3>3, PoolClaim DEF stack, k
      <3>5. Updates(space', space, c, m.space) /\ Updates(kstack', kstack, c, k)
        BY <1>5, <2>1, <2>2 DEF Updates
      <3>6. Owns(space', kstack', o \cup Uses(m.space) \cup {k}, of \cup Frames(m.space))
        BY <1>6, <2>2, <2>3, <3>1, <3>2, <3>3, <3>4, <3>5, Spawn DEF o, of
      <3>7. ASSUME ~stack.oom, NEW q \in Procs
            PROVE  RoomAbove(space'[q], brk_cur'[q], mmap_top'[q])
        <4>1. \A u \in Procs : RoomAbove(space[u], brk_cur[u], mmap_top[u])
          BY <1>1, <1>5, <2>5, <3>1, <3>7 DEF AddrInv
        <4>2. CASE q = c
          <5>1. space'[q] = m.space /\ brk_cur'[q] = brk_cur[p] /\ mmap_top'[q] = mmap_top[p]
            BY <1>5, <2>1, <2>2, <4>2
          <5>2. RoomAbove(space[p], brk_cur[p], mmap_top[p])
            BY <1>1, <4>1
          <5>3. /\ brk_cur[p] \in brk_base .. MMAP_AREA_BASE
                /\ mmap_top[p] \in MMAP_AREA_BASE .. MMAP_AREA_END
            BY <1>1, <2>2
          <5>4. /\ brk_cur[p] .. MMAP_AREA_BASE - 1 \subseteq VAs
                /\ mmap_top[p] .. MMAP_AREA_END - 1 \subseteq VAs
            BY SMT, <5>3, Layout DEF VAs
          <5>5. QED
            BY <3>1, <5>1, <5>2, <5>4 DEF RoomAbove
        <4>3. CASE q # c
          <5>1. space'[q] = space[q] /\ brk_cur'[q] = brk_cur[q] /\ mmap_top'[q] = mmap_top[q]
            BY <2>1, <2>2, <4>3
          <5>2. QED
            BY <4>1, <5>1
        <4>4. QED
          BY <4>2, <4>3
      <3>8. QED
        BY <3>4, <3>6, <3>7 DEF Owns
    <2>6. QED
      BY <1>5, <2>1, <2>4, <2>5, Established
  <1>7. CASE /\ ~(m.ok /\ Live # Procs /\ k # NoPage) /\ Commit(end)
             /\ space' = space /\ kstack' = kstack /\ brk_cur' = brk_cur /\ mmap_top' = mmap_top
    <2>1. end \in Memory
      BY <1>3, <1>5, SpacesTyped
    <2>2. ASSUME ~shrunk PROVE Pool(end, o, of) /\ (oom => end.oom)
      <3>1. /\ Sound(m, o, of) /\ (oom => m.oom) /\ (~m.ok => m.oom)
            /\ m.ok => m.space.root # NoPage
        BY <1>4, <2>2
      <3>2. CASE ~m.ok
        <4>1. end = m
          BY <3>2
        <4>2. QED
          BY <3>1, <3>2, <4>1, Abandon
      <3>3. CASE m.ok /\ Live = Procs
        <4>1. end = pmap_destroy(m)
          BY <3>3
        <4> HIDE DEF end
        <4>2. end.oom = m.oom /\ Pool(end, o, of)
          BY <3>1, <3>3, <4>1, DestroySound
        <4>3. QED
          BY <3>1, <4>2
      <3>4. CASE m.ok /\ Live # Procs
        <4>1. end = pmap_destroy(stack) /\ k = NoPage
          BY <1>7, <3>4
        <4> HIDE DEF end
        <4>2. Sound(stack, o, of)
          <5>1. Pool(stack, o \cup Uses(m.space), of \cup Frames(m.space))
            BY <1>3, <3>1, <4>1, PoolEmpty DEF Sound, stack, k
          <5>2. QED
            BY <1>5, <3>1, <5>1 DEF Sound
        <4>3. end.oom = stack.oom /\ Pool(end, o, of)
          BY <1>5, <3>1, <3>4, <4>1, <4>2, DestroySound
        <4>4. QED
          BY <1>5, <4>1, <4>3
      <3>5. QED
        BY <3>2, <3>3, <3>4
    <2> HIDE DEF end
    <2>3. QED
      BY <1>1, <1>7, <2>1, <2>2, SameOwners DEF o, of
  <1>8. QED
    BY <1>2, <1>6, <1>7

\* The record on which execve destroys the old space: the new one belongs to
\* the pages of the others.
LEMMA OldSpace ==
  ASSUME NEW sp, NEW ks, NEW p \in Procs, Separate(sp, ks), sp[p] \in Space,
         NEW new, Sound(new, AllUses(sp, ks), AllFrames(sp)),
         NEW x, x = [new EXCEPT !.space = sp[p]]
  PROVE  /\ Sound(x, UsesBut(sp, ks, p) \cup Uses(new.space), FramesBut(sp, p) \cup Frames(new.space))
         /\ x \in Memory /\ x.space = sp[p] /\ x.oom = new.oom
  <1> DEFINE s == new.space
             o == UsesBut(sp, ks, p)
             of == FramesBut(sp, p)
  <1>1. /\ new \in Memory /\ Uses(s) \cap AllUses(sp, ks) = {}
        /\ Pool(new, AllUses(sp, ks) \cup Uses(s), AllFrames(sp) \cup Frames(s))
    BY DEF Sound
  <1>2. /\ x \in Memory /\ x.space = sp[p] /\ x.bits = new.bits /\ x.refs = new.refs
        /\ x.oom = new.oom
    BY <1>1 DEF Memory
  <1>3. /\ AllUses(sp, ks) = o \cup Uses(sp[p]) /\ AllFrames(sp) = of \cup Frames(sp[p])
        /\ of \subseteq o
    BY Parts
  <1>4. WellFormed(sp[p]) /\ Uses(sp[p]) \cap o = {}
    BY DEF Separate
  <1>5. Frames(s) \subseteq Uses(s)
    BY DEF Uses
  <1> HIDE DEF o, of
  <1>6. Uses(sp[p]) \cap (o \cup Uses(s)) = {} /\ of \cup Frames(s) \subseteq o \cup Uses(s)
    BY <1>1, <1>3, <1>4, <1>5
  <1>7. /\ AllUses(sp, ks) \cup Uses(s) = (o \cup Uses(s)) \cup Uses(sp[p])
        /\ AllFrames(sp) \cup Frames(s) = (of \cup Frames(s)) \cup Frames(sp[p])
    BY <1>3
  <1>8. Pool(new, (o \cup Uses(s)) \cup Uses(sp[p]), (of \cup Frames(s)) \cup Frames(sp[p]))
    BY <1>1, <1>7
  <1>9. Pool(x, (o \cup Uses(s)) \cup Uses(sp[p]), (of \cup Frames(s)) \cup Frames(sp[p]))
    BY <1>2, <1>8 DEF Pool
  <1>10. QED
    BY <1>2, <1>4, <1>6, <1>9 DEF Sound, o, of

\* execve preserves AddrInv, whether or not the new image can be built.
LEMMA ExecStep ==
  ASSUME AddrInv, NEW p \in Live, sys_execve(p)
  PROVE  AddrInv'
  <1> DEFINE new == exec_build_image(Mem(NoSpace))
             x == [new EXCEPT !.space = space[p]]
             r == pmap_destroy(x)
             o == AllUses(space, kstack)
             of == AllFrames(space)
  <1>1. kstack' = kstack /\ shrunk' = shrunk /\ p \in Procs /\ space[p] # NoSpace
    BY DEF sys_execve, Live
  <1>2. \/ /\ new.ok /\ Commit(r) /\ space' = [space EXCEPT ![p] = new.space]
           /\ brk_cur' = [brk_cur EXCEPT ![p] = brk_base]
           /\ mmap_top' = [mmap_top EXCEPT ![p] = MMAP_AREA_BASE]
        \/ /\ ~new.ok /\ Commit(new)
           /\ space' = space /\ brk_cur' = brk_cur /\ mmap_top' = mmap_top
    BY DEF sys_execve
  <1>3. new \in Memory
    BY Alone, ExecTyped
  <1>4. ~shrunk => /\ Sound(new, o, of) /\ (oom => new.oom) /\ (~new.ok => new.space = NoSpace)
                   /\ new.ok => /\ new.space.root # NoPage
                                /\ \A va \in ImagePages .. StackBase - 1 : new.space.pte[va] = NoPage
    BY SMT, Alone, ExecSound
  <1> HIDE DEF new
  <1>5. /\ space \in [Procs -> Space] /\ kstack \in [Procs -> Pages]
        /\ brk_cur \in [Procs -> brk_base .. MMAP_AREA_BASE]
        /\ mmap_top \in [Procs -> MMAP_AREA_BASE .. MMAP_AREA_END]
        /\ oom \in BOOLEAN /\ shrunk \in BOOLEAN /\ space[p] \in Space
    BY <1>1, Typed
  <1>6. CASE /\ new.ok /\ Commit(r) /\ space' = [space EXCEPT ![p] = new.space]
             /\ brk_cur' = [brk_cur EXCEPT ![p] = brk_base]
             /\ mmap_top' = [mmap_top EXCEPT ![p] = MMAP_AREA_BASE]
    <2>1. x \in Memory
      BY <1>3, <1>5 DEF Memory
    <2>2. r \in Memory
      <3> HIDE DEF x
      <3>1. QED
        BY <2>1, SpacesTyped
    <2>3. /\ space' \in [Procs -> Space] /\ kstack' \in [Procs -> Pages]
          /\ brk_cur' \in [Procs -> brk_base .. MMAP_AREA_BASE]
          /\ mmap_top' \in [Procs -> MMAP_AREA_BASE .. MMAP_AREA_END] /\ shrunk' \in BOOLEAN
      <3>1. brk_base \in brk_base .. MMAP_AREA_BASE /\ MMAP_AREA_BASE \in MMAP_AREA_BASE .. MMAP_AREA_END
        BY SMT, Layout
      <3>2. new.space \in Space
        BY <1>3 DEF Memory
      <3>3. QED
        BY <1>1, <1>5, <1>6, <3>1, <3>2
    <2>4. ASSUME ~shrunk'
          PROVE  /\ Separate(space', kstack')
                 /\ Pool(r, AllUses(space', kstack'), AllFrames(space'))
                 /\ ~r.oom => \A q \in Procs : RoomAbove(space'[q], brk_cur'[q], mmap_top'[q])
      <3> DEFINE o1 == UsesBut(space, kstack, p)
                 of1 == FramesBut(space, p)
                 s == new.space
      <3>1. /\ Sound(new, o, of) /\ (oom => new.oom) /\ s.root # NoPage
            /\ \A va \in ImagePages .. StackBase - 1 : s.pte[va] = NoPage
        BY <1>1, <1>4, <1>6, <2>4
      <3>2. Separate(space, kstack)
        BY <1>1, <2>4 DEF AddrInv
      <3>3. /\ Sound(x, o1 \cup Uses(s), of1 \cup Frames(s)) /\ x.space = space[p] /\ x.oom = new.oom
        BY SMT, <1>1, <1>5, <3>1, <3>2, OldSpace
      <3>4. space[p].root # NoPage /\ kstack[p] # NoPage
        BY <1>1, <3>2 DEF Separate, WellFormed
      <3>5. Pool(r, o1 \cup Uses(s), of1 \cup Frames(s)) /\ r.oom = new.oom
        <4> HIDE DEF x, o1, of1, s
        <4>1. QED
          BY <3>3, <3>4, DestroySound
      <3>6. Fits(s, space, kstack, p)
        <4>1. WellFormed(s) /\ Uses(s) \cap o = {}
          BY <3>1 DEF Sound
        <4>2. o1 \subseteq o
          BY SMT, <1>1, Parts
        <4>3. s # NoSpace
          BY SMT, <3>1 DEF NoSpace
        <4> HIDE DEF s, o
        <4>4. QED
          BY <3>4, <4>1, <4>2, <4>3 DEF Fits
      <3>7. Updates(space', space, p, s)
        BY <1>1, <1>5, <1>6 DEF Updates
      <3>8. Owns(space', kstack, o1 \cup Uses(s), of1 \cup Frames(s))
        <4> HIDE DEF s
        <4>1. QED
          BY <1>1, <1>5, <3>2, <3>6, <3>7, Replace
      <3>9. ASSUME ~r.oom, NEW q \in Procs
            PROVE  RoomAbove(space'[q], brk_cur'[q], mmap_top'[q])
        <4>1. CASE q = p
          <5>1. space'[q] = s /\ brk_cur'[q] = brk_base /\ mmap_top'[q] = MMAP_AREA_BASE
            BY <1>1, <1>5, <1>6, <4>1
          <5>2. /\ brk_base .. MMAP_AREA_BASE - 1 \subseteq ImagePages .. StackBase - 1
                /\ MMAP_AREA_BASE .. MMAP_AREA_END - 1 \subseteq ImagePages .. StackBase - 1
            BY SMT, Layout
          <5>3. QED
            BY <3>1, <5>1, <5>2 DEF RoomAbove
        <4>2. CASE q # p
          <5>1. space'[q] = space[q] /\ brk_cur'[q] = brk_cur[q] /\ mmap_top'[q] = mmap_top[q]
            BY <1>5, <1>6, <4>2
          <5>2. ~oom
            BY <3>1, <3>5, <3>9
          <5>3. RoomAbove(space[q], brk_cur[q], mmap_top[q])
            BY <1>1, <2>4, <5>2 DEF AddrInv
          <5>4. QED
            BY <5>1, <5>3
        <4>3. QED
          BY <4>1, <4>2
      <3> HIDE DEF r, o1, of1, s
      <3>10. QED
        BY <1>1, <3>5, <3>8, <3>9 DEF Owns
    <2> HIDE DEF r
    <2>5. QED
      BY <1>6, <2>2, <2>3, <2>4, Established
  <1>7. CASE /\ ~new.ok /\ Commit(new)
             /\ space' = space /\ brk_cur' = brk_cur /\ mmap_top' = mmap_top
    <2>1. ASSUME ~shrunk PROVE Pool(new, o, of) /\ (oom => new.oom)
      <3>1. Sound(new, o, of) /\ (oom => new.oom) /\ new.space = NoSpace /\ of \subseteq o
        BY <1>4, <1>7, <2>1 DEF Sound
      <3> HIDE DEF o, of
      <3>2. QED
        BY <1>3, <3>1, SoundAlone
    <2>2. QED
      BY <1>1, <1>3, <1>7, <2>1, SameOwners
  <1>8. QED
    BY <1>2, <1>6, <1>7

\* Reaping a task preserves AddrInv.
LEMMA ReapStep ==
  ASSUME AddrInv, NEW p \in Live, reap_task(p)
  PROVE  AddrInv'
  <1> DEFINE m0 == Mem(space[p])
             k == kstack[p]
             m == FreePage(m0, k)
             r == pmap_destroy(m)
  <1>1. /\ Commit(r) /\ space' = [space EXCEPT ![p] = NoSpace]
        /\ kstack' = [kstack EXCEPT ![p] = NoPage]
        /\ brk_cur' = brk_cur /\ mmap_top' = mmap_top /\ shrunk' = shrunk
        /\ p \in Procs /\ space[p] # NoSpace
    BY DEF reap_task, Live
  <1>2. /\ space \in [Procs -> Space] /\ kstack \in [Procs -> Pages] /\ k \in Pages
        /\ brk_cur \in [Procs -> brk_base .. MMAP_AREA_BASE]
        /\ mmap_top \in [Procs -> MMAP_AREA_BASE .. MMAP_AREA_END]
        /\ oom \in BOOLEAN /\ shrunk \in BOOLEAN
    BY <1>1, Typed
  <1>3. NoSpace \in Space /\ NoPage \in Pages
    BY Layout DEF NoSpace, Space
  <1>4. m0 \in Memory /\ m0.space = space[p] /\ m0.oom = oom
    BY Ready
  <1> HIDE DEF m0, k
  <1>5. m \in Memory /\ m.space = space[p] /\ m.oom = oom
    BY <1>2, <1>4, FreeFacts
  <1> HIDE DEF m
  <1>6. r \in Memory
    BY <1>5, SpacesTyped
  <1> HIDE DEF r
  <1>7. /\ space' \in [Procs -> Space] /\ kstack' \in [Procs -> Pages]
        /\ brk_cur' \in [Procs -> brk_base .. MMAP_AREA_BASE]
        /\ mmap_top' \in [Procs -> MMAP_AREA_BASE .. MMAP_AREA_END] /\ shrunk' \in BOOLEAN
    BY <1>1, <1>2, <1>3
  <1>8. ASSUME ~shrunk'
        PROVE  /\ Separate(space', kstack')
               /\ Pool(r, AllUses(space', kstack'), AllFrames(space'))
               /\ ~r.oom => \A q \in Procs : RoomAbove(space'[q], brk_cur'[q], mmap_top'[q])
    <2> DEFINE o == UsesBut(space, kstack, p)
               of == FramesBut(space, p)
               s == space[p]
    <2>1. ~shrunk /\ Sound(m0, o, of) /\ s.root # NoPage
      BY <1>1, <1>8, Ready DEF m0
    <2>2. Separate(space, kstack) /\ k # NoPage
      BY <1>1, <1>8 DEF AddrInv, Separate, k
    <2>3. Updates(space', space, p, NoSpace) /\ Updates(kstack', kstack, p, NoPage)
      BY <1>1, <1>2 DEF Updates
    <2>4. /\ Owns(space', kstack', o \ {k}, of)
          /\ k \in o /\ k \notin Uses(s) /\ k \notin of
      BY <1>1, <1>2, <2>2, <2>3, Leave DEF k
    <2>5. /\ WellFormed(s) /\ of \subseteq o /\ Uses(s) \cap o = {}
          /\ Pool(m0, o \cup Uses(s), of \cup Frames(s))
      BY <1>4, <2>1 DEF Sound
    <2>6. Frames(s) \subseteq Uses(s)
      BY DEF Uses
    <2> HIDE DEF o, of, s
    <2>7. /\ k \in o \cup Uses(s) /\ k \notin of \cup Frames(s) /\ of \subseteq o \ {k}
          /\ (o \cup Uses(s)) \ {k} = (o \ {k}) \cup Uses(s) /\ Uses(s) \cap (o \ {k}) = {}
      BY <2>4, <2>5, <2>6
    <2>8. Pool(m, (o \cup Uses(s)) \ {k}, of \cup Frames(s))
      BY <1>4, <2>5, <2>7, PoolFree DEF m
    <2>9. Sound(m, o \ {k}, of)
      BY <1>5, <2>5, <2>7, <2>8 DEF Sound, s
    <2>10. Pool(r, o \ {k}, of) /\ r.oom = oom
      BY <1>5, <2>1, <2>9, DestroySound DEF r, s
    <2>11. ASSUME ~r.oom, NEW q \in Procs
           PROVE  RoomAbove(space'[q], brk_cur'[q], mmap_top'[q])
      <3>1. CASE q = p
        <4>1. \A va \in VAs : NoSpace.pte[va] = NoPage
          BY DEF NoSpace
        <4>2. /\ space'[q] = NoSpace /\ brk_cur'[q] \in brk_base .. MMAP_AREA_BASE
              /\ mmap_top'[q] \in MMAP_AREA_BASE .. MMAP_AREA_END
          BY <1>1, <1>2, <3>1
        <4>3. brk_cur'[q] .. MMAP_AREA_BASE - 1 \subseteq VAs /\ mmap_top'[q] .. MMAP_AREA_END - 1 \subseteq VAs
          BY SMT, <4>2, Layout DEF VAs
        <4>4. QED
          BY <4>1, <4>2, <4>3 DEF RoomAbove
      <3>2. CASE q # p
        <4>1. RoomAbove(space[q], brk_cur[q], mmap_top[q])
          BY <2>1, <2>10, <2>11 DEF AddrInv
        <4>2. space'[q] = space[q] /\ brk_cur'[q] = brk_cur[q] /\ mmap_top'[q] = mmap_top[q]
          BY <1>1, <1>2, <3>2
        <4>3. QED
          BY <4>1, <4>2
      <3>3. QED
        BY <3>1, <3>2
    <2>12. QED
      BY <2>4, <2>10, <2>11 DEF Owns
  <1>9. QED
    BY <1>1, <1>6, <1>7, <1>8, Established

\* The memory before init, with no process in it.
LEMMA NoProcess ==
  ASSUME NEW m, m = [bits |-> Reserved, refs |-> [p \in Pages |-> 0], space |-> NoSpace,
                     ok |-> TRUE, oom |-> FALSE],
         NEW sp, sp = [p \in Procs |-> NoSpace], NEW ks, ks = [p \in Procs |-> NoPage]
  PROVE  Sound(m, {}, {}) /\ m.space = NoSpace /\ Owns(sp, ks, {}, {})
  <1>1. NoSpace \in Space /\ NoSpace.root = NoPage
    BY Layout DEF NoSpace, Space
  <1>2. m \in Memory /\ m.space = NoSpace /\ Pool(m, {}, {})
    BY <1>1, AddrAssumption DEF Memory, Pool
  <1>3. Sound(m, {}, {})
    BY <1>2, SoundAlone
  <1>4. Frames(NoSpace) = {} /\ Uses(NoSpace) = {} /\ WellFormed(NoSpace)
    <2>1. Frames(NoSpace) = {} /\ Structure(NoSpace) = {NoSpace.root} \ {NoPage} /\ WellFormed(NoSpace)
      BY <1>1, EmptySpace
    <2>2. QED
      BY <1>1, <2>1 DEF Uses
  <1>5. Stacks(ks) = {}
    BY DEF Stacks
  <1>6. AllUses(sp, ks) = {} /\ AllFrames(sp) = {} /\ \A p \in Procs : sp[p] = NoSpace
    BY <1>4, <1>5 DEF AllUses, AllFrames
  <1>7. Separate(sp, ks)
    BY <1>4, <1>6 DEF Separate
  <1>8. QED
    BY <1>2, <1>3, <1>6, <1>7 DEF Owns

\* The state sched_spawn_user_task leaves, with init or without.
LEMMA InitInv ==
  ASSUME AddrInit
  PROVE  AddrInv
  <1> DEFINE empty == [bits |-> Reserved, refs |-> [p \in Pages |-> 0], space |-> NoSpace,
                       ok |-> TRUE, oom |-> FALSE]
             m == exec_build_image(empty)
             k == NextPage(m)
             stack == IF m.ok THEN Claim(m) ELSE m
             spawned == m.ok /\ k # NoPage
             sp == [p \in Procs |-> NoSpace]
             ks == [p \in Procs |-> NoPage]
  <1>1. /\ bitmap = stack.bits /\ refs = stack.refs /\ oom = stack.oom
        /\ space = [p \in Procs |-> IF spawned /\ p = FirstProc THEN m.space ELSE NoSpace]
        /\ kstack = [p \in Procs |-> IF spawned /\ p = FirstProc THEN k ELSE NoPage]
        /\ brk_cur = [p \in Procs |-> brk_base] /\ mmap_top = [p \in Procs |-> MMAP_AREA_BASE]
        /\ shrunk = FALSE
    BY DEF AddrInit, frame_refs_init
  <1>2. Sound(empty, {}, {}) /\ empty.space = NoSpace /\ Owns(sp, ks, {}, {})
    BY NoProcess
  <1> HIDE DEF empty
  <1>3. /\ Sound(m, {}, {}) /\ (~m.ok => m.space = NoSpace)
        /\ m.ok => /\ m.space.root # NoPage
                   /\ \A va \in ImagePages .. StackBase - 1 : m.space.pte[va] = NoPage
    BY <1>2, ExecSound
  <1> HIDE DEF m
  <1>4. /\ m \in Memory /\ m.space \in Space /\ WellFormed(m.space)
        /\ Pool(m, Uses(m.space), Frames(m.space))
    BY <1>3 DEF Sound, Memory
  <1>5. k \in Pages /\ Claim(m) \in Memory /\ (Claim(m).oom <=> m.oom \/ k = NoPage)
    BY <1>4, ClaimFacts, NextPageFacts
  <1>6. stack \in Memory
    BY <1>4, <1>5
  <1>7. NoSpace \in Space /\ NoPage \in Pages /\ FirstProc \in Procs
    BY Layout, AddrAssumption DEF NoSpace, Space
  <1>8. sp \in [Procs -> Space] /\ ks \in [Procs -> Pages] /\ \A p \in Procs : sp[p] = NoSpace
    BY <1>7
  <1> HIDE DEF k
  <1>9. space \in [Procs -> Space] /\ kstack \in [Procs -> Pages]
    BY <1>1, <1>4, <1>5, <1>7
  <1>10. Separate(space, kstack) /\ Pool(stack, AllUses(space, kstack), AllFrames(space))
    <2>1. Separate(sp, ks) /\ AllUses(sp, ks) = {} /\ AllFrames(sp) = {}
      BY <1>2 DEF Owns
    <2>2. CASE spawned
      <3>1. Updates(space, sp, FirstProc, m.space) /\ Updates(kstack, ks, FirstProc, k)
        BY <1>1, <1>7, <2>2 DEF Updates
      <3>2. k \notin Uses(m.space) /\ Pool(Claim(m), Uses(m.space) \cup {k}, Frames(m.space))
        BY <1>4, <2>2, PoolClaim DEF k
      <3>3. /\ Uses(m.space) \cap AllUses(sp, ks) = {} /\ k \notin AllUses(sp, ks) \cup Uses(m.space)
            /\ AllUses(sp, ks) \cup Uses(m.space) \cup {k} = Uses(m.space) \cup {k}
            /\ AllFrames(sp) \cup Frames(m.space) = Frames(m.space)
        BY <2>1, <3>2
      <3>4. stack = Claim(m) /\ m.space.root # NoPage /\ k # NoPage
        BY <1>3, <2>2
      <3> HIDE DEF sp, ks, stack, spawned
      <3>5. Owns(space, kstack, AllUses(sp, ks) \cup Uses(m.space) \cup {k},
                 AllFrames(sp) \cup Frames(m.space))
        BY <1>4, <1>7, <1>8, <2>1, <3>1, <3>3, <3>4, Spawn
      <3>6. QED
        BY <3>2, <3>3, <3>4, <3>5 DEF Owns
    <2>3. CASE ~spawned
      <3>1. space = sp /\ kstack = ks
        BY <1>1, <2>3
      <3>2. Pool(stack, {}, {})
        <4>1. CASE ~m.ok
          <5>1. stack = m /\ m.space = NoSpace
            BY <1>3, <4>1
          <5>2. QED
            BY <1>3, <1>4, <5>1, SoundAlone
        <4>2. CASE m.ok
          <5>1. stack = Claim(m) /\ k = NoPage
            BY <2>3, <4>2
          <5>2. Claim(m).oom /\ Pool(Claim(m), Uses(m.space), Frames(m.space))
            BY <1>4, <5>1, PoolEmpty DEF k
          <5>3. Claim(m).space = m.space
            BY <1>4, ClaimFacts
          <5>4. Sound(Claim(m), {}, {})
            BY <1>4, <1>5, <5>2, <5>3 DEF Sound
          <5>5. QED
            BY <5>1, <5>2, <5>4, Abandon
        <4>3. QED
          BY <4>1, <4>2
      <3>3. QED
        BY <2>1, <3>1, <3>2
    <2>4. QED
      BY <2>2, <2>3
  <1>11. Pool(Mem(NoSpace), AllUses(space, kstack), AllFrames(space))
    <2>1. /\ Mem(NoSpace).bits = stack.bits /\ Mem(NoSpace).refs = stack.refs
          /\ Mem(NoSpace).oom = stack.oom
      BY <1>1 DEF Mem
    <2> HIDE DEF stack
    <2>2. QED
      BY <1>10, <2>1 DEF Pool
  <1>12. ASSUME NEW p \in Procs PROVE RoomAbove(space[p], brk_cur[p], mmap_top[p])
    <2>1. /\ brk_base .. MMAP_AREA_BASE - 1 \subseteq ImagePages .. StackBase - 1
          /\ MMAP_AREA_BASE .. MMAP_AREA_END - 1 \subseteq ImagePages .. StackBase - 1
          /\ ImagePages .. StackBase - 1 \subseteq VAs
      BY SMT, Layout DEF VAs
    <2>2. \A va \in ImagePages .. StackBase - 1 : NoSpace.pte[va] = NoPage
      BY <2>1 DEF NoSpace
    <2>3. brk_cur[p] = brk_base /\ mmap_top[p] = MMAP_AREA_BASE
      BY <1>1
    <2>4. space[p] = NoSpace \/ (space[p] = m.space /\ m.ok)
      BY <1>1
    <2>5. \A va \in ImagePages .. StackBase - 1 : space[p].pte[va] = NoPage
      BY <1>3, <2>2, <2>4
    <2>6. QED
      BY <2>1, <2>3, <2>5 DEF RoomAbove
  <1>13. AddrTypeOK
    <2>1. brk_base \in VAs /\ MMAP_AREA_BASE \in VAs
      BY SMT, Layout DEF VAs
    <2> HIDE DEF stack
    <2>2. QED
      BY <1>1, <1>6, <1>9, <2>1 DEF AddrTypeOK, Memory
  <1>14. QED
    BY SMT, <1>1, <1>10, <1>11, <1>12, <1>13, Layout DEF AddrInv

-----------------------------------------------------------------------------
(* What the invariant means.                                               *)

\* AddrInv is inductive: it holds at boot and every call preserves it, for
\* every memory size, layout, page table size and number of processes.
THEOREM AddrInvariant == AddrSpec => []AddrInv
  <1>1. AddrInit => AddrInv
    BY InitInv
  <1>2. AddrInv /\ [AddrNext]_addrVars => AddrInv'
    <2>1. ASSUME AddrInv, AddrNext PROVE AddrInv'
      <3>1. PICK p \in Live : \/ sys_fork(p) \/ sys_execve(p) \/ reap_task(p)
                              \/ sys_mmap(p) \/ sys_munmap(p) \/ sys_brk(p) \/ pmap_handle_fault(p)
        BY <2>1 DEF AddrNext
      <3>2. CASE sys_fork(p)
        BY <2>1, <3>2, ForkStep
      <3>3. CASE sys_execve(p)
        BY <2>1, <3>3, ExecStep
      <3>4. CASE reap_task(p)
        BY <2>1, <3>4, ReapStep
      <3>5. CASE sys_mmap(p)
        BY <2>1, <3>5, MmapStep
      <3>6. CASE sys_munmap(p)
        BY <2>1, <3>6, MunmapStep
      <3>7. CASE sys_brk(p)
        BY <2>1, <3>7, BrkStep
      <3>8. CASE pmap_handle_fault(p)
        BY <2>1, <3>8, FaultStep
      <3>9. QED
        BY <3>1, <3>2, <3>3, <3>4, <3>5, <3>6, <3>7, <3>8
    <2>2. ASSUME AddrInv, UNCHANGED addrVars PROVE AddrInv'
      BY <2>2 DEF addrVars, AddrInv, AddrTypeOK, Mem
    <2>3. QED
      BY <2>1, <2>2
  <1>3. QED
    BY <1>1, <1>2, PTL DEF AddrSpec

\* The calls keep the bitmap, the counts and every space within their types,
\* whatever a lowered break has left in the tables.
THEOREM AddrTypes == AddrSpec => []AddrTypeOK
  <1>1. AddrInv => AddrTypeOK
    BY DEF AddrInv
  <1>2. QED
    BY <1>1, AddrInvariant, PTL

\* A frame that is available counts zero: pmap.c's counts follow the frames
\* through every call and every failed allocation.
THEOREM FreedUncounted == AddrSpec => []FreeFramesUncounted
  <1>1. AddrInv => FreeFramesUncounted
    <2>1. Mem(NoSpace).bits = bitmap /\ Mem(NoSpace).refs = refs
      BY DEF Mem
    <2>2. QED
      BY <2>1 DEF AddrInv, Pool, FreeFramesUncounted
  <1>2. QED
    BY <1>1, AddrInvariant, PTL

\* The pages the properties speak of are those of the invariant.
LEMMA OwnedPages ==
  ASSUME AddrInv, ~shrunk
  PROVE  Owned = AllUses(space, kstack)
  <1>1. Separate(space, kstack) /\ space \in [Procs -> Space]
    BY Typed DEF AddrInv
  <1>2. ASSUME NEW p \in Procs
        PROVE  p \in Live <=> space[p].root # NoPage
    <2>1. space[p].root = NoPage => space[p] = NoSpace
      BY <1>1 DEF Separate, WellFormed
    <2>2. QED
      BY SMT, <2>1 DEF Live, NoSpace
  <1>3. \A p \in Procs : p \in Live <=> kstack[p] # NoPage
    BY <1>1 DEF Separate, Live
  <1>4. Live \subseteq Procs
    BY DEF Live
  <1>5. ASSUME NEW x \in Owned PROVE x \in AllUses(space, kstack)
    <2>1. CASE \E y \in Mapped : x = space[y[1]].pte[y[2]]
      <3>1. PICK y \in Mapped : x = space[y[1]].pte[y[2]]
        BY <2>1
      <3>2. y[1] \in Procs /\ y[2] \in VAs /\ x # NoPage
        BY <3>1 DEF Mapped
      <3>3. x \in Uses(space[y[1]])
        BY <3>1, <3>2 DEF Uses, Frames
      <3>4. QED
        BY <3>2, <3>3 DEF AllUses
    <2>2. CASE \E y \in TablesUsed : x = space[y[1]].tab[y[2]]
      <3>1. PICK y \in TablesUsed : x = space[y[1]].tab[y[2]]
        BY <2>2
      <3>2. y[1] \in Procs /\ y[2] \in Tables /\ x # NoPage
        BY <3>1 DEF TablesUsed
      <3>3. x \in Uses(space[y[1]])
        BY <3>1, <3>2 DEF Uses, Structure
      <3>4. QED
        BY <3>2, <3>3 DEF AllUses
    <2>3. CASE \E p \in Live : x = space[p].root
      <3>1. PICK p \in Live : x = space[p].root
        BY <2>3
      <3>2. p \in Procs /\ x # NoPage
        BY <1>2, <1>4, <3>1
      <3>3. x \in Uses(space[p])
        BY <3>1, <3>2 DEF Uses, Structure
      <3>4. QED
        BY <3>2, <3>3 DEF AllUses
    <2>4. CASE \E p \in Live : x = kstack[p]
      BY <1>3, <1>4, <2>4 DEF AllUses, Stacks
    <2>5. QED
      BY <1>5, <2>1, <2>2, <2>3, <2>4 DEF Owned
  <1>6. ASSUME NEW x \in AllUses(space, kstack) PROVE x \in Owned
    <2>1. CASE x \in Stacks(kstack)
      BY <1>3, <2>1 DEF Stacks, Owned
    <2>2. CASE \E p \in Procs : x \in Uses(space[p])
      <3>1. PICK p \in Procs : x \in Uses(space[p])
        BY <2>2
      <3>2. CASE x \in Frames(space[p])
        <4>1. PICK va \in VAs : x = space[p].pte[va] /\ x # NoPage
          BY <3>2 DEF Frames
        <4>2. <<p, va>> \in Mapped /\ x = space[<<p, va>>[1]].pte[<<p, va>>[2]]
          BY <4>1 DEF Mapped
        <4>3. QED
          BY <4>2 DEF Owned
      <3>3. CASE \E t \in Tables : x = space[p].tab[t] /\ x # NoPage
        <4>1. PICK t \in Tables : x = space[p].tab[t] /\ x # NoPage
          BY <3>3
        <4>2. <<p, t>> \in TablesUsed /\ x = space[<<p, t>>[1]].tab[<<p, t>>[2]]
          BY <4>1 DEF TablesUsed
        <4>3. QED
          BY <4>2 DEF Owned
      <3>4. CASE x = space[p].root /\ x # NoPage
        BY <1>2, <3>4 DEF Owned
      <3>5. QED
        BY <3>1, <3>2, <3>3, <3>4 DEF Uses, Structure
    <2>3. QED
      BY <1>6, <2>1, <2>2 DEF AllUses
  <1>7. QED
    BY <1>5, <1>6

\* Teardown is complete: as long as no allocation fails and no break is
\* lowered, every page that is not available is in use by a live process.
THEOREM TeardownComplete == AddrSpec => []NoFrameLeak
  <1>1. AddrInv => NoFrameLeak
    <2>1. Mem(NoSpace).bits = bitmap /\ Mem(NoSpace).oom = oom
      BY DEF Mem
    <2>2. QED
      BY <2>1, OwnedPages DEF AddrInv, Pool, NoFrameLeak
  <1>2. QED
    BY <1>1, AddrInvariant, PTL
-----------------------------------------------------------------------------
(* The pages counted: what pmap.c calls "Eager private copy."  Every       *)
(* frame, table, root and kernel stack is a page of its own.               *)

\* A function that is injective on S has as many values there.
LEMMA ValuesCounted ==
  ASSUME NEW S, IsFiniteSet(S), NEW f, f = [x \in S |-> f[x]],
         \A x, y \in S : f[x] = f[y] => x = y, NEW T, T = {f[x] : x \in S}
  PROVE  IsFiniteSet(T) /\ Cardinality(T) = Cardinality(S)
  <1>1. f \in [S -> T]
    OBVIOUS
  <1>2. f \in Injection(S, T)
    BY <1>1 DEF Injection, IsInjective
  <1>3. f \in Surjection(S, T)
    BY <1>1 DEF Surjection
  <1>4. ExistsBijection(S, T)
    BY <1>2, <1>3 DEF ExistsBijection, Bijection
  <1>5. QED
    BY <1>4, FS_Bijection

\* Two finite sets with nothing in common.
LEMMA Added ==
  ASSUME NEW S, NEW T, IsFiniteSet(S), IsFiniteSet(T), S \cap T = {}
  PROVE  IsFiniteSet(S \cup T) /\ Cardinality(S \cup T) = Cardinality(S) + Cardinality(T)
  <1>1. Cardinality(S) \in Nat /\ Cardinality(T) \in Nat
    BY FS_CardinalityType
  <1>2. Cardinality(S \cap T) = 0
    BY FS_EmptySet
  <1>3. /\ IsFiniteSet(S \cup T)
        /\ Cardinality(S \cup T) = Cardinality(S) + Cardinality(T) - Cardinality(S \cap T)
    BY FS_Union
  <1>4. QED
    BY SMT, <1>1, <1>2, <1>3

\* The entries are finite.
LEMMA EntriesFinite ==
  IsFiniteSet(Mapped) /\ IsFiniteSet(TablesUsed) /\ IsFiniteSet(Live)
  <1>1. IsFiniteSet(Procs)
    BY AddrAssumption
  <1>2. USER_STACK_TOP - 1 \in Int /\ TableCount - 1 \in Int /\ 0 \in Int
    BY SMT, Layout, TablePages
  <1>3. IsFiniteSet(VAs) /\ IsFiniteSet(Tables)
    BY <1>2, FS_Interval DEF VAs, Tables
  <1>4. IsFiniteSet(Procs \X VAs) /\ IsFiniteSet(Procs \X Tables)
    BY <1>1, <1>3, FS_Product
  <1>5. /\ Mapped \in SUBSET (Procs \X VAs) /\ TablesUsed \in SUBSET (Procs \X Tables)
        /\ Live \in SUBSET Procs
    BY DEF Mapped, TablesUsed, Live
  <1>6. QED
    BY <1>1, <1>4, <1>5, FS_Subset

\* A page of one process is not a page of another, nor a kernel stack.
LEMMA OwnPage ==
  ASSUME AddrInv, ~shrunk, NEW p \in Procs, NEW x \in Uses(space[p])
  PROVE  /\ \A q \in Procs : x \in Uses(space[q]) => q = p
         /\ \A q \in Procs : x # kstack[q]
  <1>1. Uses(space[p]) \cap UsesBut(space, kstack, p) = {}
    BY DEF AddrInv, Separate
  <1>2. x \notin UsesBut(space, kstack, p) /\ x # NoPage
    BY <1>1 DEF Uses, Frames, Structure
  <1>3. QED
    BY <1>2, Members

\* The frames that are mapped, the tables, the roots and the stacks.
MappedFrames == {space[x[1]].pte[x[2]] : x \in Mapped}
TableSet == {space[x[1]].tab[x[2]] : x \in TablesUsed}
Roots == {space[p].root : p \in Live}
LiveStacks == {kstack[p] : p \in Live}

\* As many frames as entries that map one, as many tables as entries that have one.
LEMMA Counts ==
  ASSUME AddrInv, ~shrunk
  PROVE  /\ IsFiniteSet(MappedFrames) /\ Cardinality(MappedFrames) = Cardinality(Mapped)
         /\ IsFiniteSet(TableSet) /\ Cardinality(TableSet) = Cardinality(TablesUsed)
         /\ IsFiniteSet(Roots) /\ Cardinality(Roots) = Cardinality(Live)
         /\ IsFiniteSet(LiveStacks) /\ Cardinality(LiveStacks) = Cardinality(Live)
  <1>1. Separate(space, kstack)
    BY DEF AddrInv
  <1>2. \A p \in Procs : WellFormed(space[p])
    BY <1>1 DEF Separate
  <1>3. ASSUME NEW p \in Live
        PROVE  /\ p \in Procs /\ space[p].root # NoPage /\ kstack[p] # NoPage
               /\ space[p].root \in Uses(space[p])
    <2>1. p \in Procs /\ space[p] # NoSpace
      BY DEF Live
    <2>2. space[p].root # NoPage /\ kstack[p] # NoPage
      BY <1>1, <2>1 DEF Separate, WellFormed
    <2>3. QED
      BY <2>1, <2>2 DEF Uses, Structure
  <1>4. IsFiniteSet(MappedFrames) /\ Cardinality(MappedFrames) = Cardinality(Mapped)
    <2> DEFINE f == [x \in Mapped |-> space[x[1]].pte[x[2]]]
    <2>1. ASSUME NEW x \in Mapped
          PROVE  /\ x = <<x[1], x[2]>> /\ x[1] \in Procs /\ x[2] \in VAs
                 /\ f[x] = space[x[1]].pte[x[2]] /\ f[x] # NoPage /\ f[x] \in Uses(space[x[1]])
      BY SMT DEF Mapped, Uses, Frames
    <2>2. MappedFrames = {f[x] : x \in Mapped}
      BY DEF MappedFrames
    <2>3. f = [x \in Mapped |-> f[x]]
      OBVIOUS
    <2> HIDE DEF f
    <2>4. ASSUME NEW x \in Mapped, NEW y \in Mapped, f[x] = f[y] PROVE x = y
      <3>1. x[1] = y[1]
        BY <2>1, <2>4, OwnPage
      <3>2. x[2] = y[2]
        BY SMT, <1>2, <2>1, <2>4, <3>1 DEF WellFormed
      <3>3. QED
        BY <2>1, <3>1, <3>2
    <2>5. QED
      BY SMT, <2>2, <2>3, <2>4, EntriesFinite, ValuesCounted
  <1>5. IsFiniteSet(TableSet) /\ Cardinality(TableSet) = Cardinality(TablesUsed)
    <2> DEFINE f == [x \in TablesUsed |-> space[x[1]].tab[x[2]]]
    <2>1. ASSUME NEW x \in TablesUsed
          PROVE  /\ x = <<x[1], x[2]>> /\ x[1] \in Procs /\ x[2] \in Tables
                 /\ f[x] = space[x[1]].tab[x[2]] /\ f[x] # NoPage /\ f[x] \in Uses(space[x[1]])
      BY SMT DEF TablesUsed, Uses, Structure
    <2>2. TableSet = {f[x] : x \in TablesUsed}
      BY DEF TableSet
    <2>3. f = [x \in TablesUsed |-> f[x]]
      OBVIOUS
    <2> HIDE DEF f
    <2>4. ASSUME NEW x \in TablesUsed, NEW y \in TablesUsed, f[x] = f[y] PROVE x = y
      <3>1. x[1] = y[1]
        BY <2>1, <2>4, OwnPage
      <3>2. x[2] = y[2]
        BY SMT, <1>2, <2>1, <2>4, <3>1 DEF WellFormed
      <3>3. QED
        BY <2>1, <3>1, <3>2
    <2>5. QED
      BY SMT, <2>2, <2>3, <2>4, EntriesFinite, ValuesCounted
  <1>6. IsFiniteSet(Roots) /\ Cardinality(Roots) = Cardinality(Live)
    <2> DEFINE f == [p \in Live |-> space[p].root]
    <2>1. \A p \in Live : f[p] = space[p].root
      OBVIOUS
    <2>2. Roots = {f[p] : p \in Live} /\ f = [p \in Live |-> f[p]]
      BY DEF Roots
    <2> HIDE DEF f
    <2>3. ASSUME NEW p \in Live, NEW q \in Live, f[p] = f[q] PROVE p = q
      <3>1. f[p] \in Uses(space[p]) /\ f[p] \in Uses(space[q]) /\ p \in Procs /\ q \in Procs
        BY <1>3, <2>1, <2>3
      <3>2. QED
        BY <3>1, OwnPage
    <2>4. QED
      BY SMT, <2>2, <2>3, EntriesFinite, ValuesCounted
  <1>7. IsFiniteSet(LiveStacks) /\ Cardinality(LiveStacks) = Cardinality(Live)
    <2> DEFINE f == [p \in Live |-> kstack[p]]
    <2>1. \A p \in Live : f[p] = kstack[p]
      OBVIOUS
    <2>2. LiveStacks = {f[p] : p \in Live} /\ f = [p \in Live |-> f[p]]
      BY DEF LiveStacks
    <2> HIDE DEF f
    <2>3. ASSUME NEW p \in Live, NEW q \in Live, f[p] = f[q] PROVE p = q
      BY <1>1, <1>3, <2>1, <2>3 DEF Separate
    <2>4. QED
      BY SMT, <2>2, <2>3, EntriesFinite, ValuesCounted
  <1>8. QED
    BY <1>4, <1>5, <1>6, <1>7

\* A page has one kind of use.
LEMMA KindsApart ==
  ASSUME AddrInv, ~shrunk
  PROVE  /\ MappedFrames \cap TableSet = {} /\ (MappedFrames \cup TableSet) \cap Roots = {}
         /\ (MappedFrames \cup TableSet \cup Roots) \cap LiveStacks = {}
  <1>1. \A p \in Procs : WellFormed(space[p])
    BY DEF AddrInv, Separate
  <1>2. \A x \in MappedFrames : \E p \in Procs : x \in Frames(space[p])
    BY DEF MappedFrames, Mapped, Frames
  <1>3. \A x \in TableSet : \E p \in Procs : x \in Structure(space[p]) /\ \E t \in Tables : x = space[p].tab[t]
    BY DEF TableSet, TablesUsed, Structure
  <1>4. \A x \in Roots : \E p \in Procs : x = space[p].root /\ x \in Structure(space[p]) /\ x # NoPage
    <2>1. ASSUME NEW x \in Roots
          PROVE  \E p \in Procs : x = space[p].root /\ x \in Structure(space[p]) /\ x # NoPage
      <3>1. PICK p \in Live : x = space[p].root
        BY DEF Roots
      <3>2. p \in Procs /\ x # NoPage
        BY <1>1, <3>1 DEF Live, WellFormed
      <3>3. QED
        BY <3>1, <3>2 DEF Structure
    <2>2. QED
      BY <2>1
  <1>5. \A x \in LiveStacks : \E p \in Procs : x = kstack[p]
    BY DEF LiveStacks, Live
  <1>6. \A p \in Procs : Frames(space[p]) \subseteq Uses(space[p]) /\ Structure(space[p]) \subseteq Uses(space[p])
    BY DEF Uses
  <1>7. MappedFrames \cap TableSet = {}
    <2>1. SUFFICES ASSUME NEW x, x \in MappedFrames, x \in TableSet PROVE FALSE
      OBVIOUS
    <2>2. PICK p \in Procs : x \in Frames(space[p])
      BY <1>2, <2>1
    <2>3. PICK q \in Procs : x \in Structure(space[q])
      BY <1>3, <2>1
    <2>4. p = q
      BY <1>6, <2>2, <2>3, OwnPage
    <2>5. QED
      BY <1>1, <2>2, <2>3, <2>4 DEF WellFormed
  <1>8. (MappedFrames \cup TableSet) \cap Roots = {}
    <2>1. SUFFICES ASSUME NEW x, x \in MappedFrames \/ x \in TableSet, x \in Roots PROVE FALSE
      OBVIOUS
    <2>2. PICK p \in Procs : x = space[p].root /\ x \in Structure(space[p]) /\ x # NoPage
      BY <1>4, <2>1
    <2>3. CASE x \in MappedFrames
      <3>1. PICK q \in Procs : x \in Frames(space[q])
        BY <1>2, <2>3
      <3>2. p = q
        BY SMT, <1>6, <2>2, <3>1, OwnPage
      <3>3. QED
        BY <1>1, <2>2, <3>1, <3>2 DEF WellFormed
    <2>4. CASE x \in TableSet
      <3>1. PICK q \in Procs : x \in Structure(space[q]) /\ \E t \in Tables : x = space[q].tab[t]
        BY <1>3, <2>4
      <3>2. p = q
        BY SMT, <1>6, <2>2, <3>1, OwnPage
      <3>3. QED
        BY <1>1, <2>2, <3>1, <3>2 DEF WellFormed
    <2>5. QED
      BY <2>1, <2>3, <2>4
  <1>9. (MappedFrames \cup TableSet \cup Roots) \cap LiveStacks = {}
    <2>1. SUFFICES ASSUME NEW x, x \in MappedFrames \cup TableSet \cup Roots, x \in LiveStacks PROVE FALSE
      OBVIOUS
    <2>2. \E p \in Procs : x \in Uses(space[p])
      BY <1>2, <1>3, <1>4, <1>6, <2>1
    <2>3. QED
      BY <1>5, <2>1, <2>2, OwnPage
  <1>10. QED
    BY <1>7, <1>8, <1>9

\* No two processes or virtual pages share a frame, and no frame is also a page
\* table or a kernel stack, through fork, execve, mmap, munmap, stack growth,
\* reaping and every failed allocation, as long as no break is lowered; and
\* no page in use is available (pmap.c: "Eager private copy.").
THEOREM FramesPrivate == AddrSpec => []PrivateFrames
  <1>1. ASSUME AddrInv, ~shrunk PROVE EagerPrivateCopy /\ Owned \subseteq bitmap \ Reserved
    <2> DEFINE a == MappedFrames
               b == TableSet
               c == Roots
               d == LiveStacks
    <2>1. Owned = a \cup b \cup c \cup d
      BY DEF Owned, MappedFrames, TableSet, Roots, LiveStacks
    <2>2. /\ IsFiniteSet(a) /\ Cardinality(a) = Cardinality(Mapped)
          /\ IsFiniteSet(b) /\ Cardinality(b) = Cardinality(TablesUsed)
          /\ IsFiniteSet(c) /\ Cardinality(c) = Cardinality(Live)
          /\ IsFiniteSet(d) /\ Cardinality(d) = Cardinality(Live)
      BY <1>1, Counts
    <2>3. a \cap b = {} /\ (a \cup b) \cap c = {} /\ (a \cup b \cup c) \cap d = {}
      BY <1>1, KindsApart
    <2> HIDE DEF a, b, c, d
    <2>4. IsFiniteSet(a \cup b) /\ Cardinality(a \cup b) = Cardinality(a) + Cardinality(b)
      BY <2>2, <2>3, Added
    <2>5. /\ IsFiniteSet(a \cup b \cup c)
          /\ Cardinality(a \cup b \cup c) = Cardinality(a \cup b) + Cardinality(c)
      BY <2>2, <2>3, <2>4, Added
    <2>6. Cardinality(a \cup b \cup c \cup d) = Cardinality(a \cup b \cup c) + Cardinality(d)
      BY <2>2, <2>3, <2>5, Added
    <2>7. /\ Cardinality(a) \in Nat /\ Cardinality(b) \in Nat
          /\ Cardinality(c) \in Nat /\ Cardinality(d) \in Nat
      BY <2>2, FS_CardinalityType
    <2>8. EagerPrivateCopy
      BY SMT, <2>1, <2>2, <2>4, <2>5, <2>6, <2>7 DEF EagerPrivateCopy
    <2>9. Owned \subseteq bitmap \ Reserved
      <3>1. Mem(NoSpace).bits = bitmap
        BY DEF Mem
      <3>2. AllUses(space, kstack) \subseteq bitmap \ Reserved
        BY <1>1, <3>1 DEF AddrInv, Pool
      <3>3. QED
        BY <1>1, <3>2, OwnedPages
    <2>10. QED
      BY <2>8, <2>9
  <1>2. AddrInv => PrivateFrames
    BY <1>1 DEF PrivateFrames
  <1>3. QED
    BY <1>2, AddrInvariant, PTL
=============================================================================
